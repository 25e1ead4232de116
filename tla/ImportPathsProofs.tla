-------------------------- MODULE ImportPathsProofs --------------------------
(***************************************************************************)
(* Where the two searches resolve the literals of a project alike.  They   *)
(* look in different places: the forward search in those of the entrypoint *)
(* it started from, the reverse search, which does not know the entrypoint *)
(* yet, in those of the importing file.  In a plain tree it makes up for   *)
(* that: what it cannot recognise lies in the entrypoint's own directory,  *)
(* and belongs to the entrypoint without being imported.                   *)
(***************************************************************************)
EXTENDS ImportPaths, SequenceTheorems, TLAPS

-----------------------------------------------------------------------------
(* Paths.                                                                  *)

(* No prover here knows that a literal is a string: the names that ImportPaths
   mentions are listed with the others. *)
Name == STRING \cup {"vendor", "lib", DefaultEntrypoint}
Named(path) == path \in Seq(Name) /\ path # <<>>

LEMMA KnownNames ==
  /\ DefaultEntrypoint \in Name
  /\ Vendor \in Seq(Name) /\ Len(Vendor) = 1 /\ Vendor[1] \in Name
  /\ Lib \in Seq(Name) /\ Len(Lib) = 1 /\ Lib[1] \in Name
  /\ Vendor # <<>> /\ Lib # <<>>
<1>1. {"vendor", "lib", DefaultEntrypoint} \subseteq Name
  BY DEF Name
<1>2. ASSUME NEW top \in Name PROVE <<top>> \in Seq(Name)
  <2> HIDE DEF Name
  <2>. QED  OBVIOUS
<1>. QED  BY <1>1, <1>2 DEF Vendor, Lib

LEMMA PathIsNamed ==
  ASSUME NEW path, IsPath(path)
  PROVE  Named(path)
<1>1. path \in Seq(STRING) /\ path # <<>>
  BY DEF IsPath
<1>2. STRING \subseteq Name
  BY DEF Name
<1>3. path \in Seq(Name)
  BY <1>1, <1>2, SeqMonotonic
<1>. QED  BY <1>1, <1>3 DEF Named

LEMMA PathParts ==
  ASSUME NEW path, Named(path)
  PROVE  /\ Len(path) \in Nat \ {0}
         /\ Dir(path) \in Seq(Name) /\ Len(Dir(path)) = Len(path) - 1
         /\ \A i \in 1 .. Len(path) - 1 : Dir(path)[i] = path[i]
         /\ FileName(path) = path[Len(path)]
<1>1. path \in Seq(Name) /\ Len(path) \in Nat \ {0}
  BY EmptySeq DEF Named
<1> DEFINE n == Len(path) - 1
<1>2. n \in Nat /\ 1 \in Int /\ \A i \in 1 .. n : path[i] \in Name
  BY <1>1
<1>3. /\ SubSeq(path, 1, n) \in Seq(Name)
      /\ Len(SubSeq(path, 1, n)) = n
      /\ \A i \in 1 .. n : SubSeq(path, 1, n)[i] = path[i]
  <2> HIDE DEF n
  <2>. QED  BY <1>2, SubSeqProperties
<1>. QED  BY <1>1, <1>3 DEF Dir, Front, FileName, Last

LEMMA PathIsDirAndName ==
  ASSUME NEW path, Named(path)
  PROVE  path = Append(Dir(path), FileName(path))
<1>1. /\ Len(path) \in Nat \ {0} /\ path \in Seq(Name) /\ path[Len(path)] \in Name
      /\ Dir(path) \in Seq(Name) /\ Len(Dir(path)) = Len(path) - 1
      /\ \A i \in 1 .. Len(path) - 1 : Dir(path)[i] = path[i]
      /\ FileName(path) = path[Len(path)]
  BY PathParts DEF Named
<1> DEFINE whole == Append(Dir(path), FileName(path))
<1>2. /\ whole \in Seq(Name) /\ Len(whole) = Len(path)
      /\ \A i \in 1 .. Len(path) : whole[i] = path[i]
  BY <1>1
<1> HIDE DEF whole
<1>. QED  BY <1>1, <1>2 DEF whole

LEMMA PrefixMeaning ==
  ASSUME NEW s \in Seq(Name), NEW t \in Seq(Name)
  PROVE  IsPrefix(s, t) <=> Len(s) <= Len(t) /\ \A i \in 1 .. Len(s) : s[i] = t[i]
BY DEF IsPrefix

(* A path behind a directory has the path's name and lies below. *)
LEMMA BelowDir ==
  ASSUME NEW dir \in Seq(Name), NEW path, Named(path)
  PROVE  /\ Named(dir \o path)
         /\ FileName(dir \o path) = FileName(path)
         /\ IsPrefix(dir, Dir(dir \o path))
         /\ dir # <<>> => (dir \o path)[1] = dir[1]
<1>1. /\ path \in Seq(Name) /\ Len(path) \in Nat \ {0}
      /\ FileName(path) = path[Len(path)]
  BY PathParts DEF Named
<1> DEFINE whole == dir \o path
<1>2. /\ whole \in Seq(Name) /\ Len(whole) = Len(dir) + Len(path)
      /\ Len(dir) \in Nat
      /\ \A i \in 1 .. Len(dir) : whole[i] = dir[i]
      /\ whole[Len(whole)] = path[Len(path)]
  BY <1>1
<1>3. Named(whole)
  BY <1>1, <1>2 DEF Named
<1> HIDE DEF whole
<1>4. /\ Dir(whole) \in Seq(Name) /\ Len(Dir(whole)) = Len(whole) - 1
      /\ \A i \in 1 .. Len(whole) - 1 : Dir(whole)[i] = whole[i]
      /\ FileName(whole) = whole[Len(whole)]
  BY <1>3, PathParts
<1>5. IsPrefix(dir, Dir(whole))
  <2>1. Len(dir) <= Len(whole) - 1
    BY <1>1, <1>2
  <2>2. \A i \in 1 .. Len(dir) : i \in 1 .. Len(whole) - 1
    BY <1>2, <2>1
  <2>3. \A i \in 1 .. Len(dir) : dir[i] = Dir(whole)[i]
    BY <1>2, <1>4, <2>2
  <2>4. Len(dir) <= Len(Dir(whole))
    BY <1>4, <2>1
  <2>. QED  BY <1>4, <2>3, <2>4, PrefixMeaning
<1>. QED  BY <1>1, <1>2, <1>3, <1>4, <1>5 DEF whole

LEMMA JoinUnder ==
  ASSUME NEW dir \in Seq(Name), NEW literal, literal.up = 0
  PROVE  Join(dir, literal) = dir \o literal.path
<1>1. Len(dir) - literal.up = Len(dir)
  <2>1. Len(dir) \in Nat
    OBVIOUS
  <2>. QED  BY <2>1
<1>. QED  BY <1>1, SubSeqFull DEF Join

LEMMA AncestorMeaning ==
  ASSUME NEW dir \in Seq(Name), NEW d
  PROVE  d \in Ancestors(dir) <=> d \in Seq(Name) /\ IsPrefix(d, dir)
<1>1. ASSUME NEW n \in 0 .. Len(dir)
      PROVE  /\ SubSeq(dir, 1, n) \in Seq(Name)
             /\ Len(SubSeq(dir, 1, n)) = n /\ n \in Nat /\ n <= Len(dir)
             /\ \A i \in 1 .. n : SubSeq(dir, 1, n)[i] = dir[i]
  <2>1. n \in Int /\ 1 \in Int /\ \A i \in 1 .. n : dir[i] \in Name
    OBVIOUS
  <2>. QED  BY <2>1, SubSeqProperties
<1>2. ASSUME NEW n \in 0 .. Len(dir) PROVE IsPrefix(SubSeq(dir, 1, n), dir)
  BY <1>1, PrefixMeaning
<1>3. ASSUME d \in Seq(Name), IsPrefix(d, dir)
      PROVE  Len(d) \in 0 .. Len(dir) /\ d = SubSeq(dir, 1, Len(d))
  <2>1. Len(d) \in 0 .. Len(dir) /\ \A i \in 1 .. Len(d) : d[i] = dir[i]
    BY <1>3, PrefixMeaning
  <2>. QED  BY <1>1, <1>3, <2>1, SeqEqual
<1>. QED  BY <1>1, <1>2, <1>3 DEF Ancestors

(* Of two directories above a third, one is above the other. *)
LEMMA PrefixesCompare ==
  ASSUME NEW s \in Seq(Name), NEW t \in Seq(Name), NEW dir \in Seq(Name),
         IsPrefix(s, dir), IsPrefix(t, dir)
  PROVE  IsPrefix(s, t) \/ IsPrefix(t, s)
BY PrefixMeaning

-----------------------------------------------------------------------------
(* Environments of a plain tree.                                           *)

LEMMA EntrypointShape ==
  ASSUME NEW tree, Plain(tree), NEW e \in Entrypoints(tree)
  PROVE  /\ Named(e) /\ Dir(e) \in Seq(Name)
         /\ e = Append(Dir(e), DefaultEntrypoint)
         /\ HasEntrypoint(tree, Dir(e))
<1>1. Named(e) /\ e \in tree.files /\ FileName(e) = DefaultEntrypoint
  BY PathIsNamed DEF Plain, Entrypoints, IsEntrypoint, Existing
<1>. QED  BY <1>1, PathParts, PathIsDirAndName DEF HasEntrypoint

LEMMA EntrypointOf ==
  ASSUME NEW tree, Plain(tree), NEW d \in Seq(Name), HasEntrypoint(tree, d)
  PROVE  Append(d, DefaultEntrypoint) \in Entrypoints(tree)
         /\ Dir(Append(d, DefaultEntrypoint)) = d
<1> DEFINE o == Append(d, DefaultEntrypoint)
<1>1. /\ o \in Seq(Name) /\ o # <<>> /\ Len(o) = Len(d) + 1
      /\ \A i \in 1 .. Len(d) : o[i] = d[i]
      /\ o[Len(d) + 1] = DefaultEntrypoint /\ Len(d) \in Nat
  BY AppendProperties, KnownNames
<1>2. o \in tree.files
  BY DEF HasEntrypoint
<1> HIDE DEF o
<1>3. Named(o)
  BY <1>1 DEF Named
<1>4. /\ Dir(o) \in Seq(Name) /\ Len(Dir(o)) = Len(d)
      /\ \A i \in 1 .. Len(d) : Dir(o)[i] = d[i]
      /\ FileName(o) = DefaultEntrypoint
  BY <1>1, <1>3, PathParts
<1>5. Dir(o) = d
  BY <1>4, SeqEqual
<1>6. o \in Entrypoints(tree)
  BY <1>2, <1>4 DEF Entrypoints, IsEntrypoint
<1>. QED  BY <1>5, <1>6 DEF o

(* No other environment shares a directory below it. *)
LEMMA OneEnvironment ==
  ASSUME NEW tree, Plain(tree), NEW e \in Entrypoints(tree),
         NEW dir \in Seq(Name), IsPrefix(Dir(e), dir),
         NEW d \in Ancestors(dir), HasEntrypoint(tree, d)
  PROVE  d = Dir(e)
<1>1. d \in Seq(Name) /\ IsPrefix(d, dir) /\ Dir(e) \in Seq(Name)
  BY AncestorMeaning, EntrypointShape
<1>2. PICK o \in Entrypoints(tree) : Dir(o) = d
  BY <1>1, EntrypointOf
<1>3. IsPrefix(d, Dir(e)) \/ IsPrefix(Dir(e), d)
  BY <1>1, PrefixesCompare
<1>4. o = e
  BY <1>2, <1>3 DEF Plain
<1>. QED  BY <1>2, <1>4

LEMMA NearestOfOne ==
  ASSUME NEW d \in Seq(Name)
  PROVE  Nearest({d}) = d
<1>1. Len(d) \in Nat
  OBVIOUS
<1>. QED  BY <1>1 DEF Nearest

(* A file below the directory of an environment belongs to it. *)
LEMMA BelongsToEnvironment ==
  ASSUME NEW tree, Plain(tree), NEW e \in Entrypoints(tree), Dir(e) # <<>>,
         NEW f, Named(f), IsPrefix(Dir(e), Dir(f))
  PROVE  e \in Implicit(tree, f)
<1>1. /\ Named(e) /\ Dir(e) \in Seq(Name) /\ HasEntrypoint(tree, Dir(e))
      /\ e = Append(Dir(e), DefaultEntrypoint)
      /\ f \in Seq(Name) /\ e \in Seq(Name) /\ Dir(f) \in Seq(Name)
  BY EntrypointShape, PathParts DEF Named
<1>2. f[1] = e[1] /\ Len(f) \in Nat \ {0} /\ Len(e) \in Nat \ {0}
  <2>1. /\ Len(Dir(e)) \in Nat \ {0} /\ Len(Dir(e)) <= Len(Dir(f))
        /\ Dir(e)[1] = Dir(f)[1]
    BY <1>1, EmptySeq, PrefixMeaning
  <2>2. /\ Len(Dir(e)) = Len(e) - 1 /\ Len(e) \in Nat \ {0}
        /\ \A i \in 1 .. Len(e) - 1 : Dir(e)[i] = e[i]
    BY <1>1, PathParts
  <2>3. /\ Len(Dir(f)) = Len(f) - 1 /\ Len(f) \in Nat \ {0}
        /\ \A i \in 1 .. Len(f) - 1 : Dir(f)[i] = f[i]
    BY PathParts
  <2>4. e[1] = Dir(e)[1] /\ f[1] = Dir(f)[1]
    BY <2>1, <2>2, <2>3
  <2>. QED  BY <2>1, <2>2, <2>3, <2>4
<1>3. ASSUME NEW top \in Seq(Name), Len(top) = 1, IsPrefix(top, f) PROVE IsPrefix(top, e)
  <2>1. top[1] = f[1]
    <3>1. \A i \in 1 .. Len(top) : top[i] = f[i]
      BY <1>1, <1>3, PrefixMeaning
    <3>. QED  BY <1>3, <3>1
  <2>2. Len(top) <= Len(e) /\ \A i \in 1 .. Len(top) : top[i] = e[i]
    BY <1>2, <1>3, <2>1
  <2>. QED  BY <1>1, <2>2, PrefixMeaning
<1>4. ~IsPrefix(Vendor, f) /\ ~IsPrefix(Lib, f)
  BY <1>3, KnownNames DEF Plain
<1>5. {d \in Ancestors(Dir(f)) : HasEntrypoint(tree, d)} = {Dir(e)}
  BY <1>1, AncestorMeaning, OneEnvironment
<1>6. Nearest({Dir(e)}) = Dir(e)
  BY <1>1, NearestOfOne
<1>. QED  BY <1>1, <1>4, <1>5, <1>6 DEF Implicit

(* In a project with its one environment at the root, every file is based
   there. *)
LEMMA BasedAtRoot ==
  ASSUME NEW tree, Plain(tree), NEW e \in Entrypoints(tree), Dir(e) = <<>>,
         NEW f, Named(f)
  PROVE  Base(tree, f) = <<>>
<1> DEFINE bases == {d \in Ancestors(Dir(f)) : HasEntrypoint(tree, d)}
<1>1. Dir(f) \in Seq(Name) /\ <<>> \in Seq(Name) /\ IsPrefix(<<>>, Dir(f))
  <2>1. Dir(f) \in Seq(Name) /\ <<>> \in Seq(Name) /\ Len(<<>>) = 0 /\ Len(Dir(f)) \in Nat
    BY PathParts, EmptySeq
  <2>2. Len(<<>>) <= Len(Dir(f)) /\ \A i \in 1 .. Len(<<>>) : <<>>[i] = Dir(f)[i]
    BY <2>1
  <2>. QED  BY <2>1, <2>2, PrefixMeaning
<1>2. bases \subseteq {<<>>}
  BY <1>1, OneEnvironment
<1>3. bases = {} => Base(tree, f) = <<>>
  BY DEF Base, Root
<1>4. bases = {<<>>} => Base(tree, f) = <<>>
  <2>1. Nearest({<<>>}) = <<>>
    BY <1>1, NearestOfOne
  <2>. QED  BY <2>1 DEF Base
<1> HIDE DEF bases
<1>. QED  BY <1>2, <1>3, <1>4

-----------------------------------------------------------------------------
(* What a literal resolves to.                                             *)

LEMMA FourParts ==
  ASSUME NEW S, NEW a \in S, NEW r \in S, NEW is \in Seq(S), NEW bs \in Seq(S)
  PROVE  /\ <<a>> \o is \o bs \o <<r>> \in Seq(S)
         /\ Len(<<a>> \o is \o bs \o <<r>>) = Len(is) + Len(bs) + 2
         /\ (<<a>> \o is \o bs \o <<r>>)[1] = a
         /\ \A i \in 1 .. Len(is) : (<<a>> \o is \o bs \o <<r>>)[i + 1] = is[i]
         /\ (<<a>> \o is \o bs \o <<r>>)[Len(is) + Len(bs) + 2] = r
<1>1. /\ <<a>> \in Seq(S) /\ Len(<<a>>) = 1 /\ <<a>>[1] = a
      /\ <<r>> \in Seq(S) /\ Len(<<r>>) = 1 /\ <<r>>[1] = r
      /\ Len(is) \in Nat /\ Len(bs) \in Nat
  OBVIOUS
<1> DEFINE x == <<a>> \o is
           y == x \o bs
           z == y \o <<r>>
<1>2. /\ x \in Seq(S) /\ Len(x) = Len(is) + 1 /\ x[1] = a
      /\ \A i \in 1 .. Len(is) : x[i + 1] = is[i]
  <2>1. /\ x \in Seq(S) /\ Len(x) = 1 + Len(is)
        /\ \A i \in 1 .. 1 + Len(is) : x[i] = IF i <= 1 THEN <<a>>[i] ELSE is[i - 1]
    <3>1. /\ x \in Seq(S) /\ Len(x) = Len(<<a>>) + Len(is)
          /\ \A i \in 1 .. Len(<<a>>) + Len(is) :
               x[i] = IF i <= Len(<<a>>) THEN <<a>>[i] ELSE is[i - Len(<<a>>)]
      BY <1>1, ConcatProperties
    <3>. QED  BY <1>1, <3>1
  <2> HIDE DEF x
  <2>2. \A i \in 1 .. Len(is) : x[i + 1] = is[i]
    <3> SUFFICES ASSUME NEW i \in 1 .. Len(is) PROVE x[i + 1] = is[i]
      OBVIOUS
    <3>1. i + 1 \in 1 .. 1 + Len(is) /\ ~(i + 1 <= 1) /\ i + 1 - 1 = i
      BY <1>1
    <3>. QED  BY <2>1, <3>1
  <2>. QED  BY <1>1, <2>1, <2>2
<1> HIDE DEF x
<1>3. /\ y \in Seq(S) /\ Len(y) = Len(is) + Len(bs) + 1
      /\ \A i \in 1 .. Len(is) + 1 : y[i] = x[i]
  <2>1. /\ y \in Seq(S) /\ Len(y) = Len(x) + Len(bs)
        /\ \A i \in 1 .. Len(x) + Len(bs) : y[i] = IF i <= Len(x) THEN x[i] ELSE bs[i - Len(x)]
    BY <1>2, ConcatProperties
  <2> HIDE DEF y
  <2>. QED  BY <1>1, <1>2, <2>1
<1> HIDE DEF y
<1>4. /\ z \in Seq(S) /\ Len(z) = Len(is) + Len(bs) + 2
      /\ \A i \in 1 .. Len(is) + Len(bs) + 1 : z[i] = y[i]
      /\ z[Len(is) + Len(bs) + 2] = r
  <2>1. /\ z \in Seq(S) /\ Len(z) = Len(y) + Len(<<r>>)
        /\ \A i \in 1 .. Len(y) + Len(<<r>>) :
             z[i] = IF i <= Len(y) THEN y[i] ELSE <<r>>[i - Len(y)]
    BY <1>1, <1>3, ConcatProperties
  <2> HIDE DEF z
  <2>2. Len(y) \in Nat /\ Len(y) + Len(<<r>>) = Len(is) + Len(bs) + 2
    BY <1>1, <1>3
  <2>3. \A i \in 1 .. Len(is) + Len(bs) + 1 : z[i] = y[i]
    BY <1>1, <1>3, <2>1, <2>2
  <2>4. z[Len(is) + Len(bs) + 2] = r
    <3>1. Len(is) + Len(bs) + 2 = Len(y) + 1 /\ Len(y) + 1 \in 1 .. Len(y) + Len(<<r>>)
      BY <1>1, <1>3
    <3>2. z[Len(y) + 1] = <<r>>[Len(y) + 1 - Len(y)]
      BY <2>1, <2>2, <3>1
    <3>3. Len(y) + 1 - Len(y) = 1
      BY <2>2
    <3>. QED  BY <1>1, <3>1, <3>2, <3>3
  <2>. QED  BY <2>1, <2>2, <2>3, <2>4
<1> HIDE DEF z
<1>5. z[1] = a
  <2>1. 1 \in 1 .. Len(is) + 1 /\ 1 \in 1 .. Len(is) + Len(bs) + 1
    BY <1>1
  <2>. QED  BY <1>2, <1>3, <1>4, <2>1
<1>6. ASSUME NEW i \in 1 .. Len(is) PROVE z[i + 1] = is[i]
  <2>1. i + 1 \in 1 .. Len(is) + 1 /\ i + 1 \in 1 .. Len(is) + Len(bs) + 1
    BY <1>1
  <2>2. z[i + 1] = y[i + 1] /\ y[i + 1] = x[i + 1]
    BY <1>3, <1>4, <2>1
  <2>. QED  BY <1>2, <2>2
<1>. QED  BY <1>4, <1>5, <1>6 DEF x, y, z

LEMMA FourInOrder ==
  ASSUME NEW S, NEW s \in [1 .. 4 -> S]
  PROVE  s \in Seq(S) /\ Len(s) = 4
<1>1. s \in Seq(S)
  BY SeqDef
<1>2. Len(s) \in Nat /\ DOMAIN s = 1 .. Len(s) /\ DOMAIN s = 1 .. 4
  BY <1>1, LenProperties
<1>. QED  BY <1>1, <1>2

(* The candidates, in their order. *)
LEMMA CandidateOrder ==
  ASSUME NEW e, NEW file, NEW literal
  PROVE  LET all == Candidates(e, file, literal)
         IN  /\ Len(all) \in Nat \ {0}
             /\ all[1] = Join(Dir(file), literal)
             /\ ~(literal.up > 0) =>
                  /\ Len(all) = 6
                  /\ \A i \in 1 .. 4 : all[i + 1] = Join(ImportPaths(e)[i], literal)
                  /\ all[6] = Join(Root, literal)
<1> DEFINE a == Join(Dir(file), literal)
           r == Join(Root, literal)
           is == [i \in 1 .. 4 |-> Join(ImportPaths(e)[i], literal)]
           below == [i \in 1 .. 4 |-> ImportPaths(e)[i] \o literal.path]
           bs == IF literal.up > 0 THEN below ELSE <<>>
           S == {a, r} \cup {is[i] : i \in 1 .. 4} \cup {below[i] : i \in 1 .. 4}
<1>1. Candidates(e, file, literal) = <<a>> \o is \o bs \o <<r>>
  BY DEF Candidates
<1>2. a \in S /\ r \in S
  OBVIOUS
<1>3. is \in [1 .. 4 -> S] /\ below \in [1 .. 4 -> S]
  OBVIOUS
<1>4. \A i \in 1 .. 4 : is[i] = Join(ImportPaths(e)[i], literal)
  OBVIOUS
<1> HIDE DEF a, r, is, below, S
<1>5. /\ is \in Seq(S) /\ Len(is) = 4
      /\ below \in Seq(S) /\ Len(below) = 4
  BY <1>3, FourInOrder
<1>6. /\ bs \in Seq(S) /\ Len(bs) \in Nat
      /\ ~(literal.up > 0) => Len(bs) = 0
  BY <1>5, EmptySeq
<1> HIDE DEF bs
<1> DEFINE all == <<a>> \o is \o bs \o <<r>>
<1>7. /\ Len(all) = Len(is) + Len(bs) + 2
      /\ all[1] = a
      /\ \A i \in 1 .. Len(is) : all[i + 1] = is[i]
      /\ all[Len(is) + Len(bs) + 2] = r
  <2>1. a \in S /\ r \in S /\ is \in Seq(S) /\ bs \in Seq(S)
    BY <1>2, <1>5, <1>6
  <2>. QED  BY <2>1, FourParts DEF all
<1> HIDE DEF all
<1>8. /\ Len(all) = Len(bs) + 6 /\ all[1] = a
      /\ \A i \in 1 .. 4 : all[i + 1] = is[i]
      /\ all[Len(bs) + 6] = r
  <2>1. Len(is) + Len(bs) + 2 = Len(bs) + 6 /\ Len(is) = 4
    BY <1>5, <1>6
  <2>. QED  BY <1>7, <2>1
<1>9. all = Candidates(e, file, literal)
  BY <1>1 DEF all
<1>. QED  BY <1>4, <1>6, <1>8, <1>9 DEF a, r

LEMMA PathsOfEntrypoint ==
  ASSUME NEW tree, Plain(tree), NEW e \in Entrypoints(tree)
  PROVE  /\ ImportPaths(e)[1] = Dir(e) /\ ImportPaths(e)[2] = Lib
         /\ ImportPaths(e)[3] = Dir(e) \o Vendor /\ ImportPaths(e)[4] = Vendor
         /\ \A i \in 1 .. 4 : ImportPaths(e)[i] \in Seq(Name)
<1>1. /\ ImportPaths(e)[1] = Dir(e) /\ ImportPaths(e)[2] = Lib
      /\ ImportPaths(e)[3] = Dir(e) \o Vendor /\ ImportPaths(e)[4] = Vendor
  BY DEF ImportPaths
<1>2. Dir(e) \in Seq(Name) /\ Lib \in Seq(Name) /\ Vendor \in Seq(Name)
  BY EntrypointShape, KnownNames
<1>3. Dir(e) \o Vendor \in Seq(Name)
  BY <1>2, ConcatProperties
<1>4. \A i \in 1 .. 4 : i = 1 \/ i = 2 \/ i = 3 \/ i = 4
  OBVIOUS
<1>. QED  BY <1>1, <1>2, <1>3, <1>4

(* What the forward search finds behind a literal of a plain tree. *)
Lies(e, file, literal, f) ==
  \/ f = Join(Dir(file), literal)
  \/ literal.up = 0 /\ \E i \in 1 .. 4 : f = ImportPaths(e)[i] \o literal.path

LEMMA ResolvedLies ==
  ASSUME NEW tree, Plain(tree), NEW e \in Entrypoints(tree), NEW file \in tree.files,
         NEW literal \in tree.imports[file], NEW f \in Resolved(tree, e, file, literal)
  PROVE  /\ f \in Existing(tree)
         /\ Lies(e, file, literal, f)
<1> USE DEF Lies
<1> DEFINE all == Candidates(e, file, literal)
<1>1. PICK i \in 1 .. Len(all) :
        /\ f = Canonical(tree, all[i]) /\ all[i] \in Existing(tree)
        /\ \A j \in 1 .. i - 1 : all[j] \notin Existing(tree)
  BY DEF Resolved
<1>2. f = all[i] /\ f \in Existing(tree)
  BY <1>1 DEF Canonical, Plain
<1>3. /\ Len(all) \in Nat \ {0} /\ all[1] = Join(Dir(file), literal)
      /\ ~(literal.up > 0) =>
           /\ Len(all) = 6 /\ all[6] = Join(Root, literal)
           /\ \A j \in 1 .. 4 : all[j + 1] = Join(ImportPaths(e)[j], literal)
  BY CandidateOrder
<1>4. /\ literal.up \in Nat /\ Named(literal.path) /\ MeansTheSame(tree, e, file, literal)
      /\ Dir(file) \in Seq(Name)
  <2>1. IsPath(literal.path) /\ IsPath(file)
    BY DEF Plain, Existing
  <2>. QED  BY <2>1, PathIsNamed, PathParts DEF Plain
<1> HIDE DEF all
<1>5. CASE literal.up > 0
  <2>1. all[1] \in Existing(tree)
    BY <1>3, <1>4, <1>5 DEF MeansTheSame
  <2>2. i = 1
    BY <1>1, <1>3, <2>1
  <2>. QED  BY <1>2, <1>3, <2>2
<1>6. CASE literal.up = 0
  <2>1. Join(Dir(file), literal) = Dir(file) \o literal.path
    BY <1>4, <1>6, JoinUnder
  <2>2. \A j \in 1 .. 4 : Join(ImportPaths(e)[j], literal) = ImportPaths(e)[j] \o literal.path
    BY <1>6, JoinUnder, PathsOfEntrypoint
  <2>3. Join(Root, literal) = literal.path
    <3>1. Root \in Seq(Name) /\ Root = <<>>
      BY EmptySeq DEF Root
    <3>2. Join(Root, literal) = <<>> \o literal.path
      BY <1>6, <3>1, JoinUnder
    <3>. QED  BY <1>4, <3>2, ConcatEmptySeq DEF Named
  <2>4. /\ Len(all) = 6 /\ all[6] = literal.path /\ all[1] = Dir(file) \o literal.path
        /\ \A j \in 1 .. 4 : all[j + 1] = ImportPaths(e)[j] \o literal.path
    <3>1. ~(literal.up > 0)
      BY <1>6
    <3>2. all[1] = Dir(file) \o literal.path /\ all[6] = literal.path /\ Len(all) = 6
      BY <1>3, <2>1, <2>3, <3>1
    <3>3. ASSUME NEW j \in 1 .. 4 PROVE all[j + 1] = ImportPaths(e)[j] \o literal.path
      <4>1. all[j + 1] = Join(ImportPaths(e)[j], literal)
        BY <1>3, <3>1
      <4>. QED  BY <2>2, <4>1
    <3>. QED  BY <3>2, <3>3
  <2>5. CASE i = 6
    <3>1. /\ all[1] \notin Existing(tree)
          /\ \A j \in 1 .. 4 : all[j + 1] \notin Existing(tree)
      <4>1. 1 \in 1 .. i - 1 /\ \A j \in 1 .. 4 : j + 1 \in 1 .. i - 1
        BY <2>5
      <4>. QED  BY <1>1, <4>1
    <3>2. literal.path \in Existing(tree)
      BY <1>2, <2>4, <2>5
    <3>. QED  BY <1>4, <1>6, <2>4, <3>1, <3>2 DEF MeansTheSame
  <2>6. CASE i = 1
    BY <1>2, <1>3, <2>6
  <2>7. CASE i \in 2 .. 5
    <3>1. i - 1 \in 1 .. 4 /\ (i - 1) + 1 = i
      BY <2>7
    <3>2. all[(i - 1) + 1] = ImportPaths(e)[i - 1] \o literal.path
      BY <2>4, <3>1
    <3>. QED  BY <1>2, <1>6, <3>1, <3>2
  <2>8. i = 6 \/ i = 1 \/ i \in 2 .. 5
    BY <2>4
  <2>. QED  BY <2>5, <2>6, <2>7, <2>8, Zenon
<1>7. literal.up > 0 \/ literal.up = 0
  BY <1>4
<1>. QED  BY <1>5, <1>6, <1>7, Zenon

(* Behind a literal the reverse search finds the same file, unless it belongs
   to the environment the forward search is for.  (imports_target.) *)
LEMMA LiteralIsRecognised ==
  ASSUME NEW tree, Plain(tree), NEW e \in Entrypoints(tree), NEW file \in tree.files,
         NEW literal \in tree.imports[file], NEW f \in Resolved(tree, e, file, literal)
  PROVE  PointsAt(tree, file, literal, f) \/ e \in Implicit(tree, f)
<1>1. /\ literal.up \in Nat /\ Named(literal.path) /\ Named(file)
      /\ Dir(file) \in Seq(Name) /\ Dir(e) \in Seq(Name)
      /\ f \in Existing(tree) /\ Named(f)
  <2>1. IsPath(literal.path) /\ IsPath(file) /\ literal.up \in Nat
    BY DEF Plain, Existing
  <2>2. f \in Existing(tree) /\ IsPath(f)
    BY ResolvedLies DEF Plain
  <2>. QED  BY <2>1, <2>2, PathIsNamed, PathParts, EntrypointShape
<1>2. ASSUME NEW dir \in Seq(Name), f = Join(dir, literal)
      PROVE  FileName(literal.path) = FileName(f) /\ Names(tree, dir, literal, f)
  <2>1. SubSeq(dir, 1, Len(dir) - literal.up) \in Seq(Name)
    <3>1. /\ Len(dir) - literal.up \in Int /\ 1 \in Int
          /\ \A i \in 1 .. Len(dir) - literal.up : dir[i] \in Name
      BY <1>1
    <3>. QED  BY <3>1, SubSeqProperties
  <2>2. FileName(f) = FileName(literal.path)
    BY <1>1, <1>2, <2>1, BelowDir DEF Join
  <2>. QED  BY <1>1, <1>2, <2>2 DEF Names
<1>3. CASE f = Join(Dir(file), literal)
  BY <1>1, <1>2, <1>3 DEF PointsAt
<1>4. ASSUME literal.up = 0, NEW dir \in {Vendor, Lib}, f = dir \o literal.path
      PROVE  PointsAt(tree, file, literal, f)
  <2>1. dir \in Seq(Name) /\ f = Join(dir, literal)
    BY <1>4, JoinUnder, KnownNames
  <2>. QED  BY <1>2, <1>4, <2>1 DEF PointsAt
<1>5. ASSUME literal.up = 0, NEW path, Named(path), f = Dir(e) \o path,
             Dir(e) = <<>> => PointsAt(tree, file, literal, f)
      PROVE  PointsAt(tree, file, literal, f) \/ e \in Implicit(tree, f)
  BY <1>1, <1>5, BelowDir, BelongsToEnvironment
<1>6. CASE literal.up = 0 /\ f = ImportPaths(e)[1] \o literal.path
  <2>1. f = Dir(e) \o literal.path
    BY <1>6, PathsOfEntrypoint
  <2>2. ASSUME Dir(e) = <<>> PROVE PointsAt(tree, file, literal, f)
    <3>1. f = Base(tree, file) \o literal.path
      BY <1>1, <2>1, <2>2, BasedAtRoot
    <3>2. FileName(literal.path) = FileName(f)
      BY <1>1, <2>1, BelowDir
    <3>. QED  BY <1>6, <3>1, <3>2 DEF PointsAt
  <2>. QED  BY <1>1, <1>5, <1>6, <2>1, <2>2
<1>7. CASE literal.up = 0 /\ f = ImportPaths(e)[3] \o literal.path
  <2>1. f = (Dir(e) \o Vendor) \o literal.path
    BY <1>7, PathsOfEntrypoint
  <2>2. Vendor \in Seq(Name) /\ literal.path \in Seq(Name) /\ Named(Vendor \o literal.path)
    BY <1>1, KnownNames, BelowDir DEF Named
  <2>3. f = Dir(e) \o (Vendor \o literal.path)
    <3>1. Dir(e) \in Seq(Name)
      BY <1>1
    <3>2. (Dir(e) \o Vendor) \o literal.path = Dir(e) \o (Vendor \o literal.path)
      <4>1. Vendor \in Seq(Name) /\ literal.path \in Seq(Name)
        BY <2>2
      <4>2. \A x, y, z \in Seq(Name) : (x \o y) \o z = x \o (y \o z)
        BY ConcatAssociative
      <4>. QED  BY <3>1, <4>1, <4>2, Zenon
    <3>. QED  BY <2>1, <3>2
  <2>4. Dir(e) = <<>> => f = Vendor \o literal.path
    BY <2>2, <2>3, ConcatEmptySeq DEF Named
  <2>. QED  BY <1>4, <1>5, <1>7, <2>2, <2>3, <2>4
<1>8. CASE literal.up = 0 /\ \E i \in {2, 4} : f = ImportPaths(e)[i] \o literal.path
  BY <1>4, <1>8, PathsOfEntrypoint
<1>9. \A i \in 1 .. 4 : i = 1 \/ i = 3 \/ i \in {2, 4}
  OBVIOUS
<1>10. \/ f = Join(Dir(file), literal)
       \/ literal.up = 0 /\ \E i \in 1 .. 4 : f = ImportPaths(e)[i] \o literal.path
  <2>1. Lies(e, file, literal, f)
    BY ResolvedLies
  <2>. QED  BY <2>1 DEF Lies
<1>11. CASE literal.up = 0 /\ \E i \in 1 .. 4 : f = ImportPaths(e)[i] \o literal.path
  <2>1. PICK i \in 1 .. 4 : f = ImportPaths(e)[i] \o literal.path
    BY <1>11
  <2>2. i = 1 \/ i = 3 \/ i \in {2, 4}
    BY <1>9
  <2>. QED  BY <1>6, <1>7, <1>8, <1>11, <2>1, <2>2
<1>. QED  BY <1>3, <1>10, <1>11

-----------------------------------------------------------------------------
(* Chains of imports.                                                      *)

(* Every import of the forward search is one of the reverse search, or leads to
   a file that belongs to the environment. *)
LEMMA ScannedIsRecognised ==
  ASSUME NEW tree, Plain(tree), NEW e \in Entrypoints(tree), NEW file \in tree.files,
         NEW f \in Scanned(tree, e, file)
  PROVE  f \in Existing(tree) /\ (file \in Direct(tree, f) \/ e \in Implicit(tree, f))
<1>1. ASSUME NEW literal \in tree.imports[file], f \in Resolved(tree, e, file, literal)
      PROVE  f \in Existing(tree) /\ (file \in Direct(tree, f) \/ e \in Implicit(tree, f))
  <2>1. f \in Existing(tree)
    BY <1>1, ResolvedLies
  <2>2. PointsAt(tree, file, literal, f) \/ e \in Implicit(tree, f)
    BY <1>1, LiteralIsRecognised
  <2>. QED  BY <2>1, <2>2 DEF Direct, ImportsTarget
<1>2. ASSUME NEW o \in Existing(tree), f = Canonical(tree, o),
             NEW dir \in tree.charts[file], IsPrefix(dir, o)
      PROVE  f \in Existing(tree) /\ file \in Direct(tree, f)
  <2>1. f = o /\ Canonical(tree, f) = f
    BY <1>2 DEF Canonical, Plain
  <2>2. InChart(tree, file, f)
    BY <1>2, <2>1 DEF InChart
  <2>. QED  BY <1>2, <2>1, <2>2 DEF Direct, ImportsTarget
<1>3. \/ \E literal \in tree.imports[file] : f \in Resolved(tree, e, file, literal)
      \/ \E o \in Existing(tree) :
            f = Canonical(tree, o) /\ \E dir \in tree.charts[file] : IsPrefix(dir, o)
  <2>1. \/ f \in UNION {Resolved(tree, e, file, literal) : literal \in tree.imports[file]}
        \/ f \in {Canonical(tree, other) :
                   other \in {o \in Existing(tree) :
                                \E dir \in tree.charts[file] : IsPrefix(dir, o)}}
    BY DEF Scanned
  <2>. QED  BY <2>1, Zenon
<1>. QED  BY <1>1, <1>2, <1>3

(* What the forward search reaches is there, and it reaches what that imports. *)
LEMMA ReachedIsClosed ==
  ASSUME NEW tree, Plain(tree), NEW e \in Entrypoints(tree)
  PROVE  /\ TransitiveImports(tree, e) \subseteq Existing(tree)
         /\ e \in TransitiveImports(tree, e)
         /\ \A file \in TransitiveImports(tree, e) \cap tree.files :
              Scanned(tree, e, file) \subseteq TransitiveImports(tree, e)
<1>1. e \in tree.files /\ e \in Existing(tree)
  BY DEF Entrypoints, Existing
<1>2. \A file \in tree.files : Scanned(tree, e, file) \subseteq Existing(tree)
  BY ScannedIsRecognised
<1>. QED  BY <1>1, <1>2 DEF TransitiveImports

(* The environment that reaches a file is found from it backwards: a set that
   holds whatever belongs to the environment, is imported by it, or is imported
   by what is in the set, holds all that the environment reaches.
   (transitive_imports, against importers_of.) *)
THEOREM ReachedIsRetraced ==
  ASSUME NEW tree, Plain(tree), NEW e \in Entrypoints(tree),
         NEW files \in SUBSET TransitiveImports(tree, e),
         \A f \in TransitiveImports(tree, e) :
           e \in Direct(tree, f) \cup Implicit(tree, f) \/ Direct(tree, f) \cap files # {}
             => f \in files
  PROVE  TransitiveImports(tree, e) \subseteq files \cup {e}
<1> DEFINE all == files \cup {e}
<1>1. /\ all \in SUBSET Existing(tree)
      /\ all \subseteq TransitiveImports(tree, e)
  BY ReachedIsClosed
<1>2. ASSUME NEW file \in all \cap tree.files, NEW f \in Scanned(tree, e, file)
      PROVE  f \in all
  <2>1. f \in TransitiveImports(tree, e)
    BY <1>1, ReachedIsClosed
  <2>2. file \in Direct(tree, f) \/ e \in Implicit(tree, f)
    BY ScannedIsRecognised
  <2>. QED  BY <2>1, <2>2
<1>3. e \in all
  OBVIOUS
<1> HIDE DEF all
<1>. QED  BY <1>1, <1>2, <1>3 DEF TransitiveImports, all
=============================================================================
