---------------------------- MODULE ImportPaths ----------------------------
(***************************************************************************)
(* How the import literals of a project name files, three times over: for  *)
(* the reverse search of `rtk tool importers` (rtk-jsonnet/importers.rs),  *)
(* for the forward search of `rtk tool imports` (rtk-jsonnet/imports.rs),  *)
(* and the import paths they take from JPath (rtk-jsonnet/jpath.rs).       *)
(*                                                                         *)
(* A path is the sequence of its names below the root of the project.  A   *)
(* literal is a path behind a number of "..".  A tree is a record:         *)
(*   files   the jsonnet files                                             *)
(*   others  files that are only imported as text or lie in charts         *)
(*   imports the literals in each jsonnet file                             *)
(*   charts  the chart directories each jsonnet file refers to, resolved   *)
(*   links   for each symbolic link to a file, the file                    *)
(* Documentation in charts, which neither search looks at, is left out.    *)
(***************************************************************************)
EXTENDS Naturals, Sequences, SequencesExt, FiniteSets

Root == <<>>
Vendor == <<"vendor">>
Lib == <<"lib">>
DefaultEntrypoint == "main.jsonnet"

Dir(path) == Front(path)
FileName(path) == Last(path)
IsEntrypoint(path) == FileName(path) = DefaultEntrypoint
Literal(up, path) == [up |-> up, path |-> path]

Existing(tree) == tree.files \cup tree.others
Canonical(tree, path) ==
  IF path \in DOMAIN tree.links THEN tree.links[path] ELSE path

(* Joining pops a directory for each ".."; the root has no parent. *)
Join(dir, literal) ==
  SubSeq(dir, 1, Len(dir) - literal.up) \o literal.path

Ancestors(dir) == {SubSeq(dir, 1, n) : n \in 0 .. Len(dir)}
HasEntrypoint(tree, dir) == Append(dir, DefaultEntrypoint) \in tree.files
Nearest(dirs) == CHOOSE d \in dirs : \A other \in dirs : Len(other) <= Len(d)

(* find_base: the environment a file lies in, or the root. *)
Base(tree, file) ==
  LET bases == {d \in Ancestors(Dir(file)) : HasEntrypoint(tree, d)}
  IN  IF bases = {} THEN Root ELSE Nearest(bases)

-----------------------------------------------------------------------------
(* The reverse search.                                                     *)

InChart(tree, file, target) ==
  \E dir \in tree.charts[file] : IsPrefix(dir, Canonical(tree, target))

(* paths_match: a candidate that still holds ".." is only recognised as long
   as it exists. *)
Names(tree, dir, literal, target) ==
  LET candidate == Join(dir, literal)
  IN  /\ Canonical(tree, candidate) = Canonical(tree, target)
      /\ literal.up > 0 => candidate \in Existing(tree)

(* Whether a literal in file points at the target. *)
PointsAt(tree, file, literal, target) ==
  LET From(dir) == Names(tree, dir, literal, target)
      shallow == [literal EXCEPT !.up = @ - 1]
  IN  /\ FileName(literal.path) = FileName(target)
      /\ \/ literal.up > 0 /\ Names(tree, Dir(file), shallow, target)
         \/ literal.up = 0 /\ (From(Vendor) \/ From(Lib))
         \/ literal.up = 0 /\ target = Base(tree, file) \o literal.path
         \/ From(Dir(file))

(* imports_target. *)
ImportsTarget(tree, file, target) ==
  \/ InChart(tree, file, target)
  \/ \E literal \in tree.imports[file] : PointsAt(tree, file, literal, target)

Direct(tree, target) == {file \in tree.files : ImportsTarget(tree, file, target)}

(* Files of an environment belong to its entrypoint; files above
   environments to every entrypoint below them.  (find_entrypoint.) *)
Implicit(tree, target) ==
  LET enclosing == {d \in Ancestors(Dir(target)) : HasEntrypoint(tree, d)}
      below == {file \in tree.files : IsEntrypoint(file) /\ IsPrefix(Dir(target), file)}
  IN  IF IsPrefix(Vendor, target) \/ IsPrefix(Lib, target) THEN {}
      ELSE IF enclosing = {} THEN below
      ELSE {Append(Nearest(enclosing), DefaultEntrypoint)}

(* The importers whose directory has its own copy of a vendored file. *)
Shadows(tree, target) ==
  IF ~IsPrefix(Vendor, target) THEN {}
  ELSE {file \in tree.files : Dir(file) \o target \in tree.files}

(* expand_symlinks: the paths a file is reachable through. *)
Spellings(tree, file) ==
  {Canonical(tree, file)}
    \cup {link \in DOMAIN tree.links : tree.links[link] = Canonical(tree, file)}

-----------------------------------------------------------------------------
(* The forward search.                                                     *)

(* JPath::resolve, for the environment of an entrypoint: in precedence. *)
ImportPaths(entrypoint) ==
  <<Dir(entrypoint), Lib, Dir(entrypoint) \o Vendor, Vendor>>

(* The candidates of resolve_import, in order. *)
Candidates(entrypoint, file, literal) ==
  LET Below(path) == [i \in 1 .. 4 |-> ImportPaths(entrypoint)[i] \o path]
      Above(dir) == Join(dir, literal)
  IN  <<Above(Dir(file))>>
        \o [i \in 1 .. 4 |-> Above(ImportPaths(entrypoint)[i])]
        \o (IF literal.up > 0 THEN Below(literal.path) ELSE <<>>)
        \o <<Above(Root)>>

(* What the literal stands for, as a set of at most one file. *)
Resolved(tree, entrypoint, file, literal) ==
  LET all == Candidates(entrypoint, file, literal)
      first == {i \in 1 .. Len(all) :
                  /\ all[i] \in Existing(tree)
                  /\ \A j \in 1 .. i - 1 : all[j] \notin Existing(tree)}
  IN  {Canonical(tree, all[i]) : i \in first}

Scanned(tree, entrypoint, file) ==
  (UNION {Resolved(tree, entrypoint, file, literal) : literal \in tree.imports[file]})
    \cup {Canonical(tree, other) :
            other \in {o \in Existing(tree) :
                         \E dir \in tree.charts[file] : IsPrefix(dir, o)}}

(* transitive_imports: whatever can be reached in a chain of imports, the least
   set that holds the entrypoint and what its jsonnet files import. *)
TransitiveImports(tree, entrypoint) ==
  LET imported == [file \in tree.files |-> Scanned(tree, entrypoint, file)]
      Closed(files) == /\ entrypoint \in files
                       /\ \A file \in files \cap tree.files : imported[file] \subseteq files
      closed == {files \in SUBSET Existing(tree) : Closed(files)}
  IN  {f \in Existing(tree) : \A files \in closed : f \in files}

-----------------------------------------------------------------------------
(* Both.                                                                   *)

Entrypoints(tree) == {file \in tree.files : IsEntrypoint(file)}

(* ImporterIndex::build: what the searches make of a tree, for all the paths. *)
IndexOf(tree, paths) ==
  [direct |-> [f \in paths |-> Direct(tree, f)],
   implicit |-> [f \in paths |-> Implicit(tree, f)],
   shadows |-> [f \in paths |-> Shadows(tree, f)],
   canonical |-> [f \in paths |-> Canonical(tree, f)],
   spellings |-> [f \in paths |-> Spellings(tree, f)],
   readings |-> [f \in paths |-> {f}],
   existing |-> Existing(tree),
   entrypoints |-> Entrypoints(tree),
   reaches |-> [f \in paths |-> IF f \in Entrypoints(tree)
                                THEN TransitiveImports(tree, f) ELSE {}]]

(* Trees without symbolic links, in which no environment lies in another or
   below vendor or lib, and every import literal means the same to both
   searches: one with ".." is relative to its file, and another is found before
   the root of the project is tried. *)
IsPath(path) == path \in Seq(STRING) /\ path # <<>>

MeansTheSame(tree, entrypoint, file, literal) ==
  /\ literal.up > 0 /\ Resolved(tree, entrypoint, file, literal) # {} =>
       Join(Dir(file), literal) \in Existing(tree)
  /\ literal.up = 0 /\ literal.path \in Existing(tree) =>
       \/ Dir(file) \o literal.path \in Existing(tree)
       \/ \E i \in 1 .. 4 : ImportPaths(entrypoint)[i] \o literal.path \in Existing(tree)

Plain(tree) ==
  /\ DOMAIN tree.links = {}
  /\ \A file \in Existing(tree) : IsPath(file)
  /\ \A file \in tree.files :
       /\ \A dir \in tree.charts[file] : dir \in Seq(STRING)
       /\ \A literal \in tree.imports[file] : literal.up \in Nat /\ IsPath(literal.path)
  /\ \A e \in Entrypoints(tree) :
       /\ ~IsPrefix(Vendor, e) /\ ~IsPrefix(Lib, e)
       /\ \A other \in Entrypoints(tree) : IsPrefix(Dir(e), Dir(other)) => other = e
       /\ \A file \in tree.files : \A literal \in tree.imports[file] :
            MeansTheSame(tree, e, file, literal)
=============================================================================
