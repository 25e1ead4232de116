--------------------------- MODULE ImportersProofs ---------------------------
(***************************************************************************)
(* The safety of the reverse search for any set of files, any project and  *)
(* any query: the recursion enters no file twice, what it reports imports  *)
(* a target, and, where nothing is shadowed, it reports whatever does,     *)
(* although what is memoized along a cycle is incomplete.                  *)
(***************************************************************************)
EXTENDS Importers, FiniteSetTheorems, TLAPS

(* Every file on the stack is in the chain: the guard against cycles sees it. *)
TypeInv ==
  /\ TypeOK
  /\ \A i \in 1 .. Depth : stack[i].file \in chain

(* An importer that a call collected leads to the call's file, unless the
   call is about to drop it. *)
Reported(e) ==
  \/ e \in ToCheck
  \/ \E f \in File : project.canonical[f] = e /\ Imported(f) \cap ToCheck # {}

SoundInv ==
  /\ todo \subseteq ToCheck
  /\ result \subseteq found
  /\ \A e \in found : Reported(e)
  /\ \A f \in DOMAIN memo : \A e \in memo[f] : f \in Imported(e)
  /\ \A i \in 1 .. Depth :
       /\ stack[i].left \subseteq Direct(stack[i].file)
       /\ i = 1 => stack[i].file \in ToCheck
       /\ i > 1 => stack[i].file \in Direct(stack[i - 1].file)
       /\ \A e \in stack[i].importers :
            e \notin Shadows(stack[i].file) => stack[i].file \in Imported(e)

(* The files that were entered, whether their calls have returned or not. *)
Entered == DOMAIN memo \cup {stack[i].file : i \in 1 .. Depth}

(* The importers of whatever has returned are found or being collected. *)
Gathered(e) ==
  \/ project.canonical[e] \in found
  \/ \E i \in 1 .. Depth : e \in stack[i].importers

FullInv ==
  /\ phase \in {"searching", "done"} => ToCheck \subseteq todo \cup Entered
  /\ phase = "done" => todo = {} /\ stack = <<>> /\ result = found \cap project.entrypoints
  /\ chain \subseteq Entered
  /\ \A f \in DOMAIN memo :
       /\ Direct(f) \subseteq Entered
       /\ \A e \in Direct(f) \cup Implicit(f) : Gathered(e)
  /\ \A i \in 1 .. Depth :
       /\ Direct(stack[i].file) \cup Implicit(stack[i].file)
            \subseteq stack[i].importers \cup stack[i].left
       /\ Direct(stack[i].file) \ stack[i].left \subseteq Entered

-----------------------------------------------------------------------------
(* The index, and what the calls do to the stack.                          *)

LEMMA IndexTypes ==
  ASSUME project \in Index, NEW f \in File
  PROVE  /\ Direct(f) \subseteq File /\ Implicit(f) \subseteq File
         /\ Shadows(f) \subseteq File /\ project.canonical[f] \in File
BY DEF Index, Direct, Implicit, Shadows

LEMMA PathsAreFiles == ASSUME TypeOK PROVE ToCheck \subseteq File
<1>1. ASSUME NEW t \in query PROVE Paths(t) \subseteq File
  BY <1>1 DEF TypeOK, Target, Index, Paths
<1> QED BY <1>1 DEF ToCheck

LEMMA EnterShape ==
  ASSUME project \in Index, NEW f \in File
  PROVE  Enter(f) \in Frame
BY IndexTypes DEF Enter, Frame

LEMMA TopShape ==
  ASSUME stack \in Seq(Frame), stack # <<>>
  PROVE  /\ Depth \in Nat \ {0} /\ Top = stack[Depth] /\ Top \in Frame
         /\ Top.file \in File /\ Top.left \subseteq File /\ Top.importers \subseteq File
<1>1. Depth \in Nat \ {0} /\ Depth \in 1 .. Len(stack) /\ Top \in Frame
  BY DEF Depth, Top
<1> QED BY <1>1 DEF Frame, Top

(* The frames below the top are untouched. *)
LEMMA VisitedShape ==
  ASSUME stack \in Seq(Frame), stack # <<>>, NEW d \in File, NEW more \in SUBSET File
  PROVE  /\ Visited(d, more) \in Seq(Frame)
         /\ Len(Visited(d, more)) = Depth
         /\ Depth \in Nat \ {0}
         /\ Visited(d, more)[Depth].file = Top.file
         /\ Visited(d, more)[Depth].left = Top.left \ {d}
         /\ Visited(d, more)[Depth].importers = Top.importers \cup {d} \cup more
         /\ \A i \in 1 .. Depth - 1 : Visited(d, more)[i] = stack[i]
<1>1. Depth \in Nat \ {0} /\ Depth \in 1 .. Len(stack) /\ Top \in Frame
  BY DEF Depth, Top
<1>2. /\ Top.file \in File /\ Top.left \subseteq File /\ Top.importers \subseteq File
      /\ Top = [file |-> Top.file, left |-> Top.left, importers |-> Top.importers]
  BY <1>1 DEF Frame
<1> DEFINE frame == [Top EXCEPT !.left = @ \ {d}, !.importers = @ \cup {d} \cup more]
<1>3. /\ frame \in Frame /\ frame.file = Top.file /\ frame.left = Top.left \ {d}
      /\ frame.importers = Top.importers \cup {d} \cup more
  BY <1>2 DEF Frame
<1>4. Visited(d, more) = [stack EXCEPT ![Depth] = frame]
  BY <1>1, <1>2 DEF Visited, Top
<1> HIDE DEF frame
<1> QED BY <1>1, <1>3, <1>4 DEF Depth

LEMMA CollectedShape ==
  ASSUME stack \in Seq(Frame), Depth > 1, NEW files \in SUBSET File
  PROVE  /\ Collected(files) \in Seq(Frame)
         /\ Depth \in Nat
         /\ Len(Collected(files)) = Depth - 1
         /\ Collected(files)[Depth - 1].file = stack[Depth - 1].file
         /\ Collected(files)[Depth - 1].left = stack[Depth - 1].left
         /\ Collected(files)[Depth - 1].importers = stack[Depth - 1].importers \cup files
         /\ \A i \in 1 .. Depth - 2 : Collected(files)[i] = stack[i]
<1> DEFINE below == SubSeq(stack, 1, Depth - 1)
           last == stack[Depth - 1]
<1>1. Depth \in Nat /\ Depth - 1 \in 1 .. Len(stack) /\ last \in Frame
  BY DEF Depth
<1>2. /\ below \in Seq(Frame) /\ Len(below) = Depth - 1
      /\ \A i \in 1 .. Depth - 1 : below[i] = stack[i]
  BY <1>1 DEF Depth
<1>3. /\ last.file \in File /\ last.left \subseteq File /\ last.importers \subseteq File
      /\ last = [file |-> last.file, left |-> last.left, importers |-> last.importers]
  BY <1>1 DEF Frame
<1> DEFINE frame == [last EXCEPT !.importers = @ \cup files]
<1>4. /\ frame \in Frame /\ frame.file = last.file /\ frame.left = last.left
      /\ frame.importers = last.importers \cup files
  BY <1>3 DEF Frame
<1>5. Collected(files) = [below EXCEPT ![Depth - 1] = frame]
  <2>1. Collected(files) = [below EXCEPT ![Depth - 1].importers = @ \cup files]
    BY DEF Collected
  <2>2. below[Depth - 1] = last
    BY <1>1, <1>2
  <2> HIDE DEF below, last
  <2> QED BY <2>1, <2>2
<1> HIDE DEF frame, below
<1> QED BY <1>1, <1>2, <1>4, <1>5

-----------------------------------------------------------------------------
(* Types.                                                                  *)

LEMMA InitTypes == Init => TypeInv
<1> SUFFICES ASSUME Init PROVE TypeInv OBVIOUS
<1>1. stack = <<>> /\ Depth = 0 /\ stack \in Seq(Frame)
  BY DEF Init, Depth
<1> QED BY <1>1, ImportersAssumption DEF Init, TypeInv, TypeOK

(* A call of an importer that the chain does not hold yet. *)
LEMMA NewCallKeepsTypes ==
  ASSUME TypeInv, NEW d \in File, VisitNew(d)
  PROVE  TypeInv'
<1>1. /\ stack \in Seq(Frame) /\ stack # <<>> /\ Enter(d) \in Frame
      /\ stack' = Append(Visited(d, {}), Enter(d))
  BY EnterShape DEF VisitNew, Searching, TypeInv, TypeOK
<1>2. /\ stack' \in Seq(Frame) /\ Depth' = Depth + 1 /\ Depth \in Nat
      /\ stack'[Depth + 1].file = d
      /\ \A i \in 1 .. Depth : stack'[i].file = stack[i].file
  <2>1. \A i \in 1 .. Depth : Visited(d, {})[i].file = stack[i].file
    BY <1>1, VisitedShape DEF Top
  <2>2. \A i \in 1 .. Depth : stack'[i] = Visited(d, {})[i]
    BY <1>1, VisitedShape
  <2> QED BY <1>1, <2>1, <2>2, VisitedShape DEF Depth, Enter
<1>3. chain' = chain \cup {d} /\ d \notin chain
  BY DEF VisitNew
<1>4. \A i \in 1 .. Depth' : stack'[i].file \in chain'
  BY <1>2, <1>3 DEF TypeInv
<1>5. ASSUME NEW i \in 1 .. Depth', NEW j \in 1 .. Depth', stack'[i].file = stack'[j].file
      PROVE  i = j
  <2>1. \A n \in 1 .. Depth' : n = Depth + 1 \/ n \in 1 .. Depth
    BY <1>2
  <2>2. \A n \in 1 .. Depth : stack'[n].file # d
    BY <1>2, <1>3 DEF TypeInv
  <2>3. CASE i = Depth + 1 \/ j = Depth + 1
    BY <1>2, <1>5, <2>1, <2>2, <2>3
  <2>4. CASE i \in 1 .. Depth /\ j \in 1 .. Depth
    BY <1>2, <1>5, <2>4 DEF TypeInv, TypeOK
  <2> QED BY <2>1, <2>3, <2>4
<1> QED BY <1>2, <1>3, <1>4, <1>5 DEF TypeInv, TypeOK, VisitNew

LEMMA NextKeepsTypes == TypeInv /\ [Next]_vars => TypeInv'
<1> SUFFICES ASSUME TypeInv, [Next]_vars PROVE TypeInv'
  OBVIOUS
<1> USE DEF TypeInv, TypeOK
<1>1. CASE Refuse \/ Begin \/ Done \/ UNCHANGED vars
  BY <1>1, PathsAreFiles DEF Refuse, Begin, Done, vars, Depth
<1>2. ASSUME NEW f \in File, PickKnown(f) PROVE TypeInv'
  <2>1. memo[f] \subseteq File /\ Canonical(memo[f]) \subseteq File
    BY <1>2, IndexTypes DEF PickKnown, Canonical
  <2> QED BY <1>2, <2>1 DEF PickKnown, Returned, Depth
<1>3. ASSUME NEW f \in File, PickNew(f) PROVE TypeInv'
  <2>1. stack' = <<Enter(f)>> /\ Enter(f) \in Frame /\ Enter(f).file = f
    BY <1>3, EnterShape DEF PickNew, Enter
  <2>2. stack' \in Seq(Frame) /\ Depth' = 1 /\ stack'[1].file = f
    BY <2>1 DEF Depth
  <2> QED BY <1>3, <2>2 DEF PickNew
<1>4. ASSUME NEW d \in File, VisitCycle(d) PROVE TypeInv'
  <2>1. /\ stack' \in Seq(Frame) /\ Depth' = Depth
        /\ \A i \in 1 .. Depth : stack'[i].file = stack[i].file
    BY <1>4, VisitedShape DEF VisitCycle, Searching, Depth, Top
  <2> QED BY <1>4, <2>1 DEF VisitCycle
<1>5. ASSUME NEW d \in File, VisitKnown(d) PROVE TypeInv'
  <2>1. memo[d] \in SUBSET File
    BY <1>5 DEF VisitKnown
  <2>2. /\ stack' \in Seq(Frame) /\ Depth' = Depth
        /\ \A i \in 1 .. Depth : stack'[i].file = stack[i].file
    BY <1>5, <2>1, VisitedShape DEF VisitKnown, Searching, Depth, Top
  <2> QED BY <1>5, <2>2 DEF VisitKnown
<1>6. ASSUME NEW d \in File, VisitNew(d) PROVE TypeInv'
  BY <1>6, NewCallKeepsTypes
<1>7. ASSUME Searching
      PROVE  Retain(Top) \in SUBSET File /\ Top.file \in File /\ Depth \in Nat
  BY <1>7, TopShape DEF Searching, Retain
<1>8. CASE Leave
  <2>1. /\ stack' \in Seq(Frame) /\ Depth' = Depth - 1
        /\ \A i \in 1 .. Depth - 1 : stack'[i].file = stack[i].file
    <3>1. stack' = Collected(Retain(Top)) /\ Depth > 1 /\ Retain(Top) \in SUBSET File
      BY <1>7, <1>8 DEF Leave
    <3> QED BY <3>1, <1>7, <1>8, CollectedShape DEF Depth
  <2>2. DOMAIN memo' \subseteq File /\ memo' \in [DOMAIN memo' -> SUBSET File]
    BY <1>7, <1>8 DEF Leave, Memoized
  <2> QED BY <1>7, <1>8, <2>1, <2>2 DEF Leave
<1>9. CASE Return
  <2>1. DOMAIN memo' \subseteq File /\ memo' \in [DOMAIN memo' -> SUBSET File]
    BY <1>7, <1>9 DEF Return, Memoized
  <2>2. Canonical(Retain(Top)) \subseteq File
    BY <1>7, <1>9, IndexTypes DEF Return, Canonical
  <2> QED BY <1>9, <2>1, <2>2 DEF Return, Depth
<1> QED BY <1>1, <1>2, <1>3, <1>4, <1>5, <1>6, <1>8, <1>9 DEF Next

LEMMA AlwaysTyped == Spec => []TypeInv
BY InitTypes, NextKeepsTypes, PTL DEF Spec

(* No file is on the stack twice, whatever the cycles: the recursion is no
   deeper than there are files.  (importers_of, its chain.) *)
THEOREM TypeCorrect == Spec => []TypeOK
<1>1. TypeInv => TypeOK
  BY DEF TypeInv
<1> QED BY <1>1, AlwaysTyped, PTL

-----------------------------------------------------------------------------
(* What is reported imports a target.                                      *)

LEMMA ImporterLeads ==
  ASSUME TypeOK, NEW f \in File, NEW e \in Direct(f) \cup Implicit(f), e \notin Shadows(f)
  PROVE  f \in Imported(e)
BY DEF Imported, LeadsTo, Known

LEMMA ChainLeads ==
  ASSUME TypeOK, NEW f \in File, NEW g \in Direct(f), NEW e, g \in Imported(e),
         e \notin Shadows(f)
  PROVE  f \in Imported(e)
BY DEF Imported, LeadsTo, Known

(* The words about the index stay what they are while the index does. *)
LEMMA SameIndex ==
  ASSUME project' = project, query' = query
  PROVE  /\ ToCheck' = ToCheck
         /\ \A e : Imported(e)' = Imported(e) /\ (Reported(e)' <=> Reported(e))
         /\ \A f : Direct(f)' = Direct(f) /\ Shadows(f)' = Shadows(f) /\ Implicit(f)' = Implicit(f)
BY DEF ToCheck, Paths, Imported, LeadsTo, Known, Reported, Direct, Implicit, Shadows

LEMMA InitSound == Init => SoundInv
BY DEF Init, SoundInv, Depth

(* A visit, whether the files in more come from the memo or are none. *)
LEMMA VisitKeepsSound ==
  ASSUME TypeInv, SoundInv, stack # <<>>, NEW d \in Top.left, NEW more \in SUBSET File,
         \A e \in more : d \in Imported(e),
         stack' = Visited(d, more),
         UNCHANGED <<project, query, todo, found, memo, result>>
  PROVE  SoundInv'
<1>1. stack \in Seq(Frame) /\ d \in File /\ Depth \in Nat \ {0} /\ Top = stack[Depth]
      /\ Top.file \in File
  BY TopShape DEF TypeInv, TypeOK
<1>2. /\ Depth' = Depth /\ stack'[Depth].file = Top.file
      /\ stack'[Depth].left = Top.left \ {d}
      /\ stack'[Depth].importers = Top.importers \cup {d} \cup more
      /\ \A i \in 1 .. Depth - 1 : stack'[i] = stack[i]
  BY <1>1, VisitedShape DEF Depth
<1>3. Top.left \subseteq Direct(Top.file)
  BY <1>1 DEF SoundInv
<1>4. \A e \in stack'[Depth].importers : e \notin Shadows(Top.file) => Top.file \in Imported(e)
  BY <1>1, <1>2, <1>3, ImporterLeads, ChainLeads DEF SoundInv, TypeInv
<1>5. ASSUME NEW i \in 1 .. Depth
      PROVE  /\ stack'[i].left \subseteq Direct(stack'[i].file)
             /\ i = 1 => stack'[i].file \in ToCheck
             /\ i > 1 => stack'[i].file \in Direct(stack'[i - 1].file)
             /\ \A e \in stack'[i].importers :
                  e \notin Shadows(stack'[i].file) => stack'[i].file \in Imported(e)
  <2>1. stack'[i].file = stack[i].file /\ (i > 1 => stack'[i - 1].file = stack[i - 1].file)
    BY <1>1, <1>2
  <2>2. CASE i = Depth
    BY <1>1, <1>2, <1>3, <1>4, <2>1, <2>2 DEF SoundInv
  <2>3. CASE i # Depth
    BY <1>1, <1>2, <2>1, <2>3 DEF SoundInv
  <2> QED BY <2>2, <2>3
<1> QED BY <1>2, <1>5, SameIndex DEF SoundInv

LEMMA NewCallKeepsSound ==
  ASSUME TypeInv, SoundInv, NEW d \in File, VisitNew(d)
  PROVE  SoundInv'
<1>1. /\ stack \in Seq(Frame) /\ stack # <<>> /\ d \in Top.left /\ Depth \in Nat \ {0}
      /\ Top = stack[Depth] /\ Top.file \in File /\ Enter(d) \in Frame
      /\ stack' = Append(Visited(d, {}), Enter(d))
  BY EnterShape, TopShape DEF VisitNew, Searching, TypeInv, TypeOK
<1>2. /\ Depth' = Depth + 1
      /\ stack'[Depth + 1] = Enter(d)
      /\ \A i \in 1 .. Depth : stack'[i] = Visited(d, {})[i]
  BY <1>1, VisitedShape DEF Depth
<1>3. /\ stack'[Depth].file = Top.file
      /\ stack'[Depth].left = Top.left \ {d}
      /\ stack'[Depth].importers = Top.importers \cup {d}
      /\ \A i \in 1 .. Depth - 1 : stack'[i] = stack[i]
  BY <1>1, <1>2, VisitedShape
<1>4. Depth \in Nat \ {0} /\ \A i \in 1 .. Depth : stack'[i].file = stack[i].file
  <2>1. Depth \in Nat \ {0} /\ Top = stack[Depth]
    BY <1>1
  <2>2. ASSUME NEW i \in 1 .. Depth PROVE stack'[i].file = stack[i].file
    <3>1. i = Depth \/ i \in 1 .. Depth - 1
      BY <2>1
    <3> QED BY <3>1, <2>1, <1>3
  <2> QED BY <2>1, <2>2
<1>5. Top = stack[Depth] /\ Top.file \in File /\ d \in Direct(Top.file)
      /\ Top.left \subseteq Direct(Top.file)
  BY <1>1 DEF SoundInv
<1>6. d \notin Shadows(Top.file) => Top.file \in Imported(d)
  BY <1>5, ImporterLeads DEF TypeInv
<1> DEFINE Sound(i) ==
             /\ stack'[i].left \subseteq Direct(stack'[i].file)
             /\ i = 1 => stack'[i].file \in ToCheck
             /\ i > 1 => stack'[i].file \in Direct(stack'[i - 1].file)
             /\ \A e \in stack'[i].importers :
                  e \notin Shadows(stack'[i].file) => stack'[i].file \in Imported(e)
<1>7. Sound(Depth + 1)
  <2>1. /\ stack'[Depth + 1].file = d /\ stack'[Depth + 1].left = Direct(d)
        /\ stack'[Depth + 1].importers = Implicit(d)
        /\ stack'[(Depth + 1) - 1].file = Top.file
    BY <1>2, <1>3, <1>4 DEF Enter
  <2>2. \A e \in Implicit(d) : e \notin Shadows(d) => d \in Imported(e)
    BY ImporterLeads DEF TypeInv
  <2> QED BY <1>4, <1>5, <2>1, <2>2
<1>8. Sound(Depth)
  <2>1. stack'[Depth].file \in Direct(stack'[Depth - 1].file) \/ Depth = 1
    BY <1>4, <1>5 DEF SoundInv
  <2>2. Depth = 1 => stack'[Depth].file \in ToCheck
    BY <1>4 DEF SoundInv
  <2>3. \A e \in Top.importers : e \notin Shadows(Top.file) => Top.file \in Imported(e)
    BY <1>4, <1>5 DEF SoundInv
  <2> QED BY <1>3, <1>4, <1>5, <1>6, <2>1, <2>2, <2>3
<1>9. ASSUME NEW i \in 1 .. Depth - 1 PROVE Sound(i)
  <2>1. i \in 1 .. Depth /\ stack'[i] = stack[i]
        /\ (i > 1 => i - 1 \in 1 .. Depth - 1 /\ stack'[i - 1] = stack[i - 1])
    BY <1>3, <1>4
  <2> QED BY <2>1 DEF SoundInv
<1> HIDE DEF Sound
<1>10. \A i \in 1 .. Depth + 1 : Sound(i)
  <2>1. \A i \in 1 .. Depth + 1 : i = Depth + 1 \/ i = Depth \/ i \in 1 .. Depth - 1
    BY <1>4
  <2> QED BY <2>1, <1>7, <1>8, <1>9
<1>11. UNCHANGED <<project, query, todo, found, memo, result>>
  BY DEF VisitNew
<1>12. /\ ToCheck' = ToCheck
       /\ \A e : Imported(e)' = Imported(e) /\ (Reported(e)' <=> Reported(e))
       /\ \A f : Direct(f)' = Direct(f) /\ Shadows(f)' = Shadows(f)
  BY <1>11, SameIndex
<1>13. ASSUME NEW i \in 1 .. Depth'
       PROVE  (/\ stack[i].left \subseteq Direct(stack[i].file)
               /\ i = 1 => stack[i].file \in ToCheck
               /\ i > 1 => stack[i].file \in Direct(stack[i - 1].file)
               /\ \A e \in stack[i].importers :
                    e \notin Shadows(stack[i].file) => stack[i].file \in Imported(e))'
  <2>1. Sound(i)
    BY <1>2, <1>10
  <2> QED BY <1>11, <1>12, <2>1 DEF Sound, Direct, Shadows
<1>14. /\ todo' \subseteq ToCheck' /\ result' \subseteq found'
       /\ \A e \in found' : Reported(e)'
       /\ \A f \in DOMAIN memo' : \A e \in memo'[f] : f \in Imported(e)'
  BY <1>11, <1>12 DEF SoundInv
<1> QED BY <1>13, <1>14 DEF SoundInv

(* What a call returns leads to its file. *)
LEMMA RetainedLeads ==
  ASSUME TypeInv, SoundInv, stack # <<>>
  PROVE  /\ \A e \in Retain(Top) : Top.file \in Imported(e)
         /\ \A f \in DOMAIN Memoized(Retain(Top)) :
              \A e \in Memoized(Retain(Top))[f] : f \in Imported(e)
         /\ Retain(Top) \in SUBSET File
<1>1. Depth \in Nat \ {0} /\ Top = stack[Depth] /\ Top.importers \subseteq File
  BY TopShape DEF TypeInv, TypeOK
<1>2. \A e \in Retain(Top) : Top.file \in Imported(e)
  BY <1>1 DEF Retain, SoundInv
<1> QED BY <1>1, <1>2 DEF Memoized, SoundInv, Retain

LEMMA LeaveKeepsSound ==
  ASSUME TypeInv, SoundInv, Leave
  PROVE  SoundInv'
<1>1. /\ stack \in Seq(Frame) /\ stack # <<>> /\ Depth \in Nat /\ Depth > 1
      /\ Top = stack[Depth] /\ Retain(Top) \in SUBSET File
      /\ stack' = Collected(Retain(Top)) /\ memo' = Memoized(Retain(Top))
  BY TopShape, RetainedLeads DEF Leave, Searching, TypeInv, TypeOK
<1> DEFINE n == Depth - 1
<1>2. /\ Depth' = n /\ n \in 1 .. Depth /\ n # Depth
      /\ stack'[n].file = stack[n].file /\ stack'[n].left = stack[n].left
      /\ stack'[n].importers = stack[n].importers \cup Retain(Top)
      /\ \A i \in 1 .. n - 1 : stack'[i] = stack[i]
  <2>1. /\ Len(stack') = Depth - 1
        /\ stack'[Depth - 1].file = stack[Depth - 1].file
        /\ stack'[Depth - 1].left = stack[Depth - 1].left
        /\ stack'[Depth - 1].importers = stack[Depth - 1].importers \cup Retain(Top)
        /\ \A i \in 1 .. Depth - 2 : stack'[i] = stack[i]
    BY <1>1, CollectedShape
  <2>2. Depth' = n /\ n \in 1 .. Depth /\ n # Depth /\ 1 .. n - 1 = 1 .. Depth - 2
    BY <1>1, <2>1 DEF Depth
  <2> QED BY <2>1, <2>2
<1>3. stack[n].file \in File /\ Top.file \in Direct(stack[n].file)
  <2>1. stack[n] \in Frame
    BY <1>1, <1>2 DEF Depth
  <2> QED BY <1>1, <1>2, <2>1 DEF SoundInv, Frame
<1>4. \A e \in stack'[n].importers :
         e \notin Shadows(stack[n].file) => stack[n].file \in Imported(e)
  <2>1. \A e \in Retain(Top) : Top.file \in Imported(e)
    BY <1>1, RetainedLeads
  <2>2. \A e \in stack[n].importers :
           e \notin Shadows(stack[n].file) => stack[n].file \in Imported(e)
    BY <1>2 DEF SoundInv
  <2>3. ASSUME NEW e \in Retain(Top), e \notin Shadows(stack[n].file)
        PROVE  stack[n].file \in Imported(e)
    BY <1>1, <1>3, <2>1, <2>3, ChainLeads DEF TypeInv
  <2> QED BY <1>2, <2>2, <2>3
<1> HIDE DEF n
<1>5. ASSUME NEW i \in 1 .. n
      PROVE  /\ stack'[i].left \subseteq Direct(stack'[i].file)
             /\ i = 1 => stack'[i].file \in ToCheck
             /\ i > 1 => stack'[i].file \in Direct(stack'[i - 1].file)
             /\ \A e \in stack'[i].importers :
                  e \notin Shadows(stack'[i].file) => stack'[i].file \in Imported(e)
  <2>1. stack'[i].file = stack[i].file /\ (i > 1 => stack'[i - 1].file = stack[i - 1].file)
        /\ i \in 1 .. Depth
    BY <1>1, <1>2
  <2>2. CASE i = n
    BY <1>1, <1>2, <1>4, <2>1, <2>2 DEF SoundInv
  <2>3. CASE i # n
    <3>1. stack'[i] = stack[i]
      BY <1>1, <1>2, <2>3
    <3>2. /\ stack[i].left \subseteq Direct(stack[i].file)
          /\ i = 1 => stack[i].file \in ToCheck
          /\ i > 1 => stack[i].file \in Direct(stack[i - 1].file)
          /\ \A e \in stack[i].importers :
               e \notin Shadows(stack[i].file) => stack[i].file \in Imported(e)
      BY <2>1 DEF SoundInv
    <3> QED BY <2>1, <3>1, <3>2
  <2> QED BY <2>2, <2>3
<1>6. \A f \in DOMAIN memo' : \A e \in memo'[f] : f \in Imported(e)
  BY <1>1, RetainedLeads
<1> QED BY <1>2, <1>5, <1>6, SameIndex DEF SoundInv, Leave

(* The files that lead from a target are reported. *)
LEMMA LeadingIsReported ==
  ASSUME TypeInv, NEW f \in ToCheck, NEW files \in SUBSET File,
         \A e \in files : f \in Imported(e)
  PROVE  \A e \in Canonical(files) : Reported(e)
BY DEF Canonical, Reported

LEMMA NextKeepsSound == TypeInv /\ SoundInv /\ [Next]_vars => SoundInv'
<1> SUFFICES ASSUME TypeInv, SoundInv, [Next]_vars PROVE SoundInv'
  OBVIOUS
<1>1. CASE Refuse \/ Begin \/ Done \/ UNCHANGED vars
  <2>1. project' = project /\ query' = query /\ stack' = stack /\ memo' = memo /\ found' = found
        /\ todo' \subseteq ToCheck /\ result' \subseteq found'
    BY <1>1 DEF Refuse, Begin, Done, vars, SoundInv
  <2> QED BY <2>1, SameIndex DEF SoundInv, Depth
<1>2. ASSUME NEW f \in File, PickKnown(f) PROVE SoundInv'
  <2>1. /\ f \in ToCheck /\ memo[f] \in SUBSET File /\ \A e \in memo[f] : f \in Imported(e)
        /\ stack' = stack /\ stack = <<>>
    BY <1>2 DEF PickKnown, Returned, SoundInv, TypeInv, TypeOK
  <2>2. \A e \in found' : Reported(e)
    BY <1>2, <2>1, LeadingIsReported DEF PickKnown, SoundInv, Reported
  <2>3. Depth' = 0
    BY <2>1 DEF Depth
  <2> QED BY <1>2, <2>2, <2>3, SameIndex DEF PickKnown, SoundInv
<1>3. ASSUME NEW f \in File, PickNew(f) PROVE SoundInv'
  <2>1. f \in ToCheck /\ stack' = <<Enter(f)>>
    BY <1>3 DEF PickNew, SoundInv
  <2>2. /\ Depth' = 1 /\ stack'[1].file = f /\ stack'[1].left = Direct(f)
        /\ stack'[1].importers = Implicit(f)
    BY <2>1 DEF Depth, Enter
  <2>3. \A e \in Implicit(f) : e \notin Shadows(f) => f \in Imported(e)
    BY ImporterLeads DEF TypeInv
  <2>4. \A e \in found' : Reported(e)
    BY <1>3, <2>1 DEF PickNew, SoundInv, Reported
  <2> QED BY <1>3, <2>1, <2>2, <2>3, <2>4, SameIndex DEF PickNew, SoundInv
<1>4. ASSUME NEW d \in File, VisitCycle(d) PROVE SoundInv'
  BY <1>4, VisitKeepsSound DEF VisitCycle, Searching
<1>5. ASSUME NEW d \in File, VisitKnown(d) PROVE SoundInv'
  <2>1. memo[d] \in SUBSET File /\ \A e \in memo[d] : d \in Imported(e)
    BY <1>5 DEF VisitKnown, TypeInv, TypeOK, SoundInv
  <2> QED BY <1>5, <2>1, VisitKeepsSound DEF VisitKnown, Searching
<1>6. ASSUME NEW d \in File, VisitNew(d) PROVE SoundInv'
  BY <1>6, NewCallKeepsSound
<1>7. CASE Leave
  BY <1>7, LeaveKeepsSound
<1>8. CASE Return
  <2>1. /\ stack # <<>> /\ stack' = <<>> /\ memo' = Memoized(Retain(Top))
        /\ found' = found \cup Canonical(Retain(Top)) /\ Top.file \in ToCheck
    BY <1>8 DEF Return, Searching, Top, SoundInv
  <2>2. \A e \in found' : Reported(e)
    BY <2>1, RetainedLeads, LeadingIsReported DEF SoundInv
  <2>3. Depth' = 0
    BY <2>1 DEF Depth
  <2>4. \A f \in DOMAIN memo' : \A e \in memo'[f] : f \in Imported(e)
    BY <2>1, RetainedLeads
  <2> QED BY <1>8, <2>1, <2>2, <2>3, <2>4, SameIndex DEF Return, SoundInv
<1> QED BY <1>1, <1>2, <1>3, <1>4, <1>5, <1>6, <1>7, <1>8 DEF Next

(* Whatever was memoized under whichever chain, what is reported is a target
   or imports one.  (importers_of, find_importers.) *)
THEOREM OnlyImporters == Spec => []OnlyImportersAreFound
<1>1. SoundInv => OnlyImportersAreFound
  BY DEF SoundInv, OnlyImportersAreFound, Reported
<1> QED BY <1>1, InitSound, NextKeepsSound, AlwaysTyped, PTL DEF Spec

-----------------------------------------------------------------------------
(* Where nothing is shadowed, every importer is reported.                  *)

LEMMA InitFull == Init => FullInv
BY DEF Init, FullInv, Depth

(* What each call keeps true of its own frame. *)
FrameInv(i) ==
  /\ Direct(stack[i].file) \cup Implicit(stack[i].file) \subseteq stack[i].importers \cup stack[i].left
  /\ Direct(stack[i].file) \ stack[i].left \subseteq Entered

(* A step after which no file is less entered or less gathered, and that lets
   no file into the memo. *)
LEMMA FullGrows ==
  ASSUME FullInv, UNCHANGED <<project, query, phase, memo>>, phase # "done",
         Entered \subseteq Entered',
         \A e : Gathered(e) => Gathered(e)',
         todo \subseteq todo' \cup Entered',
         chain' \subseteq Entered',
         \A i \in 1 .. Depth' : FrameInv(i)'
  PROVE  FullInv'
<1>1. ToCheck' = ToCheck /\ \A f : Direct(f)' = Direct(f) /\ Implicit(f)' = Implicit(f)
  BY SameIndex
<1> QED BY <1>1 DEF FullInv, FrameInv

LEMMA VisitKeepsFull ==
  ASSUME TypeInv, FullInv, stack # <<>>, phase # "done", NEW d \in Top.left,
         d \in Entered, NEW more \in SUBSET File,
         stack' = Visited(d, more),
         UNCHANGED <<project, query, phase, todo, found, memo>>,
         chain' \subseteq chain \cup {d}
  PROVE  FullInv'
<1>1. Depth \in Nat \ {0} /\ Top = stack[Depth] /\ d \in File /\ stack \in Seq(Frame)
  BY TopShape DEF TypeInv, TypeOK
<1>2. /\ Depth' = Depth
      /\ stack'[Depth].file = Top.file
      /\ stack'[Depth].left = Top.left \ {d}
      /\ stack'[Depth].importers = Top.importers \cup {d} \cup more
      /\ \A i \in 1 .. Depth - 1 : stack'[i] = stack[i]
  BY <1>1, VisitedShape DEF Depth
<1>3. ASSUME NEW i \in 1 .. Depth
      PROVE  /\ stack'[i].file = stack[i].file
             /\ stack[i].importers \subseteq stack'[i].importers
  <2>1. i = Depth \/ i \in 1 .. Depth - 1
    BY <1>1
  <2> QED BY <1>1, <1>2, <2>1
<1>4. Entered' = Entered
  BY <1>2, <1>3 DEF Entered
<1>5. \A e : Gathered(e) => Gathered(e)'
  BY <1>2, <1>3 DEF Gathered
<1>6. ASSUME NEW i \in 1 .. Depth PROVE FrameInv(i)'
  <2>1. FrameInv(i)
    BY DEF FullInv, FrameInv
  <2>2. CASE i = Depth
    BY <1>1, <1>2, <1>4, <2>1, <2>2 DEF FrameInv, Direct, Implicit
  <2>3. CASE i \in 1 .. Depth - 1
    BY <1>2, <1>4, <2>1, <2>3 DEF FrameInv, Direct, Implicit
  <2> QED BY <1>1, <2>2, <2>3
<1>7. chain' \subseteq Entered'
  BY <1>4 DEF FullInv
<1> QED BY <1>2, <1>4, <1>5, <1>6, <1>7, FullGrows

LEMMA NewCallKeepsFull ==
  ASSUME TypeInv, FullInv, NEW d \in File, VisitNew(d)
  PROVE  FullInv'
<1>1. /\ stack \in Seq(Frame) /\ stack # <<>> /\ Depth \in Nat \ {0} /\ Top = stack[Depth]
      /\ Enter(d) \in Frame /\ stack' = Append(Visited(d, {}), Enter(d))
      /\ UNCHANGED <<project, query, phase, todo, found, memo>> /\ phase # "done"
      /\ chain' = chain \cup {d}
  BY EnterShape, TopShape DEF VisitNew, Searching, TypeInv, TypeOK
<1>2. /\ Depth' = Depth + 1
      /\ stack'[Depth + 1] = Enter(d)
      /\ \A i \in 1 .. Depth : stack'[i] = Visited(d, {})[i]
  BY <1>1, VisitedShape DEF Depth
<1>3. /\ stack'[Depth].file = Top.file
      /\ stack'[Depth].left = Top.left \ {d}
      /\ stack'[Depth].importers = Top.importers \cup {d}
      /\ \A i \in 1 .. Depth - 1 : stack'[i] = stack[i]
  BY <1>1, <1>2, VisitedShape
<1>4. /\ stack'[Depth + 1].file = d /\ stack'[Depth + 1].left = Direct(d)
      /\ stack'[Depth + 1].importers = Implicit(d)
  BY <1>2 DEF Enter
<1>5. Depth \in Nat \ {0} /\ Top = stack[Depth]
  BY <1>1
<1>6. ASSUME NEW i \in 1 .. Depth
      PROVE  /\ stack'[i].file = stack[i].file
             /\ stack[i].importers \subseteq stack'[i].importers
  <2>1. i = Depth \/ i \in 1 .. Depth - 1
    BY <1>5
  <2> QED BY <1>3, <1>5, <2>1
<1>7. Depth + 1 \in 1 .. Depth' /\ \A i \in 1 .. Depth : i \in 1 .. Depth'
  BY <1>2, <1>5
<1>8. Entered \subseteq Entered' /\ d \in Entered'
  BY <1>1, <1>4, <1>6, <1>7 DEF Entered
<1>9. \A e : Gathered(e) => Gathered(e)'
  BY <1>1, <1>6, <1>7 DEF Gathered
<1>10. ASSUME NEW i, i = Depth + 1 PROVE FrameInv(i)'
  BY <1>1, <1>4, <1>10 DEF FrameInv, Direct, Implicit
<1>11. ASSUME NEW i \in 1 .. Depth PROVE FrameInv(i)'
  <2>1. FrameInv(i) /\ project' = project
    BY <1>1 DEF FullInv, FrameInv
  <2>2. CASE i = Depth
    BY <1>3, <1>5, <1>8, <2>1, <2>2 DEF FrameInv, Direct, Implicit
  <2>3. CASE i \in 1 .. Depth - 1
    BY <1>3, <1>8, <2>1, <2>3 DEF FrameInv, Direct, Implicit
  <2> QED BY <1>5, <2>2, <2>3
<1>12. chain' \subseteq Entered'
  BY <1>1, <1>8 DEF FullInv
<1>13. \A i \in 1 .. Depth' : FrameInv(i)'
  <2>1. \A i \in 1 .. Depth' : i = Depth + 1 \/ i \in 1 .. Depth
    BY <1>2, <1>5
  <2> QED BY <2>1, <1>10, <1>11
<1> QED BY <1>1, <1>8, <1>9, <1>12, <1>13, FullGrows

(* A file that is left goes to the memo, and what it collected to its caller. *)
LEMMA LeaveKeepsFull ==
  ASSUME TypeInv, FullInv, NothingIsShadowed, Leave
  PROVE  FullInv'
<1>1. /\ stack \in Seq(Frame) /\ stack # <<>> /\ Depth \in Nat /\ Depth > 1
      /\ Top = stack[Depth] /\ Top.file \in File /\ Top.importers \subseteq File
      /\ Top.left = {} /\ phase # "done"
      /\ UNCHANGED <<project, query, phase, todo, found, chain>>
  BY TopShape DEF Leave, Searching, TypeInv, TypeOK
<1>2. Retain(Top) = Top.importers
  BY <1>1 DEF NothingIsShadowed, Retain
<1>3. /\ stack' = Collected(Top.importers)
      /\ DOMAIN memo' = DOMAIN memo \cup {Top.file}
  BY <1>2 DEF Leave, Memoized
<1>4. PICK n : n = Depth - 1
  OBVIOUS
<1>5. n \in Nat \ {0} /\ Depth = n + 1 /\ n \in 1 .. Depth
  BY <1>1, <1>4
<1>6. /\ Depth' = n
      /\ stack'[n].file = stack[n].file /\ stack'[n].left = stack[n].left
      /\ stack'[n].importers = stack[n].importers \cup Top.importers
      /\ \A i \in 1 .. n - 1 : stack'[i] = stack[i]
  BY <1>1, <1>3, <1>4, CollectedShape DEF Depth
<1>7. ASSUME NEW i \in 1 .. n
      PROVE  /\ stack'[i].file = stack[i].file /\ stack'[i].left = stack[i].left
             /\ stack[i].importers \subseteq stack'[i].importers
             /\ i \in 1 .. Depth
  <2>1. i = n \/ i \in 1 .. n - 1
    BY <1>5
  <2> QED BY <2>1, <1>5, <1>6
<1>8. \A i \in 1 .. Depth : i \in 1 .. n \/ stack[i] = Top
  BY <1>1, <1>5
<1>9. Entered' = Entered
  BY <1>1, <1>3, <1>6, <1>7, <1>8 DEF Entered
<1>10. \A e : Gathered(e) => Gathered(e)'
  <2> SUFFICES ASSUME NEW e, Gathered(e) PROVE Gathered(e)'
    OBVIOUS
  <2>1. CASE project.canonical[e] \in found
    BY <2>1, <1>1 DEF Gathered
  <2>2. ASSUME NEW i \in 1 .. n, e \in stack[i].importers PROVE Gathered(e)'
    BY <2>2, <1>6, <1>7 DEF Gathered
  <2>3. CASE e \in Top.importers
    BY <2>3, <1>5, <1>6 DEF Gathered
  <2> QED BY <2>1, <2>2, <2>3, <1>8 DEF Gathered
<1>11. \A e \in Direct(Top.file) \cup Implicit(Top.file) : e \in Top.importers
  BY <1>1 DEF FullInv
<1>12. ASSUME NEW f \in DOMAIN memo'
       PROVE  /\ Direct(f) \subseteq Entered'
              /\ \A e \in Direct(f) \cup Implicit(f) : Gathered(e)'
  <2>1. CASE f \in DOMAIN memo
    BY <2>1, <1>9, <1>10 DEF FullInv
  <2>2. CASE f = Top.file
    <3>1. Direct(f) \subseteq Entered
      BY <2>2, <1>1 DEF FullInv
    <3>2. \A e \in Direct(f) \cup Implicit(f) : Gathered(e)
      BY <2>2, <1>1, <1>11 DEF Gathered
    <3> QED BY <3>1, <3>2, <1>9, <1>10
  <2> QED BY <2>1, <2>2, <1>3
<1>13. ASSUME NEW i \in 1 .. n PROVE FrameInv(i)'
  <2>1. FrameInv(i)
    BY <1>7 DEF FullInv, FrameInv
  <2> QED BY <2>1, <1>1, <1>7, <1>9 DEF FrameInv, Direct, Implicit
<1>14. /\ ToCheck' = ToCheck
       /\ \A f : Direct(f)' = Direct(f) /\ Implicit(f)' = Implicit(f)
  BY <1>1, SameIndex
<1> QED BY <1>1, <1>6, <1>9, <1>12, <1>13, <1>14 DEF FullInv, FrameInv

(* The outermost call: what it collected is found. *)
LEMMA ReturnKeepsFull ==
  ASSUME TypeInv, FullInv, NothingIsShadowed, Return
  PROVE  FullInv'
<1>1. /\ stack \in Seq(Frame) /\ stack # <<>> /\ Depth = 1 /\ stack' = <<>>
      /\ Top = stack[1] /\ Top.file \in File /\ Top.importers \subseteq File
      /\ Top.left = {} /\ phase # "done"
      /\ UNCHANGED <<project, query, phase, todo, chain>>
  BY TopShape DEF Return, Searching, TypeInv, TypeOK
<1>2. Retain(Top) = Top.importers
  BY <1>1 DEF NothingIsShadowed, Retain
<1>3. /\ found' = found \cup Canonical(Top.importers)
      /\ DOMAIN memo' = DOMAIN memo \cup {Top.file}
      /\ Depth' = 0
  BY <1>1, <1>2 DEF Return, Memoized, Depth
<1>4. Entered' = Entered
  BY <1>1, <1>3 DEF Entered
<1>5. \A e : Gathered(e) => Gathered(e)'
  BY <1>1, <1>3 DEF Gathered, Canonical
<1>6. \A e \in Direct(Top.file) \cup Implicit(Top.file) : e \in Top.importers
  BY <1>1 DEF FullInv
<1>7. ASSUME NEW f \in DOMAIN memo'
      PROVE  /\ Direct(f) \subseteq Entered'
             /\ \A e \in Direct(f) \cup Implicit(f) : Gathered(e)'
  <2>1. CASE f \in DOMAIN memo
    BY <2>1, <1>4, <1>5 DEF FullInv
  <2>2. CASE f = Top.file
    <3>1. Direct(f) \subseteq Entered
      BY <2>2, <1>1 DEF FullInv
    <3>2. \A e \in Direct(f) \cup Implicit(f) : Gathered(e)
      BY <2>2, <1>1, <1>6 DEF Gathered
    <3> QED BY <3>1, <3>2, <1>4, <1>5
  <2> QED BY <2>1, <2>2, <1>3
<1>8. /\ ToCheck' = ToCheck
      /\ \A f : Direct(f)' = Direct(f) /\ Implicit(f)' = Implicit(f)
  BY <1>1, SameIndex
<1> QED BY <1>1, <1>3, <1>4, <1>7, <1>8 DEF FullInv

LEMMA NextKeepsFull ==
  TypeInv /\ (NothingIsShadowed => FullInv) /\ [Next]_vars => (NothingIsShadowed => FullInv)'
<1> SUFFICES ASSUME TypeInv, NothingIsShadowed => FullInv, [Next]_vars, NothingIsShadowed'
             PROVE  FullInv'
  OBVIOUS
<1>1. project' = project /\ query' = query
  BY DEF Next, vars, Refuse, Begin, PickKnown, PickNew, VisitCycle, VisitKnown, VisitNew,
         Leave, Return, Done
<1>2. NothingIsShadowed
  BY <1>1 DEF NothingIsShadowed, Shadows
<1>3. /\ ToCheck' = ToCheck
      /\ \A f : Direct(f)' = Direct(f) /\ Implicit(f)' = Implicit(f)
  BY <1>1, SameIndex
<1>4. FullInv
  BY <1>2
<1>5. ASSUME UNCHANGED <<stack, memo, found, chain>>
      PROVE  Entered' = Entered /\ Depth' = Depth /\ \A e : Gathered(e)' <=> Gathered(e)
  BY <1>1, <1>5 DEF Entered, Depth, Gathered
<1>6. CASE Refuse \/ UNCHANGED vars
  BY <1>3, <1>4, <1>5, <1>6 DEF Refuse, vars, FullInv
<1>7. CASE Begin
  BY <1>3, <1>4, <1>5, <1>7 DEF Begin, FullInv
<1>8. CASE Done
  BY <1>1, <1>3, <1>4, <1>5, <1>8 DEF Done, Returned, FullInv
<1>9. ASSUME NEW f \in File, PickKnown(f) PROVE FullInv'
  <2>1. stack' = stack /\ memo' = memo /\ found \subseteq found' /\ Depth' = 0 /\ Depth = 0
    BY <1>9 DEF PickKnown, Returned, Depth
  <2>2. Entered' = Entered /\ \A e : Gathered(e) => Gathered(e)'
    BY <1>1, <2>1 DEF Entered, Gathered, Depth
  <2>3. f \in Entered
    BY <1>9 DEF PickKnown, Entered
  <2> QED BY <1>1, <1>4, <1>9, <2>1, <2>2, <2>3, FullGrows DEF PickKnown, Returned
<1>10. ASSUME NEW f \in File, PickNew(f) PROVE FullInv'
  <2>1. stack' = <<Enter(f)>> /\ memo' = memo /\ found \subseteq found' /\ stack = <<>>
    BY <1>10 DEF PickNew, Returned
  <2>2. /\ Depth' = 1 /\ Depth = 0 /\ stack'[1].file = f
        /\ stack'[1].left = Direct(f) /\ stack'[1].importers = Implicit(f)
    BY <2>1 DEF Depth, Enter
  <2>3. Entered \subseteq Entered' /\ f \in Entered'
    BY <2>1, <2>2 DEF Entered
  <2>4. \A e : Gathered(e) => Gathered(e)'
    BY <1>1, <2>1, <2>2 DEF Gathered
  <2>5. ASSUME NEW i \in 1 .. Depth' PROVE FrameInv(i)'
    <3>1. i = 1
      BY <2>2
    <3> QED BY <1>1, <2>2, <3>1 DEF FrameInv, Direct, Implicit
  <2> QED BY <1>1, <1>4, <1>10, <2>1, <2>3, <2>4, <2>5, FullGrows DEF PickNew, Returned
<1>11. ASSUME NEW d \in File, VisitCycle(d) PROVE FullInv'
  BY <1>4, <1>11, VisitKeepsFull DEF VisitCycle, Searching, FullInv
<1>12. ASSUME NEW d \in File, VisitKnown(d) PROVE FullInv'
  <2>1. memo[d] \in SUBSET File /\ d \in Entered
    BY <1>12 DEF VisitKnown, TypeInv, TypeOK, Entered
  <2> QED BY <1>4, <1>12, <2>1, VisitKeepsFull DEF VisitKnown, Searching
<1>13. ASSUME NEW d \in File, VisitNew(d) PROVE FullInv'
  BY <1>4, <1>13, NewCallKeepsFull
<1>14. CASE Leave
  BY <1>2, <1>4, <1>14, LeaveKeepsFull
<1>15. CASE Return
  BY <1>2, <1>4, <1>15, ReturnKeepsFull
<1> QED BY <1>6, <1>7, <1>8, <1>9, <1>10, <1>11, <1>12, <1>13, <1>14, <1>15 DEF Next

(* The memo is closed under imports when the search ends, so that it holds
   whatever depends on a target. *)
LEMMA DependentsAreSearched ==
  ASSUME TypeInv, FullInv, phase = "done"
  PROVE  Dependents \subseteq DOMAIN memo
<1>1. Entered = DOMAIN memo /\ ToCheck \subseteq DOMAIN memo
  <2>1. Depth = 0 /\ todo = {} /\ ToCheck \subseteq todo \cup Entered
    BY DEF FullInv, Depth
  <2>2. Entered = DOMAIN memo
    BY <2>1 DEF Entered
  <2> QED BY <2>1, <2>2
<1> DEFINE files == DOMAIN memo \cap Above(File)
<1>2. files \subseteq File /\ files \in SUBSET Above(File)
  BY DEF TypeInv, TypeOK
<1>3. Above(files) \subseteq DOMAIN memo
  <2>1. \A f \in files : Direct(f) \subseteq DOMAIN memo
    BY <1>1 DEF FullInv
  <2> HIDE DEF files
  <2> QED BY <1>1, <2>1 DEF Above
<1>4. Above(files) \subseteq Above(File)
  <2> HIDE DEF files
  <2> QED BY <1>2 DEF Above
<1>5. Above(files) \subseteq files
  BY <1>3, <1>4
<1> HIDE DEF files
<1>6. Dependents \subseteq files
  BY <1>2, <1>5 DEF Dependents
<1> QED BY <1>6 DEF files

(* Where nothing is shadowed, every environment that imports a target in the
   end is reported, whatever the order of the search and the cycles, though
   what is memoized along a cycle is incomplete.  (importers_of.) *)
THEOREM EveryImporter == Spec => []EveryImporterIsFound
<1>1. TypeInv /\ (NothingIsShadowed => FullInv) => EveryImporterIsFound
  <2> SUFFICES ASSUME TypeInv, FullInv, phase = "done", NEW f \in Dependents,
                      NEW e \in Direct(f) \cup Implicit(f),
                      project.canonical[e] \in project.entrypoints
               PROVE  project.canonical[e] \in result
    BY DEF EveryImporterIsFound, Canonical
  <2>1. f \in DOMAIN memo
    BY DependentsAreSearched
  <2>2. Gathered(e) /\ Depth = 0 /\ result = found \cap project.entrypoints
    BY <2>1 DEF FullInv, Depth
  <2> QED BY <2>2 DEF Gathered
<1>2. Init => (NothingIsShadowed => FullInv)
  BY InitFull
<1> QED BY <1>1, <1>2, NextKeepsFull, AlwaysTyped, PTL DEF Spec

-----------------------------------------------------------------------------
(* Each file is searched once, and the search ends.                        *)

(* What has returned has no call. *)
OnceInv == \A i \in 1 .. Depth : stack[i].file \notin DOMAIN memo

(* Nothing that is memoized is forgotten or replaced. *)
MemoGrows ==
  \A f \in DOMAIN memo : f \in DOMAIN memo' /\ memo'[f] = memo[f]

(* Leave and Return memoize the file of the call that ends. *)
LEMMA MemoizedGrows ==
  ASSUME TypeInv, OnceInv, stack # <<>>, NEW files, memo' = Memoized(files)
  PROVE  MemoGrows /\ DOMAIN memo' = DOMAIN memo \cup {Top.file}
<1>1. Top.file \notin DOMAIN memo
  BY TopShape DEF OnceInv, TypeInv, TypeOK
<1>. QED  BY <1>1 DEF MemoGrows, Memoized

LEMMA NextKeepsOnce == TypeInv /\ OnceInv /\ [Next]_vars => OnceInv' /\ MemoGrows
<1> SUFFICES ASSUME TypeInv, OnceInv, [Next]_vars PROVE OnceInv' /\ MemoGrows
  OBVIOUS
<1>0. stack \in Seq(Frame) /\ (stack # <<>> => Depth \in Nat \ {0})
  BY TopShape DEF TypeInv, TypeOK
<1>1. CASE Refuse \/ Begin \/ Done \/ (\E f \in File : PickKnown(f)) \/ UNCHANGED vars
  BY <1>1 DEF Refuse, Begin, Done, PickKnown, vars, OnceInv, MemoGrows, Depth
<1>2. ASSUME NEW f \in File, PickNew(f) PROVE OnceInv' /\ MemoGrows
  <2>1. stack' = <<Enter(f)>> /\ Enter(f).file = f /\ f \notin DOMAIN memo /\ memo' = memo
    BY <1>2 DEF PickNew, Enter
  <2>2. Depth' = 1 /\ stack'[1].file = f
    BY <2>1 DEF Depth
  <2>. QED  BY <2>1, <2>2 DEF OnceInv, MemoGrows
<1>3. ASSUME NEW d \in File, VisitCycle(d) \/ VisitKnown(d) PROVE OnceInv' /\ MemoGrows
  <2>1. PICK more \in SUBSET File : stack' = Visited(d, more)
    BY <1>3 DEF VisitCycle, VisitKnown, TypeInv, TypeOK
  <2>2. stack # <<>> /\ memo' = memo
    BY <1>3 DEF VisitCycle, VisitKnown, Searching
  <2>3. Depth' = Depth /\ \A i \in 1 .. Depth : stack'[i].file = stack[i].file
    BY <1>0, <2>1, <2>2, VisitedShape DEF Depth, Top
  <2>. QED  BY <2>2, <2>3 DEF OnceInv, MemoGrows
<1>4. ASSUME NEW d \in File, VisitNew(d) PROVE OnceInv' /\ MemoGrows
  <2>1. /\ stack # <<>> /\ memo' = memo /\ d \notin DOMAIN memo
        /\ stack' = Append(Visited(d, {}), Enter(d))
        /\ Enter(d) \in Frame /\ Enter(d).file = d
    BY <1>4, EnterShape DEF VisitNew, Searching, TypeInv, TypeOK, Enter
  <2>2. /\ Visited(d, {}) \in Seq(Frame) /\ Len(Visited(d, {})) = Depth
        /\ \A i \in 1 .. Depth : Visited(d, {})[i].file = stack[i].file
    BY <1>0, <2>1, VisitedShape DEF Top
  <2>3. /\ Depth' = Depth + 1 /\ stack'[Depth + 1] = Enter(d)
        /\ \A i \in 1 .. Depth : stack'[i] = Visited(d, {})[i]
    BY <2>1, <2>2 DEF Depth
  <2>4. ASSUME NEW i \in 1 .. Depth + 1 PROVE stack'[i].file \notin DOMAIN memo
    <3>1. CASE i = Depth + 1
      BY <2>1, <2>3, <3>1
    <3>2. CASE i # Depth + 1
      <4>1. i \in 1 .. Depth
        BY <1>0, <2>1, <3>2
      <4>. QED  BY <2>2, <2>3, <4>1 DEF OnceInv
    <3>. QED  BY <3>1, <3>2
  <2>. QED  BY <2>1, <2>3, <2>4 DEF OnceInv, MemoGrows
<1>5. CASE Leave
  <2>1. /\ stack # <<>> /\ Depth > 1 /\ Retain(Top) \in SUBSET File
        /\ stack' = Collected(Retain(Top)) /\ memo' = Memoized(Retain(Top))
    BY <1>0, <1>5, TopShape DEF Leave, Searching, Retain
  <2>2. /\ Depth' = Depth - 1
        /\ \A i \in 1 .. Depth - 1 : stack'[i].file = stack[i].file
    BY <1>0, <2>1, CollectedShape DEF Depth
  <2>3. \A i \in 1 .. Depth - 1 : i \in 1 .. Depth /\ Depth \in 1 .. Depth /\ i # Depth
    BY <1>0, <2>1
  <2>4. \A i \in 1 .. Depth - 1 : stack[i].file # Top.file
    <3>1. \A i, j \in 1 .. Depth : stack[i].file = stack[j].file => i = j
      BY DEF TypeInv, TypeOK
    <3>. QED  BY <2>3, <3>1 DEF Top
  <2>5. MemoGrows /\ DOMAIN memo' = DOMAIN memo \cup {Top.file}
    BY <2>1, MemoizedGrows
  <2>. QED  BY <2>2, <2>3, <2>4, <2>5 DEF OnceInv
<1>6. CASE Return
  <2>1. MemoGrows
    BY <1>6, MemoizedGrows DEF Return, Searching
  <2>2. Depth' = 0
    BY <1>6 DEF Return, Depth
  <2>. QED  BY <2>1, <2>2 DEF OnceInv
<1>. QED  BY <1>1, <1>2, <1>3, <1>4, <1>5, <1>6 DEF Next

(* Each file is searched at most once in a query, however often it is met and
   whatever cycles it lies on: what was memoized stays, and a file that is
   entered has no entry.  (importers_of, Search::memo.) *)
THEOREM MemoIsFinal == Spec => [][MemoGrows]_vars
<1>1. Init => OnceInv
  BY DEF Init, OnceInv, Depth
<1>2. TypeInv /\ OnceInv /\ [Next]_vars => [MemoGrows]_vars
  BY NextKeepsOnce
<1>. QED  BY <1>1, <1>2, NextKeepsOnce, AlwaysTyped, PTL DEF Spec

(* The recursion is never deeper than there are files.  (importers_of.) *)
THEOREM RecursionIsBounded == IsFiniteSet(File) => (Spec => [](Depth <= Cardinality(File)))
<1> SUFFICES ASSUME IsFiniteSet(File) PROVE Spec => [](Depth <= Cardinality(File))
  OBVIOUS
<1>1. TypeInv => Depth <= Cardinality(File)
  <2> SUFFICES ASSUME TypeInv PROVE Depth <= Cardinality(File)
    OBVIOUS
  <2>1. Depth \in Nat /\ \A i \in 1 .. Depth : stack[i].file \in File
    BY DEF TypeInv, TypeOK, Depth, Frame
  <2> DEFINE f == [i \in 1 .. Depth |-> stack[i].file]
  <2>2. f \in Injection(1 .. Depth, File)
    <3>1. f \in [1 .. Depth -> File]
      BY <2>1
    <3>2. \A i, j \in 1 .. Depth : f[i] = f[j] => i = j
      BY DEF TypeInv, TypeOK
    <3> HIDE DEF f
    <3>. QED  BY <3>1, <3>2 DEF Injection, IsInjective
  <2> HIDE DEF f
  <2>3. Cardinality(1 .. Depth) <= Cardinality(File)
    BY <2>2, FS_Injection
  <2>4. Cardinality(1 .. Depth) = Depth
    BY <2>1, FS_Interval
  <2>. QED  BY <2>3, <2>4
<1>. QED  BY <1>1, AlwaysTyped, PTL

(* A step that is one nearer to the end: the phase goes on, or a target is
   taken, or, on its behalf, a file is entered for the first time, or else a
   call has returned or has an importer less to visit. *)
Smaller(a, b) == a \subseteq b /\ a # b

Progress ==
  \/ phase = "asked" /\ phase' # "asked"
  \/ phase = "searching" /\ phase' = "done"
  \/ /\ phase' = phase
     /\ \/ Smaller(todo', todo)
        \/ /\ todo' = todo
           /\ \/ Smaller(chain, chain')
              \/ /\ chain' = chain
                 /\ \/ Depth' < Depth
                    \/ Depth' = Depth /\ Smaller(stack'[Depth].left, stack[Depth].left)

(* Every step is one nearer to the end.  What gets smaller is finite when the
   files are, so a search takes finitely many steps, for any graph of imports:
   without the guard against cycles, it could visit a file for a target time
   and again.  (importers_of.) *)
THEOREM SearchesProgress == Spec => [][Progress]_vars
<1>1. TypeInv /\ [Next]_vars => [Progress]_vars
  <2> SUFFICES ASSUME TypeInv, Next PROVE Progress
    OBVIOUS
  <2>0. stack \in Seq(Frame) /\ (stack # <<>> => Depth \in Nat \ {0})
    BY TopShape DEF TypeInv, TypeOK
  <2>1. CASE Refuse \/ Begin \/ Done
    BY <2>1 DEF Refuse, Begin, Done, Returned, Progress
  <2>2. ASSUME NEW f \in File, PickKnown(f) \/ PickNew(f) PROVE Progress
    BY <2>2 DEF PickKnown, PickNew, Progress, Smaller
  <2>3. ASSUME NEW d \in File, VisitKnown(d) \/ VisitNew(d) PROVE Progress
    BY <2>3 DEF VisitKnown, VisitNew, Progress, Smaller
  <2>4. ASSUME NEW d \in File, VisitCycle(d) PROVE Progress
    <3>1. /\ stack # <<>> /\ d \in Top.left /\ stack' = Visited(d, {})
          /\ UNCHANGED <<phase, todo, chain>>
      BY <2>4 DEF VisitCycle, Searching
    <3>2. Depth' = Depth /\ stack'[Depth].left = Top.left \ {d} /\ Top = stack[Depth]
      BY <2>0, <3>1, VisitedShape DEF Depth, Top
    <3>3. Smaller(stack'[Depth].left, stack[Depth].left)
      BY <3>1, <3>2 DEF Smaller
    <3>. QED  BY <3>1, <3>2, <3>3 DEF Progress
  <2>5. CASE Leave
    <3>1. /\ Retain(Top) \in SUBSET File /\ Depth > 1 /\ stack # <<>>
          /\ stack' = Collected(Retain(Top)) /\ UNCHANGED <<phase, todo, chain>>
      BY <2>0, <2>5, TopShape DEF Leave, Searching, Retain
    <3>2. Depth' = Depth - 1
      BY <2>0, <3>1, CollectedShape DEF Depth
    <3>. QED  BY <2>0, <3>1, <3>2 DEF Progress
  <2>6. CASE Return
    <3>1. Depth' = 0 /\ Depth = 1 /\ UNCHANGED <<phase, todo, chain>>
      BY <2>6 DEF Return, Depth
    <3>. QED  BY <3>1 DEF Progress
  <2>. QED  BY <2>1, <2>2, <2>3, <2>4, <2>5, <2>6 DEF Next
<1>. QED  BY <1>1, AlwaysTyped, PTL DEF Spec

-----------------------------------------------------------------------------
(* The two searches.                                                       *)

(* A target is left to search from or found. *)
TargetInv == phase \in {"searching", "done"} => ToCheck \subseteq todo \cup found

LEMMA NextKeepsTargets == TargetInv /\ [Next]_vars => TargetInv'
<1> SUFFICES ASSUME TargetInv, [Next]_vars PROVE TargetInv'
  OBVIOUS
<1>1. ToCheck' = ToCheck
  <2>1. project' = project /\ query' = query
    BY DEF Next, vars, Refuse, Begin, PickKnown, PickNew, VisitCycle, VisitKnown, VisitNew,
           Leave, Return, Done
  <2> QED BY <2>1, SameIndex
<1>2. CASE Refuse \/ Begin
  BY <1>1, <1>2 DEF Refuse, Begin, TargetInv
<1>3. ASSUME NEW f \in File, PickKnown(f) \/ PickNew(f) PROVE TargetInv'
  BY <1>1, <1>3 DEF PickKnown, PickNew, TargetInv
<1>4. CASE Leave \/ Return \/ Done \/ UNCHANGED vars
  BY <1>1, <1>4 DEF Leave, Return, Done, vars, Returned, Searching, TargetInv
<1>5. ASSUME NEW d \in File, VisitCycle(d) \/ VisitKnown(d) \/ VisitNew(d) PROVE TargetInv'
  BY <1>1, <1>5 DEF VisitCycle, VisitKnown, VisitNew, TargetInv
<1> QED BY <1>2, <1>3, <1>4, <1>5 DEF Next

(* What an index can retrace is searched backwards from the target to the
   environment that reaches it. *)
LEMMA RetracedIsFound ==
  ASSUME TypeInv, FullInv, TargetInv, phase = "done", Retraceable(project),
         NEW e \in project.entrypoints,
         NEW t \in query, ~t.deleted, t.file \in project.reaches[e]
  PROVE  e \in result
<1>1. /\ result = found \cap project.entrypoints
      /\ DOMAIN memo = Entered /\ ToCheck \subseteq Entered /\ ToCheck \subseteq found
  <2>1. Depth = 0 /\ todo = {} /\ ToCheck \subseteq Entered
        /\ result = found \cap project.entrypoints
    BY DEF FullInv, Depth
  <2>2. ToCheck \subseteq found
    BY <2>1 DEF TargetInv
  <2>3. Entered = DOMAIN memo
    BY <2>1 DEF Entered
  <2> QED BY <2>1, <2>2, <2>3
<1>2. t.file \in ToCheck
  <2>1. t.file \in Paths(t)
    BY DEF Retraceable, Paths
  <2> QED BY <2>1 DEF ToCheck
<1>3. CASE t.file = e
  BY <1>1, <1>2, <1>3
<1>4. CASE t.file # e
  <2> DEFINE files == {f \in project.reaches[e] : f \in DOMAIN memo => e \in result}
  <2>1. ASSUME NEW f \in DOMAIN memo, e \in Direct(f) \cup Implicit(f)
        PROVE  e \in result
    <3>1. Gathered(e) /\ Depth = 0
      BY <2>1 DEF FullInv, Depth
    <3>2. project.canonical[e] = e
      BY DEF Retraceable
    <3>. QED  BY <1>1, <3>1, <3>2 DEF Gathered
  <2>2. ASSUME NEW f \in DOMAIN memo, NEW g \in Direct(f) \cap files
        PROVE  e \in result
    <3>1. g \in DOMAIN memo
      BY <1>1, <2>2 DEF FullInv
    <3>. QED  BY <3>1
  <2>3. Retraced(project, e, files) \subseteq files
    BY <2>1, <2>2 DEF Retraced, Direct, Implicit
  <2>4. files \in SUBSET project.reaches[e]
    OBVIOUS
  <2> HIDE DEF files
  <2>5. project.reaches[e] \subseteq files \cup {e}
    BY <2>3, <2>4 DEF Retraceable
  <2>6. t.file \in files /\ t.file \in DOMAIN memo
    BY <1>1, <1>2, <1>4, <2>5
  <2>. QED  BY <2>6 DEF files
<1>. QED  BY <1>3, <1>4

(* Where both searches resolve literals alike and nothing is shadowed, an
   environment that the forward search finds to import a target is reported,
   in whatever order the memo, with its holes, was filled.  (find_importers,
   against transitive_imports.) *)
THEOREM SearchesAgree == LiteralsAgree => (Spec => []ForwardsAndBackwardsAgree)
<1> SUFFICES ASSUME LiteralsAgree PROVE Spec => []ForwardsAndBackwardsAgree
  OBVIOUS
<1> DEFINE IInv == /\ project \in Project
                   /\ TypeInv /\ TargetInv
                   /\ NothingIsShadowed => FullInv
<1>1. Init => IInv
  <2>1. Init => TargetInv /\ project \in Project
    BY DEF Init, TargetInv
  <2>. QED  BY <2>1, InitTypes, InitFull
<1>2. IInv /\ [Next]_vars => IInv'
  <2>1. [Next]_vars => project' = project
    BY DEF Next, vars, Refuse, Begin, PickKnown, PickNew, VisitCycle, VisitKnown, VisitNew,
           Leave, Return, Done
  <2>. QED  BY <2>1, NextKeepsTypes, NextKeepsTargets, NextKeepsFull
<1>3. IInv => ForwardsAndBackwardsAgree
  <2> SUFFICES ASSUME project \in Project, TypeInv, TargetInv, FullInv, phase = "done",
                      NothingIsShadowed,
                      NEW t \in query, NEW e \in project.entrypoints,
                      ~t.deleted, t.file \in project.reaches[e]
               PROVE  e \in result
    BY DEF ForwardsAndBackwardsAgree, ReachingEnvironmentsAreFound
  <2>1. Retraceable(project)
    BY DEF LiteralsAgree, NothingIsShadowed, Shadows
  <2>. QED  BY <2>1, RetracedIsFound
<1> HIDE DEF IInv
<1>. QED  BY <1>1, <1>2, <1>3, PTL DEF Spec

-----------------------------------------------------------------------------
(* Projects of plain trees.                                                *)

Tree == INSTANCE ImportPathsProofs

LEMMA PlainIsRetraceable ==
  ASSUME NEW tree, Tree!Plain(tree), Tree!Entrypoints(tree) \subseteq File,
         \A e \in Tree!Entrypoints(tree) : Tree!TransitiveImports(tree, e) \subseteq File
  PROVE  Retraceable(Tree!IndexOf(tree, File))
<1> DEFINE p == Tree!IndexOf(tree, File)
<1>1. SUFFICES ASSUME NEW e \in Tree!Entrypoints(tree)
               PROVE  /\ p.canonical[e] = e
                      /\ \A f \in p.reaches[e] : f \in p.spellings[f]
                      /\ \A files \in SUBSET p.reaches[e] :
                           Retraced(p, e, files) \subseteq files =>
                             p.reaches[e] \subseteq files \cup {e}
  BY DEF Retraceable, Tree!IndexOf
<1>2. e \in File /\ p.reaches[e] = Tree!TransitiveImports(tree, e)
  BY DEF Tree!IndexOf
<1>3. \A f : Tree!Canonical(tree, f) = f
  BY DEF Tree!Plain, Tree!Canonical
<1>4. p.canonical[e] = e
  BY <1>2, <1>3 DEF Tree!IndexOf
<1>5. ASSUME NEW f \in File
      PROVE  /\ f \in p.spellings[f]
             /\ p.direct[f] = Tree!Direct(tree, f)
             /\ p.implicit[f] = Tree!Implicit(tree, f)
  BY <1>3 DEF Tree!IndexOf, Tree!Spellings
<1>6. ASSUME NEW files \in SUBSET p.reaches[e], Retraced(p, e, files) \subseteq files
      PROVE  p.reaches[e] \subseteq files \cup {e}
  <2>1. \A f \in Tree!TransitiveImports(tree, e) :
          /\ p.direct[f] = Tree!Direct(tree, f)
          /\ p.implicit[f] = Tree!Implicit(tree, f)
    BY <1>5
  <2> HIDE DEF p
  <2>2. \A f \in Tree!TransitiveImports(tree, e) :
          e \in Tree!Direct(tree, f) \cup Tree!Implicit(tree, f)
            \/ Tree!Direct(tree, f) \cap files # {}
          => f \in files
    BY <1>2, <1>6, <2>1 DEF Retraced
  <2>. QED  BY <1>2, <2>2, Tree!ReachedIsRetraced
<1>7. \A f \in p.reaches[e] : f \in p.spellings[f]
  BY <1>2, <1>5
<1>. QED  BY <1>4, <1>6, <1>7

(* The searches agree on every project without links, without environments in
   environments, and with literals that do not reach around the import paths:
   ImportPathsProofs shows that such literals lead back.  (find_importers,
   against transitive_imports.) *)
THEOREM PlainProjectsAgree ==
  ASSUME \A p \in Project : \E tree :
           /\ p = Tree!IndexOf(tree, File)
           /\ Tree!Plain(tree) /\ Tree!Existing(tree) \subseteq File
  PROVE  Spec => []ForwardsAndBackwardsAgree
<1>1. ASSUME NEW tree, Tree!Plain(tree), Tree!Existing(tree) \subseteq File
      PROVE  Retraceable(Tree!IndexOf(tree, File))
  <2>1. Tree!Entrypoints(tree) \subseteq File
    BY <1>1 DEF Tree!Entrypoints, Tree!Existing
  <2>2. \A e \in Tree!Entrypoints(tree) : Tree!TransitiveImports(tree, e) \subseteq File
    BY <1>1 DEF Tree!TransitiveImports
  <2>. QED  BY <1>1, <2>1, <2>2, PlainIsRetraceable
<1>2. LiteralsAgree
  BY <1>1 DEF LiteralsAgree
<1>. QED  BY <1>2, SearchesAgree
=============================================================================
