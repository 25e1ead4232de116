-------------------------- MODULE ExportBulkProofs --------------------------
(***************************************************************************)
(* The safety of ExportBulk for every set of environments, every project,  *)
(* any number of workers, exports and faults.                              *)
(*                                                                         *)
(* The inductive invariant is built in layers, each proved on top of the   *)
(* ones before it: what the variables hold, how far a slot has come, what  *)
(* pruning may still do, what the disk holds.                              *)
(***************************************************************************)
EXTENDS ExportBulk, WellFoundedInduction, TLAPS

(* Only environments get past being pulled. *)
ActiveIsEnv ==
  \A i \in Slots : slot[i] \notin {"queued", "pulled", "undiscovered"} => IsEnv(i)

TypeInv == TypeOK /\ ActiveIsEnv

(* Slots are handed out in order, nothing is reconciled before every slot has
   reported, and what is returned as a success has no failed discovery. *)
OrderInv ==
  /\ \A i \in Slots : i > pulled => slot[i] = "queued"
  /\ AbortHasCause
  /\ phase \in {"pruning", "saving"} => AllReported
  /\ (Returned /\ result = "ok") =>
       AllReported /\ \A i \in Slots : slot[i] # "undiscovered"

(* A worker writes only files of the environment it holds, and only those
   that are serialized. *)
LandedInv ==
  \A i \in Slots :
    /\ landed[i] > 0 => IsEnv(i)
    /\ IsEnv(i) => landed[i] <= Len(Out(i))
    /\ slot[i] \in {"writing", "open"} =>
         landed[i] < ready[i] /\ ready[i] <= Len(Out(i))
    /\ slot[i] = "ok" => landed[i] = Len(Out(i))

(* While an export runs, and every export before it saved its index: the
   index of the last one and what this one reports account for the disk. *)
DiskInv ==
  (phase # "idle" /\ ~unrecorded) =>
    \A f \in File :
      /\ f \in removed => disk[f] = NoFile
      /\ (owner[f] # NoOwner /\ f \notin removed) => disk[f] # NoFile
      /\ f \in FilesWritten => disk[f] # NoFile
      /\ disk[f] \in Content => (owner[f] # NoOwner \/ f \in FilesWritten)

(* What pruning has left to do, and what the index in memory is. *)
PruneInv ==
  /\ phase = "exporting" => removed = {}
  /\ phase = "pruning" => superseded \subseteq Supersedes \ FilesWritten
  /\ phase = "saving" => ledger = Reindexed(removed, Claims)
  /\ (phase \in {"pruning", "saving"} /\ ~Conflict) =>
       \A f \in Supersedes \ FilesWritten :
         f \in superseded \cup removed \/ ("delete" \in Faults /\ disk[f] # NoFile)
  /\ phase = "saving" => superseded = {}

(* Slot k has written its l-th file, or has it open, or may have left it torn. *)
Touched(k, l, f) ==
  /\ Out(k)[l] = f
  /\ \/ l <= landed[k]
     \/ l = landed[k] + 1 /\ slot[k] \in {"open", "failed"}

Disputed(i, j) ==
  \E k \in {e \in Slots : IsEnv(e)} : \E l \in 1 .. Len(Out(k)) :
    <<k, l>> # <<i, j>> /\ Touched(k, l, Out(i)[j])

(* A file nobody else touched holds what its environment rendered. *)
IntactInv ==
  phase # "idle" =>
    \A i \in Slots :
      /\ \A j \in 1 .. landed[i] : disk[Out(i)[j]] = Rendered(i) \/ Disputed(i, j)
      /\ slot[i] = "open" =>
           disk[NextFile(i)] = Torn \/ Disputed(i, landed[i] + 1)

(* The same once the export has returned. *)
FaithfulInv == IntactInv /\ SuccessIsFaithful

(* Of the slots that wrote a file there is a last one. *)
LEMMA LastWriter ==
  ASSUME NEW n \in Nat, NEW W \in SUBSET (1 .. n), W # {}
  PROVE  \E i \in W : \A k \in W : k <= i
<1> DEFINE Distance == {d \in Nat : \E k \in W : d = n - k}
           Less == OpToRel(<, Nat)
<1>1. PICK k \in W : TRUE
  OBVIOUS
<1>2. n - k \in Distance
  BY <1>1
<1>3. \A x, y \in Nat : x < y => <<x, y>> \in Less
  BY DEF OpToRel
<1>4. IsWellFoundedOn(Less, Nat)
  BY NatLessThanWellFounded
<1>5. PICK d \in Distance : \A e \in Distance : <<e, d>> \notin Less
  <2> HIDE DEF Less
  <2>1. Distance \subseteq Nat /\ Distance # {}
    BY <1>2
  <2> HIDE DEF Distance
  <2> QED BY <1>4, <2>1, WFMin
<1>6. PICK i \in W : d = n - i
  OBVIOUS
<1>7. ASSUME NEW m \in W PROVE m <= i
  <2>1. n - m \in Distance
    OBVIOUS
  <2>2. ~(n - m < n - i)
    <3> HIDE DEF Less
    <3> QED BY <1>3, <1>5, <1>6, <2>1
  <2> QED BY <2>2
<1> QED BY <1>7

-----------------------------------------------------------------------------
(* The first layer: what the variables hold.                               *)

LEMMA ProjectShape ==
  ASSUME NEW p \in Project
  PROVE  /\ Len(p.found) \in Nat
         /\ \A i \in 1 .. Len(p.found) : p.found[i] \in Env \cup {Broken}
         /\ \A e \in Env : p.out[e] \in Seq(File)
<1>1. p.found \in Seq(Env \cup {Broken}) /\ p.out \in [Env -> Seq(File)]
  BY DEF Project
<1> QED BY <1>1

(* The same, for the project being exported. *)
LEMMA SlotFacts ==
  ASSUME project \in Project
  PROVE  /\ Len(project.found) \in Nat
         /\ \A i \in Slots : i \in Nat \ {0} /\ i <= Len(project.found)
         /\ \A i \in Slots : IsEnv(i) =>
              /\ Found(i) \in Env
              /\ Out(i) \in Seq(File)
              /\ Rendered(i) \in Content
              /\ IdentAt(i) \in Ident
<1>1. /\ Len(project.found) \in Nat
      /\ \A i \in 1 .. Len(project.found) : project.found[i] \in Env \cup {Broken}
      /\ \A e \in Env : project.out[e] \in Seq(File)
      /\ project.rev \in Rev
  BY ProjectShape DEF Project
<1>2. Content = Env \X Rev /\ IdentOf \in [Env -> Ident]
  BY ExportAssumption
<1> QED
  BY <1>1, <1>2 DEF Slots, IsEnv, Found, Out, Rendered, IdentAt

(* A step within an export leaves what the slots stand for alone. *)
LEMMA SameProject ==
  ASSUME project' = project
  PROVE  /\ Slots' = Slots
         /\ \A i : Found(i)' = Found(i) /\ IsEnv(i)' = IsEnv(i)
         /\ \A i : Out(i)' = Out(i) /\ Rendered(i)' = Rendered(i)
         /\ \A i : IdentAt(i)' = IdentAt(i)
BY DEF Slots, Found, IsEnv, Out, Rendered, IdentAt

LEMMA TypeInvInit == Init => TypeInv
<1> SUFFICES ASSUME Init PROVE TypeInv
  OBVIOUS
<1>1. /\ project \in Project
      /\ options \in [strategy : Strategy, skipManifest : BOOLEAN,
                      gone : SUBSET Ident]
  BY ExportAssumption DEF Init
<1>2. Len(project.found) \in Nat
  BY <1>1, SlotFacts
<1>3. DirTypeOK /\ ledger \in [File -> Ident \cup {NoOwner}]
  BY DEF Init, DirInit, DirTypeOK
<1>4. /\ slot \in [Slots -> Waiting \cup Working \cup Finished]
      /\ landed \in [Slots -> Nat] /\ ready \in [Slots -> Nat]
      /\ ActiveIsEnv
  BY DEF Init, Waiting, ActiveIsEnv
<1>5. pulled \in 0 .. Len(project.found)
  BY <1>2 DEF Init
<1> QED
  BY <1>1, <1>3, <1>4, <1>5 DEF Init, TypeInv, TypeOK

(* What an export that is starting finds. *)
LEMMA InvokeKeepsTypeInv ==
  ASSUME TypeInv, NEW p \in Projects, NEW o \in Options, Invoke(p, o),
         phase' \in {"idle", "exporting"},
         result' \in {"ok", "conflict", "discovery", "not-empty", "write",
                      "index", "crash"}
  PROVE  TypeInv'
<1>1. p \in Project /\ o \in [strategy : Strategy, skipManifest : BOOLEAN,
                              gone : SUBSET Ident]
  BY ExportAssumption
<1>2. /\ Slots' = 1 .. Len(p.found) /\ Len(p.found) \in Nat
      /\ slot' \in [Slots' -> Waiting \cup Working \cup Finished]
      /\ landed' \in [Slots' -> Nat] /\ ready' \in [Slots' -> Nat]
      /\ pulled' \in 0 .. Len(project'.found)
  BY <1>1, ProjectShape DEF Invoke, Slots, Waiting
<1>3. ActiveIsEnv'
  BY <1>2 DEF Invoke, ActiveIsEnv, Slots
<1>4. DirTypeOK' /\ ledger' \in [File -> Ident \cup {NoOwner}]
  BY DEF TypeInv, TypeOK, Invoke, DirTypeOK, dirVars
<1>5. /\ runs' \in Nat
      /\ superseded' \in SUBSET File /\ removed' \in SUBSET File
  BY DEF TypeInv, TypeOK, Invoke
<1>6. abort' \in BOOLEAN /\ unrecorded' \in BOOLEAN
  BY DEF TypeInv, TypeOK, Invoke
<1>7. /\ project' \in Project
      /\ options' \in [strategy : Strategy, skipManifest : BOOLEAN,
                       gone : SUBSET Ident]
  BY <1>1 DEF Invoke
<1> QED
  BY <1>2, <1>3, <1>4, <1>5, <1>6, <1>7 DEF TypeInv, TypeOK

(* Everything a worker does to its slot. *)
LEMMA SlotStepKeepsTypeInv ==
  ASSUME TypeInv, NEW i \in Slots, SlotStep(i)
  PROVE  TypeInv'
<1> USE SlotFacts, SameProject
    DEF TypeInv, TypeOK, ActiveIsEnv, DirTypeOK, Turn, poolUnchanged,
        pruneVars, Waiting, Working, Finished
<1>1. CASE Undiscovered(i)
  BY <1>1 DEF Undiscovered
<1>2. CASE Begin(i)
  BY <1>2 DEF Begin
<1>3. CASE Load(i)
  BY <1>3 DEF Load
<1>4. CASE LoadFails(i)
  BY <1>4 DEF LoadFails, Fail
<1>5. CASE Serialize(i)
  <2>1. ChunkEnd(i) \in Nat
    BY <1>5, ExportAssumption DEF Serialize, MoreToSerialize, ChunkEnd
  <2> QED BY <1>5, <2>1 DEF Serialize, MoreToSerialize
<1>6. CASE SerializeFails(i)
  BY <1>6 DEF SerializeFails, MoreToSerialize, Fail
<1>7. CASE Finish(i)
  BY <1>7 DEF Finish
<1>8. CASE LeaveUnchanged(i)
  BY <1>8 DEF LeaveUnchanged, Land
<1>9. CASE Truncate(i)
  BY <1>9 DEF Truncate
<1>10. CASE Complete(i)
  <2>1. Rendered(i) \in Content
    BY <1>10 DEF Complete
  <2>2. PICK bytes \in {Rendered(i), Torn} :
          disk' = [disk EXCEPT ![NextFile(i)] = bytes]
    BY <1>10 DEF Complete
  <2>3. disk' \in [File -> Content \cup {Torn, NoFile}]
    BY <2>1, <2>2
  <2>4. Land(i)
    BY <1>10 DEF Complete
  <2>5. /\ slot' \in [Slots -> Waiting \cup Working \cup Finished]
        /\ landed' \in [Slots -> Nat]
        /\ ActiveIsEnv'
    BY <1>10, <2>4 DEF Complete, Land
  <2> QED BY <2>3, <2>4, <2>5 DEF Land
<1>11. CASE WriteFails(i)
  BY <1>11 DEF WriteFails, Fail
<1> QED
  BY <1>1, <1>2, <1>3, <1>4, <1>5, <1>6, <1>7, <1>8, <1>9, <1>10, <1>11
  DEF SlotStep

LEMMA PullKeepsTypeInv ==
  ASSUME TypeInv, Pull
  PROVE  TypeInv'
<1> USE SlotFacts, SameProject DEF TypeInv, TypeOK, Pull
<1>1. pulled' \in 0 .. Len(project'.found)
  OBVIOUS
<1>2. slot' \in [Slots -> Waiting \cup Working \cup Finished] /\ ActiveIsEnv'
  BY DEF ActiveIsEnv, Working
<1> QED
  BY <1>1, <1>2 DEF DirTypeOK, dirVars, pruneVars

(* Every claim is an identifier: that of the last environment that wrote. *)
LEMMA ClaimsFacts ==
  ASSUME TypeInv
  PROVE  /\ DOMAIN Claims = FilesWritten
         /\ FilesWritten \subseteq File
         /\ \A f \in FilesWritten : \E i \in WrittenBy(f) :
              IsEnv(i) /\ Claims[f] = IdentAt(i) /\ Claims[f] \in Ident
<1>1. ASSUME NEW f \in FilesWritten
      PROVE  \E i \in WrittenBy(f) :
               IsEnv(i) /\ Claims[f] = IdentAt(i) /\ Claims[f] \in Ident
  <2> DEFINE i == CHOOSE i \in WrittenBy(f) : \A k \in WrittenBy(f) : k <= i
  <2>1. /\ WrittenBy(f) \subseteq 1 .. Len(project.found)
        /\ Len(project.found) \in Nat
        /\ WrittenBy(f) # {}
    BY SlotFacts DEF TypeInv, TypeOK, WrittenBy, FilesWritten, Slots
  <2>2. i \in WrittenBy(f)
    BY <2>1, LastWriter
  <2>3. Claims[f] = IdentAt(i)
    BY DEF Claims
  <2>4. i \in Slots /\ IsEnv(i)
    BY <2>2 DEF WrittenBy, Lists
  <2> QED
    BY <2>2, <2>3, <2>4, SlotFacts DEF TypeInv, TypeOK
<1> QED
  BY <1>1 DEF Claims, FilesWritten

LEMMA ReindexedType ==
  ASSUME TypeInv
  PROVE  Reindexed(removed, Claims) \in [File -> Ident \cup {NoOwner}]
<1>1. \A f \in DOMAIN Claims : Claims[f] \in Ident
  BY ClaimsFacts
<1> QED
  BY <1>1 DEF Reindexed, TypeInv, TypeOK, DirTypeOK

LEMMA FinalizeKeepsTypeInv ==
  ASSUME TypeInv, Finalize \/ Crash
  PROVE  TypeInv'
<1> USE SameProject DEF TypeInv, TypeOK, ActiveIsEnv, DirTypeOK,
        reconcileUnchanged, poolVars, pruneVars, dirVars
<1>1. Outcome \in {"ok", "conflict", "discovery"}
  BY DEF Outcome
<1>2. CASE IndexUnreadable
  BY <1>2 DEF IndexUnreadable
<1>3. CASE Reconcile
  <2>1. Supersedes \ FilesWritten \subseteq File
    BY DEF Supersedes, Replaced, FilesOf
  <2> QED BY <1>3, <2>1 DEF Reconcile
<1>4. ASSUME NEW f \in File, Prune(f) PROVE TypeInv'
  BY <1>4 DEF Prune
<1>5. CASE SkipIndex
  BY <1>1, <1>5 DEF SkipIndex
<1>6. CASE TruncateIndex
  BY <1>6, ReindexedType DEF TruncateIndex
<1>7. CASE SaveIndex
  BY <1>1, <1>7 DEF SaveIndex
<1>8. CASE SaveFails
  BY <1>8 DEF SaveFails
<1>9. CASE Crash
  BY <1>9 DEF Crash
<1> QED
  BY <1>2, <1>3, <1>4, <1>5, <1>6, <1>7, <1>8, <1>9 DEF Finalize

LEMMA StutterKeepsTypeInv ==
  ASSUME TypeInv, UNCHANGED vars
  PROVE  TypeInv'
BY SameProject DEF TypeInv, TypeOK, ActiveIsEnv, DirTypeOK, vars, poolVars,
                   pruneVars, dirVars

LEMMA TypeInvNext ==
  ASSUME TypeInv, [Next]_vars
  PROVE  TypeInv'
<1>1. ASSUME NEW p \in Projects, NEW o \in Options, Return(p, o) \/ Start(p, o)
      PROVE  TypeInv'
  <2>1. /\ Invoke(p, o)
        /\ phase' \in {"idle", "exporting"}
        /\ result' \in {"ok", "conflict", "discovery", "not-empty", "write",
                        "index", "crash"}
    BY <1>1 DEF Return, Start, Invoke, Idle, TypeInv, TypeOK
  <2> QED BY <2>1, InvokeKeepsTypeInv
<1>2. CASE Pull
  BY <1>2, PullKeepsTypeInv
<1>3. ASSUME NEW i \in Slots, SlotStep(i) PROVE TypeInv'
  BY <1>3, SlotStepKeepsTypeInv
<1>4. CASE Finalize \/ Crash
  BY <1>4, FinalizeKeepsTypeInv
<1>5. CASE UNCHANGED vars
  BY <1>5, StutterKeepsTypeInv
<1> QED
  BY <1>1, <1>2, <1>3, <1>4, <1>5 DEF Next, Quiet

(* Every variable of an export holds what it is meant to hold, and only
   environments are evaluated. *)
THEOREM AlwaysTyped == Spec => []TypeInv
<1>1. TypeInv /\ [Next]_vars => TypeInv'
  BY TypeInvNext
<1> QED BY <1>1, TypeInvInit, PTL DEF Spec

THEOREM TypeCorrect == Spec => []TypeOK
<1>1. TypeInv => TypeOK
  BY DEF TypeInv
<1> QED BY <1>1, AlwaysTyped, PTL

-----------------------------------------------------------------------------
(* The second layer: how far slots come, and in which order.               *)

LEMMA LandShape ==
  ASSUME NEW i, Land(i)
  PROVE  /\ \E to \in {"planned", "writing"} : slot' = [slot EXCEPT ![i] = to]
         /\ UNCHANGED <<abort, poolUnchanged>>
<1>1. CASE landed[i] + 1 = ready[i]
  BY <1>1 DEF Land
<1>2. CASE landed[i] + 1 # ready[i]
  BY <1>2 DEF Land
<1> QED BY <1>1, <1>2

(* What the actions of a worker have in common. *)
LEMMA SlotStepShape ==
  ASSUME TypeInv, NEW i \in Slots, SlotStep(i)
  PROVE  /\ phase = "exporting"
         /\ slot[i] \in Working
         /\ \E to \in Working \cup Finished :
              /\ slot' = [slot EXCEPT ![i] = to]
              /\ to = "skipped" => abort
              /\ to \in {"fatal", "undiscovered"} \/ abort' = abort
         /\ UNCHANGED poolUnchanged
<1> USE DEF TypeInv, TypeOK, Turn, Working, Finished
<1>1. CASE Undiscovered(i)
  BY <1>1 DEF Undiscovered
<1>2. CASE Begin(i)
  <2>1. CASE abort
    BY <1>2, <2>1 DEF Begin
  <2>2. CASE ~abort
    BY <1>2, <2>2 DEF Begin
  <2> QED BY <2>1, <2>2
<1>3. CASE Load(i)
  BY <1>3 DEF Load
<1>4. CASE LoadFails(i)
  BY <1>4 DEF LoadFails, Fail
<1>5. CASE Serialize(i)
  BY <1>5 DEF Serialize, MoreToSerialize
<1>6. CASE SerializeFails(i)
  BY <1>6 DEF SerializeFails, MoreToSerialize, Fail
<1>7. CASE Finish(i)
  BY <1>7 DEF Finish
<1>8. CASE LeaveUnchanged(i)
  BY <1>8, LandShape DEF LeaveUnchanged
<1>9. CASE Truncate(i)
  BY <1>9 DEF Truncate
<1>10. CASE Complete(i)
  BY <1>10, LandShape DEF Complete
<1>11. CASE WriteFails(i)
  BY <1>11 DEF WriteFails, Fail
<1> QED
  BY <1>1, <1>2, <1>3, <1>4, <1>5, <1>6, <1>7, <1>8, <1>9, <1>10, <1>11
  DEF SlotStep

LEMMA OrderInvInit == Init => OrderInv
BY DEF Init, OrderInv, AbortHasCause, Returned

LEMMA OrderInvNext ==
  ASSUME TypeInv, OrderInv, [Next]_vars
  PROVE  OrderInv'
<1> USE DEF OrderInv, AbortHasCause, Returned, AllReported
<1>1. ASSUME NEW p \in Projects, NEW o \in Options, Return(p, o) \/ Start(p, o)
      PROVE  OrderInv'
  <2>1. /\ Slots' = 1 .. Len(p.found)
        /\ slot' = [i \in 1 .. Len(p.found) |-> "queued"]
        /\ abort' = FALSE
    BY <1>1 DEF Return, Start, Invoke, Slots
  <2>2. phase' \in {"idle", "exporting"} /\ (phase' = "idle" => Return(p, o))
    BY <1>1 DEF Return, Start, Invoke, Idle
  <2>3. (Return(p, o) /\ result' = "ok") => Slots' = {}
    BY <2>1, ProjectShape, ExportAssumption DEF Return, NothingFound
  <2> QED BY <2>1, <2>2, <2>3
<1>2. CASE Pull
  <2>1. /\ Slots' = Slots /\ phase = "exporting" /\ phase' = "exporting"
        /\ pulled + 1 \in Slots
        /\ slot[pulled + 1] = "queued"
        /\ slot' = [slot EXCEPT ![pulled + 1] = "pulled"]
        /\ pulled' = pulled + 1 /\ abort' = abort
    BY <1>2, SameProject, SlotFacts DEF Pull, TypeInv, TypeOK, Slots
  <2>2. \A i \in Slots : i > pulled + 1 => slot'[i] = "queued"
    BY <2>1, SlotFacts DEF TypeInv, TypeOK
  <2>3. AbortHasCause'
    BY <2>1 DEF TypeInv, TypeOK
  <2> QED BY <2>1, <2>2, <2>3
<1>3. ASSUME NEW i \in Slots, SlotStep(i) PROVE OrderInv'
  <2>1. /\ Slots' = Slots /\ phase = "exporting" /\ phase' = "exporting"
        /\ pulled' = pulled /\ slot[i] \in Working
    BY <1>3, SlotStepShape, SameProject DEF poolUnchanged
  <2>2. PICK to \in Working \cup Finished :
          /\ slot' = [slot EXCEPT ![i] = to]
          /\ to = "skipped" => abort
          /\ to \in {"fatal", "undiscovered"} \/ abort' = abort
    BY <1>3, SlotStepShape
  <2>3. AbortHasCause'
    <3>1. CASE to \in {"fatal", "undiscovered"}
      BY <2>1, <2>2, <3>1 DEF TypeInv, TypeOK
    <3>2. CASE to \notin {"fatal", "undiscovered"}
      BY <2>1, <2>2, <3>2 DEF TypeInv, TypeOK, Working
    <3> QED BY <3>1, <3>2
  <2>4. \A k \in Slots : k > pulled => slot'[k] = "queued"
    BY <2>1, <2>2, SlotFacts DEF TypeInv, TypeOK, Working
  <2> QED BY <2>1, <2>3, <2>4
<1>4. CASE Finalize \/ Crash
  <2>1. UNCHANGED <<Slots, slot, pulled, abort>>
    BY <1>4, SameProject
    DEF Finalize, IndexUnreadable, Reconcile, Prune, SkipIndex, TruncateIndex,
        SaveIndex, SaveFails, Crash, reconcileUnchanged, poolVars
  <2>2. phase' \in {"pruning", "saving"} => AllReported
    BY <1>4
    DEF Finalize, IndexUnreadable, Reconcile, Prune, Pruned, SkipIndex,
        TruncateIndex, SaveIndex, SaveFails, Crash
  <2>3. (phase' = "idle" /\ result' = "ok") =>
          AllReported /\ \A i \in Slots : slot[i] # "undiscovered"
    BY <1>4
    DEF Finalize, IndexUnreadable, Reconcile, Prune, Pruned, SkipIndex,
        TruncateIndex, SaveIndex, SaveFails, Crash, Outcome
  <2> QED BY <2>1, <2>2, <2>3
<1>5. CASE UNCHANGED vars
  BY <1>5, SameProject DEF vars, poolVars
<1> QED
  BY <1>1, <1>2, <1>3, <1>4, <1>5 DEF Next, Quiet

THEOREM AlwaysOrdered == Spec => []OrderInv
<1>1. TypeInv /\ OrderInv /\ [Next]_vars => OrderInv'
  BY OrderInvNext
<1> QED BY <1>1, OrderInvInit, AlwaysTyped, PTL DEF Spec

(* The flag is up, and an environment skipped, only with a failure behind it
   that ends up in what the export returns. *)
THEOREM AbortsAreExplained == Spec => []AbortHasCause
<1>1. OrderInv => AbortHasCause
  BY DEF OrderInv
<1> QED BY <1>1, AlwaysOrdered, PTL

(* An export that exits 0 exported everything it found: what is skipped has a
   cause, and every cause is either counted as a failure or returned. *)
THEOREM ExitZeroExportsAll == Spec => []ExitZeroMeansExported
<1>1. TypeInv /\ OrderInv => ExitZeroMeansExported
  BY DEF TypeInv, TypeOK, OrderInv, ExitZeroMeansExported, ExitsZero,
         AllReported, AbortHasCause, Finished
<1> QED BY <1>1, AlwaysTyped, AlwaysOrdered, PTL

-----------------------------------------------------------------------------
(* The third layer: what is written, and what the index says of it.        *)

LEMMA LandedInvInit == Init => LandedInv
<1> SUFFICES ASSUME Init PROVE LandedInv
  OBVIOUS
<1>1. project \in Project
  BY ExportAssumption DEF Init
<1>2. \A i \in Slots : IsEnv(i) => Len(Out(i)) \in Nat
  BY <1>1, SlotFacts
<1> QED BY <1>2 DEF Init, LandedInv

(* The file a worker is about to write is one of its environment's. *)
LEMMA NextFileFacts ==
  ASSUME TypeInv, LandedInv, NEW i \in Slots, slot[i] \in {"writing", "open"}
  PROVE  /\ IsEnv(i)
         /\ landed[i] + 1 \in 1 .. Len(Out(i))
         /\ NextFile(i) \in File
<1>1. IsEnv(i) /\ landed[i] \in Nat /\ ready[i] \in Nat
  BY DEF TypeInv, TypeOK, ActiveIsEnv
<1>2. landed[i] < ready[i] /\ ready[i] <= Len(Out(i))
  BY DEF LandedInv
<1>3. Out(i) \in Seq(File)
  BY <1>1, SlotFacts DEF TypeInv, TypeOK
<1>4. landed[i] + 1 \in 1 .. Len(Out(i))
  BY <1>1, <1>2, <1>3
<1> QED BY <1>1, <1>3, <1>4 DEF NextFile

(* What a step of a worker does to the disk: nothing, or it truncates the
   file it is about to write, or it lands it. *)
LEMMA SlotStepEffect ==
  ASSUME TypeInv, LandedInv, NEW i \in Slots, SlotStep(i)
  PROVE  \/ /\ disk' = disk /\ landed' = landed
            /\ slot'[i] # "open" /\ (slot[i] = "open" => slot'[i] = "failed")
         \/ /\ slot[i] = "writing" /\ landed' = landed
            /\ slot' = [slot EXCEPT ![i] = "open"]
            /\ disk' = [disk EXCEPT ![NextFile(i)] = Torn]
         \/ /\ slot[i] \in {"writing", "open"}
            /\ landed' = [landed EXCEPT ![i] = landed[i] + 1]
            /\ \E to \in {"planned", "writing"} : slot' = [slot EXCEPT ![i] = to]
            /\ \/ disk' = disk /\ disk[NextFile(i)] = Rendered(i)
               \/ disk' = [disk EXCEPT ![NextFile(i)] = Rendered(i)]
               \/ /\ slot[i] = "open"
                  /\ disk[NextFile(i)] # Torn \/ Rival(i)
                  /\ disk' = [disk EXCEPT ![NextFile(i)] = Torn]
<1>1. CASE LeaveUnchanged(i)
  BY <1>1, LandShape DEF LeaveUnchanged, Land, Turn
<1>2. CASE Truncate(i)
  BY <1>2 DEF Truncate, Turn
<1>3. CASE Complete(i)
  BY <1>3, LandShape DEF Complete, Land, Turn
<1>4. CASE ~(LeaveUnchanged(i) \/ Truncate(i) \/ Complete(i))
  BY <1>4 DEF SlotStep, Undiscovered, Begin, Load, LoadFails, Serialize,
              MoreToSerialize, SerializeFails, Finish, WriteFails, Fail, Turn,
              TypeInv, TypeOK
<1> QED BY <1>1, <1>2, <1>3, <1>4

LEMMA SlotStepKeepsLandedInv ==
  ASSUME TypeInv, LandedInv, NEW i \in Slots, SlotStep(i)
  PROVE  LandedInv'
<1>1. /\ Slots' = Slots
      /\ \A k \in Slots : IsEnv(k)' = IsEnv(k) /\ Out(k)' = Out(k)
      /\ \A k \in Slots : IsEnv(k) => Len(Out(k)) \in Nat
      /\ \A k \in Slots : landed[k] \in Nat /\ ready[k] \in Nat
      /\ DOMAIN landed = Slots /\ DOMAIN slot = Slots /\ DOMAIN ready = Slots
  BY SameProject, SlotStepShape, SlotFacts DEF poolUnchanged, TypeInv, TypeOK
<1>2. \A k \in Slots \ {i} :
        slot'[k] = slot[k] /\ landed'[k] = landed[k] /\ ready'[k] = ready[k]
  <2>1. \A k \in Slots \ {i} : slot'[k] = slot[k] /\ landed'[k] = landed[k]
    BY <1>1, SlotStepShape, SlotStepEffect
  <2>2. \A k \in Slots \ {i} : ready'[k] = ready[k]
    BY <1>1
    DEF SlotStep, Undiscovered, Begin, Load, LoadFails, Serialize,
        SerializeFails, Finish, LeaveUnchanged, Truncate, Complete, WriteFails,
        Fail, Land
  <2> QED BY <2>1, <2>2
<1>3. /\ landed'[i] > 0 => IsEnv(i)
      /\ IsEnv(i) => landed'[i] <= Len(Out(i))
      /\ slot'[i] \in {"writing", "open"} =>
           landed'[i] < ready'[i] /\ ready'[i] <= Len(Out(i))
      /\ slot'[i] = "ok" => landed'[i] = Len(Out(i))
  <2>1. CASE Serialize(i)
    <3>1. /\ ready'[i] = ChunkEnd(i) /\ landed' = landed /\ slot'[i] = "writing"
          /\ landed[i] < Len(Out(i)) /\ IsEnv(i)
      BY <1>1, <2>1 DEF Serialize, MoreToSerialize, Turn, TypeInv, ActiveIsEnv
    <3>2. landed[i] < ChunkEnd(i) /\ ChunkEnd(i) <= Len(Out(i))
      BY <1>1, <3>1, ExportAssumption DEF ChunkEnd
    <3> QED BY <1>1, <3>1, <3>2 DEF LandedInv
  <2>2. CASE LeaveUnchanged(i) \/ Complete(i)
    <3>1. /\ Land(i) /\ slot[i] \in {"writing", "open"}
      BY <2>2 DEF LeaveUnchanged, Complete, Turn
    <3>2. /\ landed'[i] = landed[i] + 1 /\ ready'[i] = ready[i] /\ IsEnv(i)
          /\ slot'[i] = IF landed[i] + 1 = ready[i] THEN "planned" ELSE "writing"
      BY <1>1, <3>1, NextFileFacts DEF Land
    <3>3. landed[i] < ready[i] /\ ready[i] <= Len(Out(i))
      BY <3>1 DEF LandedInv
    <3> QED BY <1>1, <3>2, <3>3
  <2>3. CASE Truncate(i)
    BY <1>1, <2>3 DEF Truncate, Turn, LandedInv
  <2>4. CASE Finish(i)
    BY <1>1, <2>4 DEF Finish, Turn, LandedInv
  <2>5. CASE Undiscovered(i) \/ Begin(i) \/ Load(i) \/ LoadFails(i)
             \/ SerializeFails(i) \/ WriteFails(i)
    <3>1. slot'[i] \notin {"writing", "open", "ok"} /\ landed' = landed
      BY <1>1, <2>5
      DEF Undiscovered, Begin, Load, LoadFails, SerializeFails, WriteFails, Fail
    <3> QED BY <3>1 DEF LandedInv
  <2> QED BY <2>1, <2>2, <2>3, <2>4, <2>5 DEF SlotStep
<1> QED BY <1>1, <1>2, <1>3 DEF LandedInv

LEMMA LandedInvNext ==
  ASSUME TypeInv, LandedInv, [Next]_vars
  PROVE  LandedInv'
<1>1. ASSUME NEW p \in Projects, NEW o \in Options, Return(p, o) \/ Start(p, o)
      PROVE  LandedInv'
  <2>1. /\ Slots' = 1 .. Len(p.found)
        /\ slot' = [i \in 1 .. Len(p.found) |-> "queued"]
        /\ landed' = [i \in 1 .. Len(p.found) |-> 0]
        /\ project' \in Project
    BY <1>1, ExportAssumption DEF Return, Start, Invoke, Slots
  <2>2. \A i \in Slots' : IsEnv(i)' => Len(Out(i)') \in Nat
    BY <2>1, ProjectShape DEF Slots, IsEnv, Found, Out
  <2> QED BY <2>1, <2>2 DEF LandedInv
<1>2. CASE Pull
  BY <1>2, SameProject, SlotFacts DEF Pull, TypeInv, TypeOK, LandedInv
<1>3. ASSUME NEW i \in Slots, SlotStep(i) PROVE LandedInv'
  BY <1>3, SlotStepKeepsLandedInv
<1>4. CASE Finalize \/ Crash
  <2>1. UNCHANGED <<project, slot, landed, ready>>
    BY <1>4
    DEF Finalize, IndexUnreadable, Reconcile, Prune, SkipIndex, TruncateIndex,
        SaveIndex, SaveFails, Crash, reconcileUnchanged, poolVars
  <2> QED BY <2>1, SameProject DEF LandedInv
<1>5. CASE UNCHANGED vars
  BY <1>5, SameProject DEF vars, poolVars, LandedInv
<1> QED
  BY <1>1, <1>2, <1>3, <1>4, <1>5 DEF Next, Quiet

THEOREM AlwaysLanded == Spec => []LandedInv
<1>1. TypeInv /\ LandedInv /\ [Next]_vars => LandedInv'
  BY LandedInvNext
<1> QED BY <1>1, LandedInvInit, AlwaysTyped, PTL DEF Spec

(* What reports say depends on what landed alone. *)
LEMMA SameWritten ==
  ASSUME project' = project, landed' = landed
  PROVE  /\ \A f : WrittenBy(f)' = WrittenBy(f)
         /\ FilesWritten' = FilesWritten
         /\ Claims' = Claims
         /\ Duplicate' = Duplicate
<1>1. \A i, j, f : Lists(i, j, f)' = Lists(i, j, f)
  BY SameProject DEF Lists
<1>2. \A f : WrittenBy(f)' = WrittenBy(f)
  BY <1>1, SameProject DEF WrittenBy
<1>3. FilesWritten' = FilesWritten
  BY <1>2 DEF FilesWritten
<1>4. Claims' = Claims
  BY <1>2, <1>3, SameProject DEF Claims
<1>5. Duplicate' = Duplicate
  BY <1>1, SameProject DEF Duplicate
<1> QED BY <1>2, <1>3, <1>4, <1>5

(* What may be deleted depends on the reports, the options and the index. *)
LEMMA SameVerdict ==
  ASSUME UNCHANGED <<project, landed, slot, options, owner>>
  PROVE  UNCHANGED <<Supersedes, Conflict, FilesWritten, Claims>>
<1> USE SameWritten, SameProject
<1>1. Supersedes' = Supersedes
  BY DEF Supersedes, Replaced, FilesOf, ReportFailed
<1>2. Foreign' = Foreign
  BY <1>1 DEF Foreign
<1> QED BY <1>1, <1>2 DEF Conflict

LEMMA LandingWrites ==
  ASSUME TypeInv, LandedInv, NEW i \in Slots, project' = project,
         slot[i] \in {"writing", "open"},
         landed' = [landed EXCEPT ![i] = landed[i] + 1]
  PROVE  FilesWritten' = FilesWritten \cup {NextFile(i)}
<1>1. /\ Slots' = Slots /\ landed \in [Slots -> Nat]
      /\ IsEnv(i) /\ NextFile(i) \in File
      /\ landed'[i] = landed[i] + 1
      /\ \A k \in Slots \ {i} : landed'[k] = landed[k]
  BY SameProject, NextFileFacts DEF TypeInv, TypeOK
<1>2. \A k \in Slots, l \in Nat, f \in File :
        Lists(k, l, f)' <=>
          Lists(k, l, f) \/ (k = i /\ l = landed[i] + 1 /\ f = NextFile(i))
  BY <1>1, SameProject DEF Lists, NextFile
<1>3. ASSUME NEW f \in File
      PROVE  f \in FilesWritten' <=> f \in FilesWritten \/ f = NextFile(i)
  <2>1. f \in FilesWritten <=> \E k \in Slots, l \in Nat : Lists(k, l, f)
    BY <1>1 DEF FilesWritten, WrittenBy, Lists
  <2>2. f \in FilesWritten' <=> \E k \in Slots, l \in Nat : Lists(k, l, f)'
    BY <1>1 DEF FilesWritten, WrittenBy, Lists
  <2>3. landed[i] + 1 \in Nat
    BY <1>1
  <2> QED BY <1>1, <1>2, <2>1, <2>2, <2>3
<1> QED BY <1>1, <1>3 DEF FilesWritten

LEMMA PruneInvInit == Init => PruneInv
BY DEF Init, PruneInv

LEMMA PruneInvNext ==
  ASSUME TypeInv, PruneInv, [Next]_vars
  PROVE  PruneInv'
<1>1. ASSUME NEW p \in Projects, NEW o \in Options, Return(p, o) \/ Start(p, o)
      PROVE  PruneInv'
  BY <1>1 DEF Return, Start, Invoke, Idle, PruneInv
<1>2. ASSUME Pull \/ \E i \in Slots : SlotStep(i) PROVE PruneInv'
  <2>1. phase = "exporting" /\ phase' = phase /\ removed' = removed
    BY <1>2, SlotStepShape DEF Pull, poolUnchanged, pruneVars
  <2> QED BY <2>1 DEF PruneInv
<1>3. CASE IndexUnreadable \/ SkipIndex \/ SaveIndex \/ SaveFails \/ Crash
  BY <1>3 DEF IndexUnreadable, SkipIndex, SaveIndex, SaveFails, Crash, PruneInv
<1>4. CASE Reconcile
  <2>1. UNCHANGED <<Supersedes, Conflict, FilesWritten, Claims>>
    BY <1>4, SameVerdict DEF Reconcile, reconcileUnchanged, poolVars, dirVars
  <2>2. superseded' = IF Conflict THEN {} ELSE Supersedes \ FilesWritten
    BY <1>4 DEF Reconcile
  <2> QED BY <1>4, <2>1, <2>2 DEF Reconcile, PruneInv
<1>5. ASSUME NEW f \in File, Prune(f) PROVE PruneInv'
  <2>1. UNCHANGED <<Supersedes, Conflict, FilesWritten, Claims>>
    BY <1>5, SameVerdict DEF Prune, poolVars
  <2>2. /\ phase = "pruning" /\ phase' = "pruning"
        /\ superseded' = superseded \ {f}
        /\ \/ removed' = removed \cup {f}
           \/ "delete" \in Faults /\ removed' = removed /\ disk[f] # NoFile
              /\ disk' = disk
    BY <1>5 DEF Prune
  <2>3. \A g \in File \ {f} : disk'[g] = disk[g]
    BY <1>5 DEF Prune, TypeInv, TypeOK, DirTypeOK
  <2>4. Supersedes \subseteq File
    BY DEF Supersedes, Replaced, FilesOf
  <2>5. removed \subseteq removed'
    BY <2>2
  <2>6. ASSUME NEW g \in Supersedes' \ FilesWritten', ~Conflict'
        PROVE  \/ g \in superseded' \cup removed'
               \/ "delete" \in Faults /\ disk'[g] # NoFile
    <3>1. CASE g = f
      BY <2>2, <3>1
    <3>2. CASE g # f
      BY <2>1, <2>2, <2>3, <2>4, <2>5, <2>6, <3>2 DEF PruneInv
    <3> QED BY <3>1, <3>2
  <2> QED BY <2>1, <2>2, <2>6 DEF PruneInv
<1>6. CASE TruncateIndex
  <2>1. UNCHANGED <<Supersedes, Conflict, FilesWritten, Claims>>
    BY <1>6, SameVerdict DEF TruncateIndex, reconcileUnchanged, poolVars
  <2>2. ledger' = Reindexed(removed, Claims)'
    BY <1>6, <2>1 DEF TruncateIndex, Reindexed
  <2> QED BY <1>6, <2>1, <2>2 DEF TruncateIndex, Pruned, PruneInv
<1>7. CASE UNCHANGED vars
  <2>1. UNCHANGED <<Supersedes, Conflict, FilesWritten, Claims>>
    BY <1>7, SameVerdict DEF vars, poolVars, dirVars
  <2> QED BY <1>7, <2>1 DEF vars, pruneVars, dirVars, PruneInv, Reindexed
<1> QED
  BY <1>1, <1>2, <1>3, <1>4, <1>5, <1>6, <1>7 DEF Next, Quiet, Finalize

THEOREM AlwaysPruning == Spec => []PruneInv
<1>1. TypeInv /\ PruneInv /\ [Next]_vars => PruneInv'
  BY PruneInvNext
<1> QED BY <1>1, PruneInvInit, AlwaysTyped, PTL DEF Spec

(* The directory: between exports, and while one runs. *)
DirectoryInv == DiskInv /\ IndexDescribesDirectory

LEMMA DirectoryInvInit == Init => DirectoryInv
BY OutputDirAssumption
DEF Init, DirInit, DirectoryInv, DiskInv, IndexDescribesDirectory

LEMMA SlotStepKeepsDiskInv ==
  ASSUME TypeInv, LandedInv, PruneInv, DiskInv, NEW i \in Slots, SlotStep(i)
  PROVE  DiskInv'
<1>1. /\ phase = "exporting" /\ phase' = phase /\ removed' = removed
      /\ owner' = owner /\ unrecorded' = unrecorded /\ project' = project
      /\ removed = {}
  BY SlotStepShape DEF poolUnchanged, pruneVars, PruneInv
<1>2. CASE unrecorded
  BY <1>1, <1>2 DEF DiskInv
<1>3. CASE ~unrecorded
  <2>1. \A f \in File :
          /\ owner[f] # NoOwner => disk[f] # NoFile
          /\ f \in FilesWritten => disk[f] # NoFile
          /\ disk[f] \in Content => (owner[f] # NoOwner \/ f \in FilesWritten)
    BY <1>1, <1>3 DEF DiskInv
  <2>2. CASE disk' = disk /\ landed' = landed
    BY <1>1, <2>1, <2>2, SameWritten DEF DiskInv
  <2>3. CASE /\ slot[i] = "writing" /\ landed' = landed
             /\ disk' = [disk EXCEPT ![NextFile(i)] = Torn]
    <3>1. FilesWritten' = FilesWritten
      BY <1>1, <2>3, SameWritten
    <3>2. \A f \in File :
            disk'[f] = IF f = NextFile(i) THEN Torn ELSE disk[f]
      BY <2>3 DEF TypeInv, TypeOK, DirTypeOK
    <3> QED BY <1>1, <2>1, <3>1, <3>2, OutputDirAssumption DEF DiskInv
  <2>4. CASE /\ slot[i] \in {"writing", "open"}
             /\ landed' = [landed EXCEPT ![i] = landed[i] + 1]
             /\ \/ disk' = disk /\ disk[NextFile(i)] = Rendered(i)
                \/ disk' = [disk EXCEPT ![NextFile(i)] = Rendered(i)]
                \/ disk' = [disk EXCEPT ![NextFile(i)] = Torn]
    <3>1. FilesWritten' = FilesWritten \cup {NextFile(i)}
      BY <1>1, <2>4, LandingWrites
    <3>2. Rendered(i) \in Content
      BY <2>4, NextFileFacts, SlotFacts DEF TypeInv, TypeOK
    <3>3. \E b \in Content \cup {Torn} : \A f \in File :
            disk'[f] = IF f = NextFile(i) THEN b ELSE disk[f]
      BY <2>4, <3>2 DEF TypeInv, TypeOK, DirTypeOK
    <3> QED BY <1>1, <2>1, <3>1, <3>3, OutputDirAssumption DEF DiskInv
  <2> QED BY <2>2, <2>3, <2>4, SlotStepEffect
<1> QED BY <1>2, <1>3

LEMMA DirectoryInvNext ==
  ASSUME TypeInv, LandedInv, PruneInv, DirectoryInv, [Next]_vars
  PROVE  DirectoryInv'
<1>1. ASSUME NEW p \in Projects, NEW o \in Options, Return(p, o) \/ Start(p, o)
      PROVE  DirectoryInv'
  <2>1. /\ UNCHANGED <<disk, owner, unrecorded>>
        /\ phase = "idle" /\ removed' = {}
        /\ landed' = [i \in 1 .. Len(p.found) |-> 0]
        /\ Slots' = 1 .. Len(p.found)
    BY <1>1 DEF Return, Start, Invoke, Idle, dirVars, Slots
  <2>2. FilesWritten' = {}
    BY <2>1 DEF FilesWritten, WrittenBy
  <2> QED BY <2>1, <2>2 DEF DirectoryInv, DiskInv, IndexDescribesDirectory
<1>2. CASE Pull
  BY <1>2, SameWritten
  DEF Pull, dirVars, pruneVars, DirectoryInv, DiskInv, IndexDescribesDirectory
<1>3. ASSUME NEW i \in Slots, SlotStep(i) PROVE DirectoryInv'
  BY <1>3, SlotStepKeepsDiskInv, SlotStepShape
  DEF DirectoryInv, IndexDescribesDirectory, poolUnchanged
<1>4. CASE IndexUnreadable \/ SkipIndex \/ SaveFails \/ Crash
  BY <1>4 DEF IndexUnreadable, SkipIndex, SaveFails, Crash, DirectoryInv,
              DiskInv, IndexDescribesDirectory
<1>5. CASE Reconcile \/ TruncateIndex
  BY <1>5, SameWritten
  DEF Reconcile, TruncateIndex, Pruned, reconcileUnchanged, poolVars, dirVars,
      DirectoryInv, DiskInv, IndexDescribesDirectory
<1>6. ASSUME NEW g \in File, Prune(g) PROVE DirectoryInv'
  <2>1. /\ phase = "pruning" /\ phase' = "pruning"
        /\ UNCHANGED <<owner, unrecorded, project, landed>>
        /\ \/ disk' = [disk EXCEPT ![g] = NoFile] /\ removed' = removed \cup {g}
           \/ disk' = disk /\ removed' = removed
        /\ g \notin FilesWritten
    BY <1>6 DEF Prune, poolVars, PruneInv
  <2>2. FilesWritten' = FilesWritten
    BY <2>1, SameWritten
  <2>3. disk \in [File -> Content \cup {Torn, NoFile}]
    BY DEF TypeInv, TypeOK, DirTypeOK
  <2> QED BY <2>1, <2>2, <2>3, OutputDirAssumption
          DEF DirectoryInv, DiskInv, IndexDescribesDirectory
<1>7. CASE SaveIndex
  <2>1. /\ phase = "saving" /\ phase' = "idle" /\ disk' = disk
        /\ unrecorded' = unrecorded
        /\ owner' = Reindexed(removed, Claims)
    BY <1>7 DEF SaveIndex, PruneInv
  <2>2. CASE ~unrecorded
    <3>1. ASSUME NEW f \in File
          PROVE  /\ disk[f] \in Content => owner'[f] # NoOwner
                 /\ owner'[f] # NoOwner => disk[f] # NoFile
      <4>1. /\ f \in removed => disk[f] = NoFile
            /\ (owner[f] # NoOwner /\ f \notin removed) => disk[f] # NoFile
            /\ f \in FilesWritten => disk[f] # NoFile
            /\ disk[f] \in Content => (owner[f] # NoOwner \/ f \in FilesWritten)
        BY <2>1, <2>2 DEF DirectoryInv, DiskInv
      <4>2. f \in FilesWritten => Claims[f] \in Ident
        BY ClaimsFacts
      <4>3. owner'[f] = CASE f \in FilesWritten -> Claims[f]
                          [] f \notin FilesWritten /\ f \in removed -> NoOwner
                          [] OTHER -> owner[f]
        BY <2>1, ClaimsFacts DEF Reindexed
      <4> QED BY <4>1, <4>2, <4>3, OutputDirAssumption
    <3> QED BY <2>1, <3>1 DEF DirectoryInv, DiskInv, IndexDescribesDirectory
  <2> QED BY <2>1, <2>2 DEF DirectoryInv, DiskInv, IndexDescribesDirectory
<1>8. CASE UNCHANGED vars
  BY <1>8, SameWritten
  DEF vars, dirVars, poolVars, pruneVars, DirectoryInv, DiskInv,
      IndexDescribesDirectory
<1> QED
  BY <1>1, <1>2, <1>3, <1>4, <1>5, <1>6, <1>7, <1>8 DEF Next, Quiet, Finalize

(* Between exports the index and the directory agree, if every export got to
   save its index: failed environments, conflicts and undeletable files
   notwithstanding. *)
THEOREM IndexAgreesWithDisk == Spec => []IndexDescribesDirectory
<1>1. TypeInv /\ LandedInv /\ PruneInv /\ DirectoryInv /\ [Next]_vars
        => DirectoryInv'
  BY DirectoryInvNext
<1>2. DirectoryInv => IndexDescribesDirectory
  BY DEF DirectoryInv
<1> QED
  BY <1>1, <1>2, DirectoryInvInit, AlwaysTyped, AlwaysLanded, AlwaysPruning, PTL
  DEF Spec

(* What a step that deletes a file has to have found. *)
LEMMA OnlyPruneDeletes ==
  ASSUME TypeInv, LandedInv, PruneInv, [Next]_vars, NEW f \in File,
         disk[f] # NoFile, disk'[f] = NoFile
  PROVE  phase = "pruning" /\ f \in Supersedes \ FilesWritten
<1> USE DEF TypeInv, TypeOK, DirTypeOK
<1>1. \A i \in Slots : ~SlotStep(i)
  <2>1. ASSUME NEW i \in Slots, SlotStep(i) PROVE FALSE
    <3>1. slot[i] \in {"writing", "open"} => Rendered(i) \in Content
      BY NextFileFacts, SlotFacts
    <3>2. \/ disk' = disk
          \/ /\ slot[i] \in {"writing", "open"}
             /\ \E b \in {Rendered(i), Torn} :
                  disk' = [disk EXCEPT ![NextFile(i)] = b]
      BY <2>1, SlotStepEffect
    <3> QED BY <3>1, <3>2, OutputDirAssumption
  <2> QED BY <2>1
<1>2. PICK g \in File : Prune(g)
  BY <1>1
  DEF Next, Return, Start, Invoke, Pull, Finalize, IndexUnreadable, Reconcile,
      SkipIndex, TruncateIndex, SaveIndex, SaveFails, Crash, Quiet, vars, dirVars
<1>3. phase = "pruning" /\ f \in superseded
  BY <1>2 DEF Prune
<1> QED BY <1>3 DEF PruneInv

(* Pruning deletes nothing that was written by this export, and nothing whose
   owner is not named as gone or exported under replace-envs. *)
THEOREM DeletionsAreSuperseded == Spec => DeletesOnlySuperseded
<1> DEFINE Allowed ==
      \A f \in File : (disk[f] # NoFile /\ disk'[f] = NoFile) =>
        /\ WrittenBy(f) = {}
        /\ \/ owner[f] \in options.gone
           \/ /\ options.strategy = "replace-envs"
              /\ \E i \in Slots : slot[i] = "ok" /\ IdentAt(i) = owner[f]
<1>1. TypeInv /\ LandedInv /\ PruneInv /\ [Next]_vars => [Allowed]_vars
  <2> SUFFICES ASSUME TypeInv, LandedInv, PruneInv, [Next]_vars,
                      NEW f \in File, disk[f] # NoFile, disk'[f] = NoFile
               PROVE  /\ WrittenBy(f) = {}
                      /\ \/ owner[f] \in options.gone
                         \/ /\ options.strategy = "replace-envs"
                            /\ \E i \in Slots : slot[i] = "ok"
                                                /\ IdentAt(i) = owner[f]
    OBVIOUS
  <2>1. f \in Supersedes \ FilesWritten
    BY OnlyPruneDeletes
  <2> QED
    BY <2>1
    DEF Supersedes, Replaced, FilesOf, FilesWritten, ReportFailed
<1> QED
  BY <1>1, AlwaysTyped, AlwaysLanded, AlwaysPruning, PTL
  DEF Spec, DeletesOnlySuperseded

(* No two environments that one export finds share an identifier, and the
   environments said to be gone are not among them. *)
IdentifiersAreOwn ==
  \A p \in Projects : \A i \in {m \in 1 .. Len(p.found) : p.found[m] # Broken} :
    /\ \A k \in {m \in 1 .. Len(p.found) : p.found[m] # Broken} :
         IdentOf[p.found[i]] = IdentOf[p.found[k]] => i = k
    /\ \A o \in Options : IdentOf[p.found[i]] \notin o.gone

(* What an export works on never stops being one of the instance's. *)
GivenInv == project \in Projects /\ options \in Options

THEOREM AlwaysGiven == Spec => []GivenInv
<1>1. Init => GivenInv
  BY DEF Init, GivenInv
<1>2. ASSUME TypeInv, GivenInv, [Next]_vars PROVE GivenInv'
  <2>1. ASSUME NEW p \in Projects, NEW o \in Options, Return(p, o) \/ Start(p, o)
        PROVE  GivenInv'
    BY <2>1 DEF Return, Start, Invoke, GivenInv
  <2>2. ASSUME NEW i \in Slots, SlotStep(i) PROVE GivenInv'
    BY <1>2, <2>2, SlotStepShape DEF poolUnchanged, GivenInv
  <2>3. ASSUME NEW f \in File, Prune(f) PROVE GivenInv'
    BY <1>2, <2>3 DEF Prune, GivenInv
  <2>4. CASE Pull \/ IndexUnreadable \/ Reconcile \/ SkipIndex \/ TruncateIndex
    BY <1>2, <2>4 DEF Pull, IndexUnreadable, Reconcile, SkipIndex, TruncateIndex,
                      reconcileUnchanged, GivenInv
  <2>5. CASE SaveIndex \/ SaveFails \/ Crash \/ UNCHANGED vars
    BY <1>2, <2>5 DEF SaveIndex, SaveFails, Crash, reconcileUnchanged, vars, GivenInv
  <2> QED
    BY <1>2, <2>1, <2>2, <2>3, <2>4, <2>5 DEF Next, Quiet, Finalize
<1> QED BY <1>1, <1>2, AlwaysTyped, PTL DEF Spec

(* The comment of reconcile is true of projects whose environments have
   identifiers of their own: one that failed keeps all it exported before.  It
   takes a sibling with the same identifier to lose it. *)
THEOREM FailuresKeepTheirFiles ==
  IdentifiersAreOwn => (Spec => FailedEnvironmentKeepsItsFiles)
<1> DEFINE Kept ==
      \A f \in File : (disk[f] # NoFile /\ disk'[f] = NoFile) =>
        ~\E i \in Slots : slot[i] \in {"failed", "fatal", "skipped"}
                          /\ IdentAt(i) = owner[f]
<1> SUFFICES ASSUME IdentifiersAreOwn PROVE Spec => FailedEnvironmentKeepsItsFiles
  OBVIOUS
<1>1. TypeInv /\ LandedInv /\ PruneInv /\ GivenInv /\ [Next]_vars => [Kept]_vars
  <2> SUFFICES ASSUME TypeInv, LandedInv, PruneInv, GivenInv, [Next]_vars,
                      NEW f \in File, disk[f] # NoFile, disk'[f] = NoFile,
                      NEW i \in Slots, slot[i] \in {"failed", "fatal", "skipped"},
                      IdentAt(i) = owner[f]
               PROVE  FALSE
    OBVIOUS
  <2>1. IsEnv(i)
    BY DEF TypeInv, ActiveIsEnv
  <2>2. /\ owner[f] \notin options.gone
        /\ \A k \in Slots : (IsEnv(k) /\ IdentAt(k) = owner[f]) => i = k
    BY <2>1 DEF IdentifiersAreOwn, GivenInv, Slots, IsEnv, IdentAt, Found
  <2>3. f \in Supersedes
    BY OnlyPruneDeletes
  <2>4. PICK k \in Slots : IsEnv(k) /\ slot[k] = "ok" /\ IdentAt(k) = owner[f]
    BY <2>2, <2>3 DEF Supersedes, Replaced, FilesOf, ReportFailed
  <2> QED BY <2>2, <2>4
<1> QED
  BY <1>1, AlwaysTyped, AlwaysLanded, AlwaysPruning, AlwaysGiven, PTL
  DEF Spec, FailedEnvironmentKeepsItsFiles

-----------------------------------------------------------------------------
(* The fourth layer: what the files hold.                                  *)

(* A worker's step leaves every dispute open. *)
LEMMA DisputesPersist ==
  ASSUME TypeInv, LandedInv, NEW i \in Slots, SlotStep(i),
         NEW k \in Slots, NEW l \in Nat, NEW f, Touched(k, l, f)
  PROVE  Touched(k, l, f)'
<1>1. /\ Out(k)' = Out(k) /\ landed[k] \in Nat
      /\ DOMAIN slot = Slots /\ DOMAIN landed = Slots
  BY SlotStepShape, SameProject DEF poolUnchanged, TypeInv, TypeOK
<1>2. CASE k # i
  BY <1>1, <1>2, SlotStepShape, SlotStepEffect DEF Touched
<1>3. CASE k = i
  <2>1. slot[i] # "failed"
    BY SlotStepShape DEF Working
  <2>2. \/ landed' = landed /\ (slot[i] = "open" => slot'[i] = "failed")
        \/ slot[i] = "writing" /\ landed' = landed
        \/ landed'[i] = landed[i] + 1
    BY <1>1, SlotStepEffect
  <2> QED BY <1>1, <1>3, <2>1, <2>2 DEF Touched
<1> QED BY <1>2, <1>3

LEMMA SlotStepKeepsIntactInv ==
  ASSUME TypeInv, LandedInv, IntactInv, NEW i \in Slots, SlotStep(i)
  PROVE  IntactInv'
<1>1. /\ phase = "exporting" /\ Slots' = Slots
      /\ \A k : /\ IsEnv(k)' = IsEnv(k) /\ Out(k)' = Out(k)
                /\ Rendered(k)' = Rendered(k)
  BY SlotStepShape, SameProject DEF poolUnchanged
<1>2. /\ DOMAIN slot = Slots /\ DOMAIN landed = Slots
      /\ \A k \in Slots : landed[k] \in Nat
      /\ disk \in [File -> Content \cup {Torn, NoFile}]
      /\ \A k \in Slots : IsEnv(k) => Out(k) \in Seq(File)
      /\ \A k \in Slots : landed[k] > 0 => IsEnv(k) /\ landed[k] <= Len(Out(k))
  BY SlotFacts DEF TypeInv, TypeOK, DirTypeOK, LandedInv
<1>3. /\ \A k \in Slots : \A j \in 1 .. landed[k] :
           disk[Out(k)[j]] = Rendered(k) \/ Disputed(k, j)
      /\ \A k \in Slots : slot[k] = "open" =>
           disk[NextFile(k)] = Torn \/ Disputed(k, landed[k] + 1)
  BY <1>1 DEF IntactInv
<1>4. \A k \in Slots : \A j \in Nat : Disputed(k, j) => Disputed(k, j)'
  <2> SUFFICES ASSUME NEW k \in Slots, NEW j \in Nat, Disputed(k, j)
               PROVE  Disputed(k, j)'
    OBVIOUS
  <2>1. PICK m \in {e \in Slots : IsEnv(e)} : \E l \in 1 .. Len(Out(m)) :
          <<m, l>> # <<k, j>> /\ Touched(m, l, Out(k)[j])
    BY DEF Disputed
  <2>2. PICK l \in 1 .. Len(Out(m)) :
          <<m, l>> # <<k, j>> /\ Touched(m, l, Out(k)[j])
    BY <2>1
  <2>3. Touched(m, l, Out(k)[j])'
    <3>1. l \in Nat
      BY <1>2
    <3> QED BY <2>2, <3>1, DisputesPersist, <1>1
  <2> QED BY <1>1, <2>2, <2>3 DEF Disputed
<1>5. \A k \in Slots \ {i} : slot'[k] = slot[k] /\ landed'[k] = landed[k]
  BY <1>2, SlotStepShape, SlotStepEffect
<1>6. CASE /\ disk' = disk /\ landed' = landed /\ slot'[i] # "open"
  BY <1>1, <1>2, <1>3, <1>4, <1>5, <1>6 DEF IntactInv, NextFile
<1>7. CASE \/ /\ slot[i] = "writing" /\ landed' = landed
              /\ slot' = [slot EXCEPT ![i] = "open"]
              /\ disk' = [disk EXCEPT ![NextFile(i)] = Torn]
           \/ /\ slot[i] \in {"writing", "open"}
              /\ landed' = [landed EXCEPT ![i] = landed[i] + 1]
              /\ \E to \in {"planned", "writing"} : slot' = [slot EXCEPT ![i] = to]
              /\ \/ disk' = disk /\ disk[NextFile(i)] = Rendered(i)
                 \/ disk' = [disk EXCEPT ![NextFile(i)] = Rendered(i)]
                 \/ /\ slot[i] = "open"
                    /\ disk[NextFile(i)] # Torn \/ Rival(i)
                    /\ disk' = [disk EXCEPT ![NextFile(i)] = Torn]
  <2>1. PICK g \in File, n \in 1 .. Len(Out(i)) :
          /\ IsEnv(i) /\ Out(i)[n] = g
          /\ g = NextFile(i) /\ n = landed[i] + 1
    BY <1>7, NextFileFacts DEF NextFile
  (* Slot i touches the file ... *)
  <2>2. Touched(i, n, g)'
    BY <1>1, <1>2, <1>7, <2>1 DEF Touched
  (* ... which makes everybody else's claim to it disputed. *)
  <2>3. \A k \in Slots : \A j \in Nat :
          (<<k, j>> # <<i, n>> /\ Out(k)[j] = g) => Disputed(k, j)'
    BY <1>1, <2>1, <2>2 DEF Disputed
  <2>4. \A f \in File : f # g => disk'[f] = disk[f]
    BY <1>2, <1>7, <2>1
  <2>5. ASSUME NEW k \in Slots, NEW j \in 1 .. landed'[k]
        PROVE  disk'[Out(k)[j]] = Rendered(k) \/ Disputed(k, j)'
    <3>1. CASE <<k, j>> = <<i, n>>
      <4>1. landed'[i] = n /\ slot[i] \in {"writing", "open"}
        BY <1>2, <1>7, <2>1, <3>1
      <4>2. CASE disk'[g] = Rendered(i)
        BY <2>1, <3>1, <4>2
      <4>3. CASE slot[i] = "open" /\ disk[g] # Torn
        BY <1>2, <1>3, <1>4, <2>1, <3>1, <4>3
      <4>4. CASE slot[i] = "open" /\ Rival(i)
        <5>1. PICK m \in Slots \ {i} :
                /\ IsEnv(m) /\ slot[m] \in {"open", "failed"}
                /\ landed[m] < Len(Out(m)) /\ NextFile(m) = g
          BY <2>1, <4>4 DEF Rival
        <5>2. /\ landed[m] + 1 \in 1 .. Len(Out(m))
              /\ Touched(m, landed[m] + 1, g)
          BY <1>2, <5>1 DEF Touched, NextFile
        <5>3. Disputed(i, n)
          BY <2>1, <5>1, <5>2 DEF Disputed
        <5> QED BY <1>2, <1>4, <3>1, <5>3
      <4> QED BY <1>2, <1>7, <2>1, <4>1, <4>2, <4>3, <4>4
    <3>2. CASE <<k, j>> # <<i, n>>
      <4>1. j \in 1 .. landed[k]
        BY <1>2, <1>5, <1>7, <2>1, <3>2
      <4>2. IsEnv(k) /\ Out(k)[j] \in File
        BY <1>2, <4>1
      <4>3. CASE Out(k)[j] = g
        BY <2>3, <3>2, <4>1, <4>3
      <4>4. CASE Out(k)[j] # g
        BY <1>3, <1>4, <2>4, <4>1, <4>2, <4>4
      <4> QED BY <4>3, <4>4
    <3> QED BY <3>1, <3>2
  <2>6. ASSUME NEW k \in Slots, slot'[k] = "open"
        PROVE  (disk[NextFile(k)] = Torn \/ Disputed(k, landed[k] + 1))'
    <3>1. PICK j \in Nat : j = landed'[k] + 1
      BY <1>2, <1>5, <1>7
    <3>2. NextFile(k)' = Out(k)[j]
      BY <1>1, <3>1 DEF NextFile
    <3>3. CASE k = i
      BY <1>2, <1>7, <2>1, <2>6, <3>1, <3>2, <3>3
    <3>4. CASE k # i
      <4>1. slot[k] = "open" /\ j = landed[k] + 1
        BY <1>5, <2>6, <3>1, <3>4
      <4>2. NextFile(k) \in File /\ NextFile(k) = Out(k)[j]
        BY <4>1, NextFileFacts DEF NextFile
      <4>3. CASE Out(k)[j] = g
        <5>1. Disputed(k, j)'
          BY <2>3, <3>4, <4>3
        <5> QED BY <3>1, <5>1
      <4>4. CASE Out(k)[j] # g
        <5>1. disk'[Out(k)[j]] = Torn \/ Disputed(k, j)'
          BY <1>3, <1>4, <2>4, <4>1, <4>2, <4>4
        <5> QED BY <3>1, <3>2, <5>1
      <4> QED BY <4>3, <4>4
    <3> QED BY <3>3, <3>4
  <2> QED BY <1>1, <2>5, <2>6 DEF IntactInv, NextFile
<1> QED BY <1>6, <1>7, SlotStepEffect

(* An export without a failure or a conflict, when all have reported. *)
LEMMA FaithfulFinish ==
  ASSUME TypeInv, OrderInv, LandedInv, IntactInv,
         phase \in {"pruning", "saving"}, ~Conflict,
         \A i \in Slots : slot[i] \notin {"failed", "fatal", "undiscovered"},
         NEW i \in Slots, NEW j \in 1 .. Len(Out(i))
  PROVE  /\ slot[i] = "ok" /\ IsEnv(i)
         /\ Out(i)[j] \in FilesWritten
         /\ disk[Out(i)[j]] = Rendered(i)
         /\ Claims[Out(i)[j]] = IdentAt(i)
<1>1. \A k \in Slots : slot[k] = "ok" /\ IsEnv(k) /\ landed[k] = Len(Out(k))
  BY DEF OrderInv, AllReported, AbortHasCause, Finished, LandedInv, TypeInv,
         ActiveIsEnv
<1>2. /\ \A k \in Slots : Out(k) \in Seq(File)
      /\ j \in 1 .. landed[i] /\ Out(i)[j] \in File
  BY <1>1, SlotFacts DEF TypeInv, TypeOK
<1>3. PICK f \in File : f = Out(i)[j]
  BY <1>2
<1>4. Lists(i, j, f)
  BY <1>1, <1>2, <1>3 DEF Lists
<1>5. \A k \in Slots : \A l \in 1 .. landed[k] :
        Lists(k, l, f) => <<k, l>> = <<i, j>>
  <2> SUFFICES ASSUME NEW k \in Slots, NEW l \in 1 .. landed[k],
                      Lists(k, l, f), <<k, l>> # <<i, j>>
               PROVE  Duplicate
    BY DEF Conflict
  <2> QED BY <1>2, <1>4 DEF Duplicate
<1>6. disk[f] = Rendered(i)
  <2>1. disk[f] = Rendered(i) \/ Disputed(i, j)
    BY <1>2, <1>3 DEF IntactInv
  <2>2. ~Disputed(i, j)
    <3> SUFFICES ASSUME NEW k \in Slots, NEW l \in 1 .. Len(Out(k)),
                        <<k, l>> # <<i, j>>, Touched(k, l, Out(i)[j])
                 PROVE  FALSE
      BY DEF Disputed
    <3>1. l \in 1 .. landed[k] /\ Lists(k, l, f)
      BY <1>1, <1>3 DEF Lists, Touched
    <3> QED BY <1>5, <3>1
  <2> QED BY <2>1, <2>2
<1>7. f \in FilesWritten
  BY <1>2, <1>4 DEF FilesWritten, WrittenBy
<1>8. Claims[f] = IdentAt(i)
  <2>1. PICK k \in WrittenBy(f) : Claims[f] = IdentAt(k)
    BY <1>7, ClaimsFacts
  <2>2. k = i
    BY <1>5 DEF WrittenBy
  <2> QED BY <2>1, <2>2
<1> QED BY <1>1, <1>3, <1>6, <1>7, <1>8

LEMMA FaithfulInvInit == Init => FaithfulInv
BY DEF Init, FaithfulInv, IntactInv, SuccessIsFaithful, ExitsZero, Returned

LEMMA SuccessIsFaithfulNext ==
  ASSUME TypeInv, OrderInv, LandedInv, PruneInv, FaithfulInv,
         SkipIndex \/ SaveIndex
  PROVE  SuccessIsFaithful'
<1>1. UNCHANGED <<disk, project, options, slot, landed, Slots>>
  BY SameProject DEF SkipIndex, SaveIndex, dirVars, reconcileUnchanged, poolVars
<1>2. /\ phase \in {"pruning", "saving"} /\ IntactInv
      /\ result' = Outcome
      /\ SkipIndex => options.skipManifest
      /\ SaveIndex => indexFile' = "readable" /\ owner' = Reindexed(removed, Claims)
  BY DEF SkipIndex, SaveIndex, Pruned, FaithfulInv, PruneInv
<1>3. SUFFICES ASSUME ExitsZero',
                      NEW i \in Slots, NEW j \in 1 .. Len(Out(i))
               PROVE  /\ disk[Out(i)[j]] = Rendered(i)
                      /\ SaveIndex => owner'[Out(i)[j]] = IdentAt(i)
  BY <1>1, <1>2, SameProject DEF SuccessIsFaithful
<1>4. /\ ~Conflict
      /\ \A k \in Slots : slot[k] \notin {"failed", "fatal", "undiscovered"}
  BY <1>1, <1>2, <1>3 DEF ExitsZero, Outcome
<1>5. /\ Out(i)[j] \in FilesWritten /\ Out(i)[j] \in File
      /\ disk[Out(i)[j]] = Rendered(i)
      /\ Claims[Out(i)[j]] = IdentAt(i)
  BY <1>2, <1>4, FaithfulFinish DEF FilesWritten
<1>6. SaveIndex => owner'[Out(i)[j]] = IdentAt(i)
  BY <1>2, <1>5, ClaimsFacts DEF Reindexed
<1> QED BY <1>5, <1>6

LEMMA FaithfulInvNext ==
  ASSUME TypeInv, OrderInv, LandedInv, PruneInv, FaithfulInv, [Next]_vars
  PROVE  FaithfulInv'
<1> USE DEF FaithfulInv, SuccessIsFaithful, ExitsZero, Returned
<1>1. ASSUME NEW p \in Projects, NEW o \in Options, Return(p, o) \/ Start(p, o)
      PROVE  FaithfulInv'
  <2>1. /\ Slots' = 1 .. Len(p.found)
        /\ slot' = [i \in 1 .. Len(p.found) |-> "queued"]
        /\ landed' = [i \in 1 .. Len(p.found) |-> 0]
    BY <1>1 DEF Return, Start, Invoke, Slots
  <2>2. IntactInv'
    BY <2>1 DEF IntactInv
  <2>3. (phase' = "idle" /\ result' = "ok") => Slots' = {}
    BY <1>1, <2>1, ProjectShape, ExportAssumption
    DEF Return, Start, NothingFound
  <2> QED BY <2>2, <2>3
<1>2. CASE Pull
  <2>1. /\ phase = "exporting" /\ phase' = phase /\ Slots' = Slots
        /\ UNCHANGED <<disk, landed, project>>
        /\ slot' = [slot EXCEPT ![pulled + 1] = "pulled"]
        /\ slot[pulled + 1] = "queued"
    BY <1>2, SameProject, SlotFacts
    DEF Pull, dirVars, TypeInv, TypeOK, OrderInv, Slots
  <2>2. \A k \in Slots :
          /\ slot'[k] \in {"open", "failed"} <=> slot[k] \in {"open", "failed"}
          /\ slot'[k] = "open" <=> slot[k] = "open"
    BY <2>1 DEF TypeInv, TypeOK
  <2>3. \A k \in Slots : \A l, f : Touched(k, l, f)' <=> Touched(k, l, f)
    BY <2>1, <2>2, SameProject DEF Touched
  <2>4. \A k \in Slots : \A l : Disputed(k, l)' <=> Disputed(k, l)
    BY <2>1, <2>3, SameProject DEF Disputed
  <2> QED BY <2>1, <2>2, <2>4, SameProject DEF IntactInv, NextFile
<1>3. ASSUME NEW i \in Slots, SlotStep(i) PROVE FaithfulInv'
  BY <1>3, SlotStepKeepsIntactInv, SlotStepShape DEF poolUnchanged
<1>4. CASE IndexUnreadable \/ SaveFails \/ Crash
  BY <1>4 DEF IndexUnreadable, SaveFails, Crash, IntactInv
<1>5. CASE SkipIndex \/ SaveIndex
  BY <1>5, SuccessIsFaithfulNext DEF SkipIndex, SaveIndex, IntactInv
<1>6. CASE Reconcile \/ TruncateIndex \/ \E f \in File : Prune(f)
  <2>1. /\ phase # "idle" /\ phase' # "idle" /\ UNCHANGED <<project, slot, landed>>
        /\ AllReported'
    BY <1>6, SameProject
    DEF Reconcile, TruncateIndex, Prune, Pruned, reconcileUnchanged, poolVars,
        OrderInv, AllReported
  <2>2. \A k \in Slots : \A l : Disputed(k, l)' <=> Disputed(k, l)
    BY <2>1, SameProject DEF Disputed, Touched
  <2>3. \A k \in Slots : slot[k] # "open"
    BY <2>1, SameProject DEF AllReported, Finished
  <2>4. ASSUME NEW k \in Slots, NEW j \in 1 .. landed[k]
        PROVE  disk'[Out(k)[j]] = disk[Out(k)[j]]
    <3>1. IsEnv(k) /\ Out(k)[j] \in File
      BY SlotFacts DEF LandedInv, TypeInv, TypeOK
    <3>2. Out(k)[j] \in FilesWritten
      BY <3>1 DEF FilesWritten, WrittenBy, Lists
    <3>3. CASE Reconcile \/ TruncateIndex
      BY <3>3 DEF Reconcile, TruncateIndex, dirVars
    <3>4. ASSUME NEW f \in File, Prune(f) PROVE disk'[Out(k)[j]] = disk[Out(k)[j]]
      <4>1. f # Out(k)[j]
        BY <3>2, <3>4 DEF Prune, PruneInv
      <4> QED BY <3>1, <3>4, <4>1 DEF Prune, TypeInv, TypeOK, DirTypeOK
    <3> QED BY <1>6, <3>3, <3>4
  <2> QED BY <2>1, <2>2, <2>3, <2>4, SameProject DEF IntactInv
<1>7. CASE UNCHANGED vars
  <2>1. UNCHANGED <<disk, indexFile, owner, phase, runs, project, slot, landed,
                    result, options>>
    BY <1>7 DEF vars, dirVars, poolVars
  <2>2. \A k, l : Disputed(k, l)' <=> Disputed(k, l)
    BY <2>1, SameProject DEF Disputed, Touched
  <2> QED BY <2>1, <2>2, SameProject DEF IntactInv, NextFile
<1> QED
  BY <1>1, <1>2, <1>3, <1>4, <1>5, <1>6, <1>7 DEF Next, Quiet, Finalize

(* After an export that exits 0 every file of every environment holds what
   that environment rendered, and is its in the index: whatever the schedule
   of the workers, whatever was there before. *)
THEOREM SuccessesAreFaithful == Spec => []SuccessIsFaithful
<1>1. TypeInv /\ OrderInv /\ LandedInv /\ PruneInv /\ FaithfulInv /\ [Next]_vars
        => FaithfulInv'
  BY FaithfulInvNext
<1>2. FaithfulInv => SuccessIsFaithful
  BY DEF FaithfulInv
<1> QED
  BY <1>1, <1>2, FaithfulInvInit, AlwaysTyped, AlwaysOrdered, AlwaysLanded,
     AlwaysPruning, PTL
  DEF Spec

LEMMA ReplacedInit == Init => ReplacedLeavesNothingStale
BY DEF Init, ReplacedLeavesNothingStale, ExitsZero, Returned

LEMMA ReplacedNext ==
  ASSUME TypeInv, OrderInv, PruneInv, ReplacedLeavesNothingStale, [Next]_vars
  PROVE  ReplacedLeavesNothingStale'
<1> USE DEF ReplacedLeavesNothingStale, ExitsZero, Returned
<1>1. ASSUME NEW p \in Projects, NEW o \in Options, Return(p, o) \/ Start(p, o)
      PROVE  ReplacedLeavesNothingStale'
  <2>1. (phase' = "idle" /\ result' = "ok") => Slots' = {}
    BY <1>1, ProjectShape, ExportAssumption
    DEF Return, Start, Invoke, NothingFound, Slots
  <2> QED BY <2>1
<1>2. CASE Pull \/ (\E i \in Slots : SlotStep(i)) \/ IndexUnreadable
           \/ Reconcile \/ TruncateIndex \/ (\E f \in File : Prune(f))
           \/ SaveFails \/ Crash
  <2>1. phase' # "idle" \/ result' # "ok"
    BY <1>2, SlotStepShape
    DEF Pull, poolUnchanged, IndexUnreadable, Reconcile, TruncateIndex, Prune,
        SaveFails, Crash
  <2> QED BY <2>1
<1>3. CASE SkipIndex
  BY <1>3 DEF SkipIndex, reconcileUnchanged
<1>4. CASE SaveIndex
  <2>1. /\ UNCHANGED <<project, options, slot, landed, Slots, FilesWritten>>
        /\ phase = "saving" /\ result' = Outcome
        /\ owner' = Reindexed(removed, Claims) /\ disk' = disk
        /\ superseded = {}
    BY <1>4, SameProject, SameWritten
    DEF SaveIndex, reconcileUnchanged, poolVars, PruneInv
  <2>2. SUFFICES ASSUME ExitsZero', options.strategy = "replace-envs",
                        NEW f \in File, NEW i \in Slots,
                        owner'[f] = IdentAt(i), f \notin FilesWritten,
                        ~("delete" \in Faults /\ disk[f] # NoFile)
                 PROVE  FALSE
    BY <2>1, SameProject
  <2>3. /\ ~Conflict
        /\ \A k \in Slots : slot[k] \notin {"failed", "fatal", "undiscovered"}
    BY <2>1, <2>2 DEF Outcome
  <2>4. slot[i] = "ok" /\ IsEnv(i) /\ IdentAt(i) # NoOwner
    <3>1. slot[i] = "ok"
      BY <2>1, <2>3 DEF OrderInv, AllReported, AbortHasCause, Finished
    <3> QED BY <3>1, SlotFacts, OutputDirAssumption
            DEF TypeInv, TypeOK, ActiveIsEnv
  <2>5. f \notin removed /\ owner[f] = IdentAt(i)
    BY <2>1, <2>2, <2>4, ClaimsFacts DEF Reindexed
  <2>6. f \in Supersedes \ FilesWritten
    BY <2>2, <2>4, <2>5 DEF Supersedes, Replaced, FilesOf, ReportFailed
  <2> QED BY <2>1, <2>2, <2>3, <2>5, <2>6 DEF PruneInv
<1>5. CASE UNCHANGED vars
  BY <1>5, SameProject, SameWritten DEF vars, dirVars, poolVars
<1> QED
  BY <1>1, <1>2, <1>3, <1>4, <1>5 DEF Next, Quiet, Finalize

(* After a replace-envs export that exits 0 the index attributes to the
   exported environments only what they wrote and what could not be deleted. *)
THEOREM ReplacingIsComplete == Spec => []ReplacedLeavesNothingStale
<1>1. TypeInv /\ OrderInv /\ PruneInv /\ ReplacedLeavesNothingStale /\ [Next]_vars
        => ReplacedLeavesNothingStale'
  BY ReplacedNext
<1> QED
  BY <1>1, ReplacedInit, AlwaysTyped, AlwaysOrdered, AlwaysPruning, PTL DEF Spec

-----------------------------------------------------------------------------
(* Nearer to the end: what ExportReturns rests on besides fairness.        *)

Stage == [s \in Waiting \cup Working \cup Finished |->
            CASE s = "queued"  -> 0
              [] s = "pulled"  -> 1
              [] s = "loading" -> 2
              [] s = "planned" -> 3
              [] s = "writing" -> 4
              [] s = "open"    -> 5
              [] OTHER         -> 6]

(* Slot i has a file more of those it has to write, or gets on with the next
   one; the others stay where they are. *)
Advances(i) ==
  /\ \/ landed[i] < landed'[i] /\ landed'[i] <= Len(Out(i))
     \/ landed[i] = landed'[i] /\ Stage[slot[i]] < Stage[slot'[i]]
  /\ \A k \in Slots \ {i} : slot'[k] = slot[k] /\ landed'[k] = landed[k]

ExportProgress ==
  phase # "idle" =>
    \/ phase' = "idle"
    \/ phase = "exporting" /\ phase' = "exporting" /\ project' = project
       /\ (\E i \in Slots : Advances(i))
    \/ phase = "exporting" /\ phase' = "pruning"
    \/ phase = "pruning" /\ phase' = "pruning"
       /\ (\E f \in superseded : superseded' = superseded \ {f})
    \/ phase = "pruning" /\ phase' = "saving"

LEMMA SlotStepAdvances ==
  ASSUME TypeInv, LandedInv, NEW i \in Slots, SlotStep(i)
  PROVE  Advances(i)
<1>1. /\ DOMAIN slot = Slots /\ DOMAIN landed = Slots /\ landed[i] \in Nat
      /\ slot[i] \in Working
  BY SlotStepShape DEF TypeInv, TypeOK
<1>2. \A k \in Slots \ {i} : slot'[k] = slot[k] /\ landed'[k] = landed[k]
  BY <1>1, SlotStepShape, SlotStepEffect
<1>3. CASE slot[i] \in {"writing", "open"} /\ landed' = [landed EXCEPT ![i] = landed[i] + 1]
  <2>1. landed[i] < ready[i] /\ ready[i] <= Len(Out(i)) /\ ready[i] \in Nat
        /\ Len(Out(i)) \in Nat
    BY <1>3, NextFileFacts, SlotFacts DEF LandedInv, TypeInv, TypeOK, ActiveIsEnv
  <2>2. landed'[i] = landed[i] + 1
    BY <1>1, <1>3
  <2> QED BY <1>1, <1>2, <2>1, <2>2 DEF Advances
<1>4. CASE ~(slot[i] \in {"writing", "open"} /\ landed' = [landed EXCEPT ![i] = landed[i] + 1])
  <2>1. landed' = landed
    BY <1>4, SlotStepEffect
  <2>2. Stage[slot[i]] < Stage[slot'[i]]
    <3>1. CASE LeaveUnchanged(i) \/ Complete(i)
      BY <1>4, <3>1 DEF LeaveUnchanged, Complete, Land, Turn
    <3> DEFINE Goes(from, to) == slot[i] \in from /\ slot'[i] \in to
    <3>2. CASE Undiscovered(i) \/ Begin(i)
      <4>1. Goes({"pulled"}, {"loading", "skipped", "undiscovered"})
        BY <1>1, <3>2 DEF Undiscovered, Begin, Turn
      <4> QED BY <4>1 DEF Stage, Waiting, Working, Finished
    <3>3. CASE Load(i) \/ LoadFails(i)
      <4>1. Goes({"loading"}, {"planned", "failed", "fatal"})
        BY <1>1, <3>3 DEF Load, LoadFails, Fail, Turn
      <4> QED BY <4>1 DEF Stage, Waiting, Working, Finished
    <3>4. CASE Serialize(i) \/ SerializeFails(i) \/ Finish(i)
      <4>1. Goes({"planned"}, {"writing", "ok", "failed", "fatal"})
        BY <1>1, <3>4 DEF Serialize, MoreToSerialize, SerializeFails, Finish, Fail, Turn
      <4> QED BY <4>1 DEF Stage, Waiting, Working, Finished
    <3>5. CASE Truncate(i) \/ WriteFails(i)
      <4>1. Goes({"writing"}, {"open"}) \/ Goes({"writing", "open"}, {"failed"})
        BY <1>1, <3>5 DEF Truncate, WriteFails, Fail, Turn
      <4> QED BY <4>1 DEF Stage, Waiting, Working, Finished
    <3> QED BY <3>1, <3>2, <3>3, <3>4, <3>5 DEF SlotStep
  <2> QED BY <1>1, <1>2, <2>1, <2>2 DEF Advances
<1> QED BY <1>3, <1>4

(* Every step of an export is one nearer to its end: a slot advances, a file
   less is left to be pruned, or the phase goes on.  Slots, files and chunks are
   finite, so an export takes finitely many steps, in any schedule and whatever
   fails: nothing is tried again.  (export_bulk.) *)
THEOREM ExportsProgress == Spec => [][ExportProgress]_vars
<1>1. TypeInv /\ OrderInv /\ LandedInv /\ [Next]_vars => [ExportProgress]_vars
  <2> SUFFICES ASSUME TypeInv, OrderInv, LandedInv, Next, phase # "idle",
                      vars' # vars
               PROVE  ExportProgress
    BY DEF ExportProgress
  <2>1. ASSUME NEW p \in Projects, NEW o \in Options PROVE ~Return(p, o) /\ ~Start(p, o)
    BY DEF Return, Start, Invoke, Idle
  <2>2. CASE Pull
    <3>1. pulled + 1 \in Slots /\ slot[pulled + 1] = "queued"
      BY <2>2, SlotFacts DEF Pull, Slots, OrderInv, TypeInv, TypeOK
    <3>2. /\ slot'[pulled + 1] = "pulled" /\ landed' = landed
          /\ \A k \in Slots \ {pulled + 1} : slot'[k] = slot[k]
      BY <2>2, <3>1 DEF Pull, TypeInv, TypeOK
    <3>3. Advances(pulled + 1)
      BY <3>1, <3>2 DEF Advances, Stage, Waiting, Working, Finished
    <3> QED BY <2>2, <3>1, <3>3 DEF Pull, ExportProgress
  <2>3. ASSUME NEW i \in Slots, SlotStep(i) PROVE ExportProgress
    BY <2>3, SlotStepShape, SlotStepAdvances DEF poolUnchanged, ExportProgress
  <2>4. ASSUME NEW f \in File, Prune(f) PROVE ExportProgress
    BY <2>4 DEF Prune, ExportProgress
  <2>5. CASE IndexUnreadable \/ Reconcile \/ SkipIndex \/ TruncateIndex \/ SaveIndex
             \/ SaveFails \/ Crash
    BY <2>5 DEF IndexUnreadable, Reconcile, SkipIndex, TruncateIndex, SaveIndex,
                SaveFails, Crash, Pruned, ExportProgress
  <2> QED BY <2>1, <2>2, <2>3, <2>4, <2>5 DEF Next, Quiet, Finalize
<1> QED
  BY <1>1, AlwaysTyped, AlwaysOrdered, AlwaysLanded, PTL DEF Spec
=============================================================================
