---------------------------- MODULE RolloutProofs ----------------------------
(***************************************************************************)
(* The safety of apply, prune and delete for any environment, any cluster, *)
(* any number of commands, of changes by others and of failed requests.    *)
(*                                                                         *)
(* What a command reports is proved from what it has still to do: at every *)
(* point, what is not as the command wants it is in one of its lists.      *)
(***************************************************************************)
EXTENDS Rollout, FiniteSetTheorems, WellFoundedInduction, TLAPS

Working == {"confirm", "next", "send"}

(* Where each command can be, and what is empty there. *)
ShapeInv ==
  /\ command.operation = "apply" =>
       /\ phase \in {"idle", "discover", "diff", "create"} \cup Working
       /\ left \subseteq Desired
       /\ target \in Desired \cup {NoId}
  /\ command.operation = "prune" => phase \in {"idle", "discover", "fetch", "list"} \cup Working
  /\ command.operation = "delete" => phase \in {"idle"} \cup Working
  /\ phase \in {"idle", "discover"} => types = {} /\ seen = {}
  /\ phase \in {"idle", "discover", "fetch"} => found = {}
  /\ phase \in {"idle", "discover", "fetch", "list"} => left = {}
  /\ phase \notin {"diff", "fetch"} => todo = {}
  /\ phase \notin {"send", "create"} => target = NoId
  /\ phase \in {"next", "send", "create"} => GoesOn

TypeInv == TypeOK /\ ShapeInv

-----------------------------------------------------------------------------
(* The manifest for a difference.                                          *)

Less == {p \in Nat \X Nat : p[1] < p[2]}

LEMMA LeastNumber ==
  ASSUME NEW S \in SUBSET Nat, S # {}
  PROVE  \E n \in S : \A m \in S : n <= m
<1>1. IsWellFoundedOn(OpToRel(<, Nat), Nat)
  BY NatLessThanWellFounded
<1>2. OpToRel(<, Nat) = Less
  BY DEF OpToRel, Less
<1>3. IsWellFoundedOn(Less, Nat)
  BY <1>1, <1>2
<1>4. PICK n \in S : \A m \in S : ~(<<m, n>> \in Less)
  BY <1>3, WFMin
<1>5. \A m \in S : <<m, n>> \in Nat \X Nat /\ <<m, n>>[1] = m /\ <<m, n>>[2] = n
  OBVIOUS
<1>6. \A m \in S : ~(m < n)
  BY <1>4, <1>5 DEF Less
<1> QED BY <1>6

LEMMA ProjectTyped ==
  ASSUME NEW p \in Seq(Manifest)
  PROVE  \A n \in DOMAIN p : n \in Nat /\ p[n] \in Manifest /\ p[n].id \in Id /\ p[n].spec \in Content
<1>1. \A n \in DOMAIN p : n \in Nat /\ p[n] \in Manifest
  OBVIOUS
<1> QED BY <1>1 DEF Manifest

LEMMA ManifestsTyped ==
  ASSUME TypeOK
  PROVE  /\ DOMAIN manifests \subseteq Nat
         /\ \A n \in DOMAIN manifests :
              /\ manifests[n] \in Manifest
              /\ manifests[n].id \in Id /\ manifests[n].spec \in Content
<1>1. manifests \in Projects \/ manifests = <<>>
  BY DEF TypeOK
<1>2. CASE manifests \in Projects
  <2>1. manifests \in Seq(Manifest)
    BY <1>2, RolloutAssumption
  <2> QED BY <2>1, ProjectTyped
<1>3. CASE manifests = <<>>
  BY <1>3
<1> QED BY <1>1, <1>2, <1>3

(* A manifest is sent for objects of the environment only. *)
LEMMA TargetIsDesired ==
  ASSUME TypeInv, phase = "create" \/ (phase = "send" /\ command.operation = "apply")
  PROVE  command.operation = "apply" /\ target \in Id /\ target \in Desired
<1>1. command.operation \in Operation
  BY RolloutAssumption DEF TypeInv, TypeOK, Command
<1>2. command.operation = "apply"
  BY <1>1 DEF TypeInv, ShapeInv, Operation, Working
<1>3. target \in Id /\ target # NoId
  BY ClusterAssumption DEF TypeInv, TypeOK
<1> QED BY <1>2, <1>3 DEF TypeInv, ShapeInv

(* Of a difference of this apply there is a manifest of that kind and name. *)
LEMMA ManifestForTyped ==
  ASSUME TypeOK, NEW i \in Desired
  PROVE  \E n \in DOMAIN manifests : ManifestFor(i) = manifests[n] /\ Corresponds(n, i)
<1> DEFINE S == {n \in DOMAIN manifests : Corresponds(n, i)}
<1>1. S \in SUBSET Nat /\ S # {}
  BY ManifestsTyped DEF Desired, Corresponds
<1>2. \E n \in S : \A m \in S : n <= m
  BY <1>1, LeastNumber
<1>3. \E n \in DOMAIN manifests :
        /\ Corresponds(n, i)
        /\ \A m \in DOMAIN manifests : Corresponds(m, i) => n <= m
  BY <1>2
<1> QED BY <1>3 DEF ManifestFor

LEMMA CurrentTyped ==
  ASSUME ClusterTypeOK, NEW i \in Id
  PROVE  /\ Current(i) \in Object
         /\ Exists(i) => Current(i) = live[i]
         /\ Current(i).uid = IF Exists(i) THEN live[i].uid ELSE uids + 1
<1>1. CASE Exists(i)
  <2>1. live[i] \in Object
    BY <1>1 DEF ClusterTypeOK, Exists
  <2> QED BY <1>1, <2>1 DEF Current
<1>2. CASE ~Exists(i)
  <2>1. [f \in Field |-> Unset] \in Content
    BY DEF Content
  <2>2. uids + 1 \in Nat
    BY DEF ClusterTypeOK
  <2> QED BY <1>2, <2>1, <2>2 DEF Current, Object
<1> QED BY <1>1, <1>2

(* What a manifest makes of the fields of an object. *)
Merged(m) ==
  LET before == Current(m.id)
  IN  [f \in Field |-> IF f \in Fields(m.spec) THEN m.spec[f]
                      ELSE IF command.strategy = "server" /\ f \in before.held THEN Unset
                      ELSE before.spec[f]]

Holding(m) ==
  LET before == Current(m.id)
      changed == {f \in Fields(m.spec) : before.spec[f] # m.spec[f]}
  IN  IF command.strategy = "server" THEN (before.held \cap Fields(m.spec)) \cup changed
      ELSE before.held \ changed

LEMMA AppliedIs ==
  ASSUME TypeOK, NEW m \in Manifest
  PROVE  /\ Merged(m) \in Content /\ Holding(m) \in SUBSET Field
         /\ Applied(m) =
              [Current(m.id) EXCEPT
                 !.spec = Merged(m), !.annotated = Current(m.id).annotated, !.held = Holding(m),
                 !.label = TRUE, !.ours = Current(m.id).ours \/ command.strategy = "server"]
<1>1. m.id \in Id /\ m.spec \in Content
  BY DEF Manifest
<1>2. Current(m.id) \in Object
  BY <1>1, CurrentTyped DEF TypeOK
<1>3. PICK before \in Object : before = Current(m.id)
  BY <1>2
<1>4. before.spec \in Content /\ before.held \in SUBSET Field /\ before.annotated \in SUBSET Field
  BY DEF Object
<1>5. Merged(m) \in Content
  BY <1>1, <1>3, <1>4 DEF Merged, Content
<1>6. Holding(m) \in SUBSET Field
  BY <1>3, <1>4 DEF Holding, Fields
<1>7. Applied(m) = [before EXCEPT !.spec = Merged(m), !.held = Holding(m), !.label = TRUE,
                                  !.ours = before.ours \/ command.strategy = "server"]
  BY <1>3 DEF Applied, Merged, Holding, Object
<1>8. [before EXCEPT !.spec = Merged(m), !.annotated = before.annotated, !.held = Holding(m),
                     !.label = TRUE, !.ours = before.ours \/ command.strategy = "server"]
      = [before EXCEPT !.spec = Merged(m), !.held = Holding(m), !.label = TRUE,
                       !.ours = before.ours \/ command.strategy = "server"]
  BY DEF Object
<1> QED BY <1>3, <1>5, <1>6, <1>7, <1>8

(* The manifest's fields are set; after server-side apply only they are held. *)
LEMMA AppliedTyped ==
  ASSUME TypeOK, NEW m \in Manifest
  PROVE  /\ Applied(m) \in Object /\ Applied(m).label
         /\ Applied(m).uid = IF Exists(m.id) THEN live[m.id].uid ELSE uids + 1
         /\ \A f \in Fields(m.spec) : Applied(m).spec[f] = m.spec[f]
         /\ command.strategy = "server" => Applied(m).held \subseteq Fields(m.spec)
<1>1. m.id \in Id /\ m.spec \in Content
  BY DEF Manifest
<1>2. PICK before \in Object : before = Current(m.id)
  BY <1>1, CurrentTyped DEF TypeOK
<1>3. before.annotated \in SUBSET Field /\ before.ours \in BOOLEAN
  BY DEF Object
<1>4. PICK s \in Content, h \in SUBSET Field, o \in BOOLEAN :
        s = Merged(m) /\ h = Holding(m) /\ o = (before.ours \/ command.strategy = "server")
  BY AppliedIs
<1>5. PICK after :
        /\ after = Applied(m)
        /\ after = [before EXCEPT !.spec = s, !.annotated = before.annotated, !.held = h,
                                  !.label = TRUE, !.ours = o]
  BY <1>2, <1>4, AppliedIs
<1>6. /\ after \in Object /\ after.label = TRUE /\ after.uid = before.uid
      /\ after.spec = s /\ after.held = h
  BY <1>3, <1>5 DEF Object
<1>7. \A f \in Fields(m.spec) : Merged(m)[f] = m.spec[f]
  BY DEF Merged, Fields
<1>8. command.strategy = "server" => Holding(m) \subseteq Fields(m.spec)
  BY DEF Holding
<1>9. before.uid = IF Exists(m.id) THEN live[m.id].uid ELSE uids + 1
  BY <1>1, <1>2, CurrentTyped DEF TypeOK
<1> QED BY <1>4, <1>5, <1>6, <1>7, <1>8, <1>9

LEMMA RivalTyped ==
  ASSUME ClusterTypeOK, NEW i \in Id, NEW s \in Foreign, NEW l \in BOOLEAN, NEW k \in BOOLEAN,
         RivalStores(i, s, l, k)
  PROVE  \E object \in Object :
           /\ Store(i, object) /\ Accepts(i)
           /\ object.uid = IF Exists(i) THEN live[i].uid ELSE uids + 1
<1>1. s \in Content
  BY RolloutAssumption
<1>2. PICK before \in Object : before = Current(i)
  BY CurrentTyped
<1> DEFINE A == IF k THEN Fields(s) ELSE before.annotated
           h == {f \in before.held : s[f] = before.spec[f]}
           o == before.ours \/ k
<1>3. A \in SUBSET Field /\ h \in SUBSET Field /\ o \in BOOLEAN
  BY DEF Object, Fields
<1>4. PICK after :
        after = [before EXCEPT !.spec = s, !.annotated = A, !.held = h, !.label = l, !.ours = o]
  OBVIOUS
<1>5. after = [before EXCEPT !.spec = s,
                             !.annotated = IF k THEN Fields(s) ELSE @,
                             !.held = {f \in @ : s[f] = before.spec[f]},
                             !.label = l,
                             !.ours = @ \/ k]
  BY <1>4 DEF Object
<1>6. after \in Object /\ after.uid = before.uid
  <2> HIDE DEF A, h, o
  <2> QED BY <1>1, <1>3, <1>4 DEF Object
<1>7. Store(i, after) /\ Accepts(i)
  BY <1>2, <1>5 DEF RivalStores
<1>8. before.uid = IF Exists(i) THEN live[i].uid ELSE uids + 1
  BY <1>2, CurrentTyped
<1> QED BY <1>6, <1>7, <1>8

-----------------------------------------------------------------------------
(* Types.                                                                  *)

LEMMA StoreTyped ==
  ASSUME ClusterTypeOK, NEW i \in Id, NEW object \in Object, Store(i, object)
  PROVE  ClusterTypeOK'
BY DEF ClusterTypeOK, Store

LEMMA DeleteTyped ==
  ASSUME ClusterTypeOK, NEW i \in Id, Delete(i)
  PROVE  ClusterTypeOK'
BY DEF ClusterTypeOK, Delete

LEMMA InitTypes == Init => TypeInv
<1> SUFFICES ASSUME Init PROVE TypeInv OBVIOUS
<1>1. command \in Commands
  BY RolloutAssumption DEF Init
<1>2. Cardinality(Id) \in Nat
  BY RolloutAssumption, FS_CardinalityType
<1>3. ClusterTypeOK
  BY <1>2, RolloutAssumption DEF Init, ClusterTypeOK
<1>4. TypeOK
  <2>1. commands \in 0 .. MaxCommands /\ rivals \in 0 .. MaxRivals /\ faults \in 0 .. MaxFaults
        /\ tries \in 0 .. MaxTries
    BY RolloutAssumption DEF Init
  <2>2. manifests \in Projects \cup {<<>>} /\ todo \subseteq DOMAIN manifests
    BY DEF Init
  <2>3. phase = "idle" /\ types = {} /\ seen = {} /\ found = {} /\ left = {} /\ target = NoId
        /\ known = {} /\ result = "none" /\ calm = TRUE /\ blamed = FALSE
    BY DEF Init
  <2> QED BY <1>1, <1>3, <2>1, <2>2, <2>3 DEF TypeOK, Phase
<1> QED BY <1>1, <1>4 DEF Init, TypeInv, ShapeInv

(* Every end leaves the same behind. *)
LEMMA EndKeepsTypes ==
  ASSUME TypeInv, NEW outcome \in {"ok", "failed"}, End(outcome), ClusterTypeOK',
         blamed' \in BOOLEAN, commands' = commands, rivals' = rivals, faults' \in 0 .. MaxFaults
  PROVE  TypeInv'
<1>1. TypeOK'
  BY RolloutAssumption DEF TypeInv, TypeOK, End, Phase, askVars
<1>2. ShapeInv'
  BY DEF TypeInv, ShapeInv, End
<1> QED BY <1>1, <1>2 DEF TypeInv

(* The step ends the command and changes nothing else. *)
Ends ==
  /\ \E outcome \in {"ok", "failed"} : End(outcome)
  /\ UNCHANGED <<live, served, uids, commands, rivals>>
  /\ blamed' \in {TRUE, blamed}

LEMMA EndingSteps ==
  ASSUME \/ NothingToApply \/ UnknownKind \/ NothingDiffers \/ NothingToPrune
         \/ (\E k \in Kind, v \in Version : ListFails(k, v))
         \/ Declined \/ Unasked \/ Finished \/ TimeOut \/ NotServed \/ Refused \/ Conflicts
         \/ RequestFails
  PROVE  Ends /\ faults' \in {faults, faults + 1} /\ (faults' # faults => faults < MaxFaults)
BY DEF Ends, NothingToApply, UnknownKind, NothingDiffers, NothingToPrune, ListFails, Declined,
       Unasked, Finished, TimeOut, NotServed, Refused, Conflicts, RequestFails, Fault, Succeeds, Fails,
       FailsFor, Return, clusterVars, countVars

LEMMA NextKeepsTypes == TypeInv /\ [Next]_vars => TypeInv'
<1> SUFFICES ASSUME TypeInv, [Next]_vars PROVE TypeInv'
  OBVIOUS
<1>0. phase = "create" \/ (phase = "send" /\ command.operation = "apply")
        => command.operation = "apply" /\ target \in Id /\ target \in Desired
  BY TargetIsDesired
<1>15. command' = command => (GoesOn' <=> GoesOn)
  BY DEF GoesOn, IsDry
<1>16. \/ \E i \in Id, s \in Foreign, l, k \in BOOLEAN : RivalStores(i, s, l, k)
       \/ \E i \in Id : RivalDeletes(i)
       \/ Settle \/ UNCHANGED vars
       => rivals' = rivals \/ (rivals < MaxRivals /\ rivals' = rivals + 1)
  BY DEF RivalStores, RivalDeletes, RivalChanges, Settle, vars, countVars
<1> USE DEF TypeInv, TypeOK, Phase, Working, clusterVars, askVars, countVars, workVars
<1>1. CASE \/ NothingToApply \/ UnknownKind \/ NothingDiffers \/ NothingToPrune
           \/ (\E k \in Kind, v \in Version : ListFails(k, v))
           \/ Declined \/ Unasked \/ Finished \/ TimeOut \/ NotServed \/ Refused \/ Conflicts
           \/ RequestFails
  <2>1. faults' \in 0 .. MaxFaults
    BY <1>1, EndingSteps, RolloutAssumption
  <2>2. ClusterTypeOK' /\ blamed' \in BOOLEAN
    BY <1>1, EndingSteps DEF Ends, ClusterTypeOK
  <2> QED BY <1>1, <2>1, <2>2, EndingSteps, EndKeepsTypes DEF Ends
<1>2. ASSUME NEW c \in Commands, NEW p \in Projects, Invoke(c, p) PROVE TypeInv'
  <2>1. c.operation \in Operation
    BY RolloutAssumption DEF Command
  <2>2. p \in Seq(Manifest)
    BY RolloutAssumption
  <2>3. \A n \in DOMAIN p : p[n].id \in Id
    BY <2>2, ProjectTyped
  <2>4. commands' \in 0 .. MaxCommands
    BY <1>2, RolloutAssumption DEF Invoke
  <2>5. TypeOK'
    BY <1>2, <2>3, <2>4 DEF Invoke, ShapeInv, ClusterTypeOK
  <2>6. ShapeInv'
    BY <1>2, <2>1 DEF Invoke, ShapeInv, Operation
  <2> QED BY <2>5, <2>6
<1>3. CASE Discover
  <2>1. types' \subseteq Kind \X Version
    BY <1>3, RolloutAssumption DEF Discover, ClusterTypeOK
  <2>2. TypeOK'
    BY <1>3, <2>1 DEF Discover, ClusterTypeOK
  <2>3. ShapeInv'
    BY <1>3 DEF Discover, ShapeInv
  <2> QED BY <2>2, <2>3
<1>4. ASSUME NEW n \in todo, Diff(n) \/ Fetch(n) PROVE TypeInv'
  <2>1. manifests[n].id \in Id /\ manifests[n].id \in Desired
    BY ManifestsTyped DEF Desired
  <2>2. Exists(manifests[n].id) => live[manifests[n].id].uid \in Nat
    BY <2>1 DEF Exists, ClusterTypeOK, Object
  <2>3. TypeOK'
    BY <1>4, <2>1, <2>2 DEF Diff, Fetch, ClusterTypeOK
  <2>4. ShapeInv'
    BY <1>4, <2>1 DEF Diff, Fetch, ShapeInv, Desired
  <2> QED BY <2>3, <2>4
<1>5. CASE SomethingDiffers \/ Fetched \/ Approved
  <2>1. TypeOK'
    BY <1>5 DEF SomethingDiffers, Fetched, Approved, ClusterTypeOK
  <2>2. ShapeInv'
    BY <1>5, <1>15 DEF SomethingDiffers, Fetched, Approved, ShapeInv, Desired
  <2> QED BY <2>1, <2>2
<1>6. ASSUME NEW k \in Kind, NEW v \in Version, List(k, v) PROVE TypeInv'
  <2>1. \A i \in Id : IsOrphan(i, v) => live[i].uid \in Nat
    BY DEF IsOrphan, Exists, ClusterTypeOK, Object
  <2>2. found' \subseteq [id : Id, uid : Nat]
    BY <1>6, <2>1 DEF List
  <2>3. TypeOK'
    BY <1>6, <2>2 DEF List, ClusterTypeOK
  <2>4. ShapeInv'
    BY <1>6 DEF List, ShapeInv, Desired
  <2> QED BY <2>3, <2>4
<1>7. CASE Listed
  <2>1. Victims \subseteq Id
    BY DEF Victims
  <2>2. TypeOK'
    BY <1>7, <2>1 DEF Listed, ClusterTypeOK
  <2>3. ShapeInv'
    BY <1>7 DEF Listed, ShapeInv, Desired
  <2> QED BY <2>2, <2>3
<1>8. ASSUME NEW i \in Id, Choose(i) PROVE TypeInv'
  <2>1. 0 \in 0 .. MaxTries
    BY RolloutAssumption
  <2>2. TypeOK'
    BY <1>8, <2>1 DEF Choose, ClusterTypeOK
  <2>3. ShapeInv'
    BY <1>8, <1>15 DEF Choose, IsNext, ShapeInv, Desired
  <2> QED BY <2>2, <2>3
<1>9. CASE Retry
  <2>1. tries' \in 0 .. MaxTries
    BY <1>9, RolloutAssumption DEF Retry
  <2>2. TypeOK'
    BY <1>9, <2>1 DEF Retry, ClusterTypeOK
  <2>3. ShapeInv'
    BY <1>9, <1>15 DEF Retry, ShapeInv, Desired
  <2> QED BY <2>2, <2>3
<1>10. CASE Patch \/ Create
  <2>1. target \in Desired
    BY <1>10, <1>0 DEF Patch, Create
  <2>2. ManifestFor(target) \in Manifest /\ ManifestFor(target).id \in Id
    BY <2>1, ManifestForTyped, ManifestsTyped
  <2>3. Stored(ManifestFor(target))
    BY <1>10 DEF Patch, Create
  <2>4. ClusterTypeOK'
    BY <2>2, <2>3, AppliedTyped, StoreTyped DEF Stored
  <2>5. TypeOK'
    BY <2>3, <2>4 DEF Stored
  <2>6. ShapeInv'
    BY <2>1, <1>10, <1>15, <2>3 DEF Stored, Patch, Create, ShapeInv, Desired
  <2> QED BY <2>5, <2>6
<1>11. CASE PatchMisses
  <2>1. TypeOK'
    BY <1>11 DEF PatchMisses, ClusterTypeOK
  <2>2. ShapeInv'
    BY <1>11, <1>15 DEF PatchMisses, ShapeInv, Desired
  <2> QED BY <2>1, <2>2
<1>12. CASE Remove
  <2>1. ClusterTypeOK'
    BY <1>12, DeleteTyped DEF Remove, ClusterTypeOK
  <2>2. TypeOK'
    BY <1>12, <2>1 DEF Remove
  <2>3. ShapeInv'
    BY <1>12, <1>15 DEF Remove, ShapeInv, Desired
  <2> QED BY <2>2, <2>3
<1>13. CASE AnswerLost
  <2>1. ClusterTypeOK'
    <3>1. CASE phase = "send" /\ Delete(target)
      BY <3>1, DeleteTyped
    <3>2. CASE /\ phase = "create" \/ (phase = "send" /\ command.operation = "apply")
               /\ Store(ManifestFor(target).id, Applied(ManifestFor(target)))
      <4>1. target \in Desired
        BY <3>2, <1>0
      <4>2. ManifestFor(target) \in Manifest /\ ManifestFor(target).id \in Id
        BY <4>1, ManifestForTyped, ManifestsTyped
      <4> QED BY <3>2, <4>2, AppliedTyped, StoreTyped
    <3> QED BY <1>13, <3>1, <3>2 DEF AnswerLost
  <2>2. faults' \in 0 .. MaxFaults
    BY <1>13, RolloutAssumption DEF AnswerLost, Fault
  <2> QED BY <1>13, <2>1, <2>2, EndKeepsTypes DEF AnswerLost, Fault
<1>14. CASE \/ \E i \in Id, s \in Foreign, l, k \in BOOLEAN : RivalStores(i, s, l, k)
            \/ \E i \in Id : RivalDeletes(i)
            \/ Settle \/ UNCHANGED vars
  <2>1. ClusterTypeOK'
    <3>1. ASSUME NEW i \in Id, NEW s \in Foreign, NEW l \in BOOLEAN, NEW k \in BOOLEAN,
                 RivalStores(i, s, l, k)
          PROVE  ClusterTypeOK'
      BY <3>1, RivalTyped, StoreTyped
    <3>2. CASE \E i \in Id : RivalDeletes(i)
      BY <3>2, DeleteTyped DEF RivalDeletes
    <3>3. CASE Settle \/ UNCHANGED vars
      BY <3>3, ClusterAssumption DEF Settle, Establish, Retire, vars, ClusterTypeOK
    <3> QED BY <1>14, <3>1, <3>2, <3>3
  <2>2. UNCHANGED <<phase, askVars, workVars, result, blamed, commands, faults>>
        /\ calm' \in {calm, FALSE}
    BY <1>14 DEF RivalStores, RivalDeletes, RivalChanges, Settle, vars
  <2>3. rivals' \in 0 .. MaxRivals
    BY <1>14, <1>16, RolloutAssumption
  <2>4. TypeOK'
    BY <2>1, <2>2, <2>3
  <2>5. ShapeInv'
    BY <2>2, <1>15 DEF ShapeInv, Desired
  <2> QED BY <2>4, <2>5
<1> QED BY <1>1, <1>2, <1>3, <1>4, <1>5, <1>6, <1>7, <1>8, <1>9, <1>10, <1>11, <1>12, <1>13, <1>14
        DEF Next, Step

LEMMA AlwaysTyped == Spec => []TypeInv
BY InitTypes, NextKeepsTypes, PTL DEF Spec

(* Every variable keeps its type; in particular a command attempts no kind
   more often than its deadline lets it, and what it writes is one of its
   manifests.  (apply_when_discovered, apply_environment.) *)
THEOREM TypeCorrect == Spec => []TypeOK
<1>1. TypeInv => TypeOK
  BY DEF TypeInv
<1> QED BY <1>1, AlwaysTyped, PTL

-----------------------------------------------------------------------------
(* What the steps of a command have in common.                             *)

LEMMA DesiredTyped == TypeOK => Desired \subseteq Id /\ NoId \notin Desired
BY ManifestsTyped, ClusterAssumption DEF Desired

LEMMA SameManifests ==
  ASSUME manifests' = manifests
  PROVE  Desired' = Desired
BY DEF Desired

(* Steps of others that a calm command does not meet, and steps that change
   neither what there is nor what the command does. *)
LEMMA Bystanders ==
  ASSUME \/ \E i \in Id, s \in Foreign, l, k \in BOOLEAN : RivalStores(i, s, l, k)
         \/ \E i \in Id : RivalDeletes(i)
         \/ Settle \/ UNCHANGED vars
  PROVE  calm' => /\ UNCHANGED <<live, phase, command, manifests, known, todo, types, seen,
                                 found, left, target, result, calm>>
BY DEF RivalStores, RivalDeletes, RivalChanges, Settle, Establish, Retire, vars, clusterVars,
       askVars, workVars

-----------------------------------------------------------------------------
(* Delete.                                                                 *)

(* What is not gone yet is still to be deleted. *)
StillToDelete ==
  /\ phase \in Working => \A i \in Desired : i \in left \/ i = target \/ ~Exists(i)
  /\ phase = "idle" /\ result = "ok" => \A i \in Desired : ~Exists(i)

DeleteInv == command.operation = "delete" /\ calm /\ ~IsDry => StillToDelete

LEMMA InitDelete == Init => DeleteInv
BY DEF Init, DeleteInv, StillToDelete, Working

LEMMA NextKeepsDelete == TypeInv /\ DeleteInv /\ [Next]_vars => DeleteInv'
<1> SUFFICES ASSUME TypeInv, DeleteInv, [Next]_vars,
                    command'.operation = "delete", calm', ~IsDry'
             PROVE  StillToDelete'
  BY DEF DeleteInv
<1> USE DEF StillToDelete, Working
<1>1. CASE \/ \E i \in Id, s \in Foreign, l, k \in BOOLEAN : RivalStores(i, s, l, k)
           \/ \E i \in Id : RivalDeletes(i)
           \/ Settle \/ UNCHANGED vars
  BY <1>1, Bystanders DEF DeleteInv, IsDry, Desired, Exists
<1>2. ASSUME NEW c \in Commands, NEW p \in Projects, Invoke(c, p)
      PROVE  StillToDelete'
  BY <1>2 DEF Invoke, Desired
<1>3. CASE ~ \E c \in Commands, p \in Projects : Invoke(c, p)
  <2>1. CASE RequestFails \/ AnswerLost
    BY <2>1 DEF RequestFails, AnswerLost, Fault, End
  <2>2. CASE Step
    <3>1. command' = command /\ manifests' = manifests /\ calm' = calm
      BY <2>2 DEF Step, NothingToApply, Discover, UnknownKind, Diff, Fetch, NothingDiffers,
         SomethingDiffers, Fetched, List, ListFails, NothingToPrune, Listed, Approved, Declined,
         Unasked, Choose, Finished, Retry, TimeOut, NotServed, Patch, PatchMisses, Create,
         Stored, Refused, Conflicts, Remove, Succeeds, Fails, FailsFor, Return, End, askVars
    <3>2. command.operation = "delete" /\ Desired' = Desired /\ phase \in Working
      BY <2>2, <3>1, SameManifests
      DEF TypeInv, ShapeInv, Step, NothingToApply, Discover, UnknownKind, Diff, Fetch,
          NothingDiffers, SomethingDiffers, Fetched, List, ListFails, NothingToPrune, Listed,
          Approved, Declined, Unasked, Choose, Finished, Retry, TimeOut, NotServed, Patch,
          PatchMisses, Create, Refused, Conflicts, Remove
    <3>3. \A i \in Desired : i \in left \/ i = target \/ ~Exists(i)
      BY <3>1, <3>2 DEF DeleteInv, IsDry
    <3>4. CASE Finished
      BY <3>2, <3>3, <3>4, DesiredTyped
      DEF Finished, Succeeds, Return, End, TypeInv, ShapeInv, Exists, clusterVars
    <3>5. CASE Approved
      BY <3>2, <3>3, <3>5 DEF Approved, workVars, clusterVars, Exists
    <3>6. ASSUME NEW i \in Id, Choose(i)
          PROVE  phase' # "idle" /\ \A j \in Desired : j \in left' \/ j = target' \/ ~Exists(j)'
      <4>1. target = NoId /\ \A j \in Desired : j # NoId
        BY <3>6, DesiredTyped DEF Choose, TypeInv, ShapeInv
      <4> QED BY <3>3, <3>6, <4>1 DEF Choose, clusterVars, Exists
    <3>7. CASE Remove
      <4>1. \A j \in Desired : j = target => ~Exists(j)'
        BY <3>1, <3>7, DesiredTyped DEF Remove, IsDry, Delete, Contents, Exists, TypeInv
      <4>2. \A j \in Desired : ~Exists(j) => ~Exists(j)'
        BY <3>1, <3>7, DesiredTyped DEF Remove, IsDry, Delete, Exists, TypeInv
      <4>3. left' = left /\ phase' = "next"
        BY <3>7 DEF Remove
      <4> QED BY <3>2, <3>3, <4>1, <4>2, <4>3
    <3>8. CASE ~Finished /\ ~Approved /\ ~Remove /\ ~(\E i \in Id : Choose(i))
      <4>1. \/ Unasked \/ TimeOut \/ NotServed \/ Refused \/ Conflicts \/ Retry
        BY <2>2, <3>2, <3>8
        DEF Step, NothingToApply, Discover, UnknownKind, Diff, Fetch, NothingDiffers,
            SomethingDiffers, Fetched, List, ListFails, NothingToPrune, Listed, Declined, Patch,
            PatchMisses, Create
      <4>2. CASE Retry
        BY <3>2, <3>3, <4>2 DEF Retry, clusterVars, Exists
      <4>3. CASE Unasked \/ TimeOut \/ NotServed \/ Refused \/ Conflicts
        BY <4>3 DEF Unasked, TimeOut, NotServed, Refused, Conflicts, FailsFor, Fails, Return, End
      <4> QED BY <4>1, <4>2, <4>3
    <3> QED BY <3>2, <3>4, <3>5, <3>6, <3>7, <3>8
  <2> QED BY <1>1, <1>3, <2>1, <2>2 DEF Next
<1> QED BY <1>2, <1>3

(* After a delete that was no dry run and returned Ok, and until somebody else
   changes the cluster, nothing of the environment is left.  (commands/delete.rs.) *)
THEOREM DeletedIsGone == Spec => []DeletedMeansGone
<1>1. DeleteInv => DeletedMeansGone
  BY DEF DeleteInv, StillToDelete, DeletedMeansGone, Ended, IsCarriedOut
<1> QED BY <1>1, InitDelete, NextKeepsDelete, AlwaysTyped, PTL DEF Spec

-----------------------------------------------------------------------------
(* The cluster.                                                            *)

(* No two objects are the same incarnation, each is of a kind that is listed,
   and a custom kind has its CRD as long as there are objects of it. *)
WorldInv ==
  \A i \in Id : Exists(i) =>
    /\ live[i].uid <= uids
    /\ \A j \in Id : Exists(j) /\ live[j].uid = live[i].uid => i = j
    /\ KindOf[i] \in served
    /\ IsCustom(KindOf[i]) => \E d \in Id : Declares[d] = KindOf[i] /\ Exists(d)

LEMMA InitWorld == Init => WorldInv
<1> SUFFICES ASSUME Init PROVE WorldInv OBVIOUS
<1>1. PICK c \in Clusters : live = c.live /\ served = c.served
  BY DEF Init
<1>2. uids = Cardinality(Id)
  BY DEF Init
<1> QED BY <1>1, <1>2, ClustersAssumption DEF WorldInv, Exists

(* An object that is written is a new incarnation or stays the one it was. *)
Writes(i, object) ==
  /\ Store(i, object)
  /\ Accepts(i)
  /\ object.uid = IF Exists(i) THEN live[i].uid ELSE uids + 1

(* What a step can do to the cluster. *)
LEMMA ClusterSteps ==
  ASSUME TypeInv, [Next]_vars
  PROVE  \/ UNCHANGED clusterVars
         \/ \E i \in Id : Delete(i)
         \/ \E i \in Id, object \in Object : Writes(i, object)
         \/ \E i \in Id : Establish(i)
         \/ \E k \in Kind : Retire(k)
<1>1. TypeOK
  BY DEF TypeInv
<1>2. (phase = "create" \/ (phase = "send" /\ command.operation = "apply"))
        => /\ ManifestFor(target) \in Manifest /\ ManifestFor(target).id \in Id
           /\ Applied(ManifestFor(target)) \in Object
  BY <1>1, TargetIsDesired, ManifestForTyped, ManifestsTyped, AppliedTyped
<1>3. CASE Patch \/ Create
  <2>1. Store(ManifestFor(target).id, Applied(ManifestFor(target)))
        /\ Accepts(ManifestFor(target).id)
    BY <1>3 DEF Patch, Create, Stored
  <2>2. phase = "create" \/ (phase = "send" /\ command.operation = "apply")
    BY <1>3 DEF Patch, Create
  <2>3. Writes(ManifestFor(target).id, Applied(ManifestFor(target)))
    BY <1>1, <1>2, <2>1, <2>2, AppliedTyped DEF Writes
  <2> QED BY <1>2, <2>2, <2>3
<1>4. CASE AnswerLost
  <2>1. CASE phase = "send" /\ command.operation # "apply" /\ Delete(target)
    BY <2>1, <1>1 DEF TypeOK
  <2>2. CASE /\ phase = "create" \/ (phase = "send" /\ command.operation = "apply")
             /\ Accepts(ManifestFor(target).id)
             /\ Store(ManifestFor(target).id, Applied(ManifestFor(target)))
    <3>1. Writes(ManifestFor(target).id, Applied(ManifestFor(target)))
      BY <1>1, <1>2, <2>2, AppliedTyped DEF Writes
    <3> QED BY <1>2, <2>2, <3>1
  <2> QED BY <1>4, <2>1, <2>2 DEF AnswerLost
<1>5. ASSUME NEW i \in Id, NEW s \in Foreign, NEW l \in BOOLEAN, NEW k \in BOOLEAN,
             RivalStores(i, s, l, k)
      PROVE  \E object \in Object : Writes(i, object)
  BY <1>1, <1>5, RivalTyped DEF TypeOK, Writes
<1>6. CASE Remove
  BY <1>1, <1>6 DEF Remove, TypeOK
<1>7. CASE \/ Discover \/ (\E n \in todo : Diff(n) \/ Fetch(n)) \/ SomethingDiffers \/ Fetched
           \/ (\E k \in Kind, v \in Version : List(k, v)) \/ Listed \/ Approved
           \/ (\E i \in Id : Choose(i)) \/ Retry \/ PatchMisses
           \/ (\E c \in Commands, p \in Projects : Invoke(c, p)) \/ UNCHANGED vars
  BY <1>7 DEF Discover, Diff, Fetch, SomethingDiffers, Fetched, List, Listed, Approved, Choose,
              Retry, PatchMisses, Invoke, vars
<1>8. CASE \/ NothingToApply \/ UnknownKind \/ NothingDiffers \/ NothingToPrune
           \/ (\E k \in Kind, v \in Version : ListFails(k, v))
           \/ Declined \/ Unasked \/ Finished \/ TimeOut \/ NotServed \/ Refused \/ Conflicts
           \/ RequestFails
  BY <1>8, EndingSteps DEF Ends, clusterVars
<1>9. CASE Settle \/ \E i \in Id : RivalDeletes(i)
  BY <1>9 DEF Settle, RivalDeletes
<1> QED BY <1>3, <1>4, <1>5, <1>6, <1>7, <1>8, <1>9 DEF Next, Step

LEMMA NextKeepsWorld == TypeInv /\ WorldInv /\ [Next]_vars => WorldInv'
<1> SUFFICES ASSUME TypeInv, WorldInv, [Next]_vars PROVE WorldInv'
  OBVIOUS
<1>1. uids \in Nat /\ live \in [Id -> Object \cup {Absent}] /\ NoId \notin Id
  BY ClusterAssumption DEF TypeInv, TypeOK, ClusterTypeOK
<1>2. \A i \in Id : Exists(i) => live[i].uid \in Nat
  BY <1>1 DEF Exists, Object
<1>3. CASE UNCHANGED clusterVars
  BY <1>3 DEF clusterVars, WorldInv, Exists
<1>4. ASSUME NEW i \in Id, Delete(i) PROVE WorldInv'
  <2>1. uids' = uids /\ served' = served
        /\ \A j \in Id : Exists(j)' => Exists(j) /\ live'[j] = live[j] /\ (Exists(i) => j \notin Contents(i))
    BY <1>4 DEF Delete, Exists
  <2>2. \A d \in Id : Exists(d) /\ (~Exists(i) \/ d \notin Contents(i)) => Exists(d)'
    BY <1>4 DEF Delete, Exists
  <2>3. ASSUME NEW j \in Id, Exists(j)', IsCustom(KindOf[j])
        PROVE  \E d \in Id : Declares[d] = KindOf[j] /\ Exists(d)'
    <3>1. PICK d \in Id : Declares[d] = KindOf[j] /\ Exists(d)
      BY <2>1, <2>3 DEF WorldInv
    <3>2. CASE ~Exists(i)
      BY <2>2, <3>1, <3>2
    <3>3. CASE Exists(i)
      <4>1. KindOf[j] # NoKind /\ KindOf[j] \in Kind
        BY ClusterAssumption
      <4>2. i # d
        BY <2>1, <2>3, <3>1, <3>3, <4>1 DEF Contents
      <4>3. SpaceOf[d] # i /\ Declares[i] # KindOf[d]
        BY <1>1, <3>1, <4>1, ClusterAssumption
      <4>4. d \notin Contents(i)
        BY <4>2, <4>3 DEF Contents
      <4> QED BY <2>2, <3>1, <4>4
    <3> QED BY <3>2, <3>3
  <2> QED BY <2>1, <2>3 DEF WorldInv
<1>5. ASSUME NEW i \in Id, NEW object \in Object, Writes(i, object) PROVE WorldInv'
  <2>1. object # Absent /\ object.uid \in Nat
    BY AbsentAssumption DEF Object
  <2>2. /\ live'[i] = object /\ Exists(i)' /\ served' = served
        /\ \A j \in Id \ {i} : live'[j] = live[j] /\ (Exists(j)' <=> Exists(j))
    BY <1>1, <1>5, <2>1 DEF Writes, Store, Exists
  <2>3. /\ uids' \in Nat /\ uids <= uids' /\ object.uid <= uids'
        /\ Exists(i) => object.uid = live[i].uid
        /\ ~Exists(i) => object.uid > uids
    BY <1>1, <1>5 DEF Writes, Store, WorldInv
  <2>4. \A j \in Id \ {i} : Exists(j) => live[j].uid # object.uid /\ live[j].uid <= uids'
    BY <1>1, <1>2, <2>1, <2>3 DEF WorldInv
  <2>5. KindOf[i] \in served /\ (IsCustom(KindOf[i]) => \E d \in Id : Declares[d] = KindOf[i] /\ Exists(d))
    BY <1>5 DEF Writes, Accepts
  <2>6. \A d \in Id : Exists(d) => Exists(d)'
    BY <2>2
  <2>7. \A j \in Id \ {i} : Exists(j)' =>
          /\ live'[j].uid <= uids'
          /\ \A n \in Id : Exists(n)' /\ live'[n].uid = live'[j].uid => j = n
          /\ KindOf[j] \in served'
          /\ IsCustom(KindOf[j]) => \E d \in Id : Declares[d] = KindOf[j] /\ Exists(d)'
    BY <2>2, <2>4, <2>6 DEF WorldInv
  <2>8. /\ live'[i].uid <= uids'
        /\ \A n \in Id : Exists(n)' /\ live'[n].uid = live'[i].uid => i = n
        /\ KindOf[i] \in served'
        /\ IsCustom(KindOf[i]) => \E d \in Id : Declares[d] = KindOf[i] /\ Exists(d)'
    BY <2>2, <2>3, <2>4, <2>5, <2>6
  <2> QED BY <2>7, <2>8 DEF WorldInv
<1>6. ASSUME NEW i \in Id, Establish(i) PROVE WorldInv'
  BY <1>6 DEF Establish, WorldInv, Exists
<1>7. ASSUME NEW k \in Kind, Retire(k) PROVE WorldInv'
  <2>1. \A i \in Id : Exists(i) => KindOf[i] # k
    BY <1>7 DEF Retire, WorldInv
  <2> QED BY <1>7, <2>1 DEF Retire, WorldInv, Exists
<1> QED BY <1>3, <1>4, <1>5, <1>6, <1>7, ClusterSteps

LEMMA AlwaysWorld == Spec => [](TypeInv /\ WorldInv)
BY InitTypes, InitWorld, NextKeepsTypes, NextKeepsWorld, PTL DEF Spec

-----------------------------------------------------------------------------
(* Prune.                                                                  *)

(* What pruning may delete, in whatever version it is listed. *)
Marked(i) == Exists(i) /\ live[i].label /\ live[i].ours /\ ~live[i].spared

(* While prune looks: what was fetched and found is still what it was, and
   every orphan was found or has a version that is still to be listed. *)
Looking ==
  /\ \A n \in DOMAIN manifests \ todo :
       Exists(manifests[n].id) => live[manifests[n].id].uid \in seen
  /\ \A u \in seen : \E n \in DOMAIN manifests :
       Exists(manifests[n].id) /\ live[manifests[n].id].uid = u
  /\ \A d \in found : Marked(d.id) /\ live[d.id].uid = d.uid
  /\ \A i \in Id \ Desired : Marked(i) =>
       \/ [id |-> i, uid |-> live[i].uid] \in found
       \/ \E v \in Version : <<KindOf[i], v>> \in types

(* While it deletes: exactly the orphans that are left are in its list. *)
Pruning ==
  /\ \A i \in Id \ Desired : Marked(i) => i \in left \/ i = target
  /\ \A i \in left \cup ({target} \ {NoId}) : i \notin Desired /\ (Exists(i) => Marked(i))

StillToPrune ==
  /\ phase \in {"fetch", "list"} => Looking
  /\ phase \in Working => Pruning
  /\ phase = "idle" /\ result = "ok" /\ IsCarriedOut =>
       \A i \in Id : Marked(i) => i \in Desired

PruneInv == command.operation = "prune" /\ calm => StillToPrune

LEMMA InitPrune == Init => PruneInv
BY DEF Init, PruneInv, StillToPrune, Working

(* Looking starts with everything to be fetched and every type to be listed. *)
LEMMA DiscoverStarts ==
  ASSUME TypeInv, WorldInv, Discover, command.operation = "prune"
  PROVE  Looking'
<1>1. /\ UNCHANGED <<live, manifests, seen, found>> /\ seen = {} /\ found = {}
      /\ todo' = DOMAIN manifests
      /\ types' = UNION {{k} \X VersionsOf[k] : k \in served}
  BY DEF Discover, TypeInv, ShapeInv, clusterVars, askVars
<1>2. ASSUME NEW i \in Id, Exists(i) PROVE \E v \in Version : <<KindOf[i], v>> \in types'
  <2>1. KindOf[i] \in served /\ KindOf[i] \in Kind
    BY <1>2, ClusterAssumption DEF WorldInv
  <2>2. PICK v : v \in VersionsOf[KindOf[i]] /\ v \in Version
    BY <2>1, RolloutAssumption
  <2>3. <<KindOf[i], v>> \in {KindOf[i]} \X VersionsOf[KindOf[i]]
    BY <2>2
  <2> QED BY <1>1, <2>1, <2>2, <2>3
<1>3. Desired' = Desired /\ \A i \in Id : Marked(i)' => Exists(i)
  BY <1>1 DEF Desired, Marked, Exists
<1> QED BY <1>1, <1>2, <1>3 DEF Looking

LEMMA FetchLooks ==
  ASSUME TypeInv, Looking, NEW n \in todo, Fetch(n)
  PROVE  Looking'
<1>1. UNCHANGED <<live, manifests, found, types>> /\ todo' = todo \ {n}
      /\ seen' = IF Exists(manifests[n].id)
                 THEN seen \cup {live[manifests[n].id].uid} ELSE seen
  BY DEF Fetch, clusterVars, askVars
<1>2. n \in DOMAIN manifests
  BY DEF TypeInv, TypeOK
<1>3. \A m \in DOMAIN manifests \ todo' :
         Exists(manifests[m].id) => live[manifests[m].id].uid \in seen'
  BY <1>1, <1>2 DEF Looking
<1>4. \A u \in seen' : \E m \in DOMAIN manifests :
         Exists(manifests[m].id) /\ live[manifests[m].id].uid = u
  BY <1>1, <1>2 DEF Looking
<1> QED BY <1>1, <1>3, <1>4 DEF Looking, Marked, Exists, Desired

(* Of a kind that was listed in one version, all orphans are found. *)
LEMMA ListLooks ==
  ASSUME TypeInv, Looking, NEW k \in Kind, NEW v \in Version, List(k, v)
  PROVE  Looking'
<1>1. /\ UNCHANGED <<live, manifests, seen, todo>> /\ types' = types \ {<<k, v>>}
      /\ found' = found \cup {[id |-> i, uid |-> live[i].uid] :
                               i \in {j \in Id : KindOf[j] = k /\ IsOrphan(j, v)}}
  BY DEF List, clusterVars, askVars
<1>2. \A d \in found' : Marked(d.id) /\ live[d.id].uid = d.uid
  BY <1>1 DEF Looking, IsOrphan, Marked
<1>3. ASSUME NEW i \in Id \ Desired, Marked(i)
      PROVE  \/ [id |-> i, uid |-> live[i].uid] \in found'
             \/ \E w \in Version : <<KindOf[i], w>> \in types'
  <2>1. IsOrphan(i, v)
    BY <1>3 DEF IsOrphan, Marked, Desired
  <2>2. CASE KindOf[i] = k
    BY <1>1, <2>1, <2>2
  <2>3. CASE KindOf[i] # k
    BY <1>1, <1>3, <2>3 DEF Looking
  <2> QED BY <2>2, <2>3
<1>4. Desired' = Desired /\ \A i : Exists(i)' <=> Exists(i)
  BY <1>1 DEF Desired, Exists
<1>5. \A i : Marked(i)' <=> Marked(i)
  BY <1>1, <1>4 DEF Marked
<1>6. /\ \A n \in DOMAIN manifests' \ todo' :
           live'[manifests'[n].id] # Absent => live'[manifests'[n].id].uid \in seen'
      /\ \A u \in seen' : \E n \in DOMAIN manifests' :
           live'[manifests'[n].id] # Absent /\ live'[manifests'[n].id].uid = u
  BY <1>1, <1>4 DEF Looking, Exists
<1>7. \A d \in found' : Marked(d.id)' /\ live'[d.id].uid = d.uid
  BY <1>1, <1>2, <1>5
<1>8. \A i \in Id \ Desired' : Marked(i)' =>
         \/ [id |-> i, uid |-> live'[i].uid] \in found'
         \/ \E w \in Version : <<KindOf[i], w>> \in types'
  BY <1>1, <1>3, <1>4, <1>5
<1> QED BY <1>6, <1>7, <1>8 DEF Looking, Exists

(* The victims are the orphans: none is the environment's own in another
   version, and none is taken for one, as no two objects share a uid. *)
LEMMA VictimsAreOrphans ==
  ASSUME TypeInv, WorldInv, Looking, phase = "list", types = {}
  PROVE  /\ \A i \in Id \ Desired : Marked(i) => i \in Victims
         /\ \A i \in Victims : i \in Id /\ i \notin Desired /\ Marked(i)
<1>1. todo = {}
  BY DEF TypeInv, ShapeInv
<1>2. \A n \in DOMAIN manifests : manifests[n].id \in Id
  BY ManifestsTyped DEF TypeInv
<1>3. ASSUME NEW i \in Id \ Desired, Marked(i) PROVE i \in Victims
  <2>1. [id |-> i, uid |-> live[i].uid] \in found
    BY <1>3 DEF Looking
  <2>2. live[i].uid \notin seen
    <3> SUFFICES ASSUME live[i].uid \in seen PROVE FALSE
      OBVIOUS
    <3>1. PICK n \in DOMAIN manifests :
             Exists(manifests[n].id) /\ live[manifests[n].id].uid = live[i].uid
      BY DEF Looking
    <3>2. manifests[n].id = i
      BY <1>2, <1>3, <3>1 DEF WorldInv, Marked
    <3> QED BY <3>1, <3>2, <1>3 DEF Desired
  <2> QED BY <2>1, <2>2 DEF Victims
<1>4. ASSUME NEW i \in Victims PROVE i \in Id /\ i \notin Desired /\ Marked(i)
  <2>1. PICK d \in found : d.uid \notin seen /\ i = d.id
    BY DEF Victims
  <2>2. d.id \in Id /\ Marked(i) /\ live[i].uid = d.uid
    BY <2>1 DEF Looking, TypeInv, TypeOK
  <2>3. i \notin Desired
    <3> SUFFICES ASSUME NEW n \in DOMAIN manifests, manifests[n].id = i PROVE FALSE
      BY DEF Desired
    <3> QED BY <1>1, <2>1, <2>2 DEF Looking, Marked
  <2> QED BY <2>1, <2>2, <2>3
<1> QED BY <1>3, <1>4

LEMMA NextKeepsPrune == TypeInv /\ WorldInv /\ PruneInv /\ [Next]_vars => PruneInv'
<1> SUFFICES ASSUME TypeInv, WorldInv, PruneInv, [Next]_vars,
                    command'.operation = "prune", calm'
             PROVE  StillToPrune'
  BY DEF PruneInv
<1> USE DEF StillToPrune, Working
<1>1. CASE \/ \E i \in Id, s \in Foreign, l, k \in BOOLEAN : RivalStores(i, s, l, k)
           \/ \E i \in Id : RivalDeletes(i)
           \/ Settle \/ UNCHANGED vars
  <2>1. UNCHANGED <<live, phase, command, manifests, todo, types, seen, found, left, target,
                    result, calm>>
    BY <1>1, Bystanders
  <2> QED BY <2>1 DEF PruneInv, Looking, Pruning, Marked, Exists, Desired, IsCarriedOut, GoesOn, IsDry
<1>2. ASSUME NEW c \in Commands, NEW p \in Projects, Invoke(c, p)
      PROVE  StillToPrune'
  BY <1>2 DEF Invoke
<1>3. CASE RequestFails \/ AnswerLost
  BY <1>3 DEF RequestFails, AnswerLost, Fault, End
<1>4. CASE Step
  <2>1. command' = command /\ manifests' = manifests /\ calm' = calm
    BY <1>4 DEF Step, NothingToApply, Discover, UnknownKind, Diff, Fetch, NothingDiffers,
       SomethingDiffers, Fetched, List, ListFails, NothingToPrune, Listed, Approved, Declined,
       Unasked, Choose, Finished, Retry, TimeOut, NotServed, Patch, PatchMisses, Create,
       Stored, Refused, Conflicts, Remove, Succeeds, Fails, FailsFor, Return, End, askVars
  <2>2. command.operation = "prune" /\ Desired' = Desired /\ StillToPrune
    BY <2>1, SameManifests DEF PruneInv
  <2>3. CASE Discover
    <3>1. Looking' /\ phase' = "fetch"
      BY <2>2, <2>3, DiscoverStarts DEF Discover
    <3> QED BY <3>1
  <2>4. ASSUME NEW n \in todo, Fetch(n) PROVE StillToPrune'
    <3>1. Looking' /\ phase' = "fetch"
      BY <2>2, <2>4, FetchLooks DEF Fetch
    <3> QED BY <3>1
  <2>5. CASE Fetched
    <3>1. Looking' /\ phase' = "list"
      BY <2>2, <2>5 DEF Fetched, Looking, Marked, Exists, Desired, clusterVars, workVars, askVars
    <3> QED BY <3>1
  <2>6. ASSUME NEW k \in Kind, NEW v \in Version, List(k, v) PROVE StillToPrune'
    <3>1. Looking' /\ phase' = "list"
      BY <2>2, <2>6, ListLooks DEF List
    <3> QED BY <3>1
  <2>7. CASE NothingToPrune
    <3>1. \A i \in Id : Marked(i) => i \in Desired
      BY <2>2, <2>7, VictimsAreOrphans DEF NothingToPrune
    <3>2. phase' = "idle" /\ live' = live
      BY <2>7 DEF NothingToPrune, Succeeds, Return, End, clusterVars
    <3> QED BY <2>2, <3>1, <3>2 DEF Marked, Exists
  <2>8. CASE Listed
    <3>1. /\ \A i \in Id \ Desired : Marked(i) => i \in Victims
          /\ \A i \in Victims : i \in Id /\ i \notin Desired /\ Marked(i)
      BY <2>2, <2>8, VictimsAreOrphans DEF Listed
    <3>2. /\ phase' = "confirm" /\ live' = live /\ left' = Victims /\ target' = NoId
      BY <2>8 DEF Listed, clusterVars, TypeInv, ShapeInv
    <3>3. Pruning'
      BY <2>2, <3>1, <3>2 DEF Pruning, Marked, Exists
    <3> QED BY <3>2, <3>3
  <2>9. CASE Approved
    <3>1. Pruning' /\ phase' = "next"
      BY <2>2, <2>9 DEF Approved, Pruning, Marked, Exists, clusterVars, workVars
    <3> QED BY <3>1
  <2>10. ASSUME NEW i \in Id, Choose(i) PROVE StillToPrune'
    <3>1. /\ target = NoId /\ i # NoId /\ i \in left /\ left' = left \ {i} /\ target' = i
          /\ live' = live /\ phase' = "send" /\ Pruning
      BY <2>2, <2>10, ClusterAssumption
      DEF Choose, IsNext, clusterVars, TypeInv, ShapeInv
    <3>2. \A j \in Id : j # NoId
      BY ClusterAssumption
    <3>3. Pruning'
      BY <2>2, <3>1, <3>2 DEF Pruning, Marked, Exists
    <3> QED BY <3>1, <3>3
  <2>11. CASE Finished
    <3>1. Pruning /\ left = {} /\ target = NoId /\ phase' = "idle" /\ live' = live
      BY <2>2, <2>11 DEF Finished, Succeeds, Return, End, clusterVars, TypeInv, ShapeInv
    <3>2. \A i \in Id : Marked(i) => i \in Desired
      BY <3>1, ClusterAssumption DEF Pruning
    <3> QED BY <2>2, <3>1, <3>2 DEF Marked, Exists
  <2>12. CASE Remove
    <3>1. /\ Pruning /\ target \in Id /\ target # NoId /\ left' = left /\ target' = NoId
          /\ phase' = "next"
      BY <2>2, <2>12, ClusterAssumption DEF Remove, TypeInv, TypeOK
    <3>2. Delete(target)
      BY <2>2, <2>12 DEF Remove, TypeInv, ShapeInv, GoesOn
    <3>3. PICK t \in Id : t = target
      BY <3>1
    <3>4. Delete(t)
      BY <3>2, <3>3
    <3>5. /\ live' = [j \in Id |-> IF Exists(t) /\ j \in Contents(t) THEN Absent ELSE live[j]]
          /\ t \in Contents(t)
      BY <3>4, <3>3 DEF Delete, Contents
    <3>6. live'[t] = Absent /\ \A i \in Id : live'[i] = Absent \/ live'[i] = live[i]
      BY <3>5 DEF Exists
    <3>7. left \subseteq Id
      BY DEF TypeInv, TypeOK
    <3>8. /\ \A i \in Id : i \notin Desired /\ Marked(i) => i \in left \cup {t}
          /\ \A i \in left : i \notin Desired /\ (Exists(i) => Marked(i))
      BY <3>1, <3>3 DEF Pruning
    <3>9. Pruning'
      BY <2>2, <3>1, <3>6, <3>7, <3>8 DEF Pruning, Marked, Exists
    <3> QED BY <3>1, <3>9
  <2>13. CASE Retry
    <3>1. Pruning' /\ phase' \in Working
      BY <2>2, <2>13 DEF Retry, Pruning, Marked, Exists, clusterVars
    <3> QED BY <3>1, <2>13 DEF Retry
  <2>14. CASE UnknownKind \/ (\E k \in Kind, v \in Version : ListFails(k, v)) \/ Unasked
              \/ TimeOut \/ NotServed \/ Refused \/ Conflicts
    BY <2>14 DEF UnknownKind, ListFails, Unasked, TimeOut, NotServed, Refused, Conflicts, FailsFor, Fails,
                 Return, End
  <2>15. CASE Declined
    BY <2>1, <2>2, <2>15 DEF Declined, Succeeds, Return, End, IsCarriedOut, GoesOn, IsDry
  <2>16. ~NothingToApply /\ ~NothingDiffers /\ ~SomethingDiffers /\ ~Patch /\ ~PatchMisses
         /\ ~Create /\ ~ \E n \in todo : Diff(n)
    BY <2>2 DEF NothingToApply, NothingDiffers, SomethingDiffers, Patch, PatchMisses, Create,
                Diff, TypeInv, ShapeInv
  <2> QED BY <1>4, <2>3, <2>4, <2>5, <2>6, <2>7, <2>8, <2>9, <2>10, <2>11, <2>12, <2>13, <2>14,
             <2>15, <2>16 DEF Step
<1> QED BY <1>1, <1>2, <1>3, <1>4 DEF Next

LEMMA AlwaysPruning == Spec => [](TypeInv /\ PruneInv)
BY AlwaysWorld, InitPrune, NextKeepsPrune, PTL DEF Spec

(* What prune has decided to delete is, until it is deleted, nothing of the
   environment in any version of its API and nothing that is protected, as
   long as nobody else changes the cluster.  (find_deleted_for_type.) *)
THEOREM OrphansOnly == Spec => []OnlyOrphansArePruned
<1>1. TypeInv /\ PruneInv => OnlyOrphansArePruned
  <2> SUFFICES ASSUME TypeInv, PruneInv, command.operation = "prune", calm,
                      NEW i \in left \cup ({target} \ {NoId})
               PROVE  i \notin Desired /\ (Exists(i) => Marked(i))
    BY DEF OnlyOrphansArePruned, Marked
  <2>1. phase \in Working
    BY DEF TypeInv, ShapeInv
  <2> QED BY <2>1 DEF PruneInv, StillToPrune, Pruning
<1> QED BY <1>1, AlwaysPruning, PTL

(* After an approved prune that returned Ok, and until somebody else changes
   the cluster, no orphan is left.  (find_deleted_for_type, build_full.) *)
THEOREM NoOrphanIsLeft == Spec => []PruneLeavesNoOrphan
<1>1. PruneInv => PruneLeavesNoOrphan
  BY DEF PruneInv, StillToPrune, PruneLeavesNoOrphan, Ended, Marked
<1> QED BY <1>1, AlwaysPruning, PTL

-----------------------------------------------------------------------------
(* Apply.                                                                  *)

(* Every kind and name is in one namespace only. *)
Unambiguous ==
  \A p \in Projects : \A n, m \in DOMAIN p :
    NameOf[p[n].id] = NameOf[p[m].id] /\ KindOf[p[n].id] = KindOf[p[m].id] => n = m

Good(n) ==
  /\ Exists(manifests[n].id)
  /\ Covers(manifests[n])
  /\ live[manifests[n].id].label
  /\ command.strategy = "server" => ~HasLeftovers(manifests[n])

(* What is not as the manifest has it is still to be compared or written. *)
Applying ==
  \A n \in DOMAIN manifests :
    n \in todo \/ manifests[n].id \in left \/ manifests[n].id = target \/ Good(n)

StillToApply ==
  /\ phase \in {"diff", "create"} \cup Working => Applying
  /\ phase = "idle" /\ result = "ok" /\ IsCarriedOut =>
       \A n \in DOMAIN manifests : Good(n)

ApplyInv == command.operation = "apply" /\ calm => StillToApply

LEMMA SameGood ==
  ASSUME UNCHANGED <<live, manifests, command>>
  PROVE  \A n : Good(n)' <=> Good(n)
BY DEF Good, Exists, Covers, HasLeftovers, Owned

LEMMA InitApply == Init => ApplyInv
BY DEF Init, ApplyInv, StillToApply, Working

(* The manifest sent for an object is the object's own. *)
LEMMA OwnManifest ==
  ASSUME TypeInv, Unambiguous, NEW i \in Desired
  PROVE  \E n \in DOMAIN manifests :
           /\ ManifestFor(i) = manifests[n] /\ manifests[n].id = i
           /\ \A m \in DOMAIN manifests : manifests[m].id = i => m = n
<1>1. PICK n \in DOMAIN manifests : ManifestFor(i) = manifests[n] /\ Corresponds(n, i)
  BY ManifestForTyped DEF TypeInv
<1>2. PICK k \in DOMAIN manifests : manifests[k].id = i
  BY DEF Desired
<1>3. manifests \in Projects
  BY <1>2 DEF TypeInv, TypeOK
<1>4. \A m \in DOMAIN manifests : manifests[m].id = i => m = n
  BY <1>1, <1>3 DEF Unambiguous, Corresponds
<1> QED BY <1>1, <1>2, <1>4

(* Writing the target makes its manifest good and spoils no other. *)
LEMMA StoredIsGood ==
  ASSUME TypeInv, Unambiguous, Applying, target \in Desired,
         Store(ManifestFor(target).id, Applied(ManifestFor(target))),
         UNCHANGED <<command, manifests, todo, left>>
  PROVE  Applying'
<1>1. PICK t \in Desired : t = target
  OBVIOUS
<1>2. PICK n \in DOMAIN manifests :
        /\ ManifestFor(t) = manifests[n] /\ manifests[n].id = t
        /\ \A m \in DOMAIN manifests : manifests[m].id = t => m = n
  BY OwnManifest
<1>3. /\ manifests[n] \in Manifest /\ manifests[n].id \in Id
      /\ \A m \in DOMAIN manifests : manifests[m].id \in Id
  BY ManifestsTyped DEF TypeInv
<1>4. /\ Applied(manifests[n]) \in Object /\ Applied(manifests[n]).label
      /\ \A f \in Fields(manifests[n].spec) :
           Applied(manifests[n]).spec[f] = manifests[n].spec[f]
      /\ command.strategy = "server" => Applied(manifests[n]).held \subseteq Fields(manifests[n].spec)
  BY <1>3, AppliedTyped DEF TypeInv
<1>5. live' = [live EXCEPT ![t] = Applied(manifests[n])]
  BY <1>1, <1>2 DEF Store
<1>6. live'[t] = Applied(manifests[n]) /\ \A j \in Id : j # t => live'[j] = live[j]
  BY <1>2, <1>3, <1>5 DEF TypeInv, TypeOK, ClusterTypeOK
<1>7. Good(n)'
  BY <1>2, <1>4, <1>6, AbsentAssumption DEF Good, Exists, Covers, HasLeftovers, Owned
<1>8. ASSUME NEW m \in DOMAIN manifests, m # n
      PROVE  m \in todo \/ manifests[m].id \in left \/ Good(m)'
  <2>1. manifests[m].id # t /\ manifests[m].id \in Id
    BY <1>2, <1>3, <1>8
  <2>2. m \in todo \/ manifests[m].id \in left \/ Good(m)
    BY <1>1, <2>1 DEF Applying
  <2> QED BY <1>6, <2>1, <2>2 DEF Good, Exists, Covers, HasLeftovers, Owned
<1> QED BY <1>7, <1>8 DEF Applying

LEMMA DiffApplies ==
  ASSUME TypeInv, Applying, NEW n \in todo, Diff(n)
  PROVE  Applying'
<1>1. /\ UNCHANGED <<live, command, manifests, target>> /\ todo' = todo \ {n}
      /\ left' = IF Differs(manifests[n]) THEN left \cup {manifests[n].id} ELSE left
  BY DEF Diff, clusterVars, askVars
<1>2. manifests[n].id \in left' \/ Good(n)
  BY <1>1 DEF Differs, Good
<1> QED BY <1>1, <1>2, SameGood DEF Applying

LEMMA NextKeepsApply ==
  ASSUME Unambiguous
  PROVE  TypeInv /\ ApplyInv /\ [Next]_vars => ApplyInv'
<1> SUFFICES ASSUME TypeInv, ApplyInv, [Next]_vars, command'.operation = "apply", calm'
             PROVE  StillToApply'
  BY DEF ApplyInv
<1> USE DEF StillToApply, Working
<1>1. CASE \/ \E i \in Id, s \in Foreign, l, k \in BOOLEAN : RivalStores(i, s, l, k)
           \/ \E i \in Id : RivalDeletes(i)
           \/ Settle \/ UNCHANGED vars
  <2>1. UNCHANGED <<live, phase, command, manifests, todo, types, seen, found, left, target,
                    result, calm>>
    BY <1>1, Bystanders
  <2> QED BY <2>1, SameGood DEF ApplyInv, Applying, IsCarriedOut, GoesOn, IsDry
<1>2. ASSUME NEW c \in Commands, NEW p \in Projects, Invoke(c, p)
      PROVE  StillToApply'
  BY <1>2 DEF Invoke
<1>3. CASE RequestFails \/ AnswerLost
  BY <1>3 DEF RequestFails, AnswerLost, Fault, End
<1>4. CASE Step
  <2>1. command' = command /\ manifests' = manifests /\ calm' = calm
    BY <1>4 DEF Step, NothingToApply, Discover, UnknownKind, Diff, Fetch, NothingDiffers,
       SomethingDiffers, Fetched, List, ListFails, NothingToPrune, Listed, Approved, Declined,
       Unasked, Choose, Finished, Retry, TimeOut, NotServed, Patch, PatchMisses, Create,
       Stored, Refused, Conflicts, Remove, Succeeds, Fails, FailsFor, Return, End, askVars
  <2>2. command.operation = "apply" /\ StillToApply
    BY <2>1 DEF ApplyInv
  <2>3. CASE NothingToApply
    BY <2>1, <2>3 DEF NothingToApply, Succeeds, Return, End
  <2>4. CASE Discover
    <3>1. Applying' /\ phase' = "diff"
      BY <2>1, <2>2, <2>4 DEF Discover, Applying
    <3> QED BY <3>1
  <2>5. ASSUME NEW n \in todo, Diff(n) PROVE StillToApply'
    <3>1. Applying' /\ phase' = "diff"
      BY <2>2, <2>5, DiffApplies DEF Diff
    <3> QED BY <3>1
  <2>6. CASE NothingDiffers
    <3>1. /\ phase = "diff" /\ todo = {} /\ left = {} /\ target = NoId
          /\ phase' = "idle" /\ live' = live
      BY <2>6 DEF NothingDiffers, Succeeds, Return, End, clusterVars, TypeInv, ShapeInv
    <3>2. \A n \in DOMAIN manifests : manifests[n].id # NoId
      BY ManifestsTyped, ClusterAssumption DEF TypeInv
    <3>3. \A n \in DOMAIN manifests : Good(n)
      BY <2>2, <3>1, <3>2 DEF Applying
    <3> QED BY <2>1, <3>1, <3>3, SameGood
  <2>7. CASE SomethingDiffers \/ Approved \/ PatchMisses \/ Retry
    <3>1. Applying' /\ phase' \in {"create"} \cup Working
      BY <2>1, <2>2, <2>7, SameGood
      DEF SomethingDiffers, Approved, PatchMisses, Retry, Applying, clusterVars, workVars
    <3> QED BY <3>1
  <2>8. ASSUME NEW i \in Id, Choose(i) PROVE StillToApply'
    <3>1. /\ target = NoId /\ left' = left \ {i} /\ target' = i /\ todo' = todo
          /\ live' = live /\ phase' = "send" /\ Applying
      BY <2>2, <2>8 DEF Choose, clusterVars, TypeInv, ShapeInv
    <3>2. \A n \in DOMAIN manifests : manifests[n].id # NoId
      BY ManifestsTyped, ClusterAssumption DEF TypeInv
    <3>3. Applying'
      BY <2>1, <3>1, <3>2, SameGood DEF Applying
    <3> QED BY <3>1, <3>3
  <2>9. CASE Finished
    <3>1. /\ phase = "next" /\ todo = {} /\ left = {} /\ target = NoId
          /\ phase' = "idle" /\ live' = live
      BY <2>9 DEF Finished, Succeeds, Return, End, clusterVars, TypeInv, ShapeInv
    <3>2. \A n \in DOMAIN manifests : manifests[n].id # NoId
      BY ManifestsTyped, ClusterAssumption DEF TypeInv
    <3>3. \A n \in DOMAIN manifests : Good(n)
      BY <2>2, <3>1, <3>2 DEF Applying
    <3> QED BY <2>1, <3>1, <3>3, SameGood
  <2>10. CASE Patch \/ Create
    <3>1. /\ Store(ManifestFor(target).id, Applied(ManifestFor(target)))
          /\ UNCHANGED <<command, manifests, todo, left>> /\ phase' = "next"
          /\ phase \in {"send", "create"}
      BY <2>10, <2>1 DEF Patch, Create, Stored
    <3>2. target \in Desired /\ Applying
      BY <2>2, <3>1, TargetIsDesired
    <3>3. Applying'
      BY <3>1, <3>2, StoredIsGood
    <3> QED BY <3>1, <3>3
  <2>11. CASE UnknownKind \/ (\E k \in Kind, v \in Version : ListFails(k, v)) \/ Unasked
              \/ TimeOut \/ NotServed \/ Refused \/ Conflicts
    BY <2>11 DEF UnknownKind, ListFails, Unasked, TimeOut, NotServed, Refused, Conflicts, FailsFor, Fails,
                 Return, End
  <2>12. CASE Declined
    BY <2>1, <2>2, <2>12 DEF Declined, Succeeds, Return, End, IsCarriedOut, GoesOn, IsDry
  <2>13. /\ ~Fetched /\ ~NothingToPrune /\ ~Listed /\ ~Remove /\ ~ \E n \in todo : Fetch(n)
         /\ ~ \E k \in Kind, v \in Version : List(k, v)
    BY <2>2 DEF Fetched, NothingToPrune, Listed, Remove, Fetch, List, TypeInv, ShapeInv
  <2> QED BY <1>4, <2>3, <2>4, <2>5, <2>6, <2>7, <2>8, <2>9, <2>10, <2>11, <2>12, <2>13 DEF Step
<1> QED BY <1>1, <1>2, <1>3, <1>4 DEF Next

(* After an approved apply that returned Ok, and until somebody else changes
   the cluster, every field of every manifest is live, and after a server-side
   one no field is left that tanka alone had applied and the manifest has dropped:
   where no kind and name is in two namespaces, which the code does not tell
   apart.  A client-side apply takes no field away.  (diff_manifest,
   apply_manifest, apply_environment.) *)
THEOREM AppliedIsLive == Unambiguous => (Spec => []AppliedMeansLive)
<1> SUFFICES ASSUME Unambiguous PROVE Spec => []AppliedMeansLive
  OBVIOUS
<1>1. TypeInv /\ ApplyInv /\ [Next]_vars => ApplyInv'
  BY NextKeepsApply
<1>2. ApplyInv => AppliedMeansLive
  BY DEF ApplyInv, StillToApply, AppliedMeansLive, Ended, Good
<1> QED BY <1>1, <1>2, InitApply, AlwaysWorld, PTL DEF Spec

-----------------------------------------------------------------------------
(* What an apply fails for.                                                *)

(* What holds an object is in the environment, and in front of it in install
   order: its namespace, and the CRD of its kind. *)
Complete ==
  \A p \in Projects : \A n \in DOMAIN p :
    /\ SpaceOf[p[n].id] # NoId =>
         \E m \in DOMAIN p : /\ p[m].id = SpaceOf[p[n].id]
                             /\ Position[KindOf[p[m].id]] < Position[KindOf[p[n].id]]
    /\ IsCustom(KindOf[p[n].id]) =>
         \E m \in DOMAIN p : /\ Declares[p[m].id] = KindOf[p[n].id]
                             /\ Position[KindOf[p[m].id]] < Position[KindOf[p[n].id]]

BuiltInServed ==
  \A n \in DOMAIN manifests :
    ~IsCustom(KindOf[manifests[n].id]) => KindOf[manifests[n].id] \in served

TargetIsFirst == \A j \in left : Position[KindOf[target]] <= Position[KindOf[j]]

Explained ==
  /\ phase \in {"diff", "create"} \cup Working => BuiltInServed
  /\ phase \in {"send", "create"} => TargetIsFirst
  /\ phase = "create" => ~Exists(target) /\ KindOf[target] \in served
  /\ phase = "idle" /\ result = "failed" /\ IsCarriedOut => blamed

CauseInv == command.operation = "apply" /\ calm => Explained

LEMMA InitCause == Init => CauseInv
BY DEF Init, CauseInv, Explained, Working

(* When an object's turn comes, what holds it is there. *)
LEMMA HoldersExist ==
  ASSUME TypeInv, Applying, TargetIsFirst, Complete, target \in Desired,
         phase \in {"send", "create"}
  PROVE  /\ SpaceOf[target] # NoId => Exists(SpaceOf[target])
         /\ IsCustom(KindOf[target]) =>
              \E d \in Id : Declares[d] = KindOf[target] /\ Exists(d)
<1>1. PICK n \in DOMAIN manifests : manifests[n].id = target
  BY DEF Desired
<1>2. manifests \in Projects
  BY <1>1 DEF TypeInv, TypeOK
<1>3. \A m \in DOMAIN manifests : manifests[m].id \in Id
  BY ManifestsTyped DEF TypeInv
<1>4. todo = {}
  BY DEF TypeInv, ShapeInv
<1>5. ASSUME NEW m \in DOMAIN manifests,
             Position[KindOf[manifests[m].id]] < Position[KindOf[target]]
      PROVE  Exists(manifests[m].id)
  <2>1. \A i \in Id : Position[KindOf[i]] \in Nat
    BY ClusterAssumption, RolloutAssumption
  <2>2. Position[KindOf[target]] \in Nat /\ Position[KindOf[manifests[m].id]] \in Nat
    BY <1>1, <1>3, <2>1
  <2>3. ~(Position[KindOf[target]] <= Position[KindOf[manifests[m].id]])
        /\ manifests[m].id # target
    BY <1>5, <2>2
  <2>4. manifests[m].id \notin left
    BY <2>3 DEF TargetIsFirst
  <2> QED BY <1>4, <2>3, <2>4 DEF Applying, Good
<1>6. SpaceOf[target] # NoId => Exists(SpaceOf[target])
  BY <1>1, <1>2, <1>5 DEF Complete
<1>7. IsCustom(KindOf[target]) => \E d \in Id : Declares[d] = KindOf[target] /\ Exists(d)
  BY <1>1, <1>2, <1>3, <1>5 DEF Complete
<1> QED BY <1>6, <1>7

(* A kind that others serve stays; a custom one stays as long as its CRD. *)
LEMMA SettleServes ==
  ASSUME TypeInv, Settle, NEW k \in served,
         IsCustom(k) => \E d \in Id : Declares[d] = k /\ Exists(d)
  PROVE  k \in served'
BY DEF Settle, Establish, Retire, IsCustom

LEMMA NextKeepsCause ==
  ASSUME Unambiguous, Complete, Crowded = {}
  PROVE  TypeInv /\ ApplyInv /\ CauseInv /\ [Next]_vars => CauseInv'
<1> SUFFICES ASSUME TypeInv, ApplyInv, CauseInv, [Next]_vars,
                    command'.operation = "apply", calm'
             PROVE  Explained'
  BY DEF CauseInv
<1> USE DEF Working
<1>1. CASE \/ \E i \in Id, s \in Foreign, l, k \in BOOLEAN : RivalStores(i, s, l, k)
           \/ \E i \in Id : RivalDeletes(i)
  BY <1>1 DEF RivalStores, RivalDeletes, RivalChanges
<1>2. CASE UNCHANGED vars
  BY <1>2 DEF vars, clusterVars, askVars, workVars, CauseInv, Explained, BuiltInServed,
              TargetIsFirst, Exists, IsCarriedOut, GoesOn, IsDry
<1>3. CASE Settle
  <2>1. UNCHANGED <<live, phase, command, manifests, left, target, result, calm, blamed>>
    BY <1>3 DEF Settle, Establish, Retire, askVars, workVars
  <2>2. Explained /\ command.operation = "apply" /\ StillToApply
    BY <2>1 DEF CauseInv, ApplyInv
  <2>3. BuiltInServed => BuiltInServed'
    BY <1>3, <2>1, SettleServes DEF BuiltInServed
  <2>4. phase = "create" => KindOf[target] \in served'
    <3> SUFFICES ASSUME phase = "create" PROVE KindOf[target] \in served'
      OBVIOUS
    <3>1. target \in Desired
      BY TargetIsDesired
    <3>2. IsCustom(KindOf[target]) => \E d \in Id : Declares[d] = KindOf[target] /\ Exists(d)
      BY <2>2, <3>1, HoldersExist DEF Explained, StillToApply
    <3>3. KindOf[target] \in served
      BY <2>2 DEF Explained
    <3> QED BY <1>3, <3>2, <3>3, SettleServes
  <2>5. TargetIsFirst' = TargetIsFirst /\ (~Exists(target) => ~Exists(target)')
    BY <2>1 DEF TargetIsFirst, Exists
  <2> QED BY <2>1, <2>2, <2>3, <2>4, <2>5 DEF Explained, Exists, IsCarriedOut, GoesOn, IsDry
<1>4. ASSUME NEW c \in Commands, NEW p \in Projects, Invoke(c, p)
      PROVE  Explained'
  BY <1>4 DEF Invoke, Explained
<1>5. CASE RequestFails \/ AnswerLost
  BY <1>5 DEF RequestFails, AnswerLost, Fault, End, Explained
<1>6. CASE Step
  <2>1. command' = command /\ manifests' = manifests /\ calm' = calm
    BY <1>6 DEF Step, NothingToApply, Discover, UnknownKind, Diff, Fetch, NothingDiffers,
       SomethingDiffers, Fetched, List, ListFails, NothingToPrune, Listed, Approved, Declined,
       Unasked, Choose, Finished, Retry, TimeOut, NotServed, Patch, PatchMisses, Create,
       Stored, Refused, Conflicts, Remove, Succeeds, Fails, FailsFor, Return, End, askVars
  <2>2. command.operation = "apply" /\ Explained /\ StillToApply
    BY <2>1 DEF CauseInv, ApplyInv
  <2>3. CASE Discover
    <3>1. phase' = "diff" /\ served' = served /\ IsDiscovered
      BY <2>2, <2>3 DEF Discover, clusterVars
    <3>2. \A k \in KindsDeclared : IsCustom(k)
      BY ManifestsTyped DEF KindsDeclared, Desired, IsCustom, TypeInv
    <3>3. BuiltInServed
      BY <3>1, <3>2 DEF BuiltInServed, IsDiscovered
    <3> QED BY <2>1, <3>1, <3>3 DEF Explained, BuiltInServed
  <2>4. CASE (\E n \in todo : Diff(n)) \/ SomethingDiffers \/ Approved
    <3>1. phase' \in {"diff", "confirm", "next"} /\ served' = served /\ phase \in {"diff", "confirm"}
      BY <2>4 DEF Diff, SomethingDiffers, Approved, clusterVars
    <3> QED BY <2>1, <2>2, <3>1 DEF Explained, BuiltInServed
  <2>5. ASSUME NEW i \in Id, Choose(i) PROVE Explained'
    <3>1. /\ phase = "next" /\ phase' = "send" /\ served' = served /\ target' = i
          /\ left' = left \ {i} /\ \A j \in left : Position[KindOf[i]] <= Position[KindOf[j]]
      BY <2>2, <2>5 DEF Choose, IsNext, clusterVars
    <3> QED BY <2>1, <2>2, <3>1 DEF Explained, BuiltInServed, TargetIsFirst
  <2>6. CASE Retry
    <3>1. /\ phase = "send" /\ phase' = "send" /\ UNCHANGED <<served, left, target>>
      BY <2>6 DEF Retry, clusterVars
    <3> QED BY <2>1, <2>2, <3>1 DEF Explained, BuiltInServed, TargetIsFirst
  <2>7. CASE PatchMisses
    <3>1. /\ phase = "send" /\ phase' = "create" /\ UNCHANGED <<live, served, left, target>>
          /\ KindOf[target] \in served /\ ~Exists(ManifestFor(target).id)
      BY <2>7 DEF PatchMisses, clusterVars, workVars
    <3>2. target \in Desired
      BY <2>2, <3>1, TargetIsDesired
    <3>3. ~Exists(target)
      BY <3>1, <3>2, OwnManifest
    <3> QED BY <2>1, <2>2, <3>1, <3>3 DEF Explained, BuiltInServed, TargetIsFirst, Exists
  <2>8. CASE Patch \/ Create
    <3>1. phase' = "next" /\ served' = served /\ phase \in {"send", "create"}
      BY <2>8 DEF Patch, Create, Stored, Store
    <3> QED BY <2>1, <2>2, <3>1 DEF Explained, BuiltInServed
  <2>9. CASE NothingToApply \/ NothingDiffers \/ Declined \/ Finished
    BY <2>9 DEF NothingToApply, NothingDiffers, Declined, Finished, Succeeds, Return, End,
                Explained
  <2>10. CASE UnknownKind \/ Unasked \/ TimeOut \/ Conflicts
    BY <2>10 DEF UnknownKind, Unasked, TimeOut, Conflicts, FailsFor, Return, End, Explained
  <2>11. ~NotServed
    <3> SUFFICES ASSUME NotServed PROVE FALSE
      OBVIOUS
    <3>1. phase = "send" /\ KindOf[target] \notin served /\ ~IsAwaited(KindOf[target])
      BY DEF NotServed
    <3>2. target \in Desired
      BY <2>2, <3>1, TargetIsDesired
    <3>3. PICK n \in DOMAIN manifests : manifests[n].id = target
      BY <3>2 DEF Desired
    <3>4. IsCustom(KindOf[target])
      BY <2>2, <3>1, <3>3 DEF Explained, BuiltInServed
    <3>5. PICK m \in DOMAIN manifests : Declares[manifests[m].id] = KindOf[target]
      BY <3>3, <3>4 DEF Complete, TypeInv, TypeOK
    <3>6. KindOf[target] \in Kind /\ KindOf[target] # NoKind
      BY <3>2, ManifestsTyped, ClusterAssumption DEF Desired, TypeInv
    <3>7. KindOf[target] \in KindsDeclared
      BY <3>5, <3>6 DEF KindsDeclared, Desired
    <3> QED BY <2>2, <3>1, <3>7 DEF IsAwaited
  <2>12. ~Refused
    <3> SUFFICES ASSUME Refused PROVE FALSE
      OBVIOUS
    <3>1. phase \in {"send", "create"}
      BY DEF Refused
    <3>2. target \in Desired
      BY <2>2, <3>1, TargetIsDesired
    <3>3. ManifestFor(target).id = target
      BY <3>2, OwnManifest
    <3>4. KindOf[target] \in served
      BY <2>2 DEF Refused, Explained
    <3>5. Accepts(target)
      BY <2>2, <3>1, <3>2, <3>4, HoldersExist DEF Accepts, Explained, StillToApply
    <3>6. phase = "create" /\ Exists(target)
      BY <3>3, <3>5 DEF Refused
    <3> QED BY <2>2, <3>6 DEF Explained
  <2>13. /\ ~Fetched /\ ~NothingToPrune /\ ~Listed /\ ~Remove /\ ~ \E n \in todo : Fetch(n)
         /\ ~ \E k \in Kind, v \in Version : List(k, v) \/ ListFails(k, v)
    BY <2>2 DEF Fetched, NothingToPrune, Listed, Remove, Fetch, List, ListFails, TypeInv, ShapeInv
  <2> QED BY <1>6, <2>3, <2>4, <2>5, <2>6, <2>7, <2>8, <2>9, <2>10, <2>11, <2>12, <2>13 DEF Step
<1> QED BY <1>1, <1>2, <1>3, <1>4, <1>5, <1>6 DEF Next

(* An approved apply, during which nobody else changes the cluster, fails only
   for a request that failed, a kind nobody serves, a field that others manage
   or the deadline: where the environment has the namespaces and CRDs of its
   objects, install order puts them first, kinds and names tell objects apart,
   and no custom kind shares its group and version.  (kind_position, apply_when_discovered.) *)
THEOREM FailuresAreExplained ==
  Unambiguous /\ Complete /\ Crowded = {} => (Spec => []ApplyFailsForCause)
<1> SUFFICES ASSUME Unambiguous, Complete, Crowded = {}
             PROVE  Spec => []ApplyFailsForCause
  OBVIOUS
<1>1. TypeInv /\ ApplyInv /\ [Next]_vars => ApplyInv'
  BY NextKeepsApply
<1>2. TypeInv /\ ApplyInv /\ CauseInv /\ [Next]_vars => CauseInv'
  BY NextKeepsCause
<1>3. CauseInv => ApplyFailsForCause
  BY DEF CauseInv, Explained, ApplyFailsForCause, Ended
<1> QED BY <1>1, <1>2, <1>3, InitApply, InitCause, AlwaysWorld, PTL DEF Spec

-----------------------------------------------------------------------------
(* Nearer to the end: what EveryCommandReturns rests on besides fairness.  *)

Rank == [p \in Phase \ {"idle"} |->
            CASE p = "discover"          -> 0
              [] p \in {"diff", "fetch"} -> 1
              [] p = "list"              -> 2
              [] p = "confirm"           -> 3
              [] OTHER                   -> 4]

Smaller(a, b) == a \subseteq b /\ a # b

(* The command ends or goes on to another part of its work; or there is less
   to compare, fetch or list; or the next object is taken, and then sent, and
   perhaps created; or one attempt more of MaxTries is made to send it. *)
CommandProgress ==
  \/ phase' = "idle"
  \/ phase' # "idle" /\ Rank[phase] < Rank[phase']
  \/ phase' = phase /\ phase \in {"diff", "fetch"} /\ Smaller(todo', todo)
  \/ phase' = phase /\ phase = "list" /\ Smaller(types', types)
  \/ phase = "next" /\ phase' = "send" /\ Smaller(left', left)
  \/ /\ left' = left
     /\ \/ phase = "send" /\ phase' \in {"create", "next"}
        \/ phase = "create" /\ phase' = "next"
        \/ /\ phase = "send" /\ phase' = "send" /\ target' = target
           /\ tries < tries' /\ tries' <= MaxTries

(* A running command is nearer to its end after each of its steps, and what
   others do to the cluster meanwhile does not set it back: no object is taken
   twice, and a kind that is not served yet is asked for a bounded number of
   times.  (apply_environment, prune, delete, apply_when_discovered.) *)
THEOREM CommandsProgress ==
  Spec => [][phase # "idle" =>
               IF Step THEN CommandProgress
               ELSE phase' = "idle" \/ UNCHANGED <<phase, workVars>>]_vars
<1> DEFINE Nearer == phase # "idle" =>
             IF Step THEN CommandProgress
             ELSE phase' = "idle" \/ UNCHANGED <<phase, workVars>>
<1>1. TypeInv /\ [Next]_vars => [Nearer]_vars
  <2> SUFFICES ASSUME TypeInv, Next, phase # "idle" PROVE Nearer
    OBVIOUS
  <2>1. ASSUME NEW c \in Commands, NEW p \in Projects PROVE ~Invoke(c, p)
    BY DEF Invoke
  <2>2. ASSUME Step PROVE CommandProgress
    <3>1. CASE phase' = "idle"
      BY <3>1 DEF CommandProgress
    <3>2. CASE Discover \/ SomethingDiffers \/ Fetched \/ Listed \/ Approved
      BY <3>2
      DEF Discover, SomethingDiffers, Fetched, Listed, Approved, CommandProgress, Rank, Phase
    <3>3. ASSUME NEW n \in todo, Diff(n) \/ Fetch(n) PROVE CommandProgress
      BY <3>3 DEF Diff, Fetch, CommandProgress, Smaller
    <3>4. ASSUME NEW k \in Kind, NEW v \in Version, List(k, v) PROVE CommandProgress
      BY <3>4 DEF List, CommandProgress, Smaller
    <3>5. ASSUME NEW i \in Id, Choose(i) PROVE CommandProgress
      BY <3>5 DEF Choose, IsNext, CommandProgress, Smaller
    <3>6. CASE Retry
      <4>1. tries \in Nat /\ MaxTries \in Nat
        BY RolloutAssumption DEF TypeInv, TypeOK
      <4> QED BY <3>6, <4>1 DEF Retry, CommandProgress
    <3>7. CASE Patch \/ PatchMisses \/ Create \/ Remove
      BY <3>7 DEF Patch, PatchMisses, Create, Remove, Stored, workVars, CommandProgress
    <3> QED
      BY <2>2, <3>1, <3>2, <3>3, <3>4, <3>5, <3>6, <3>7
      DEF Step, NothingToApply, UnknownKind, NothingDiffers, ListFails, NothingToPrune,
          Declined, Unasked, Finished, TimeOut, NotServed, Refused, Conflicts, Fails, FailsFor,
          Succeeds, Return, End
  <2>3. CASE RequestFails \/ AnswerLost
    BY <2>2, <2>3 DEF RequestFails, AnswerLost, Fault, End
  <2>4. CASE Settle
    BY <2>2, <2>4 DEF Settle
  <2>5. CASE \/ \E i \in Id, s \in Foreign, l, k \in BOOLEAN : RivalStores(i, s, l, k)
             \/ \E i \in Id : RivalDeletes(i)
    <3>1. RivalChanges
      BY <2>5 DEF RivalStores, RivalDeletes
    <3> QED BY <2>2, <3>1 DEF RivalChanges
  <2> QED BY <2>1, <2>2, <2>3, <2>4, <2>5 DEF Next
<1> QED BY <1>1, AlwaysTyped, PTL DEF Spec
=============================================================================
