------------------------- MODULE RolloutPromiseProofs -------------------------
(***************************************************************************)
(* apply, prune and delete implement CommandPromise, for any environment   *)
(* whose kinds and names tell its objects apart.                           *)
(*                                                                         *)
(* The promise speaks of one decision, where the program compares and      *)
(* lists object by object; the invariants say what it has decided so far.  *)
(***************************************************************************)
EXTENDS RolloutProofs

Sending == {"send", "create"}

(* What is sent has been taken off the list, in order; a delete has everything
   on it at first. *)
OrderInv ==
  /\ phase = "confirm" /\ command.operation = "delete" => left = Desired
  /\ phase \in Sending =>
       /\ target \notin left
       /\ command.operation = "apply"
            => \A j \in left : Position[KindOf[target]] <= Position[KindOf[j]]
       /\ command.operation = "delete"
            => \A j \in left : Position[KindOf[target]] >= Position[KindOf[j]]

LEMMA InitOrder == Init => OrderInv
BY DEF Init, OrderInv, Sending

LEMMA NextKeepsOrder == TypeInv /\ OrderInv /\ [Next]_vars => OrderInv'
<1> SUFFICES ASSUME TypeInv, OrderInv, [Next]_vars PROVE OrderInv'
  OBVIOUS
<1> USE DEF Sending
<1>1. CASE \/ NothingToApply \/ UnknownKind \/ NothingDiffers \/ NothingToPrune
           \/ (\E k \in Kind, v \in Version : ListFails(k, v))
           \/ Declined \/ Unasked \/ Finished \/ TimeOut \/ NotServed \/ Refused \/ Conflicts
           \/ RequestFails \/ AnswerLost
  <2>1. phase' = "idle"
    BY <1>1, EndingSteps DEF Ends, AnswerLost, Fault, End
  <2> QED BY <2>1 DEF OrderInv
<1>2. ASSUME NEW c \in Commands, NEW p \in Projects, Invoke(c, p) PROVE OrderInv'
  BY <1>2 DEF Invoke, OrderInv, Desired
<1>3. CASE \/ Discover \/ (\E n \in todo : Diff(n) \/ Fetch(n)) \/ Fetched
           \/ (\E k \in Kind, v \in Version : List(k, v))
  <2>1. phase' \in {"fetch", "diff", "list"}
    BY <1>3 DEF Discover, Diff, Fetch, Fetched, List
  <2> QED BY <2>1 DEF OrderInv
<1>4. CASE SomethingDiffers \/ Listed
  <2>1. phase' = "confirm" /\ command' = command /\ command.operation # "delete"
    BY <1>4 DEF SomethingDiffers, Listed, askVars, TypeInv, ShapeInv, Working
  <2> QED BY <2>1 DEF OrderInv
<1>5. CASE Approved
  <2>1. phase' = "next"
    BY <1>5 DEF Approved
  <2> QED BY <2>1 DEF OrderInv
<1>6. ASSUME NEW i \in Id, Choose(i) PROVE OrderInv'
  BY <1>6 DEF Choose, IsNext, askVars, OrderInv
<1>7. CASE Retry \/ PatchMisses
  <2>1. /\ UNCHANGED <<command, left, target>> /\ phase = "send" /\ phase' \in Sending
    BY <1>7 DEF Retry, PatchMisses, askVars, workVars
  <2> QED BY <2>1 DEF OrderInv
<1>8. CASE Patch \/ Create \/ Remove
  <2>1. phase \in Sending /\ phase' = "next" /\ command' = command
    BY <1>8 DEF Patch, Create, Remove, Stored, askVars
  <2> QED BY <2>1 DEF OrderInv
<1>9. CASE \/ \E i \in Id, s \in Foreign, l, k \in BOOLEAN : RivalStores(i, s, l, k)
           \/ \E i \in Id : RivalDeletes(i)
           \/ Settle \/ UNCHANGED vars
  <2>1. UNCHANGED <<phase, command, manifests, left, target>>
    BY <1>9 DEF RivalStores, RivalDeletes, RivalChanges, Settle, vars, askVars, workVars
  <2> QED BY <2>1 DEF OrderInv, Desired
<1> QED BY <1>1, <1>2, <1>3, <1>4, <1>5, <1>6, <1>7, <1>8, <1>9 DEF Next, Step

-----------------------------------------------------------------------------
(* What is decided.                                                        *)

AsWanted(n) ==
  LET m == manifests[n]
  IN  /\ SpaceOf[m.id] # NoId => Exists(SpaceOf[m.id])
      /\ Exists(m.id)
      /\ Covers(m)
      /\ ~HasLeftovers(m)
      /\ live[m.id].label

LEMMA SameWanted ==
  ASSUME UNCHANGED <<live, manifests, command>>
  PROVE  \A n : AsWanted(n)' <=> AsWanted(n)
BY DEF AsWanted, Exists, Covers, HasLeftovers, Owned

(* Of what was compared, what differs is on the list.  What is not served
   when discovery is asked does not exist, so that it differs. *)
Compared ==
  /\ phase = "diff" =>
       \A n \in DOMAIN manifests :
         Exists(manifests[n].id) => KindOf[manifests[n].id] \in known
  /\ phase \in {"diff", "confirm"} =>
       left = {manifests[n].id : n \in {m \in DOMAIN manifests \ todo : ~AsWanted(m)}}

ComparedInv == command.operation = "apply" /\ calm => Compared

LEMMA InitCompared == Init => ComparedInv
BY DEF Init, ComparedInv, Compared

(* A comparison puts on the list what is not as wanted, and nothing else. *)
LEMMA DiffersIsUnwanted ==
  ASSUME TypeInv, Compared, phase = "diff", NEW n \in DOMAIN manifests
  PROVE  Differs(manifests[n]) <=> ~AsWanted(n)
<1>1. IsPending(KindOf[manifests[n].id]) => ~Exists(manifests[n].id)
  BY DEF Compared, IsPending
<1> QED BY <1>1 DEF Differs, AsWanted

LEMMA NextKeepsCompared ==
  TypeInv /\ WorldInv /\ ComparedInv /\ [Next]_vars => ComparedInv'
<1> SUFFICES ASSUME TypeInv, WorldInv, ComparedInv, [Next]_vars,
                    command'.operation = "apply", calm'
             PROVE  Compared'
  BY DEF ComparedInv
<1>1. CASE \/ \E i \in Id, s \in Foreign, l, k \in BOOLEAN : RivalStores(i, s, l, k)
           \/ \E i \in Id : RivalDeletes(i)
           \/ Settle \/ UNCHANGED vars
  <2>1. UNCHANGED <<live, phase, command, manifests, known, todo, left, calm>>
    BY <1>1, Bystanders
  <2> QED BY <2>1, SameWanted DEF ComparedInv, Compared, Exists
<1>2. CASE \/ NothingToApply \/ UnknownKind \/ NothingDiffers \/ NothingToPrune
           \/ (\E k \in Kind, v \in Version : ListFails(k, v))
           \/ Declined \/ Unasked \/ Finished \/ TimeOut \/ NotServed \/ Refused \/ Conflicts
           \/ RequestFails \/ AnswerLost
  <2>1. phase' = "idle"
    BY <1>2, EndingSteps DEF Ends, AnswerLost, Fault, End
  <2> QED BY <2>1 DEF Compared
<1>3. ASSUME NEW c \in Commands, NEW p \in Projects, Invoke(c, p) PROVE Compared'
  BY <1>3 DEF Invoke, Compared
<1>4. CASE Discover
  <2>1. /\ UNCHANGED <<live, manifests, left>> /\ left = {} /\ known' = served
        /\ todo' = DOMAIN manifests
    BY <1>4 DEF Discover, clusterVars, askVars, TypeInv, ShapeInv
  <2>2. \A n \in DOMAIN manifests :
          Exists(manifests[n].id) => KindOf[manifests[n].id] \in served
    BY ManifestsTyped DEF WorldInv, TypeInv
  <2> QED BY <2>1, <2>2 DEF Compared, Exists
<1>5. ASSUME NEW n \in todo, Diff(n) PROVE Compared'
  <2>1. /\ UNCHANGED <<live, manifests, known, phase, command, calm>> /\ todo' = todo \ {n}
        /\ left' = IF Differs(manifests[n]) THEN left \cup {manifests[n].id} ELSE left
        /\ phase = "diff"
    BY <1>5 DEF Diff, clusterVars, askVars
  <2>2. n \in DOMAIN manifests /\ todo \subseteq DOMAIN manifests
    BY DEF TypeInv, TypeOK
  <2>3. Compared
    BY <2>1 DEF ComparedInv
  <2>4. Differs(manifests[n]) <=> ~AsWanted(n)
    BY <2>1, <2>2, <2>3, DiffersIsUnwanted
  <2>5. left' = {manifests[m].id : m \in {k \in DOMAIN manifests \ todo' : ~AsWanted(k)}}
    BY <2>1, <2>2, <2>3, <2>4 DEF Compared
  <2>6. \A m : AsWanted(m)' <=> AsWanted(m)
    BY <2>1, SameWanted
  <2>7. left' = {manifests'[m].id : m \in {k \in DOMAIN manifests' \ todo' : ~AsWanted(k)'}}
    BY <2>1, <2>5, <2>6
  <2>8. \A m \in DOMAIN manifests' :
          live'[manifests'[m].id] # Absent => KindOf[manifests'[m].id] \in known'
    BY <2>1, <2>3 DEF Compared, Exists
  <2> QED BY <2>7, <2>8 DEF Compared, Exists
<1>6. CASE SomethingDiffers
  <2>1. /\ UNCHANGED <<live, manifests, todo, left, command, calm>>
        /\ phase = "diff" /\ phase' = "confirm"
    BY <1>6 DEF SomethingDiffers, clusterVars, askVars, workVars
  <2> QED BY <2>1, SameWanted DEF ComparedInv, Compared, Exists
<1>7. CASE \/ (\E n \in todo : Fetch(n)) \/ Fetched \/ Listed
           \/ (\E k \in Kind, v \in Version : List(k, v))
  <2>1. command' = command /\ phase \in {"fetch", "list"}
    BY <1>7 DEF Fetch, Fetched, Listed, List, askVars
  <2> QED BY <2>1 DEF TypeInv, ShapeInv, Working
<1>8. CASE \/ Approved \/ (\E i \in Id : Choose(i)) \/ Retry \/ PatchMisses \/ Patch \/ Create
           \/ Remove
  <2>1. phase' \in {"next", "send", "create"}
    BY <1>8 DEF Approved, Choose, Retry, PatchMisses, Patch, Create, Remove, Stored
  <2> QED BY <2>1 DEF Compared
<1> QED BY <1>1, <1>2, <1>3, <1>4, <1>5, <1>6, <1>7, <1>8 DEF Next, Step

(* What was listed is what is left to prune until it is approved. *)
ListedInv ==
  command.operation = "prune" /\ calm /\ phase = "confirm" =>
    left = {i \in Id \ Desired : Marked(i)}

LEMMA InitListed == Init => ListedInv
BY DEF Init, ListedInv

LEMMA NextKeepsListed ==
  TypeInv /\ WorldInv /\ PruneInv /\ ListedInv /\ [Next]_vars => ListedInv'
<1> SUFFICES ASSUME TypeInv, WorldInv, PruneInv, ListedInv, [Next]_vars,
                    command'.operation = "prune", calm', phase' = "confirm"
             PROVE  left' = {i \in Id \ Desired' : Marked(i)'}
  BY DEF ListedInv
<1>1. CASE \/ \E i \in Id, s \in Foreign, l, k \in BOOLEAN : RivalStores(i, s, l, k)
           \/ \E i \in Id : RivalDeletes(i)
           \/ Settle \/ UNCHANGED vars
  <2>1. UNCHANGED <<live, phase, command, manifests, left, calm>>
    BY <1>1, Bystanders
  <2> QED BY <2>1 DEF ListedInv, Marked, Exists, Desired
<1>2. CASE Listed
  <2>1. /\ UNCHANGED <<live, command, manifests, calm>> /\ left' = Victims
        /\ phase = "list" /\ types = {}
    BY <1>2 DEF Listed, clusterVars, askVars
  <2>2. Looking
    BY <2>1 DEF PruneInv, StillToPrune
  <2>3. Victims = {i \in Id \ Desired : Marked(i)}
    BY <2>1, <2>2, VictimsAreOrphans
  <2> QED BY <2>1, <2>3 DEF Marked, Exists, Desired
<1>3. CASE SomethingDiffers \/ \E c \in Commands, p \in Projects : Invoke(c, p)
  BY <1>3 DEF SomethingDiffers, Invoke, askVars, TypeInv, ShapeInv, Working
<1>4. CASE \/ NothingToApply \/ UnknownKind \/ NothingDiffers \/ NothingToPrune
           \/ (\E k \in Kind, v \in Version : ListFails(k, v))
           \/ Declined \/ Unasked \/ Finished \/ TimeOut \/ NotServed \/ Refused \/ Conflicts
           \/ RequestFails \/ AnswerLost
  BY <1>4, EndingSteps DEF Ends, AnswerLost, Fault, End
<1>5. CASE \/ Discover \/ (\E n \in todo : Diff(n) \/ Fetch(n)) \/ Fetched
           \/ (\E k \in Kind, v \in Version : List(k, v)) \/ Approved
           \/ (\E i \in Id : Choose(i)) \/ Retry \/ PatchMisses \/ Patch \/ Create \/ Remove
  BY <1>5 DEF Discover, Diff, Fetch, Fetched, List, Approved, Choose, Retry, PatchMisses,
              Patch, Create, Remove, Stored
<1> QED BY <1>1, <1>2, <1>3, <1>4, <1>5 DEF Next, Step

-----------------------------------------------------------------------------
(* What the promise calls due, in the program's terms.                     *)

LEMMA SameTerms ==
  ASSUME TypeOK
  PROVE  /\ Promise!Desired = Desired
         /\ Promise!Orphans = {i \in Id \ Desired : Marked(i)}
         /\ Promise!Differing = {manifests[n].id : n \in {m \in DOMAIN manifests : ~AsWanted(m)}}
<1>1. Promise!Desired = Desired
  BY DEF Promise!Desired, Desired
<1>2. Promise!Orphans = {i \in Id \ Desired : Marked(i)}
  BY <1>1 DEF Promise!Orphans, Promise!Exists, Marked, Exists
<1>3. ASSUME NEW n \in DOMAIN manifests PROVE Promise!IsAsWanted(n) <=> AsWanted(n)
  <2>1. Owned(manifests[n].id) \subseteq Field \/ ~Exists(manifests[n].id)
    BY ManifestsTyped DEF TypeOK, ClusterTypeOK, Exists, Owned, Object
  <2>2. Exists(manifests[n].id) =>
          (Promise!Leftovers(manifests[n].id) \subseteq Fields(manifests[n].spec)
             <=> ~HasLeftovers(manifests[n]))
    BY <2>1 DEF Promise!Leftovers, Promise!Fields, HasLeftovers, Owned, Fields
  <2> QED BY <2>2 DEF Promise!IsAsWanted, Promise!Exists, Promise!Fields, AsWanted, Exists, Covers, Fields
<1> QED BY <1>1, <1>2, <1>3 DEF Promise!Differing

LEMMA DueTerms ==
  ASSUME TypeInv
  PROVE  /\ command.operation \in Operation
         /\ command.operation = "apply" =>
              Promise!Due = {manifests[n].id : n \in {m \in DOMAIN manifests : ~AsWanted(m)}}
         /\ command.operation = "prune" => Promise!Due = {i \in Id \ Desired : Marked(i)}
         /\ command.operation = "delete" => Promise!Due = Desired
<1>1. command.operation \in Operation
  BY RolloutAssumption DEF TypeInv, TypeOK, Command
<1> QED BY <1>1, SameTerms DEF Promise!Due, TypeInv

(* At any time at most one request is under way; a dry run never acts. *)
LEMMA PlanTerms ==
  ASSUME TypeInv
  PROVE  /\ phase = "idle" => Stage = "idle" /\ Plan = {}
         /\ phase # "idle" /\ (phase \notin {"next"} \cup Sending \/ IsDry) =>
              Stage = "deciding" /\ Plan = {}
         /\ phase = "next" /\ ~IsDry => Stage = "acting" /\ Plan = left
         /\ phase \in Sending /\ ~IsDry =>
              Stage = "acting" /\ Plan = left \cup {target} /\ target \in Id
<1>1. phase \in Sending => target \in Id /\ target # NoId
  BY ClusterAssumption DEF TypeInv, TypeOK, Sending
<1>2. phase = "next" => target = NoId
  BY DEF TypeInv, ShapeInv
<1> QED BY <1>1, <1>2 DEF Stage, Plan, Sending

LEMMA PlanTermsNext ==
  ASSUME TypeInv'
  PROVE  /\ phase' = "idle" => Stage' = "idle" /\ Plan' = {}
         /\ phase' # "idle" /\ (phase' \notin {"next"} \cup Sending \/ IsDry') =>
              Stage' = "deciding" /\ Plan' = {}
         /\ phase' = "next" /\ ~IsDry' => Stage' = "acting" /\ Plan' = left'
         /\ phase' \in Sending /\ ~IsDry' => Stage' = "acting" /\ Plan' = left' \cup {target'}
<1>1. phase' \in Sending => target' \in Id /\ target' # NoId
  BY ClusterAssumption DEF TypeInv, TypeOK, Sending
<1>2. phase' = "next" => target' = NoId
  BY DEF TypeInv, ShapeInv
<1> QED BY <1>1, <1>2 DEF Stage, Plan, Sending

(* Only a delete goes on in a dry run. *)
LEMMA DryIsDelete ==
  ASSUME TypeInv, phase \in {"next"} \cup Sending, IsDry
  PROVE  command.operation = "delete" /\ phase # "create"
BY DEF TypeInv, ShapeInv, GoesOn, Sending, Working

-----------------------------------------------------------------------------
(* Step by step.                                                           *)

DecisionInv ==
  TypeInv /\ WorldInv /\ PruneInv /\ OrderInv /\ ComparedInv /\ ListedInv

(* What is sent for a manifest sets its fields and keeps what others had set. *)
LEMMA StoreIsWrite ==
  ASSUME TypeOK, NEW m \in Manifest, Store(m.id, Applied(m))
  PROVE  Promise!Write(m)
<1>1. PICK s \in Content, h \in SUBSET Field : s = Merged(m) /\ h = Holding(m)
  BY AppliedIs
<1>2. m.id \in Id
  BY DEF Manifest
<1>3. PICK before \in Object : before = Current(m.id)
  BY <1>2, CurrentTyped DEF TypeOK
<1>4. PICK o \in BOOLEAN : o = (before.ours \/ command.strategy = "server")
  OBVIOUS
<1>5. Promise!Current(m.id) = before
  BY <1>3 DEF Promise!Current, Promise!Exists, Current, Exists
<1>6. /\ \A f \in Fields(m.spec) : s[f] = m.spec[f]
      /\ \A f \in Field \ Fields(m.spec) :
           s[f] = IF command.strategy = "server" /\ f \in before.held THEN Unset ELSE before.spec[f]
  BY <1>1, <1>3 DEF Merged, Fields
<1>7. /\ command.strategy = "server" => h \subseteq Fields(m.spec)
      /\ command.strategy # "server" => h \subseteq before.held
  BY <1>1, <1>3 DEF Holding
<1>8. Applied(m) = [before EXCEPT !.spec = s, !.held = h, !.label = TRUE, !.ours = o]
  <2>1. Applied(m) = [before EXCEPT !.spec = s, !.annotated = before.annotated, !.held = h,
                                    !.label = TRUE, !.ours = o]
    BY <1>1, <1>3, <1>4, AppliedIs
  <2> QED BY <2>1 DEF Object
<1>9. Promise!Store(m.id, [before EXCEPT !.spec = s, !.held = h, !.label = TRUE, !.ours = o])
  BY <1>8 DEF Store, Promise!Store, Promise!Exists, Exists
<1>10. Promise!Fields(m.spec) = Fields(m.spec) /\ Promise!Content = Content
  BY DEF Promise!Fields, Fields, Promise!Content, Content
<1>11. before.ours => o
  BY <1>4
<1>12. s \in Promise!Content
  BY <1>10
<1> USE DEF Promise!Write
<1> WITNESS s \in Promise!Content, h \in SUBSET Field, o \in BOOLEAN
<1> QED BY <1>5, <1>6, <1>7, <1>9, <1>10, <1>11

(* One request changes its object as the promise allows. *)
LEMMA WriteIsChange ==
  ASSUME Unambiguous, TypeInv, OrderInv,
         phase = "create" \/ (phase = "send" /\ command.operation = "apply"),
         Accepts(ManifestFor(target).id),
         Store(ManifestFor(target).id, Applied(ManifestFor(target)))
  PROVE  target \in Id /\ Promise!Change(target)
<1>1. command.operation = "apply" /\ target \in Id /\ target \in Desired /\ phase \in Sending
  BY TargetIsDesired DEF Sending
<1>2. PICK t \in Desired : t = target
  BY <1>1
<1>3. PICK n \in DOMAIN manifests : ManifestFor(t) = manifests[n] /\ manifests[n].id = t
  BY OwnManifest
<1>4. ~IsDry
  BY <1>1, DryIsDelete
<1>5. Promise!IsNext(target)
  <2>1. Stage = "acting" /\ Plan = left \cup {target}
    BY <1>1, <1>4, PlanTerms
  <2>2. Position[KindOf[target]] \in Nat
    BY <1>1, ClusterAssumption, RolloutAssumption
  <2> QED BY <1>1, <2>1, <2>2 DEF Promise!IsNext, OrderInv
<1>6. Promise!Accepts(target)
  BY <1>2, <1>3 DEF Promise!Accepts, Promise!Exists, Promise!IsCustom, Accepts, Exists, IsCustom
<1>7. manifests[n] \in Manifest /\ TypeOK
  BY ManifestsTyped DEF TypeInv
<1>8. Promise!Write(manifests[n])
  BY <1>2, <1>3, <1>7, StoreIsWrite
<1>9. Stage = "acting"
  BY <1>1, <1>4, PlanTerms
<1> QED BY <1>1, <1>2, <1>3, <1>5, <1>6, <1>8, <1>9 DEF Promise!Change

LEMMA DeleteIsChange ==
  ASSUME TypeInv, OrderInv, phase = "send", command.operation # "apply", ~IsDry, Delete(target)
  PROVE  target \in Id /\ Promise!Change(target)
<1>1. Stage = "acting" /\ Plan = left \cup {target} /\ target \in Id
  BY PlanTerms DEF Sending
<1>2. Position[KindOf[target]] \in Nat
  BY <1>1, ClusterAssumption, RolloutAssumption
<1>3. Promise!IsNext(target)
  BY <1>1, <1>2 DEF Promise!IsNext, OrderInv, Sending
<1>4. Promise!Delete(target)
  BY DEF Delete, Contents, Exists, Promise!Delete, Promise!Contents, Promise!Exists
<1> QED BY <1>1, <1>3, <1>4 DEF Promise!Change

LEMMA InitKeepsPromise == Init => Promise!Init
<1> SUFFICES ASSUME Init PROVE Promise!Init
  OBVIOUS
<1>1. TypeInv
  BY InitTypes
<1>2. Promise!ClusterTypeOK
  BY <1>1 DEF TypeInv, TypeOK, ClusterTypeOK, Promise!ClusterTypeOK, Object, Promise!Object,
              Content, Promise!Content
<1>3. Stage = "idle" /\ Plan = {} /\ command \in Commands
  BY <1>1, PlanTerms DEF Init, TypeInv, TypeOK
<1> QED BY <1>2, <1>3 DEF Init, Promise!Init

(* The approval is the decision: what is on the list by then is what is due. *)
LEMMA ApprovedDecides ==
  ASSUME DecisionInv, TypeInv', Approved, ~IsDry
  PROVE  Promise!Decide
<1> USE DEF DecisionInv
<1>1. /\ phase = "confirm" /\ phase' = "next" /\ GoesOn
      /\ UNCHANGED <<clusterVars, command, manifests, left, result, calm>>
  BY DEF Approved, askVars, workVars
<1>2. Stage = "deciding" /\ Stage' = "acting" /\ Plan' = left
  BY <1>1, PlanTerms, PlanTermsNext DEF Sending, IsDry
<1>3. left \subseteq Id /\ (command.operation = "apply" => left \subseteq Promise!Desired)
  BY SameTerms DEF TypeInv, TypeOK, ShapeInv
<1>4. ASSUME calm \/ command.operation = "delete" PROVE left = Promise!Due
  <2>1. CASE command.operation = "apply"
    <3>1. todo = {}
      BY <1>1 DEF TypeInv, ShapeInv
    <3> QED BY <1>1, <1>4, <2>1, <3>1, DueTerms DEF ComparedInv, Compared
  <2>2. CASE command.operation = "prune"
    BY <1>1, <1>4, <2>2, DueTerms DEF ListedInv
  <2>3. CASE command.operation = "delete"
    BY <1>1, <2>3, DueTerms DEF OrderInv
  <2> QED BY <2>1, <2>2, <2>3, DueTerms DEF Operation
<1>5. Plan' \in SUBSET (IF command.operation = "apply" THEN Promise!Desired ELSE Id)
  BY <1>2, <1>3
<1>6. Promise!IsApproved /\ ~Promise!IsDry
  <2>1. command.dryRun \in DryRun
    BY RolloutAssumption DEF TypeInv, TypeOK, Command
  <2> QED BY <1>1, <2>1 DEF GoesOn, IsDry, DryRun, Promise!IsApproved, Promise!IsDry
<1> QED BY <1>1, <1>2, <1>4, <1>5, <1>6 DEF Promise!Decide, clusterVars, Promise!clusterVars

(* Ok is returned when all is changed, when nothing is due, when it was declined
   or after a dry run. *)
LEMMA SuccessIsDue ==
  ASSUME DecisionInv, TypeInv',
         NothingToApply \/ NothingDiffers \/ NothingToPrune \/ Declined \/ Finished
  PROVE  Promise!Succeed
<1> USE DEF DecisionInv
<1>1. /\ phase' = "idle" /\ result' = "ok"
      /\ UNCHANGED <<clusterVars, command, manifests, calm>>
  BY DEF NothingToApply, NothingDiffers, NothingToPrune, Declined, Finished, Succeeds, Return,
         End, askVars
<1>2. Promise!End("ok") /\ UNCHANGED Promise!clusterVars
  BY <1>1, PlanTermsNext DEF Promise!End, clusterVars, Promise!clusterVars
<1>3. CASE Finished
  BY <1>2, <1>3, PlanTerms DEF Finished, Promise!Succeed, IsDry, Promise!IsDry
<1>4. CASE Declined
  BY <1>2, <1>4, PlanTerms DEF Declined, Promise!Succeed, IsDry, Promise!IsDry, Sending
<1>5. CASE NothingToApply \/ NothingDiffers
  <2>1. command.operation = "apply" /\ Stage = "deciding"
    BY <1>5, PlanTerms, DueTerms
    DEF NothingToApply, NothingDiffers, TypeInv, ShapeInv, Working, Operation, Sending
  <2>2. calm => Promise!Due = {}
    <3>1. CASE NothingToApply
      BY <2>1, <3>1, DueTerms DEF NothingToApply
    <3>2. CASE NothingDiffers
      BY <2>1, <3>2, DueTerms DEF NothingDiffers, ComparedInv, Compared
    <3> QED BY <1>5, <3>1, <3>2
  <2> QED BY <1>2, <2>1, <2>2 DEF Promise!Succeed
<1>6. CASE NothingToPrune
  <2>1. /\ command.operation = "prune" /\ Stage = "deciding"
        /\ phase = "list" /\ types = {} /\ Victims = {}
    BY <1>6, PlanTerms, DueTerms DEF NothingToPrune, TypeInv, ShapeInv, Working, Operation, Sending
  <2>2. calm => Promise!Due = {}
    <3> SUFFICES ASSUME calm PROVE Promise!Due = {}
      OBVIOUS
    <3>1. Looking
      BY <2>1 DEF PruneInv, StillToPrune
    <3> QED BY <2>1, <3>1, VictimsAreOrphans, DueTerms
  <2> QED BY <1>2, <2>1, <2>2 DEF Promise!Succeed
<1> QED BY <1>3, <1>4, <1>5, <1>6

(* Comparing, listing, taking the next object and trying again are steps that
   only the program sees, as is all that a dry run does. *)
LEMMA QuietSteps ==
  ASSUME TypeInv, TypeInv',
         \/ Discover \/ (\E n \in todo : Diff(n) \/ Fetch(n)) \/ Fetched
         \/ (\E k \in Kind, v \in Version : List(k, v)) \/ Listed \/ SomethingDiffers
         \/ (\E i \in Id : Choose(i)) \/ Retry \/ PatchMisses
         \/ (IsDry /\ (Approved \/ Remove))
  PROVE  UNCHANGED Promise!promiseVars
<1>1. UNCHANGED <<clusterVars, command, manifests, result, calm>>
  BY DEF Discover, Diff, Fetch, Fetched, List, Listed, SomethingDiffers, Choose, Retry,
         PatchMisses, Approved, Remove, askVars
<1>2. IsDry' <=> IsDry
  BY <1>1 DEF IsDry
<1>3. Stage' = Stage /\ Plan' = Plan
  <2>1. CASE \/ Discover \/ (\E n \in todo : Diff(n) \/ Fetch(n)) \/ Fetched
             \/ (\E k \in Kind, v \in Version : List(k, v)) \/ Listed \/ SomethingDiffers
    <3>1. /\ phase \in {"discover", "diff", "fetch", "list", "confirm"}
          /\ phase' \in {"discover", "diff", "fetch", "list", "confirm"}
      BY <2>1 DEF Discover, Diff, Fetch, Fetched, List, Listed, SomethingDiffers
    <3> QED BY <3>1, PlanTerms, PlanTermsNext DEF Sending
  <2>2. ASSUME NEW i \in Id, Choose(i) PROVE Stage' = Stage /\ Plan' = Plan
    <3>1. /\ phase = "next" /\ phase' = "send" /\ i \in left
          /\ left' = left \ {i} /\ target' = i
      BY <2>2 DEF Choose, IsNext
    <3> QED BY <1>2, <3>1, PlanTerms, PlanTermsNext DEF Sending
  <2>3. CASE Retry \/ PatchMisses
    <3>1. phase \in Sending /\ phase' \in Sending /\ UNCHANGED <<left, target>>
      BY <2>3 DEF Retry, PatchMisses, workVars, Sending
    <3> QED BY <1>2, <3>1, PlanTerms, PlanTermsNext DEF Sending
  <2>4. CASE IsDry /\ (Approved \/ Remove)
    <3>1. phase \in {"confirm", "send"} /\ phase' = "next"
      BY <2>4 DEF Approved, Remove
    <3> QED BY <1>2, <2>4, <3>1, PlanTerms, PlanTermsNext
  <2> QED BY <2>1, <2>2, <2>3, <2>4
<1> QED BY <1>1, <1>3 DEF Promise!promiseVars, Promise!clusterVars, clusterVars

LEMMA NextKeepsPromise ==
  ASSUME Unambiguous
  PROVE  DecisionInv /\ [Next]_vars => [Promise!Next]_(Promise!promiseVars)
<1> SUFFICES ASSUME DecisionInv, [Next]_vars
             PROVE  Promise!Next \/ UNCHANGED Promise!promiseVars
  OBVIOUS
<1>0. TypeInv'
  BY NextKeepsTypes DEF DecisionInv
<1> USE DEF DecisionInv
<1>1. CASE \/ Discover \/ (\E n \in todo : Diff(n) \/ Fetch(n)) \/ Fetched
           \/ (\E k \in Kind, v \in Version : List(k, v)) \/ Listed \/ SomethingDiffers
           \/ (\E i \in Id : Choose(i)) \/ Retry \/ PatchMisses
           \/ (IsDry /\ (Approved \/ Remove))
  BY <1>0, <1>1, QuietSteps
<1>2. CASE Approved /\ ~IsDry
  BY <1>0, <1>2, ApprovedDecides DEF Promise!Next
<1>3. CASE NothingToApply \/ NothingDiffers \/ NothingToPrune \/ Declined \/ Finished
  BY <1>0, <1>3, SuccessIsDue DEF Promise!Next
<1>4. CASE \/ UnknownKind \/ (\E k \in Kind, v \in Version : ListFails(k, v)) \/ Unasked
           \/ TimeOut \/ NotServed \/ Refused \/ Conflicts \/ RequestFails
  <2>1. /\ phase # "idle" /\ phase' = "idle" /\ result' = "failed"
        /\ UNCHANGED <<clusterVars, command, manifests, calm>>
    BY <1>4 DEF UnknownKind, ListFails, Unasked, TimeOut, NotServed, Refused, Conflicts, RequestFails,
                Fault, FailsFor, Fails, Return, End, askVars
  <2>2. Stage # "idle" /\ Stage' = "idle" /\ Plan' = {}
    BY <1>0, <2>1, PlanTerms, PlanTermsNext DEF TypeInv, TypeOK, Phase, Sending
  <2>3. Promise!Fail
    BY <2>1, <2>2 DEF Promise!Fail, Promise!End, Promise!clusterVars, clusterVars
  <2> QED BY <2>3 DEF Promise!Next
<1>5. CASE Patch \/ Create \/ (Remove /\ ~IsDry)
  <2>1. target \in Id /\ Promise!Change(target)
    <3>1. CASE Patch \/ Create
      BY <3>1, WriteIsChange DEF Patch, Create, Stored
    <3>2. CASE Remove /\ ~IsDry
      BY <3>2, DeleteIsChange DEF Remove
    <3> QED BY <1>5, <3>1, <3>2
  <2>2. /\ phase \in Sending /\ phase' = "next"
        /\ UNCHANGED <<command, manifests, left, result, calm>>
    BY <1>5 DEF Patch, Create, Remove, Stored, askVars, Sending
  <2>3. ~IsDry /\ ~IsDry'
    <3>1. ~IsDry
      BY <1>5, TargetIsDesired, DryIsDelete DEF Patch, Create, Sending
    <3> QED BY <2>2, <3>1 DEF IsDry
  <2>4. Stage' = Stage /\ Plan' = Plan \ {target}
    BY <1>0, <2>2, <2>3, PlanTerms, PlanTermsNext DEF OrderInv
  <2>5. Promise!Act(target)
    BY <2>1, <2>2, <2>4 DEF Promise!Act
  <2> QED BY <2>1, <2>5 DEF Promise!Next
<1>6. CASE AnswerLost
  <2>1. target \in Id /\ Promise!Change(target)
    <3>1. CASE phase = "send" /\ command.operation # "apply" /\ ~IsDry /\ Delete(target)
      BY <3>1, DeleteIsChange
    <3>2. CASE /\ phase = "create" \/ (phase = "send" /\ command.operation = "apply")
               /\ Accepts(ManifestFor(target).id)
               /\ Store(ManifestFor(target).id, Applied(ManifestFor(target)))
      BY <3>2, WriteIsChange
    <3> QED BY <1>6, <3>1, <3>2 DEF AnswerLost
  <2>2. /\ phase' = "idle" /\ result' = "failed"
        /\ UNCHANGED <<command, manifests, calm>>
    BY <1>6 DEF AnswerLost, Fault, End, askVars
  <2>3. Promise!AnswerLost(target)
    BY <1>0, <2>1, <2>2, PlanTermsNext DEF Promise!AnswerLost, Promise!End
  <2> QED BY <2>1, <2>3 DEF Promise!Next
<1>7. ASSUME NEW c \in Commands, NEW p \in Projects, Invoke(c, p) PROVE Promise!Begin(c, p)
  <2>1. /\ phase = "idle" /\ phase' \in {"discover", "confirm"}
        /\ command' = c /\ manifests' = p /\ calm' = TRUE
        /\ UNCHANGED <<clusterVars, result>>
    BY <1>7 DEF Invoke
  <2> QED BY <1>0, <2>1, PlanTerms, PlanTermsNext
          DEF Sending, Promise!Begin, Promise!clusterVars, clusterVars
<1>8. CASE \/ \E i \in Id, s \in Foreign, l, k \in BOOLEAN : RivalStores(i, s, l, k)
           \/ \E i \in Id : RivalDeletes(i)
  <2>1. calm' = FALSE /\ UNCHANGED <<phase, command, manifests, left, target, result>>
    BY <1>8 DEF RivalStores, RivalDeletes, RivalChanges, askVars, workVars
  <2> QED BY <2>1 DEF Promise!Next, Promise!Others, Stage, Plan, IsDry
<1>9. CASE Settle
  <2>1. /\ UNCHANGED <<live, uids, phase, command, manifests, left, target, result, calm>>
    BY <1>9 DEF Settle, Establish, Retire, askVars, workVars
  <2>2. served' \in SUBSET Kind
    BY <1>0 DEF TypeInv, TypeOK, ClusterTypeOK
  <2> QED BY <2>1, <2>2 DEF Promise!Next, Promise!Settle, Stage, Plan, IsDry
<1>10. CASE UNCHANGED vars
  BY <1>10 DEF vars, clusterVars, askVars, workVars, Promise!promiseVars, Promise!clusterVars,
               Stage, Plan, IsDry
<1> QED BY <1>1, <1>2, <1>3, <1>4, <1>5, <1>6, <1>7, <1>8, <1>9, <1>10
        DEF Next, Step, Promise!Next

(* apply, prune and delete keep their promise, where no kind and name is in
   two namespaces.  They change nothing in a dry run, and nothing without approval
   but in a delete with --dry-run none, which the code does not ask about.
   Undisturbed, they decide on exactly what differs or is orphaned.  An apply
   sets the fields of its manifests and takes none away but those that server-side
   apply alone had set; Ok means that all of it was sent and accepted.
   (apply_manifest, apply_environment, prune, delete.) *)
THEOREM PromiseIsKept == Unambiguous => (Spec => KeepsPromise)
<1> SUFFICES ASSUME Unambiguous PROVE Spec => KeepsPromise
  OBVIOUS
<1>1. Spec => []DecisionInv
  BY InitTypes, InitWorld, InitPrune, InitOrder, InitCompared, InitListed, NextKeepsTypes,
     NextKeepsWorld, NextKeepsPrune, NextKeepsOrder, NextKeepsCompared, NextKeepsListed, PTL
  DEF Spec, DecisionInv
<1>2. DecisionInv /\ [Next]_vars => [Promise!Next]_(Promise!promiseVars)
  BY NextKeepsPromise
<1> QED BY <1>1, <1>2, InitKeepsPromise, PTL DEF Spec, KeepsPromise, Promise!Spec
=============================================================================
