------------------------------ MODULE Rollout ------------------------------
(***************************************************************************)
(* rtk apply, rtk prune and rtk delete (cmds/rtk/src/commands and k8s):    *)
(* commands of one environment against a cluster that others change too.   *)
(* Apply compares the manifests with the cluster, asks, and sends what     *)
(* differs in install order; prune lists what carries the environment's    *)
(* label and deletes what no manifest names; delete removes the manifests' *)
(* objects in reverse install order.  The first failure ends a command and *)
(* leaves the rest undone.                                                 *)
(*                                                                         *)
(* The comparisons and the listings of a command run concurrently: each is *)
(* a step of its own, in any order, and reads the cluster when it is taken. *)
(* A behaviour is a sequence of at most MaxCommands commands, each with    *)
(* the manifests of some revision of the environment.                      *)
(***************************************************************************)
EXTENDS Cluster, Sequences, FiniteSets

CONSTANTS
  Name,         \* metadata.name
  NameOf,       \* NameOf[i]: the name of object i
  Version,      \* API versions
  VersionsOf,   \* VersionsOf[k]: the versions kind k is served in
  Position,     \* Position[k]: kind_position, the place of k in install order
  Crowded,      \* custom kinds whose group and version other kinds share
  Projects,     \* what the environment can evaluate to
  Clusters,     \* what the cluster can hold at first
  Commands,     \* the commands that are given
  Foreign,      \* the contents that others write
  MaxTries,     \* bound: attempts to find a kind in discovery
  MaxCommands,  \* bound: commands
  MaxRivals,    \* bound: changes others make to the cluster
  MaxFaults     \* bound: requests that fail on their way

Operation == {"apply", "prune", "delete"}
Answer == {"yes",          \* approved, at the prompt or by --auto-approve
           "no",           \* declined
           "noTerminal"}   \* nobody to ask
DryRun == {"unset",        \* no --dry-run, or an empty one
           "none",
           "dry"}          \* client or server
Command == [operation : Operation, strategy : {"client", "server"},
            answer : Answer, dryRun : DryRun]
Manifest == [id : Id, version : Version, spec : Content]

ASSUME RolloutAssumption ==
  /\ IsFiniteSet(Id)
  /\ NameOf \in [Id -> Name]
  /\ VersionsOf \in [Kind -> (SUBSET Version) \ {{}}]
  /\ Position \in [Kind -> Nat]
  /\ Crowded \subseteq Kind
  /\ Projects \subseteq Seq(Manifest)
  /\ Projects # {}
  /\ Commands \subseteq Command
  /\ Commands # {}
  /\ Foreign \subseteq Content
  /\ Clusters \subseteq [live : [Id -> Object \cup {Absent}], served : SUBSET Kind]
  /\ MaxTries \in Nat
  /\ MaxCommands \in Nat
  /\ MaxRivals \in Nat
  /\ MaxFaults \in Nat

(* What a cluster holds at first it has served: no two of its objects are the
   same incarnation, each is of a kind it lists, and a custom kind has its CRD. *)
ASSUME ClustersAssumption ==
  \A c \in Clusters : \A i \in Id : c.live[i] # Absent =>
    /\ c.live[i].uid <= Cardinality(Id)
    /\ \A j \in Id : c.live[j] # Absent /\ c.live[j].uid = c.live[i].uid => i = j
    /\ c.live[i].held \subseteq Fields(c.live[i].spec)
    /\ KindOf[i] \in c.served
    /\ IsCustom(KindOf[i]) => \E d \in Id : Declares[d] = KindOf[i] /\ c.live[d] # Absent

VARIABLES
  phase,      \* where the command is
  command,    \* what was asked for
  manifests,  \* what the environment evaluated to
  known,      \* the kinds discovery listed when the command began
  todo,       \* manifests still to be compared or fetched
  types,      \* kinds and versions still to be listed
  seen,       \* uids of the manifests' own objects
  found,      \* candidates for pruning: object and uid
  left,       \* objects still to be written or deleted
  target,     \* the object being written or deleted
  tries,      \* attempts made to find its kind in discovery
  result,     \* what the last command returned
  calm,       \* history: nobody else changed the cluster since it began
  blamed,     \* history: it ended for a reason outside of rtk
  commands,
  rivals,
  faults

workVars == <<known, todo, types, seen, found, left, target, tries>>
askVars == <<command, manifests>>
countVars == <<commands, rivals, faults>>
vars == <<clusterVars, phase, askVars, workVars, result, calm, blamed,
          countVars>>

Phase == {"idle", "discover", "diff", "fetch", "list", "confirm", "next",
          "send", "create"}

-----------------------------------------------------------------------------
(* The environment.                                                        *)

Desired == {manifests[n].id : n \in DOMAIN manifests}
KindsDeclared == {Declares[i] : i \in Desired} \ {NoKind}

(* ApiResourceCache::with_crds: declared by these manifests, not served yet. *)
IsPending(k) == k \in KindsDeclared \ known

Corresponds(n, i) ==
  /\ NameOf[manifests[n].id] = NameOf[i]
  /\ KindOf[manifests[n].id] = KindOf[i]

(* The manifest that is sent for a difference: the first of that kind and
   name, in whatever namespace. *)
ManifestFor(i) ==
  manifests[CHOOSE n \in DOMAIN manifests :
              /\ Corresponds(n, i)
              /\ \A m \in DOMAIN manifests : Corresponds(m, i) => n <= m]

(* Of the object's fields, those that a comparison wants gone when the manifest
   lacks them: by kubectl's annotation (diff_native, for client-side apply), or
   by what only this field manager applied (diff_server, for server-side). *)
Owned(i) ==
  IF command.strategy = "server" THEN live[i].held ELSE live[i].annotated

HasLeftovers(m) ==
  \E f \in Owned(m.id) \ Fields(m.spec) : live[m.id].spec[f] # Unset

Covers(m) == \A f \in Fields(m.spec) : live[m.id].spec[f] = m.spec[f]

(* Variant with a bug: labels are not compared. *)
DiffersInContent(m) ==
  \/ IsPending(KindOf[m.id])
  \/ ~Exists(m.id)
  \/ ~Covers(m)
  \/ HasLeftovers(m)

(* DiffEngine::diff_manifest. *)
Differs(m) ==
  \/ IsPending(KindOf[m.id])
  \/ SpaceOf[m.id] # NoId /\ ~Exists(SpaceOf[m.id])
  \/ ~Exists(m.id)
  \/ ~Covers(m)
  \/ HasLeftovers(m)
  \/ ~live[m.id].label

(* Variant with a bug: the object is replaced by the manifest. *)
AppliedInstead(m) ==
  [Current(m.id) EXCEPT !.spec = m.spec, !.annotated = {}, !.label = TRUE,
                        !.held = IF command.strategy = "server" THEN Fields(m.spec) ELSE {},
                        !.ours = @ \/ command.strategy = "server"]

(* What the cluster holds once a manifest was accepted.  Client-side apply sends
   the manifest for a patch, so that a field it lacks stays as it is, and writes
   no annotation.  Server-side apply takes away the fields that this manager
   alone applied before; only it names a manager that pruning knows. *)
Applied(m) ==
  LET before == Current(m.id)
      isServer == command.strategy = "server"
      removed == IF isServer THEN before.held \ Fields(m.spec) ELSE {}
      changed == {f \in Fields(m.spec) : before.spec[f] # m.spec[f]}
  IN  [before EXCEPT
         !.spec = [f \in Field |-> IF f \in Fields(m.spec) THEN m.spec[f]
                                   ELSE IF f \in removed THEN Unset
                                   ELSE before.spec[f]],
         !.held = IF isServer THEN (@ \cap Fields(m.spec)) \cup changed
                  ELSE @ \ changed,
         !.label = TRUE,
         !.ours = @ \/ isServer]

(* Without --force, server-side apply changes no field that others manage. *)
Conflicting(m) ==
  /\ command.strategy = "server"
  /\ Exists(m.id)
  /\ \E f \in Fields(m.spec) \ live[m.id].held :
       live[m.id].spec[f] \notin {Unset, m.spec[f]}

(* find_deleted_for_type: an object listed in version v that pruning may
   delete.  The manifests are matched by version, too. *)
IsOrphan(i, v) ==
  /\ Exists(i)
  /\ live[i].label
  /\ live[i].ours
  /\ ~live[i].spared
  /\ ~\E n \in DOMAIN manifests : manifests[n].id = i /\ manifests[n].version = v

(* Variant with a bug: an object's other versions are not recognized. *)
VictimsByVersion == {c.id : c \in found}

(* One object can be listed in several versions, and be a manifest's own. *)
Victims == {c.id : c \in {d \in found : d.uid \notin seen}}

-----------------------------------------------------------------------------
Init ==
  /\ \E c \in Clusters : live = c.live /\ served = c.served
  /\ uids = Cardinality(Id)
  /\ phase = "idle"
  /\ command = CHOOSE c \in Commands : TRUE
  /\ manifests = <<>>
  /\ known = {} /\ todo = {} /\ types = {} /\ seen = {} /\ found = {}
  /\ left = {} /\ target = NoId /\ tries = 0
  /\ result = "none"
  /\ calm = TRUE /\ blamed = FALSE
  /\ commands = 0 /\ rivals = 0 /\ faults = 0

End(outcome) ==
  /\ phase' = "idle"
  /\ result' = outcome
  /\ known' = {} /\ todo' = {} /\ types' = {} /\ seen' = {} /\ found' = {}
  /\ left' = {} /\ target' = NoId /\ tries' = 0
  /\ UNCHANGED <<askVars, calm>>

Return(outcome) == End(outcome) /\ UNCHANGED countVars
Fails == Return("failed") /\ UNCHANGED <<clusterVars, blamed>>
FailsFor(cause) == Return("failed") /\ blamed' = cause /\ UNCHANGED clusterVars
Succeeds == Return("ok") /\ UNCHANGED <<clusterVars, blamed>>

Invoke(c, p) ==
  /\ phase = "idle"
  /\ commands < MaxCommands
  /\ commands' = commands + 1
  /\ command' = c
  /\ manifests' = p
  /\ phase' = IF c.operation = "delete" THEN "confirm" ELSE "discover"
  /\ left' = IF c.operation = "delete" THEN {p[n].id : n \in DOMAIN p} ELSE {}
  /\ calm' = TRUE
  /\ blamed' = FALSE
  /\ UNCHANGED <<clusterVars, known, todo, types, seen, found, target, tries,
                 result, rivals, faults>>

NothingToApply ==
  /\ phase = "discover"
  /\ command.operation = "apply"
  /\ manifests = <<>>
  /\ Succeeds

IsDiscovered ==
  \A n \in DOMAIN manifests : KindOf[manifests[n].id] \in served \cup KindsDeclared

(* Variant with a bug: only the manifests' own kinds are discovered. *)
DiscoverRequired ==
  /\ phase = "discover"
  /\ manifests # <<>> \/ command.operation = "prune"
  /\ IsDiscovered
  /\ known' = served
  /\ todo' = DOMAIN manifests
  /\ types' = IF command.operation = "prune"
              THEN UNION {{k} \X VersionsOf[k] : k \in {KindOf[i] : i \in Desired} \cap served}
              ELSE {}
  /\ phase' = IF command.operation = "prune" THEN "fetch" ELSE "diff"
  /\ UNCHANGED <<clusterVars, askVars, seen, found, left, target, tries,
                 result, calm, blamed, countVars>>

(* DiffEngine::new, and the start of diff_all. *)
Discover ==
  /\ phase = "discover"
  /\ manifests # <<>> \/ command.operation = "prune"
  /\ IsDiscovered
  /\ known' = served
  /\ todo' = DOMAIN manifests
  /\ types' = IF command.operation = "prune"
              THEN UNION {{k} \X VersionsOf[k] : k \in served} ELSE {}
  /\ phase' = IF command.operation = "prune" THEN "fetch" ELSE "diff"
  /\ UNCHANGED <<clusterVars, askVars, seen, found, left, target, tries,
                 result, calm, blamed, countVars>>

UnknownKind ==
  /\ phase = "discover"
  /\ ~IsDiscovered
  /\ FailsFor(TRUE)

-----------------------------------------------------------------------------
(* apply: comparing.                                                       *)

Diff(n) ==
  /\ phase = "diff"
  /\ n \in todo
  /\ todo' = todo \ {n}
  /\ left' = IF Differs(manifests[n]) THEN left \cup {manifests[n].id} ELSE left
  /\ UNCHANGED <<clusterVars, phase, askVars, known, types, seen, found, target,
                 tries, result, calm, blamed, countVars>>

NothingDiffers ==
  /\ phase = "diff"
  /\ todo = {}
  /\ left = {}
  /\ Succeeds

SomethingDiffers ==
  /\ phase = "diff"
  /\ todo = {}
  /\ left # {}
  /\ phase' = "confirm"
  /\ UNCHANGED <<clusterVars, askVars, workVars, result, calm, blamed, countVars>>

-----------------------------------------------------------------------------
(* prune: fetching the manifests' own objects, then listing every type.    *)

Fetch(n) ==
  /\ phase = "fetch"
  /\ n \in todo
  /\ todo' = todo \ {n}
  /\ seen' = IF Exists(manifests[n].id)
             THEN seen \cup {live[manifests[n].id].uid} ELSE seen
  /\ UNCHANGED <<clusterVars, phase, askVars, known, types, found, left, target,
                 tries, result, calm, blamed, countVars>>

Fetched ==
  /\ phase = "fetch"
  /\ todo = {}
  /\ phase' = "list"
  /\ UNCHANGED <<clusterVars, askVars, workVars, result, calm, blamed, countVars>>

List(k, v) ==
  /\ phase = "list"
  /\ <<k, v>> \in types
  /\ k \in served
  /\ types' = types \ {<<k, v>>}
  /\ found' = found \cup {[id |-> i, uid |-> live[i].uid] :
                            i \in {j \in Id : KindOf[j] = k /\ IsOrphan(j, v)}}
  /\ UNCHANGED <<clusterVars, phase, askVars, known, todo, seen, left, target,
                 tries, result, calm, blamed, countVars>>

ListFails(k, v) ==
  /\ phase = "list"
  /\ <<k, v>> \in types
  /\ k \notin served
  /\ Fails

NothingToPrune ==
  /\ phase = "list"
  /\ types = {}
  /\ Victims = {}
  /\ Succeeds

Listed ==
  /\ phase = "list"
  /\ types = {}
  /\ Victims # {}
  /\ left' = Victims
  /\ phase' = "confirm"
  /\ UNCHANGED <<clusterVars, askVars, known, todo, types, seen, found, target,
                 tries, result, calm, blamed, countVars>>

-----------------------------------------------------------------------------
(* Asking.                                                                 *)

(* --dry-run client or server. *)
IsDry == command.dryRun = "dry"

(* A delete with any --dry-run, none included, asks for no approval. *)
GoesOn ==
  IF command.operation = "delete" THEN command.answer = "yes" \/ command.dryRun # "unset"
  ELSE command.answer = "yes" /\ ~IsDry

(* It goes on to change the cluster: --dry-run none changes it, too. *)
IsCarriedOut == GoesOn /\ ~IsDry

Approved ==
  /\ phase = "confirm"
  /\ GoesOn
  /\ phase' = "next"
  /\ UNCHANGED <<clusterVars, askVars, workVars, result, calm, blamed, countVars>>

(* An apply or prune that is declined or a dry run is no error. *)
Declined ==
  /\ phase = "confirm"
  /\ command.operation # "delete"
  /\ command.answer = "no" \/ IsDry
  /\ Succeeds

(* Nobody to ask; and to a delete everything but yes is an error. *)
Unasked ==
  /\ phase = "confirm"
  /\ ~GoesOn
  /\ command.operation = "delete" \/ (command.answer = "noTerminal" /\ ~IsDry)
  /\ FailsFor(TRUE)

-----------------------------------------------------------------------------
(* Writing and deleting, one object after the other.                       *)

(* Variant with a bug: in the order in which differences are shown. *)
IsNextAsShown(i) == i \in left

(* Install order, or its reverse; the order of pruning is by group and
   version, which nothing here depends on. *)
IsNext(i) ==
  /\ i \in left
  /\ command.operation = "apply"
       => \A j \in left : Position[KindOf[i]] <= Position[KindOf[j]]
  /\ command.operation = "delete"
       => \A j \in left : Position[KindOf[i]] >= Position[KindOf[j]]

Choose(i) ==
  /\ phase = "next"
  /\ IsNext(i)
  /\ left' = left \ {i}
  /\ target' = i
  /\ tries' = 0
  /\ phase' = "send"
  /\ UNCHANGED <<clusterVars, askVars, known, todo, types, seen, found, result,
                 calm, blamed, countVars>>

Finished ==
  /\ phase = "next"
  /\ left = {}
  /\ Succeeds

(* apply_when_discovered: only kinds these manifests declare are waited for,
   and only as long as nothing else is served under their group and version. *)
IsAwaited(k) ==
  /\ command.operation = "apply"
  /\ k \in KindsDeclared
  /\ k \notin served
  /\ k \notin Crowded

(* Variant with a bug: the attempts are not counted against the deadline. *)
RetryForever ==
  /\ phase = "send"
  /\ IsAwaited(KindOf[target])
  /\ tries' = tries + 1
  /\ UNCHANGED <<clusterVars, phase, askVars, known, todo, types, seen, found,
                 left, target, result, calm, blamed, countVars>>

Retry ==
  /\ phase = "send"
  /\ IsAwaited(KindOf[target])
  /\ tries < MaxTries
  /\ tries' = tries + 1
  /\ UNCHANGED <<clusterVars, phase, askVars, known, todo, types, seen, found,
                 left, target, result, calm, blamed, countVars>>

(* Variant with a bug: no deadline. *)
NeverTimeOut == phase = "send" /\ tries > MaxTries /\ FailsFor(TRUE)

(* The deadline is thirty seconds, however many attempts fit in. *)
TimeOut ==
  /\ phase = "send"
  /\ IsAwaited(KindOf[target])
  /\ FailsFor(TRUE)

NotServed ==
  /\ phase = "send"
  /\ KindOf[target] \notin served
  /\ ~IsAwaited(KindOf[target])
  /\ Fails

Stored(m) ==
  /\ Store(m.id, Applied(m))
  /\ phase' = "next"
  /\ target' = NoId
  /\ UNCHANGED <<askVars, known, todo, types, seen, found, left, tries, result,
                 calm, blamed, countVars>>

(* ApplyEngine::apply_manifest.  Server-side apply creates what is missing;
   a client-side patch of it is refused, and create is a second request. *)
Patch ==
  LET m == ManifestFor(target)
  IN  /\ phase = "send"
      /\ command.operation = "apply"
      /\ KindOf[target] \in served
      /\ Accepts(m.id)
      /\ command.strategy = "server" \/ Exists(m.id)
      /\ ~Conflicting(m)
      /\ Stored(m)

PatchMisses ==
  /\ phase = "send"
  /\ command.operation = "apply"
  /\ KindOf[target] \in served
  /\ command.strategy = "client"
  /\ ~Exists(ManifestFor(target).id)
  /\ phase' = "create"
  /\ UNCHANGED <<clusterVars, askVars, workVars, result, calm, blamed, countVars>>

Create ==
  LET m == ManifestFor(target)
  IN  /\ phase = "create"
      /\ Accepts(m.id)
      /\ ~Exists(m.id)
      /\ Stored(m)

(* The namespace or the CRD is missing, or somebody else created it first. *)
Refused ==
  LET m == ManifestFor(target)
  IN  /\ \/ /\ phase = "send"
            /\ command.operation = "apply"
            /\ KindOf[target] \in served
            /\ command.strategy = "server" \/ Exists(m.id)
            /\ ~Accepts(m.id)
         \/ /\ phase = "create"
            /\ ~Accepts(m.id) \/ Exists(m.id)
      /\ Fails

(* The API server answers that others manage a field with another value. *)
Conflicts ==
  LET m == ManifestFor(target)
  IN  /\ phase = "send"
      /\ command.operation = "apply"
      /\ KindOf[target] \in served
      /\ Accepts(m.id)
      /\ Conflicting(m)
      /\ FailsFor(TRUE)

(* ApplyEngine::delete_resource: by name, and what is gone already is fine.  A dry
   run sends nothing, or a request that deletes nothing. *)
Remove ==
  /\ phase = "send"
  /\ command.operation # "apply"
  /\ KindOf[target] \in served
  /\ IF IsDry THEN UNCHANGED clusterVars ELSE Delete(target)
  /\ phase' = "next"
  /\ target' = NoId
  /\ UNCHANGED <<askVars, known, todo, types, seen, found, left, tries, result,
                 calm, blamed, countVars>>

Step ==
  \/ NothingToApply \/ Discover \/ UnknownKind
  \/ \E n \in todo : Diff(n) \/ Fetch(n)
  \/ NothingDiffers \/ SomethingDiffers
  \/ Fetched
  \/ \E k \in Kind, v \in Version : List(k, v) \/ ListFails(k, v)
  \/ NothingToPrune \/ Listed
  \/ Approved \/ Declined \/ Unasked
  \/ \E i \in Id : Choose(i)
  \/ Finished
  \/ Retry \/ TimeOut \/ NotServed
  \/ Patch \/ PatchMisses \/ Create \/ Refused \/ Conflicts \/ Remove

-----------------------------------------------------------------------------
(* What goes wrong, and what others do.                                    *)

Fault ==
  /\ phase # "idle"
  /\ faults < MaxFaults
  /\ faults' = faults + 1
  /\ End("failed")
  /\ blamed' = TRUE
  /\ UNCHANGED <<commands, rivals>>

(* A request fails, or the command is interrupted. *)
RequestFails == Fault /\ UNCHANGED clusterVars

(* A request is served and its answer is lost. *)
AnswerLost ==
  /\ Fault
  /\ \/ /\ phase = "send"
        /\ command.operation # "apply"
        /\ ~IsDry
        /\ KindOf[target] \in served
        /\ Delete(target)
     \/ /\ \/ phase = "create" /\ ~Exists(ManifestFor(target).id)
           \/ /\ phase = "send"
              /\ command.operation = "apply"
              /\ KindOf[target] \in served
              /\ command.strategy = "server" \/ Exists(ManifestFor(target).id)
              /\ ~Conflicting(ManifestFor(target))
        /\ Accepts(ManifestFor(target).id)
        /\ Store(ManifestFor(target).id, Applied(ManifestFor(target)))

RivalChanges ==
  /\ rivals < MaxRivals
  /\ rivals' = rivals + 1
  /\ calm' = FALSE
  /\ UNCHANGED <<phase, askVars, workVars, result, blamed, commands, faults>>

(* A controller or, with its annotation, kubectl writes an object, with or
   without the label. *)
RivalStores(i, s, l, isKubectl) ==
  /\ RivalChanges
  /\ Accepts(i)
  /\ LET before == Current(i)
     IN  Store(i, [before EXCEPT
                     !.spec = s,
                     !.annotated = IF isKubectl THEN Fields(s) ELSE @,
                     !.held = {f \in @ : s[f] = before.spec[f]},
                     !.label = l,
                     !.ours = @ \/ isKubectl])

RivalDeletes(i) ==
  /\ RivalChanges
  /\ Exists(i)
  /\ Delete(i)

Settle ==
  /\ \/ \E i \in Id : Establish(i)
     \/ \E k \in Kind : Retire(k)
  /\ UNCHANGED <<phase, askVars, workVars, result, calm, blamed, countVars>>

Next ==
  \/ \E c \in Commands, p \in Projects : Invoke(c, p)
  \/ Step
  \/ RequestFails
  \/ AnswerLost
  \/ \E i \in Id, s \in Foreign, l, k \in BOOLEAN : RivalStores(i, s, l, k)
  \/ \E i \in Id : RivalDeletes(i)
  \/ Settle

Spec == Init /\ [][Next]_vars

(* A command that runs goes on running: its requests are answered. *)
FairSpec == Spec /\ WF_vars(Step)

-----------------------------------------------------------------------------
(* Properties.                                                             *)

TypeOK ==
  /\ ClusterTypeOK
  /\ phase \in Phase
  /\ command \in Commands
  /\ manifests \in Projects \cup {<<>>}
  /\ known \subseteq Kind
  /\ todo \subseteq DOMAIN manifests
  /\ types \subseteq Kind \X Version
  /\ seen \subseteq Nat
  /\ found \subseteq [id : Id, uid : Nat]
  /\ left \subseteq Id
  /\ target \in Id \cup {NoId}
  /\ phase \in {"send", "create"} => target \in Id
  /\ tries \in 0 .. MaxTries
  /\ result \in {"none", "ok", "failed"}
  /\ calm \in BOOLEAN
  /\ blamed \in BOOLEAN
  /\ commands \in 0 .. MaxCommands
  /\ rivals \in 0 .. MaxRivals
  /\ faults \in 0 .. MaxFaults

Ended(operation, outcome) ==
  /\ phase = "idle"
  /\ command.operation = operation
  /\ IsCarriedOut
  /\ result = outcome
  /\ calm

(* After an approved apply that returned Ok, and as long as nobody else
   touches the cluster, every field of every manifest is live as the environment
   has it: what earlier commands left half done has been made good, and what the
   diff called unchanged was.  After a server-side apply no field is left, either,
   that earlier ones set and the environment has dropped; a client-side apply
   takes nothing away.  (apply_environment: "Apply complete".) *)
AppliedMeansLive ==
  Ended("apply", "ok") =>
    \A n \in DOMAIN manifests :
      /\ Exists(manifests[n].id)
      /\ Covers(manifests[n])
      /\ live[manifests[n].id].label
      /\ command.strategy = "server" => ~HasLeftovers(manifests[n])

(* An approved apply fails only for a request that failed, a kind nobody serves,
   a field that others manage, or something somebody else did: never for the order
   in which it sends the manifests.  (kind_position, apply_when_discovered.) *)
ApplyFailsForCause == Ended("apply", "failed") => blamed

(* What prune has decided to delete is, until it is deleted, no object of the
   environment in any version of its API, and nobody has protected it.
   (fetch_live_manifests, find_deleted_for_type.) *)
OnlyOrphansArePruned ==
  command.operation = "prune" /\ calm =>
    \A i \in left \cup ({target} \ {NoId}) :
      /\ i \notin Desired
      /\ Exists(i) => live[i].label /\ live[i].ours /\ ~live[i].spared

(* After an approved prune that returned Ok, nothing is left that carries the
   environment's label, was created by tanka or kubectl, is not protected and
   is not in the environment.  (find_deleted_for_type, build_full.) *)
PruneLeavesNoOrphan ==
  Ended("prune", "ok") =>
    \A i \in Id : Exists(i) /\ live[i].label /\ live[i].ours /\ ~live[i].spared
                   => i \in Desired

(* After a delete that was no dry run and returned Ok nothing of the environment
   is left.  (commands/delete.rs.) *)
DeletedMeansGone ==
  Ended("delete", "ok") => \A i \in Desired : ~Exists(i)

(* A command as CommandPromise sees it: what it has still to change, which for
   a dry run is nothing. *)
Stage ==
  CASE phase = "idle"                                 -> "idle"
    [] phase \in {"next", "send", "create"} /\ ~IsDry -> "acting"
    [] OTHER                                          -> "deciding"

Plan == IF Stage = "acting" THEN left \cup ({target} \ {NoId}) ELSE {}

Promise == INSTANCE CommandPromise WITH
  asked <- command, stage <- Stage, plan <- Plan

(* A command changes nothing that it was not asked to, nothing in a dry run, and
   nothing before it was approved, but for a delete with --dry-run none, which is
   not asked about: undisturbed, it decides on exactly what differs, or exactly
   the orphans; it changes each object at most once, in install order or its
   reverse; it sets the fields of the object's own manifest, keeps all others but
   those that server-side apply alone had set, and returns Ok only when all are
   changed, or nothing was to be.  (apply_environment, prune, delete.) *)
KeepsPromise == Promise!Spec

(* Every command returns, whatever fails and whatever is not served.  (The
   deadline of apply_when_discovered.) *)
EveryCommandReturns == phase # "idle" ~> phase = "idle"
=============================================================================
