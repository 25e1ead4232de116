---------------------------- MODULE CommandPromise ----------------------------
(***************************************************************************)
(* What rtk apply, rtk prune and rtk delete promise whoever gives the      *)
(* command.  A command decides once what to change, with approval unless it *)
(* is a delete with --dry-run none, and until then changes nothing; a dry  *)
(* run never does.  If nobody else touches the cluster, it decides on      *)
(* exactly what is due: what differs from the manifests, what carries the  *)
(* environment's label and is in no manifest, or everything that is in     *)
(* one.  Then it changes those objects and no others, each at most once,   *)
(* in install order or its reverse, and returns Ok only when all of them   *)
(* are changed.  It may fail at any point, and then the rest stays as it   *)
(* is; a change whose answer is lost is made all the same.                 *)
(***************************************************************************)
EXTENDS Cluster, Sequences

CONSTANTS
  Position,  \* Position[k]: the place of kind k in install order
  Projects,  \* what the environment can evaluate to: sequences of manifests
  Commands   \* the commands that are given

VARIABLES
  asked,      \* the command
  manifests,  \* what the environment evaluated to
  stage,      \* "idle", "deciding" or "acting"
  plan,       \* the objects that are still to be changed
  result,     \* what the last command returned
  calm        \* nobody else changed the cluster since the command began

promiseVars == <<clusterVars, asked, manifests, stage, plan, result, calm>>

Desired == {manifests[n].id : n \in DOMAIN manifests}

(* Fields an earlier apply left behind: what kubectl noted down, or what
   server-side apply alone had set. *)
Leftovers(i) ==
  Fields(live[i].spec)
    \cap (IF asked.strategy = "server" THEN live[i].held ELSE live[i].annotated)

IsAsWanted(n) ==
  LET i == manifests[n].id
      wanted == manifests[n].spec
  IN  /\ SpaceOf[i] # NoId => Exists(SpaceOf[i])
      /\ Exists(i)
      /\ \A f \in Fields(wanted) : live[i].spec[f] = wanted[f]
      /\ Leftovers(i) \subseteq Fields(wanted)
      /\ live[i].label

Differing ==
  {manifests[n].id : n \in {m \in DOMAIN manifests : ~IsAsWanted(m)}}

Orphans ==
  {i \in Id \ Desired :
     Exists(i) /\ live[i].label /\ live[i].ours /\ ~live[i].spared}

Due == CASE asked.operation = "apply" -> Differing
         [] asked.operation = "prune" -> Orphans
         [] OTHER                     -> Desired

Init ==
  /\ ClusterTypeOK
  /\ asked \in Commands
  /\ manifests = <<>>
  /\ stage = "idle"
  /\ plan = {}
  /\ result = "none"
  /\ calm = TRUE

Begin(c, p) ==
  /\ stage = "idle"
  /\ asked' = c
  /\ manifests' = p
  /\ stage' = "deciding"
  /\ calm' = TRUE
  /\ UNCHANGED <<clusterVars, plan, result>>

IsDry == asked.dryRun = "dry"

(* Whoever gives --dry-run none to a delete is not asked. *)
IsApproved ==
  asked.answer = "yes" \/ (asked.operation = "delete" /\ asked.dryRun = "none")

(* What a command is to delete does not depend on the cluster. *)
Decide ==
  /\ stage = "deciding"
  /\ IsApproved
  /\ ~IsDry
  /\ plan' \in SUBSET (IF asked.operation = "apply" THEN Desired ELSE Id)
  /\ calm \/ asked.operation = "delete" => plan' = Due
  /\ stage' = "acting"
  /\ UNCHANGED <<clusterVars, asked, manifests, result, calm>>

IsNext(i) ==
  /\ i \in plan
  /\ asked.operation = "apply"
       => \A j \in plan : Position[KindOf[i]] <= Position[KindOf[j]]
  /\ asked.operation = "delete"
       => \A j \in plan : Position[KindOf[i]] >= Position[KindOf[j]]

(* The manifest's fields are set, and nothing is taken away but fields that
   server-side apply alone had set; whatever else there is is kept. *)
Write(m) ==
  \E spec \in Content, held \in SUBSET Field, ours \in BOOLEAN :
    LET before == Current(m.id)
        isServer == asked.strategy = "server"
    IN  /\ \A f \in Fields(m.spec) : spec[f] = m.spec[f]
        /\ \A f \in Field \ Fields(m.spec) :
             spec[f] = IF isServer /\ f \in before.held THEN Unset ELSE before.spec[f]
        /\ isServer => held \subseteq Fields(m.spec)
        /\ ~isServer => held \subseteq before.held
        /\ before.ours => ours
        /\ Store(m.id, [before EXCEPT !.spec = spec, !.held = held, !.label = TRUE,
                                      !.ours = ours])

Change(i) ==
  /\ stage = "acting"
  /\ IsNext(i)
  /\ \/ /\ asked.operation = "apply"
        /\ Accepts(i)
        /\ \E n \in DOMAIN manifests : manifests[n].id = i /\ Write(manifests[n])
     \/ /\ asked.operation # "apply"
        /\ Delete(i)

Act(i) ==
  /\ Change(i)
  /\ plan' = plan \ {i}
  /\ UNCHANGED <<asked, manifests, stage, result, calm>>

End(outcome) ==
  /\ stage' = "idle"
  /\ plan' = {}
  /\ result' = outcome
  /\ UNCHANGED <<asked, manifests, calm>>

(* Everything is changed; or it was a dry run, nothing is due, or it was
   declined. *)
Succeed ==
  /\ \/ stage = "acting" /\ plan = {}
     \/ stage = "deciding" /\ IsDry
     \/ /\ stage = "deciding"
        /\ asked.operation # "delete"
        /\ asked.answer = "no" \/ (calm => Due = {})
  /\ End("ok")
  /\ UNCHANGED clusterVars

Fail ==
  /\ stage # "idle"
  /\ End("failed")
  /\ UNCHANGED clusterVars

AnswerLost(i) ==
  /\ Change(i)
  /\ End("failed")

(* Discovery follows the cluster. *)
Settle ==
  /\ served' \in SUBSET Kind
  /\ UNCHANGED <<live, uids, asked, manifests, stage, plan, result, calm>>

(* Others may do anything to the cluster, and nothing to the command. *)
Others ==
  /\ calm' = FALSE
  /\ UNCHANGED <<asked, manifests, stage, plan, result>>

Next ==
  \/ \E c \in Commands, p \in Projects : Begin(c, p)
  \/ Decide
  \/ \E i \in Id : Act(i) \/ AnswerLost(i)
  \/ Succeed
  \/ Fail
  \/ Settle
  \/ Others

Spec == Init /\ [][Next]_promiseVars
=============================================================================
