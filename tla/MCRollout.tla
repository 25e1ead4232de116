------------------------------ MODULE MCRollout ------------------------------
(***************************************************************************)
(* Instances of Rollout for TLC: an environment with a namespace, a CRD,   *)
(* an object of the kind that declares, and one whose kind is served in    *)
(* two versions; for ApplyMisplaces, objects of one name in two namespaces. *)
(***************************************************************************)
EXTENDS Rollout, TLC

CONSTANTS space, other, crd, widget, ingress, twin, stray,
          Namespace, CRD, Widget, Ingress, Stray, x, y, v1, v2, f, g, a, b

Of(fn) == [i \in Id |-> fn[i]]

MCKindOf == Of((space :> Namespace) @@ (other :> Namespace) @@ (crd :> CRD)
               @@ (widget :> Widget) @@ (ingress :> Ingress) @@ (twin :> Ingress)
               @@ (stray :> Stray))
MCSpaceOf == Of((space :> NoId) @@ (other :> NoId) @@ (crd :> NoId)
                @@ (widget :> space) @@ (ingress :> space) @@ (twin :> other)
                @@ (stray :> NoId))
MCNameOf == [i \in Id |-> IF i = other THEN y ELSE x]
MCDeclares == [i \in Id |-> IF i = crd THEN Widget ELSE NoKind]
MCVersionsOf == [k \in Kind |-> IF k = Ingress THEN {v1, v2} ELSE {v1}]

(* Their places in the list of kind_position, Widget and Stray not being
   in it. *)
MCPosition == (Namespace :> 0) @@ (CRD :> 12) @@ (Ingress :> 31) @@ (Widget :> 33)
              @@ (Stray :> 33)

(* One field, with or without another. *)
One(v) == (f :> v) @@ (g :> Unset)
Two(v, w) == (f :> v) @@ (g :> w)

Holds(i, s) == [id |-> i, version |-> v1, spec |-> s]

(* An environment that loses its custom kind, changes one field of an object and
   drops another, is emptied, or has an object of a kind that nobody declares. *)
Revisions ==
  {<<Holds(widget, One(a)), Holds(ingress, Two(a, a)), Holds(crd, One(a)), Holds(space, One(a))>>,
   <<Holds(ingress, One(b)), Holds(space, One(a))>>,
   <<Holds(stray, One(a))>>,
   <<>>}

TwoNamespaces ==
  {<<Holds(ingress, One(a)), Holds(twin, One(b)), Holds(space, One(a)), Holds(other, One(a))>>}

Base == {Namespace, CRD, Ingress} \cap Kind

ByKubectl(uid, s, label, spared) ==
  [uid |-> uid, spec |-> s, annotated |-> Fields(s), held |-> {}, label |-> label,
   ours |-> TRUE, spared |-> spared]

Empty == [live |-> [i \in Id |-> Absent], served |-> Base]

(* Everything is there, applied with kubectl by an earlier revision; the
   namespace is protected, the ingress not labelled yet. *)
Populated ==
  [live |-> (space :> ByKubectl(1, One(a), TRUE, TRUE))
            @@ (crd :> ByKubectl(2, One(a), TRUE, FALSE))
            @@ (widget :> ByKubectl(3, One(b), TRUE, FALSE))
            @@ (ingress :> ByKubectl(4, Two(b, a), FALSE, FALSE))
            @@ (stray :> Absent),
   served |-> Base \cup {Widget}]

(* Another value for one field, and perhaps one more field. *)
ByOthers == {Two(b, b)}

Given(operation, strategy, answer, dryRun) ==
  [operation |-> operation, strategy |-> strategy, answer |-> answer, dryRun |-> dryRun]

(* Pruning and deleting are the same whatever the strategy is. *)
EveryCommand ==
  {Given("apply", "client", "yes", "unset"), Given("apply", "server", "yes", "unset"),
   Given("apply", "client", "noTerminal", "none"),
   Given("prune", "client", "yes", "none"), Given("prune", "client", "no", "dry"),
   Given("delete", "client", "yes", "unset"), Given("delete", "client", "no", "unset"),
   Given("delete", "client", "no", "none"), Given("delete", "client", "yes", "dry")}
ClientApply == {Given("apply", "client", "yes", "unset")}
ClientApplyAndPrune == ClientApply \cup {Given("prune", "client", "yes", "unset")}

JustEmpty == {Empty}
EmptyOrPopulated == {Empty, Populated}
=============================================================================
