------------------------------- MODULE Cluster -------------------------------
(***************************************************************************)
(* A Kubernetes cluster as its API server shows it to rtk: external code,  *)
(* modelled from the requests that cmds/rtk/src/k8s makes of it (discovery, *)
(* get, list, patch, create, delete).                                      *)
(*                                                                         *)
(* An object is abstracted to what those requests tell apart: which        *)
(* incarnation it is, its fields, who manages them, and the three marks by *)
(* which pruning decides about it.                                         *)
(***************************************************************************)
EXTENDS Naturals

CONSTANTS
  Id,        \* objects, each a kind, a namespace and a name
  Kind,      \* kinds of objects
  KindOf,    \* KindOf[i]: the kind of object i
  SpaceOf,   \* SpaceOf[i]: the namespace object i lives in, or NoId
  Declares,  \* Declares[i]: the kind that i, a CRD, declares, or NoKind
  Field,     \* fields of objects
  Value,     \* values of fields
  Unset,     \* a field that is not there
  Absent,    \* no such object
  NoId,
  NoKind

ASSUME ClusterAssumption ==
  /\ NoId \notin Id
  /\ NoKind \notin Kind
  /\ Unset \notin Value
  /\ KindOf \in [Id -> Kind]
  /\ SpaceOf \in [Id -> Id \cup {NoId}]
  /\ Declares \in [Id -> Kind \cup {NoKind}]
  /\ \A i \in Id : SpaceOf[i] # i
  /\ \A i \in Id : Declares[i] # NoKind =>  \* CRDs are built in, and in no namespace
       SpaceOf[i] = NoId /\ \A j \in Id : Declares[j] # KindOf[i]

Content == [Field -> Value \cup {Unset}]
Fields(content) == {f \in Field : content[f] # Unset}

Object ==
  [uid       : Nat,
   spec      : Content,
   annotated : SUBSET Field,  \* those in kubectl's last-applied annotation
   held      : SUBSET Field,  \* those that field manager tanka alone applied
   label     : BOOLEAN,       \* it carries the label of the environment
   ours      : BOOLEAN,       \* that annotation, or managed by tanka or kubectl
   spared    : BOOLEAN]       \* prune-ignore annotation, or owned by a controller

ASSUME AbsentAssumption == Absent \notin Object

VARIABLES
  live,    \* live[i]: the object, or Absent
  served,  \* the kinds that discovery lists
  uids     \* incarnations created so far

clusterVars == <<live, served, uids>>

ClusterTypeOK ==
  /\ live \in [Id -> Object \cup {Absent}]
  /\ served \subseteq Kind
  /\ uids \in Nat

-----------------------------------------------------------------------------
Exists(i) == live[i] # Absent

IsCustom(k) == \E i \in Id : Declares[i] = k

(* A namespaced object needs its namespace, a custom one its CRD. *)
Accepts(i) ==
  /\ SpaceOf[i] # NoId => Exists(SpaceOf[i])
  /\ KindOf[i] \in served
  /\ IsCustom(KindOf[i]) => \E d \in Id : Declares[d] = KindOf[i] /\ Exists(d)

(* Deleting a namespace or a CRD deletes what it holds, at once: finalizers are
   left out. *)
Contents(i) ==
  {j \in Id : \/ j = i
              \/ SpaceOf[j] = i
              \/ Declares[i] # NoKind /\ KindOf[j] = Declares[i]}

(* What is written to: the object, or a new one with nothing in it yet. *)
Current(i) ==
  IF Exists(i) THEN live[i]
  ELSE [uid |-> uids + 1, spec |-> [f \in Field |-> Unset], annotated |-> {},
        held |-> {}, label |-> FALSE, ours |-> FALSE, spared |-> FALSE]

Store(i, object) ==
  /\ live' = [live EXCEPT ![i] = object]
  /\ uids' = IF Exists(i) THEN uids ELSE uids + 1
  /\ UNCHANGED served

Delete(i) ==
  /\ live' = [j \in Id |-> IF Exists(i) /\ j \in Contents(i)
                           THEN Absent ELSE live[j]]
  /\ UNCHANGED <<served, uids>>

(* A CRD that was stored is served some time later, and one that was deleted
   stays in discovery for a while. *)
Establish(i) ==
  /\ Exists(i)
  /\ Declares[i] \in Kind \ served
  /\ served' = served \cup {Declares[i]}
  /\ UNCHANGED <<live, uids>>

Retire(k) ==
  /\ k \in served
  /\ IsCustom(k)
  /\ \A i \in Id : Declares[i] = k => ~Exists(i)
  /\ served' = served \ {k}
  /\ UNCHANGED <<live, uids>>
=============================================================================
