----------------------------- MODULE SchemaPromise -----------------------------
(***************************************************************************)
(* What the cache of OpenAPI schemas promises the diff tasks that ask it.  *)
(* A call is answered at most once.  An answer is a schema of the key that *)
(* was asked for, as a cluster served it at some time since it came to     *)
(* report the version that this process saw: never one from before an      *)
(* upgrade.  It is empty only if the process had not learnt a schema of    *)
(* the key when the call began, or if the built-in schemas cover the key.  *)
(* Which cluster the schema is from, of those with that version, is not    *)
(* promised.                                                               *)
(***************************************************************************)
EXTENDS Naturals

CONSTANTS Process, Task, ProcessOf, Key, Covered, Cluster, None, Empty

VARIABLES
  served,      \* served[c][k]: the revision cluster c serves
  gitVersion,  \* gitVersion[c]: the version cluster c reports
  since,       \* since[c][v]: what c served when it came to report version v
  version,     \* version[p]: the version process p saw
  known,       \* known[p]: the keys p has learnt a schema of
  asked,       \* asked[t]: the key task t asked for
  calling,     \* calling[t]: its call has not returned
  warm,        \* warm[t]: its process knew the key when it asked
  answer       \* answer[t]: what its last call returned

clusterVars == <<served, gitVersion, since>>
promiseVars == <<clusterVars, version, known, asked, calling, warm, answer>>

Init ==
  /\ served = [c \in Cluster |-> [k \in Key |-> 0]]
  /\ gitVersion = [c \in Cluster |-> 0]
  /\ \A c \in Cluster : since[c][0] = served[c]
  /\ version = [p \in Process |-> 0]
  /\ known = [p \in Process |-> {}]
  /\ asked \in [Task -> Key]
  /\ calling = [t \in Task |-> FALSE]
  /\ warm = [t \in Task |-> FALSE]
  /\ answer = [t \in Task |-> None]

Ask(t, k) ==
  /\ ~calling[t]
  /\ asked' = [asked EXCEPT ![t] = k]
  /\ \/ /\ k \in Covered
        /\ warm' = [warm EXCEPT ![t] = FALSE]
        /\ answer' = [answer EXCEPT ![t] = Empty]
        /\ UNCHANGED calling
     \/ /\ k \notin Covered
        /\ warm' = [warm EXCEPT ![t] = k \in known[ProcessOf[t]]]
        /\ answer' = [answer EXCEPT ![t] = None]
        /\ calling' = [calling EXCEPT ![t] = TRUE]
  /\ UNCHANGED <<clusterVars, version, known>>

Learnt(t) == known' = [known EXCEPT ![ProcessOf[t]] = @ \cup {asked[t]}]

Learn(t) ==
  /\ calling[t]
  /\ Learnt(t)
  /\ UNCHANGED <<clusterVars, version, asked, calling, warm, answer>>

(* Of the key, and no older than the version. *)
Answers(t, s) ==
  LET v == version[ProcessOf[t]]
      c == s.cluster
      k == s.key
  IN  /\ k = asked[t]
      /\ v <= gitVersion[c]
      /\ since[c][v][k] <= s.rev
      /\ s.rev <= served[c][k]

Schema == [key : Key, cluster : Cluster, rev : Nat]

Return(t) ==
  /\ calling[t]
  /\ calling' = [calling EXCEPT ![t] = FALSE]
  /\ \/ /\ ~warm[t]
        /\ answer' = [answer EXCEPT ![t] = Empty]
        /\ UNCHANGED known
     \/ /\ answer'[t] \in Schema
        /\ Answers(t, answer'[t])
        /\ answer' = [answer EXCEPT ![t] = answer'[t]]
        /\ Learnt(t)
  /\ UNCHANGED <<clusterVars, version, asked, warm>>

(* A process ends, and starts again against a cluster c. *)
Restart(p, c) ==
  LET own == {t \in Task : ProcessOf[t] = p}
  IN  /\ version' = [version EXCEPT ![p] = gitVersion[c]]
      /\ known' = [known EXCEPT ![p] = {}]
      /\ calling' = [t \in Task |-> t \notin own /\ calling[t]]
      /\ warm' = [t \in Task |-> t \notin own /\ warm[t]]
      /\ answer' = [t \in Task |-> IF t \in own THEN None ELSE answer[t]]
      /\ UNCHANGED <<clusterVars, asked>>

(* A cluster serves something else, with or without an upgrade. *)
Change(c, k) ==
  /\ served' = [served EXCEPT ![c][k] = @ + 1]
  /\ \/ UNCHANGED <<gitVersion, since>>
     \/ /\ gitVersion' = [gitVersion EXCEPT ![c] = @ + 1]
        /\ since' = [since EXCEPT ![c][gitVersion[c] + 1] = served'[c]]
  /\ UNCHANGED <<version, known, asked, calling, warm, answer>>

Next ==
  \/ \E t \in Task, k \in Key : Ask(t, k)
  \/ \E t \in Task : Learn(t) \/ Return(t)
  \/ \E p \in Process, c \in Cluster : Restart(p, c)
  \/ \E c \in Cluster, k \in Key : Change(c, k)

Spec == Init /\ [][Next]_promiseVars
=============================================================================
