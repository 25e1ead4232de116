-------------------------- MODULE SchemaCacheProofs --------------------------
(***************************************************************************)
(* The safety of SchemaCache for any number of processes, tasks, keys and  *)
(* clusters, any number of restarts, failures and changes.                 *)
(*                                                                         *)
(* Each property has an invariant of its own on top of the types: who      *)
(* holds permits, where entries come from, who writes a file, and what a   *)
(* task that asked for a remembered key can still do.                      *)
(***************************************************************************)
EXTENDS SchemaCache, FiniteSetTheorems, TLAPS

(* The tasks of p that are past Acquire. *)
Holders(p) == {t \in Task : Of(t) = p /\ pc[t] \in {"fetch"} \cup Saving}

(* A permit is given back exactly as often as it was taken. *)
PermitInv ==
  \A p \in Process :
    /\ IsFiniteSet(Holders(p))
    /\ permits[p] + Cardinality(Holders(p)) = MaxFetches

TypeInv == TypeOK /\ PermitInv

(* What is on disk and what a task brings belongs to its key, and what a task
   is about to remember is fresh. *)
FreshInv ==
  /\ FreshWhenLoaded
  /\ \A p \in Process : started[p] <= now
  /\ \A k \in Key : file[k] \in Entry => file[k].schema.key = k
  /\ \A t \in Task : pc[t] \in {"keep"} \cup Saving => got[t].schema.key = asked[t]
  /\ \A t \in Task : pc[t] = "keep" =>
       /\ got[t].version = version[Of(t)]
       /\ got[t].at + TTL >= started[Of(t)]

(* A task that asked for what its process remembers goes nowhere else. *)
WarmInv ==
  \A t \in Task : warm[t] =>
    /\ answer[t] # Empty
    /\ pc[t] \in {"idle", "memory"}
    /\ pc[t] = "memory" => memory[Of(t)][asked[t]] # None

-----------------------------------------------------------------------------
(* Permits.                                                                *)

(* Taking one: the holders of one process grow by one task. *)
LEMMA PermitTaken ==
  ASSUME TypeInv, NEW t \in Task,
         permits[Of(t)] > 0,
         pc[t] \notin {"fetch"} \cup Saving,
         pc' = [pc EXCEPT ![t] = "fetch"],
         permits' = [permits EXCEPT ![Of(t)] = @ - 1]
  PROVE  PermitInv' /\ permits' \in [Process -> 0 .. MaxFetches]
<1>1. Of(t) \in Process BY SchemaAssumption DEF Of
<1>2. ASSUME NEW p \in Process, p # Of(t)
      PROVE  Holders(p)' = Holders(p) /\ permits'[p] = permits[p]
  BY <1>2, <1>1, SchemaAssumption DEF Holders, Of, TypeInv, TypeOK
<1>3. Holders(Of(t))' = Holders(Of(t)) \cup {t} /\ t \notin Holders(Of(t))
  BY DEF Holders, Of, TypeInv, TypeOK
<1>4. /\ IsFiniteSet(Holders(Of(t))')
      /\ Cardinality(Holders(Of(t))') = Cardinality(Holders(Of(t))) + 1
  BY <1>1, <1>3, FS_AddElement DEF TypeInv, PermitInv
<1>5. Cardinality(Holders(Of(t))) \in Nat
  BY <1>1, FS_CardinalityType DEF TypeInv, PermitInv
<1>6. permits'[Of(t)] = permits[Of(t)] - 1 /\ permits[Of(t)] \in 0 .. MaxFetches
  BY <1>1 DEF TypeInv, TypeOK
<1>7. permits'[Of(t)] + Cardinality(Holders(Of(t))') = MaxFetches
  BY <1>1, <1>4, <1>5, <1>6, SchemaAssumption DEF TypeInv, PermitInv
<1>8. permits' \in [Process -> 0 .. MaxFetches]
  <2>1. permits \in [Process -> 0 .. MaxFetches]
    BY DEF TypeInv, TypeOK
  <2> QED BY <2>1, <1>1, <1>6, SchemaAssumption
<1>9. PermitInv'
  BY <1>2, <1>4, <1>7 DEF PermitInv, TypeInv
<1> QED BY <1>8, <1>9

(* Giving one back, on whatever way out. *)
LEMMA PermitReleased ==
  ASSUME TypeInv, NEW t \in Task,
         pc[t] \in {"fetch"} \cup Saving,
         pc' = [pc EXCEPT ![t] = "idle"],
         Release(t)
  PROVE  PermitInv' /\ permits' \in [Process -> 0 .. MaxFetches]
<1>1. Of(t) \in Process BY SchemaAssumption DEF Of
<1>2. ASSUME NEW p \in Process, p # Of(t)
      PROVE  Holders(p)' = Holders(p) /\ permits'[p] = permits[p]
  BY <1>2, <1>1, SchemaAssumption DEF Holders, Of, TypeInv, TypeOK, Release
<1>3. Holders(Of(t))' = Holders(Of(t)) \ {t} /\ t \in Holders(Of(t))
  BY DEF Holders, Of, TypeInv, TypeOK, Saving
<1>4. /\ IsFiniteSet(Holders(Of(t))')
      /\ Cardinality(Holders(Of(t))') = Cardinality(Holders(Of(t))) - 1
  BY <1>1, <1>3, FS_RemoveElement DEF TypeInv, PermitInv
<1>5. Cardinality(Holders(Of(t))) \in Nat /\ Cardinality(Holders(Of(t))') \in Nat
  BY <1>1, <1>4, FS_CardinalityType DEF TypeInv, PermitInv
<1>6. permits'[Of(t)] = permits[Of(t)] + 1 /\ permits[Of(t)] \in 0 .. MaxFetches
  BY <1>1 DEF TypeInv, TypeOK, Release
<1>7. permits'[Of(t)] + Cardinality(Holders(Of(t))') = MaxFetches
  BY <1>1, <1>4, <1>5, <1>6, SchemaAssumption DEF TypeInv, PermitInv
<1>8. permits'[Of(t)] \in 0 .. MaxFetches
  BY <1>5, <1>6, <1>7, SchemaAssumption
<1>9. permits' \in [Process -> 0 .. MaxFetches]
  <2>1. permits \in [Process -> 0 .. MaxFetches]
    BY DEF TypeInv, TypeOK
  <2> QED BY <2>1, <1>1, <1>8, SchemaAssumption DEF Release
<1>10. PermitInv'
  BY <1>2, <1>4, <1>7 DEF PermitInv, TypeInv
<1> QED BY <1>9, <1>10

(* Moves among holders, or among the others. *)
LEMMA PermitUnmoved ==
  ASSUME TypeInv, permits' = permits, pc' \in [Task -> Steps],
         \A t \in Task : pc[t] \in {"fetch"} \cup Saving <=> pc'[t] \in {"fetch"} \cup Saving
  PROVE  PermitInv'
<1>1. ASSUME NEW p \in Process PROVE Holders(p)' = Holders(p)
  BY DEF Holders, Of
<1> QED BY <1>1 DEF PermitInv, TypeInv

-----------------------------------------------------------------------------
(* Types.                                                                  *)

LEMMA InitTypes == Init => TypeInv
<1> SUFFICES ASSUME Init PROVE TypeInv OBVIOUS
<1>1. TypeOK
  BY SchemaAssumption DEF Init, TypeOK, Steps, Saving
<1>2. ASSUME NEW p \in Process PROVE Holders(p) = {} /\ permits[p] = MaxFetches
  BY <1>2, SchemaAssumption DEF Init, Holders, Saving
<1>3. PermitInv
  BY <1>2, FS_EmptySet, SchemaAssumption DEF PermitInv
<1> QED BY <1>1, <1>3 DEF TypeInv

(* Of a step of get_or_fetch that takes or gives no permit. *)
LEMMA StepKeepsTypes ==
  ASSUME TypeInv, NEW t \in Task, Step(t)
  PROVE  TypeInv'
<1> USE DEF TypeOK, Local, Steps, Saving, worldVars, processVars, countVars
<1>1. Of(t) \in Process /\ asked[t] \in Key
  BY SchemaAssumption DEF Of, TypeInv
<1>2. None \notin Entry /\ Torn \notin Entry
  BY NoneAssumption
<1>3. memory[Of(t)][asked[t]] \in Entry \cup {None}
  BY <1>1 DEF TypeInv
<1>4. ASSUME memory[Of(t)][asked[t]] \in Entry
      PROVE  memory[Of(t)][asked[t]].schema \in Schema
  BY <1>4 DEF Entry
<1>5. got[t] \in Entry => got[t].schema \in Schema
  BY DEF Entry
<1>6. CASE Hit(t)
  <2>1. TypeOK'
    BY <1>6, <1>1, <1>3, <1>4 DEF Hit, At, Goto, Answer, TypeInv
  <2>2. PermitInv'
    BY <1>6, <2>1, PermitUnmoved DEF Hit, At, Goto, Answer, TypeInv
  <2> QED BY <2>1, <2>2 DEF TypeInv
<1>7. CASE Miss(t) \/ NoFile(t) \/ FileExists(t) \/ LoadStale(t) \/ RemoveFails(t)
  <2>1. TypeOK'
    BY <1>7 DEF Miss, NoFile, FileExists, LoadStale, RemoveFails, At, Goto, TypeInv
  <2>2. PermitInv'
    BY <1>7, <2>1, PermitUnmoved
    DEF Miss, NoFile, FileExists, LoadStale, RemoveFails, At, Goto, TypeInv
  <2> QED BY <2>1, <2>2 DEF TypeInv
<1>8. CASE LoadFails(t)
  <2>1. TypeOK'
    BY <1>8 DEF LoadFails, At, Goto, Answer, TypeInv
  <2>2. PermitInv'
    BY <1>8, <2>1, PermitUnmoved DEF LoadFails, At, Goto, Answer, TypeInv
  <2> QED BY <2>1, <2>2 DEF TypeInv
<1>9. CASE Load(t)
  <2>1. TypeOK'
    BY <1>9, <1>1 DEF Load, At, Goto, TypeInv
  <2>2. PermitInv'
    BY <1>9, <2>1, PermitUnmoved DEF Load, At, Goto, TypeInv
  <2> QED BY <2>1, <2>2 DEF TypeInv
<1>10. CASE Remove(t)
  <2>1. TypeOK'
    BY <1>10, <1>1 DEF Remove, At, WritesTo, TypeInv
  <2>2. PermitInv'
    BY <1>10, <2>1, PermitUnmoved DEF Remove, At, WritesTo, TypeInv
  <2> QED BY <2>1, <2>2 DEF TypeInv
<1>11. CASE Keep(t)
  <2>1. TypeOK'
    BY <1>11, <1>1, <1>5 DEF Keep, At, Goto, Answer, TypeInv
  <2>2. PermitInv'
    BY <1>11, <2>1, PermitUnmoved DEF Keep, At, Goto, Answer, TypeInv
  <2> QED BY <2>1, <2>2 DEF TypeInv
<1>12. CASE Acquire(t)
  <2>1. PermitInv' /\ permits' \in [Process -> 0 .. MaxFetches]
    BY <1>12, PermitTaken DEF Acquire, At, Goto
  <2>2. TypeOK'
    BY <1>12, <2>1 DEF Acquire, At, Goto, TypeInv
  <2> QED BY <2>1, <2>2 DEF TypeInv
<1>13. CASE Fetch(t)
  <2>1. cluster[Of(t)] \in Cluster /\ served[cluster[Of(t)]][asked[t]] \in Nat
        /\ version[Of(t)] \in Nat /\ now \in Nat
    BY <1>1, SchemaAssumption DEF TypeInv
  <2>2. got'[t] \in Entry /\ memory' = [memory EXCEPT ![Of(t)][asked[t]] = got'[t]]
    BY <1>13, <1>1, <2>1 DEF Fetch, Entry, Schema, TypeInv
  <2>3. TypeOK'
    BY <1>13, <1>1, <2>2 DEF Fetch, At, Goto, TypeInv
  <2>4. PermitInv'
    BY <1>13, <2>3, PermitUnmoved DEF Fetch, At, Goto, TypeInv
  <2> QED BY <2>3, <2>4 DEF TypeInv
<1>14. CASE FetchFails(t)
  <2>1. PermitInv' /\ permits' \in [Process -> 0 .. MaxFetches]
    BY <1>14, PermitReleased DEF FetchFails, At, Goto, Answer
  <2>2. TypeOK'
    BY <1>14, <2>1 DEF FetchFails, At, Goto, Answer, TypeInv
  <2> QED BY <2>1, <2>2 DEF TypeInv
<1>15. CASE Truncate(t)
  <2>1. now \in Nat /\ got[t] \in Entry
    BY <1>15, SchemaAssumption DEF Truncate, At, TypeInv
  <2>2. got'[t] \in Entry
    BY <1>15, <2>1 DEF Truncate, Entry, TypeInv
  <2>3. TypeOK'
    BY <1>15, <1>1, <2>2 DEF Truncate, At, Goto, TypeInv
  <2>4. PermitInv'
    BY <1>15, <2>3, PermitUnmoved DEF Truncate, At, Goto, TypeInv
  <2> QED BY <2>3, <2>4 DEF TypeInv
<1>16. CASE Write(t)
  <2>1. PermitInv' /\ permits' \in [Process -> 0 .. MaxFetches]
    BY <1>16, PermitReleased DEF Write, At, Goto, Answer
  <2>2. got[t] \in Entry
    BY <1>16 DEF Write, At, TypeInv
  <2>3. file' \in [Key -> Entry \cup {None, Torn}]
    BY <1>16, <1>1, <2>2 DEF Write, TypeInv
  <2>4. (damaged[asked[t]] /\ Overlaps(t)) \in BOOLEAN
    OBVIOUS
  <2>5. damaged' \in [Key -> BOOLEAN]
    BY <1>16, <1>1, <2>4 DEF Write, TypeInv
  <2>6. TypeOK'
    BY <1>16, <1>5, <2>1, <2>2, <2>3, <2>5 DEF Write, At, Goto, Answer, TypeInv
  <2> QED BY <2>1, <2>6 DEF TypeInv
<1>17. CASE SaveFails(t)
  <2>1. PermitInv' /\ permits' \in [Process -> 0 .. MaxFetches]
    BY <1>17, PermitReleased DEF SaveFails, At, Goto, Answer
  <2>2. TypeOK'
    BY <1>17, <1>5, <2>1 DEF SaveFails, At, Goto, Answer, TypeInv
  <2> QED BY <2>1, <2>2 DEF TypeInv
<1>18. CASE WriteFails(t)
  <2>1. PermitInv' /\ permits' \in [Process -> 0 .. MaxFetches]
    BY <1>18, PermitReleased DEF WriteFails, At, Goto, Answer
  <2>2. TypeOK'
    BY <1>18, <1>1, <1>5, <2>1 DEF WriteFails, At, Goto, Answer, TypeInv
  <2> QED BY <2>1, <2>2 DEF TypeInv
<1> QED
  BY <1>6, <1>7, <1>8, <1>9, <1>10, <1>11, <1>12, <1>13, <1>14, <1>15, <1>16, <1>17, <1>18
  DEF Step

LEMMA AskKeepsTypes ==
  ASSUME TypeInv, NEW t \in Task, NEW k \in Key, Ask(t, k) \/ BuiltIn(t, k)
  PROVE  TypeInv'
<1>1. calls' \in 0 .. MaxCalls
  <2>1. calls \in 0 .. MaxCalls
    BY DEF TypeInv, TypeOK
  <2> QED BY <2>1, SchemaAssumption DEF Ask, BuiltIn
<1> USE DEF TypeOK, Steps, Saving, worldVars, processVars
<1>2. (memory[Of(t)][k] # None) \in BOOLEAN
  OBVIOUS
<1>3. TypeOK'
  <2>1. CASE Ask(t, k)
    BY <1>1, <1>2, <2>1 DEF Ask, At, Goto, TypeInv
  <2>2. CASE BuiltIn(t, k)
    BY <1>1, <2>2 DEF BuiltIn, At, TypeInv
  <2> QED BY <2>1, <2>2
<1>4. permits' = permits /\ pc' \in [Task -> Steps]
  BY <1>3 DEF Ask, BuiltIn
<1>5. \A u \in Task : pc[u] \in {"fetch"} \cup Saving <=> pc'[u] \in {"fetch"} \cup Saving
  BY DEF Ask, BuiltIn, At, Goto, TypeInv
<1>6. PermitInv'
  BY <1>4, <1>5, PermitUnmoved
<1> QED BY <1>3, <1>6 DEF TypeInv

(* A process that starts again has all its permits. *)
LEMMA RestartKeepsTypes ==
  ASSUME TypeInv, NEW p \in Process, NEW c \in Cluster, Restart(p, c)
  PROVE  TypeInv'
<1> USE DEF Steps, Saving, worldVars
<1> DEFINE own == {t \in Task : Of(t) = p}
           cut == {k \in Key : \E t \in own : WritesTo(t, k)}
<1>1. /\ pc' = [t \in Task |-> IF t \in own THEN "idle" ELSE pc[t]]
      /\ got' = [t \in Task |-> IF t \in own THEN None ELSE got[t]]
      /\ answer' = [t \in Task |-> IF t \in own THEN None ELSE answer[t]]
      /\ warm' = [t \in Task |-> t \notin own /\ warm[t]]
      /\ file' = [k \in Key |-> IF k \in cut THEN Torn ELSE file[k]]
      /\ damaged' = [k \in Key |-> k \in cut \/ damaged[k]]
  BY DEF Restart
<1> HIDE DEF own, cut
<1>2. stops' \in 0 .. MaxStops
  <2>1. stops \in 0 .. MaxStops
    BY DEF TypeInv, TypeOK
  <2> QED BY <2>1, SchemaAssumption DEF Restart
<1>3. gitVersion[c] \in Nat
  BY DEF TypeInv, TypeOK
<1>4. warm' \in [Task -> BOOLEAN] /\ damaged' \in [Key -> BOOLEAN]
  BY <1>1
<1>5. /\ pc' \in [Task -> Steps]
      /\ got' \in [Task -> Entry \cup {None}]
      /\ \A t \in Task : pc'[t] \in {"keep"} \cup Saving => got'[t] \in Entry
      /\ answer' \in [Task -> Schema \cup {None, Empty}]
      /\ file' \in [Key -> Entry \cup {None, Torn}]
  BY <1>1 DEF TypeInv, TypeOK
<1>6. /\ cluster' \in [Process -> Cluster] /\ version' \in [Process -> Nat]
      /\ started' \in [Process -> 0 .. MaxTime]
      /\ memory' \in [Process -> [Key -> Entry \cup {None}]]
      /\ permits' \in [Process -> 0 .. MaxFetches]
  <2>1. /\ cluster \in [Process -> Cluster] /\ version \in [Process -> Nat]
        /\ started \in [Process -> 0 .. MaxTime] /\ now \in 0 .. MaxTime
        /\ memory \in [Process -> [Key -> Entry \cup {None}]]
        /\ permits \in [Process -> 0 .. MaxFetches]
    BY DEF TypeInv, TypeOK
  <2>2. cluster' \in [Process -> Cluster] /\ version' \in [Process -> Nat]
    BY <1>3, <2>1 DEF Restart
  <2>3. started' \in [Process -> 0 .. MaxTime] /\ permits' \in [Process -> 0 .. MaxFetches]
    BY <2>1, SchemaAssumption DEF Restart
  <2>4. memory' \in [Process -> [Key -> Entry \cup {None}]]
    BY <2>1 DEF Restart
  <2> QED BY <2>2, <2>3, <2>4
<1>7. UNCHANGED <<served, gitVersion, since, now, asked, calls, changes>>
  BY DEF Restart
<1>8. TypeOK'
  BY <1>2, <1>4, <1>5, <1>6, <1>7 DEF TypeInv, TypeOK
<1>9. Holders(p)' = {} /\ permits'[p] = MaxFetches
  <2>1. Holders(p)' = {}
    BY <1>1 DEF Holders, own, Of
  <2>2. permits'[p] = MaxFetches
    BY DEF Restart, TypeInv, TypeOK
  <2> QED BY <2>1, <2>2
<1>10. ASSUME NEW q \in Process, q # p
       PROVE  Holders(q)' = Holders(q) /\ permits'[q] = permits[q]
  <2>1. Holders(q)' = Holders(q)
    BY <1>10, <1>1 DEF Holders, own, Of
  <2>2. permits'[q] = permits[q]
    BY <1>10 DEF Restart, TypeInv, TypeOK
  <2> QED BY <2>1, <2>2
<1>11. ASSUME NEW q \in Process
       PROVE  /\ IsFiniteSet(Holders(q)')
              /\ permits'[q] + Cardinality(Holders(q)') = MaxFetches
  <2>1. CASE q = p
    BY <2>1, <1>9, FS_EmptySet, SchemaAssumption
  <2>2. CASE q # p
    BY <2>2, <1>10 DEF PermitInv, TypeInv
  <2> QED BY <2>1, <2>2
<1>12. PermitInv'
  BY <1>11 DEF PermitInv
<1> QED BY <1>8, <1>12 DEF TypeInv

LEMMA WorldKeepsTypes ==
  ASSUME TypeInv, \/ \E c \in Cluster, k \in Key : Change(c, k)
                  \/ Tick
                  \/ UNCHANGED vars
  PROVE  TypeInv'
<1>0. now \in 0 .. MaxTime /\ changes \in 0 .. MaxChanges
  BY DEF TypeInv, TypeOK
<1> USE DEF worldVars, processVars, taskVars, countVars
<1>1. CASE Tick \/ UNCHANGED vars
  <2>1. now' \in 0 .. MaxTime
    BY <1>0, <1>1, SchemaAssumption DEF Tick, vars
  <2>2. TypeOK'
    BY <1>1, <2>1 DEF Tick, vars, TypeInv, TypeOK
  <2> QED BY <1>1, <2>2, PermitUnmoved DEF Tick, vars, TypeInv, TypeOK
<1>2. ASSUME NEW c \in Cluster, NEW k \in Key, Change(c, k) PROVE TypeInv'
  <2>1. changes' \in 0 .. MaxChanges
    BY <1>0, <1>2, SchemaAssumption DEF Change
  <2>2. served' \in [Cluster -> [Key -> Nat]] /\ gitVersion' \in [Cluster -> Nat]
    <3>1. served \in [Cluster -> [Key -> Nat]] /\ gitVersion \in [Cluster -> Nat]
      BY DEF TypeInv, TypeOK
    <3>2. served' \in [Cluster -> [Key -> Nat]]
      BY <1>2, <3>1 DEF Change
    <3>3. gitVersion' \in [Cluster -> Nat]
      BY <1>2, <3>1 DEF Change
    <3> QED BY <3>2, <3>3
  <2>3. since' \in [Cluster -> [0 .. MaxChanges -> [Key -> Nat]]]
    <3>1. CASE since' = since
      BY <3>1 DEF TypeInv, TypeOK
    <3>2. CASE since' = [since EXCEPT ![c][gitVersion[c] + 1] = served'[c]]
      BY <2>2, <3>2 DEF TypeInv, TypeOK
    <3> QED BY <1>2, <3>1, <3>2 DEF Change
  <2>4. TypeOK'
    BY <1>2, <2>1, <2>2, <2>3 DEF Change, TypeInv, TypeOK
  <2> QED BY <1>2, <2>4, PermitUnmoved DEF Change, TypeInv, TypeOK
<1> QED BY <1>1, <1>2

LEMMA NextKeepsTypes == TypeInv /\ [Next]_vars => TypeInv'
BY StepKeepsTypes, AskKeepsTypes, RestartKeepsTypes, WorldKeepsTypes DEF Next

LEMMA AlwaysTyped == Spec => []TypeInv
BY InitTypes, NextKeepsTypes, PTL DEF Spec

(* Every variable keeps its type; in particular there are never more permits
   than MAX_CONCURRENT_FETCHES, whatever fails or is killed.  (get_or_fetch.) *)
THEOREM TypeCorrect == Spec => []TypeOK
<1>1. TypeInv => TypeOK
  BY DEF TypeInv
<1> QED BY AlwaysTyped, <1>1, PTL

(* The tasks of a process that fetch or save at the same time are never more
   than MAX_CONCURRENT_FETCHES.  (get_or_fetch, FETCH_SEMAPHORE.) *)
THEOREM FetchesAreBounded == Spec => [](\A p \in Process : Cardinality(Holders(p)) <= MaxFetches)
<1>1. TypeInv => \A p \in Process : Cardinality(Holders(p)) <= MaxFetches
  <2> SUFFICES ASSUME TypeInv, NEW p \in Process
               PROVE  Cardinality(Holders(p)) <= MaxFetches
    OBVIOUS
  <2>1. Cardinality(Holders(p)) \in Nat /\ permits[p] \in 0 .. MaxFetches
    BY FS_CardinalityType DEF TypeInv, PermitInv, TypeOK
  <2>2. permits[p] + Cardinality(Holders(p)) = MaxFetches
    BY DEF TypeInv, PermitInv
  <2> QED BY <2>1, <2>2, SchemaAssumption
<1> QED BY AlwaysTyped, <1>1, PTL

(* While a task has to wait for a permit, other tasks of its process have
   them all, and none of those waits: no fetch, failed or not, and no write
   kept one.  (get_or_fetch, FETCH_SEMAPHORE.) *)
THEOREM PermitsAreInUse ==
  Spec => [](\A p \in Process : permits[p] = 0 => Holders(p) # {})
<1>1. TypeInv => \A p \in Process : permits[p] = 0 => Holders(p) # {}
  <2> SUFFICES ASSUME TypeInv, NEW p \in Process, permits[p] = 0, Holders(p) = {}
               PROVE  FALSE
    OBVIOUS
  <2>1. Cardinality(Holders(p)) = 0
    BY FS_EmptySet
  <2>2. permits[p] + Cardinality(Holders(p)) = MaxFetches
    BY DEF TypeInv, PermitInv
  <2> QED BY <2>1, <2>2, SchemaAssumption
<1> QED BY AlwaysTyped, <1>1, PTL

-----------------------------------------------------------------------------
(* Torn files.                                                             *)

(* A step that leaves files, damage and the writers alone. *)
LEMMA TornUnmoved ==
  ASSUME TornHasCause, UNCHANGED <<file, damaged>>,
         \A t \in Task, k \in Key : WritesTo(t, k) => WritesTo(t, k)'
  PROVE  TornHasCause'
BY DEF TornHasCause

LEMMA StepKeepsTorn ==
  ASSUME TypeInv, TornHasCause, NEW t \in Task, Step(t)
  PROVE  TornHasCause'
<1> USE DEF Local, At, Goto
<1>1. Torn # None /\ Torn \notin Entry /\ asked[t] \in Key /\ asked' = asked
  BY SchemaAssumption, NoneAssumption
  DEF TypeInv, TypeOK, Step, Hit, Miss, NoFile, FileExists, LoadFails, Load, LoadStale,
      Remove, RemoveFails, Keep, Acquire, Fetch, FetchFails, Truncate, Write, SaveFails,
      WriteFails
<1>2. CASE \/ Hit(t) \/ Miss(t) \/ NoFile(t) \/ FileExists(t) \/ LoadFails(t) \/ Load(t)
           \/ LoadStale(t) \/ RemoveFails(t) \/ Keep(t) \/ Acquire(t) \/ Fetch(t)
           \/ FetchFails(t) \/ SaveFails(t)
  <2>1. UNCHANGED <<file, damaged>> /\ pc[t] # "write" /\ \A u \in Task \ {t} : pc'[u] = pc[u]
    BY <1>2 DEF Hit, Miss, NoFile, FileExists, LoadFails, Load, LoadStale, RemoveFails,
                Keep, Acquire, Fetch, FetchFails, SaveFails, Answer, TypeInv, TypeOK
  <2>2. \A u \in Task, k \in Key : WritesTo(u, k) => WritesTo(u, k)'
    BY <2>1, <1>1 DEF WritesTo
  <2> QED BY <2>1, <2>2, TornUnmoved
<1>3. CASE Remove(t)
  <2>1. \A k \in Key : file'[k] = IF k = asked[t] THEN None ELSE file[k]
    BY <1>3, <1>1 DEF Remove, TypeInv, TypeOK
  <2>2. \A u \in Task, k \in Key \ {asked[t]} : WritesTo(u, k) => WritesTo(u, k)'
    BY <1>3, <1>1 DEF Remove, WritesTo
  <2>3. damaged' = damaged
    BY <1>3 DEF Remove
  <2> QED BY <2>1, <2>2, <2>3, <1>1 DEF TornHasCause
<1>4. CASE Truncate(t)
  <2>1. \A k \in Key \ {asked[t]} : file'[k] = file[k]
    BY <1>4, <1>1 DEF Truncate, TypeInv, TypeOK
  <2>2. pc'[t] = "write" /\ asked'[t] = asked[t]
    BY <1>4, <1>1 DEF Truncate, TypeInv, TypeOK
  <2>3. \A u \in Task, k \in Key : WritesTo(u, k) => WritesTo(u, k)'
    BY <1>4, <1>1 DEF Truncate, WritesTo, TypeInv, TypeOK
  <2>4. damaged' = damaged
    BY <1>4 DEF Truncate
  <2> SUFFICES ASSUME NEW k \in Key, file'[k] = Torn, ~damaged[k]
               PROVE  \E u \in Task : WritesTo(u, k)'
    BY <2>4 DEF TornHasCause
  <2>5. CASE k = asked[t]
    BY <2>2, <2>5 DEF WritesTo
  <2>6. CASE k # asked[t]
    BY <2>1, <2>3, <2>6 DEF TornHasCause
  <2> QED BY <2>5, <2>6
<1>5. CASE Write(t) \/ WriteFails(t)
  <2>1. \A k \in Key \ {asked[t]} : file'[k] = file[k] /\ damaged'[k] = damaged[k]
    BY <1>5, <1>1 DEF Write, WriteFails, TypeInv, TypeOK
  <2>2. \A u \in Task, k \in Key \ {asked[t]} : WritesTo(u, k) => WritesTo(u, k)'
    BY <1>5, <1>1 DEF Write, WriteFails, Answer, WritesTo, TypeInv, TypeOK
  <2>3. file'[asked[t]] = Torn => damaged'[asked[t]]
    BY <1>5, <1>1 DEF Write, WriteFails, TypeInv, TypeOK
  <2> QED BY <2>1, <2>2, <2>3 DEF TornHasCause
<1> QED BY <1>2, <1>3, <1>4, <1>5 DEF Step

LEMMA NextKeepsTorn == TypeInv /\ TornHasCause /\ [Next]_vars => TornHasCause'
<1> SUFFICES ASSUME TypeInv, TornHasCause, [Next]_vars PROVE TornHasCause'
  OBVIOUS
<1>1. ASSUME NEW t \in Task, NEW k \in Key, Ask(t, k) \/ BuiltIn(t, k)
      PROVE  TornHasCause'
  BY <1>1, TornUnmoved DEF Ask, BuiltIn, At, Goto, WritesTo, TypeInv, TypeOK
<1>2. ASSUME NEW p \in Process, NEW c \in Cluster, Restart(p, c)
      PROVE  TornHasCause'
  <2> SUFFICES ASSUME NEW k \in Key, file'[k] = Torn
               PROVE  damaged'[k] \/ \E t \in Task : WritesTo(t, k)'
    BY DEF TornHasCause
  <2>1. CASE \E t \in Task : Of(t) = p /\ WritesTo(t, k)
    BY <2>1, <1>2 DEF Restart
  <2>2. CASE ~ \E t \in Task : Of(t) = p /\ WritesTo(t, k)
    <3>1. file[k] = Torn /\ damaged'[k] = damaged[k]
      BY <2>2, <1>2 DEF Restart, TypeInv, TypeOK
    <3>2. CASE damaged[k]
      BY <3>1, <3>2
    <3>3. ASSUME NEW t \in Task, WritesTo(t, k) PROVE WritesTo(t, k)'
      BY <3>3, <2>2, <1>2 DEF Restart, WritesTo, At
    <3> QED BY <3>1, <3>2, <3>3 DEF TornHasCause
  <2> QED BY <2>1, <2>2
<1>3. CASE (\E c \in Cluster, k \in Key : Change(c, k)) \/ Tick \/ UNCHANGED vars
  BY <1>3, TornUnmoved DEF Change, Tick, vars, taskVars, WritesTo, At
<1> QED BY <1>1, <1>2, <1>3, StepKeepsTorn DEF Next

(* A file that cannot be parsed is being written, or a write of it was cut
   short or overlapped: reading, removing and whole writes never leave one.
   (save_to_disk, load_from_disk.) *)
THEOREM TornFilesHaveACause == Spec => []TornHasCause
<1>1. Init => TornHasCause
  BY SchemaAssumption DEF Init, TornHasCause
<1> QED BY <1>1, NextKeepsTorn, AlwaysTyped, PTL DEF Spec

-----------------------------------------------------------------------------
(* Freshness.                                                              *)

LEMMA InitFresh == Init => FreshInv
BY SchemaAssumption, NoneAssumption DEF Init, FreshInv, FreshWhenLoaded, Saving

(* Steps that change no entry; they reach "keep" and saving only from there. *)
LEMMA FreshUnmoved ==
  ASSUME FreshInv, UNCHANGED <<worldVars, file, processVars, memory>>,
         \A t \in Task :
           /\ pc'[t] = "keep" => pc[t] = "keep"
           /\ pc'[t] \in {"keep"} \cup Saving =>
                 pc[t] \in {"keep"} \cup Saving /\ got'[t] = got[t] /\ asked'[t] = asked[t]
  PROVE  FreshInv'
<1>1. FreshWhenLoaded' /\ \A p \in Process : started'[p] <= now'
  BY DEF FreshInv, FreshWhenLoaded, worldVars, processVars
<1> QED BY <1>1 DEF FreshInv, worldVars, processVars

LEMMA StepKeepsFresh ==
  ASSUME TypeInv, FreshInv, NEW t \in Task, Step(t)
  PROVE  FreshInv'
<1> DEFINE p == Of(t)
           k == asked[t]
<1>1. p \in Process /\ k \in Key /\ \A u \in Task : Of(u) \in Process
  BY SchemaAssumption DEF Of, TypeInv, TypeOK
<1>2. now \in Nat /\ started[p] \in Nat /\ started[p] <= now /\ TTL \in Nat
  BY <1>1, SchemaAssumption DEF TypeInv, TypeOK, FreshInv
<1>3. CASE \/ Hit(t) \/ Miss(t) \/ NoFile(t) \/ FileExists(t) \/ LoadFails(t)
           \/ LoadStale(t) \/ RemoveFails(t) \/ Acquire(t) \/ FetchFails(t) \/ SaveFails(t)
  <2>1. UNCHANGED <<worldVars, file, processVars, memory>>
    BY <1>3 DEF Hit, Miss, NoFile, FileExists, LoadFails, LoadStale, RemoveFails, Acquire,
                FetchFails, SaveFails, Local
  <2>2. \A u \in Task :
          /\ pc'[u] = "keep" => pc[u] = "keep"
          /\ pc'[u] \in {"keep"} \cup Saving =>
                pc[u] \in {"keep"} \cup Saving /\ got'[u] = got[u] /\ asked'[u] = asked[u]
    BY <1>3 DEF Hit, Miss, NoFile, FileExists, LoadFails, LoadStale, RemoveFails, Acquire,
                FetchFails, SaveFails, Local, Goto, Answer, Saving, TypeInv, TypeOK
  <2> QED BY <2>1, <2>2, FreshUnmoved
<1> USE DEF Local, worldVars, processVars
<1>4. CASE Load(t)
  <2>1. file[k] \in Entry /\ file[k].at \in Nat
        /\ file[k].version = version[p] /\ ~(now > file[k].at + TTL)
    BY <1>4, <1>1 DEF Load, IsStale, Entry
  <2>2. file[k].at + TTL >= started[p] /\ file[k].schema.key = k
    BY <2>1, <1>1, <1>2 DEF FreshInv
  <2>3. got'[t] = file[k] /\ pc'[t] = "keep"
        /\ \A u \in Task \ {t} : got'[u] = got[u] /\ pc'[u] = pc[u]
    BY <1>4 DEF Load, Goto, TypeInv, TypeOK
  <2>4. UNCHANGED <<served, gitVersion, now, file, cluster, version, started, memory, asked>>
    BY <1>4 DEF Load
  <2>5. FreshWhenLoaded' /\ \A q \in Process : started'[q] <= now'
    BY <2>4 DEF FreshInv, FreshWhenLoaded
  <2> QED BY <2>1, <2>2, <2>3, <2>4, <2>5 DEF FreshInv, Saving
<1>5. CASE Remove(t)
  <2>1. UNCHANGED <<served, gitVersion, now, cluster, version, started, memory, asked, got>>
    BY <1>5 DEF Remove
  <2>2. \A u \in Task : pc'[u] \in {"keep"} \cup Saving =>
           pc[u] \in {"keep"} \cup Saving /\ (pc'[u] = "keep" => pc[u] = "keep")
    BY <1>5 DEF Remove, WritesTo, At, Saving
  <2>3. \A j \in Key : file'[j] \in Entry => file'[j] = file[j]
    BY <1>5, NoneAssumption DEF Remove, TypeInv, TypeOK
  <2>4. FreshWhenLoaded' /\ \A q \in Process : started'[q] <= now'
    BY <2>1 DEF FreshInv, FreshWhenLoaded
  <2> QED BY <2>1, <2>2, <2>3, <2>4 DEF FreshInv
<1>6. CASE Keep(t)
  <2>1. got[t].schema.key = k /\ got[t].version = version[p] /\ got[t].at + TTL >= started[p]
    BY <1>6 DEF Keep, At, FreshInv
  <2>2. \A q \in Process, j \in Key :
           memory'[q][j] = IF q = p /\ j = k THEN got[t] ELSE memory[q][j]
    BY <1>6, <1>1 DEF Keep, TypeInv, TypeOK
  <2>3. UNCHANGED <<served, gitVersion, now, file, cluster, version, started, asked>>
    BY <1>6 DEF Keep
  <2>4. pc'[t] = "idle" /\ \A u \in Task \ {t} : got'[u] = got[u] /\ pc'[u] = pc[u]
    BY <1>6 DEF Keep, Goto, Answer, TypeInv, TypeOK
  <2>5. FreshWhenLoaded'
    BY <2>1, <2>2, <2>3 DEF FreshInv, FreshWhenLoaded
  <2>6. \A q \in Process : started'[q] <= now'
    BY <2>3 DEF FreshInv
  <2> QED BY <2>3, <2>4, <2>5, <2>6 DEF FreshInv, Saving
<1>7. CASE Fetch(t)
  <2> DEFINE fetched == [schema |-> [key |-> k, cluster |-> cluster[p],
                                     rev |-> served[cluster[p]][k]],
                         version |-> version[p], at |-> now]
  <2>1. got'[t] = fetched /\ pc'[t] = "save"
        /\ \A u \in Task \ {t} : got'[u] = got[u] /\ pc'[u] = pc[u]
    BY <1>7 DEF Fetch, Goto, TypeInv, TypeOK
  <2>2. fetched.schema.key = k /\ fetched.version = version[p] /\ fetched.at + TTL >= started[p]
    BY <1>2
  <2>3. \A q \in Process, j \in Key :
           memory'[q][j] = IF q = p /\ j = k THEN fetched ELSE memory[q][j]
    BY <1>7, <1>1 DEF Fetch, TypeInv, TypeOK
  <2>4. UNCHANGED <<served, gitVersion, now, file, cluster, version, started, asked>>
    BY <1>7 DEF Fetch
  <2> HIDE DEF fetched
  <2>5. FreshWhenLoaded'
    BY <2>2, <2>3, <2>4 DEF FreshInv, FreshWhenLoaded
  <2>6. \A q \in Process : started'[q] <= now'
    BY <2>4 DEF FreshInv
  <2> QED BY <2>1, <2>2, <2>4, <2>5, <2>6 DEF FreshInv, Saving
<1>8. CASE Truncate(t)
  <2>1. got[t].schema.key = k /\ got[t] \in Entry
    BY <1>8 DEF Truncate, At, FreshInv, Saving, TypeInv, TypeOK
  <2>2. got'[t].schema = got[t].schema /\ pc'[t] = "write"
        /\ \A u \in Task \ {t} : got'[u] = got[u] /\ pc'[u] = pc[u]
    BY <1>8, <2>1 DEF Truncate, Goto, Entry, TypeInv, TypeOK
  <2>3. UNCHANGED <<served, gitVersion, now, cluster, version, started, asked, memory>>
    BY <1>8 DEF Truncate
  <2>4. \A j \in Key : file'[j] \in Entry => file'[j] = file[j]
    BY <1>8, NoneAssumption DEF Truncate, TypeInv, TypeOK
  <2>5. FreshWhenLoaded' /\ \A q \in Process : started'[q] <= now'
    BY <2>3 DEF FreshInv, FreshWhenLoaded
  <2> QED BY <2>1, <2>2, <2>3, <2>4, <2>5 DEF FreshInv, Saving
<1>9. CASE Write(t) \/ WriteFails(t)
  <2>1. got[t].schema.key = k
    BY <1>9 DEF Write, WriteFails, At, FreshInv, Saving
  <2>2. \A j \in Key : file'[j] \in Entry => file'[j] = file[j] \/ (j = k /\ file'[j] = got[t])
    BY <1>9, NoneAssumption DEF Write, WriteFails, TypeInv, TypeOK
  <2>3. UNCHANGED <<served, gitVersion, now, cluster, version, started, asked, memory>>
    BY <1>9 DEF Write, WriteFails
  <2>4. pc'[t] = "idle" /\ \A u \in Task \ {t} : got'[u] = got[u] /\ pc'[u] = pc[u]
    BY <1>9 DEF Write, WriteFails, Goto, Answer, TypeInv, TypeOK
  <2>5. FreshWhenLoaded' /\ \A q \in Process : started'[q] <= now'
    BY <2>3 DEF FreshInv, FreshWhenLoaded
  <2> QED BY <2>1, <2>2, <2>3, <2>4, <2>5 DEF FreshInv, Saving
<1> QED BY <1>3, <1>4, <1>5, <1>6, <1>7, <1>8, <1>9 DEF Step

LEMMA NextKeepsFresh == TypeInv /\ FreshInv /\ [Next]_vars => FreshInv'
<1> SUFFICES ASSUME TypeInv, FreshInv, [Next]_vars PROVE FreshInv'
  OBVIOUS
<1>1. ASSUME NEW t \in Task, NEW k \in Key, Ask(t, k) \/ BuiltIn(t, k)
      PROVE  FreshInv'
  <2>1. UNCHANGED <<worldVars, file, processVars, memory>> /\ got' = got
    BY <1>1 DEF Ask, BuiltIn
  <2>2. \A u \in Task : pc'[u] \in {"keep"} \cup Saving =>
           pc[u] = pc'[u] /\ asked'[u] = asked[u]
    BY <1>1 DEF Ask, BuiltIn, At, Goto, Saving, TypeInv, TypeOK
  <2> QED BY <2>1, <2>2, FreshUnmoved
<1>2. ASSUME NEW p \in Process, NEW c \in Cluster, Restart(p, c)
      PROVE  FreshInv'
  <2>1. \A u \in Task : pc'[u] \in {"keep"} \cup Saving =>
           pc'[u] = pc[u] /\ got'[u] = got[u] /\ asked'[u] = asked[u] /\ Of(u) # p
    BY <1>2 DEF Restart, Saving
  <2>2. \A q \in Process : q # p => version'[q] = version[q] /\ started'[q] = started[q]
                                   /\ memory'[q] = memory[q]
    BY <1>2 DEF Restart, TypeInv, TypeOK
  <2>3. started'[p] = now /\ now' = now /\ now \in Nat /\ \A k \in Key : memory'[p][k] = None
    BY <1>2, SchemaAssumption DEF Restart, worldVars, TypeInv, TypeOK
  <2>4. \A k \in Key : file'[k] \in Entry => file'[k] = file[k]
    BY <1>2, NoneAssumption DEF Restart
  <2>5. FreshWhenLoaded'
    BY <2>2, <2>3 DEF FreshInv, FreshWhenLoaded
  <2>6. \A q \in Process : started'[q] <= now'
    BY <2>2, <2>3 DEF FreshInv
  <2>7. \A u \in Task : Of(u) \in Process
    BY SchemaAssumption DEF Of
  <2> QED BY <2>1, <2>2, <2>4, <2>5, <2>6, <2>7 DEF FreshInv, Of
<1>3. CASE Tick
  <2>1. UNCHANGED <<file, cluster, version, started, memory, asked, pc, got>>
        /\ now' = now + 1 /\ now \in Nat
    BY <1>3, SchemaAssumption DEF Tick, processVars, taskVars, TypeInv, TypeOK
  <2>2. FreshWhenLoaded'
    BY <2>1 DEF FreshInv, FreshWhenLoaded
  <2>3. \A q \in Process : started'[q] <= now'
    BY <2>1, SchemaAssumption DEF FreshInv, TypeInv, TypeOK
  <2> QED BY <2>1, <2>2, <2>3 DEF FreshInv
<1>4. CASE (\E c \in Cluster, k \in Key : Change(c, k)) \/ UNCHANGED vars
  <2>1. UNCHANGED <<now, file, cluster, version, started, memory, asked, pc, got>>
    BY <1>4 DEF Change, vars, worldVars, processVars, taskVars
  <2>2. FreshWhenLoaded' /\ \A q \in Process : started'[q] <= now'
    BY <2>1 DEF FreshInv, FreshWhenLoaded
  <2> QED BY <2>1, <2>2 DEF FreshInv
<1> QED BY <1>1, <1>2, <1>3, <1>4, StepKeepsFresh DEF Next

(* Whatever a process goes by belongs to its key and is neither of another
   version nor, when the process began, older than the TTL, whoever wrote the
   file and whatever happened to it meanwhile.  (CachedSchema::is_stale.) *)
THEOREM LoadedIsFresh == Spec => []FreshWhenLoaded
<1>1. FreshInv => FreshWhenLoaded
  BY DEF FreshInv
<1> QED BY <1>1, InitFresh, NextKeepsFresh, AlwaysTyped, PTL DEF Spec

-----------------------------------------------------------------------------
(* Remembered schemas.                                                     *)

LEMMA InitWarm == Init => WarmInv
BY SchemaAssumption DEF Init, WarmInv

(* Steps of other tasks: they forget nothing. *)
LEMMA WarmOfOthers ==
  ASSUME TypeInv, WarmInv, NEW t \in Task, Step(t), NEW u \in Task \ {t}, warm'[u]
  PROVE  /\ answer'[u] # Empty
         /\ pc'[u] \in {"idle", "memory"}
         /\ pc'[u] = "memory" => memory'[Of(u)][asked'[u]] # None
<1>1. Of(t) \in Process /\ Of(u) \in Process /\ asked[t] \in Key /\ asked[u] \in Key
  BY SchemaAssumption DEF Of, TypeInv, TypeOK
<1>2. asked' = asked /\ warm' = warm
  BY DEF Step, Hit, Miss, NoFile, FileExists, LoadFails, Load, LoadStale, Remove, RemoveFails,
         Keep, Acquire, Fetch, FetchFails, Truncate, Write, SaveFails, WriteFails, Local
<1>3. answer'[u] = answer[u]
  BY DEF Step, Hit, Miss, NoFile, FileExists, LoadFails, Load, LoadStale, Remove, RemoveFails,
         Keep, Acquire, Fetch, FetchFails, Truncate, Write, SaveFails, WriteFails, Answer,
         TypeInv, TypeOK
<1>4. pc[u] \in {"idle", "memory"}
  BY <1>2 DEF WarmInv
<1>5. pc'[u] = pc[u]
  BY <1>4 DEF Step, Hit, Miss, NoFile, FileExists, LoadFails, Load, LoadStale, Remove,
         RemoveFails, Keep, Acquire, Fetch, FetchFails, Truncate, Write, SaveFails, WriteFails,
         Answer, Goto, WritesTo, At, TypeInv, TypeOK
<1>6. memory[Of(u)][asked[u]] # None => memory'[Of(u)][asked[u]] # None
  <2>1. CASE Keep(t)
    <3>1. got[t] # None
      BY <2>1, NoneAssumption DEF Keep, At, TypeInv, TypeOK
    <3> QED BY <2>1, <3>1, <1>1 DEF Keep, TypeInv, TypeOK
  <2>2. CASE Fetch(t)
    <3>1. memory'[Of(t)][asked[t]] \in Entry
      <4>1. /\ cluster[Of(t)] \in Cluster /\ served[cluster[Of(t)]][asked[t]] \in Nat
            /\ version[Of(t)] \in Nat /\ now \in Nat
        BY <1>1, SchemaAssumption DEF TypeInv, TypeOK
      <4> QED BY <2>2, <4>1, <1>1 DEF Fetch, Entry, Schema, TypeInv, TypeOK
    <3> QED BY <2>2, <3>1, <1>1, NoneAssumption DEF Fetch, TypeInv, TypeOK
  <2>3. CASE ~Keep(t) /\ ~Fetch(t)
    <3>1. memory' = memory
      BY <2>3 DEF Step, Hit, Miss, NoFile, FileExists, LoadFails, Load, LoadStale, Remove,
         RemoveFails, Acquire, FetchFails, Truncate, Write, SaveFails, WriteFails
    <3> QED BY <3>1
  <2> QED BY <2>1, <2>2, <2>3
<1> QED BY <1>2, <1>3, <1>4, <1>5, <1>6 DEF WarmInv

(* A warm task can only hit. *)
LEMMA WarmStep ==
  ASSUME TypeInv, WarmInv, NEW t \in Task, Step(t), warm'[t]
  PROVE  answer'[t] # Empty /\ pc'[t] = "idle"
<1>1. warm[t]
  BY DEF Step, Hit, Miss, NoFile, FileExists, LoadFails, Load, LoadStale, Remove, RemoveFails,
         Keep, Acquire, Fetch, FetchFails, Truncate, Write, SaveFails, WriteFails, Local
<1>2. pc[t] \in {"idle", "memory"} /\ (pc[t] = "memory" => memory[Of(t)][asked[t]] # None)
  BY <1>1 DEF WarmInv
<1>3. Hit(t)
  BY <1>2 DEF Step, Hit, Miss, NoFile, FileExists, LoadFails, Load, LoadStale, Remove,
         RemoveFails, Keep, Acquire, Fetch, FetchFails, Truncate, Write, SaveFails, WriteFails,
         At
<1>4. Of(t) \in Process /\ asked[t] \in Key
  BY SchemaAssumption DEF Of, TypeInv, TypeOK
<1>5. memory[Of(t)][asked[t]].schema \in Schema
  BY <1>3, <1>4 DEF Hit, Entry, TypeInv, TypeOK
<1> QED BY <1>3, <1>5, NoneAssumption DEF Hit, Answer, Goto, TypeInv, TypeOK

LEMMA NextKeepsWarm == TypeInv /\ WarmInv /\ [Next]_vars => WarmInv'
<1> SUFFICES ASSUME TypeInv, WarmInv, [Next]_vars PROVE WarmInv'
  OBVIOUS
<1>1. ASSUME NEW t \in Task, Step(t) PROVE WarmInv'
  <2> SUFFICES ASSUME NEW u \in Task, warm'[u]
               PROVE  /\ answer'[u] # Empty
                      /\ pc'[u] \in {"idle", "memory"}
                      /\ pc'[u] = "memory" => memory'[Of(u)][asked'[u]] # None
    BY DEF WarmInv, Of
  <2>1. CASE u = t
    BY <1>1, <2>1, WarmStep
  <2>2. CASE u # t
    BY <1>1, <2>2, WarmOfOthers
  <2> QED BY <2>1, <2>2
<1>2. ASSUME NEW t \in Task, NEW k \in Key, Ask(t, k) PROVE WarmInv'
  <2>1. /\ memory' = memory /\ asked'[t] = k /\ answer'[t] = None /\ pc'[t] = "memory"
        /\ warm'[t] => memory[Of(t)][k] # None
    BY <1>2 DEF Ask, Goto, TypeInv, TypeOK
  <2>2. \A u \in Task \ {t} : /\ asked'[u] = asked[u] /\ answer'[u] = answer[u]
                              /\ pc'[u] = pc[u] /\ warm'[u] = warm[u]
    BY <1>2 DEF Ask, Goto, TypeInv, TypeOK
  <2> QED BY <2>1, <2>2, SchemaAssumption DEF WarmInv, Of
<1>3. ASSUME NEW t \in Task, NEW k \in Key, BuiltIn(t, k) PROVE WarmInv'
  <2>1. memory' = memory /\ pc' = pc /\ warm'[t] = FALSE
    BY <1>3 DEF BuiltIn, TypeInv, TypeOK
  <2>2. \A u \in Task \ {t} : /\ asked'[u] = asked[u] /\ answer'[u] = answer[u]
                              /\ warm'[u] = warm[u]
    BY <1>3 DEF BuiltIn, TypeInv, TypeOK
  <2> QED BY <2>1, <2>2 DEF WarmInv, Of
<1>4. ASSUME NEW p \in Process, NEW c \in Cluster, Restart(p, c) PROVE WarmInv'
  <2>1. \A u \in Task : warm'[u] =>
          /\ warm[u] /\ Of(u) # p /\ answer'[u] = answer[u] /\ pc'[u] = pc[u]
          /\ asked'[u] = asked[u]
    BY <1>4 DEF Restart
  <2>2. \A q \in Process : q # p => memory'[q] = memory[q]
    BY <1>4 DEF Restart, TypeInv, TypeOK
  <2>3. \A u \in Task : Of(u) \in Process
    BY SchemaAssumption DEF Of
  <2> QED BY <2>1, <2>2, <2>3 DEF WarmInv, Of
<1>5. CASE (\E c \in Cluster, k \in Key : Change(c, k)) \/ Tick \/ UNCHANGED vars
  BY <1>5 DEF WarmInv, Of, Change, Tick, vars, taskVars
<1> QED BY <1>1, <1>2, <1>3, <1>4, <1>5 DEF Next

(* Once a process has the schema of a key, no call of its tasks goes without
   it, though others fail to fetch it afterwards.  (get_schema.) *)
THEOREM RememberedAlwaysAnswers == Spec => []RememberedIsAnswered
<1>1. WarmInv => RememberedIsAnswered
  BY DEF WarmInv, RememberedIsAnswered
<1> QED BY <1>1, InitWarm, NextKeepsWarm, AlwaysTyped, PTL DEF Spec

-----------------------------------------------------------------------------
(* Nearer to the end: what EveryCallReturns rests on besides fairness.     *)

Stage == [s \in Steps |->
            CASE s = "idle"   -> 0  [] s = "memory" -> 1  [] s = "disk"   -> 2
              [] s = "load"   -> 3  [] s = "remove" -> 4  [] s = "keep"   -> 4
              [] s = "wait"   -> 5  [] s = "fetch"  -> 6  [] s = "save"   -> 7
              [] s = "write"  -> 8  [] s = "lost"   -> 9]

Nearer(t) == pc'[t] = "idle" \/ Stage[pc[t]] < Stage[pc'[t]]

CallProgress ==
  \A t \in Task : ~At(t, "idle") =>
    IF Step(t) THEN Nearer(t) ELSE pc'[t] = pc[t] \/ Nearer(t)

LEMMA StepIsNearer ==
  ASSUME TypeInv, NEW t \in Task, Step(t)
  PROVE  Nearer(t)
<1> DEFINE Goes(from, to) == pc[t] \in from /\ pc'[t] \in to
<1>1. /\ \A to : Goto(t, to) => pc'[t] = to
      /\ \A a : Answer(t, a) => pc'[t] = "idle"
  BY DEF Goto, Answer, TypeInv, TypeOK
<1>2. CASE Hit(t) \/ LoadFails(t) \/ Keep(t) \/ FetchFails(t) \/ Write(t)
           \/ SaveFails(t) \/ WriteFails(t)
  BY <1>1, <1>2 DEF Hit, LoadFails, Keep, FetchFails, Write, SaveFails, WriteFails, Nearer
<1>3. CASE Miss(t) \/ NoFile(t) \/ FileExists(t) \/ Load(t) \/ LoadStale(t)
  <2>1. \/ Goes({"memory"}, {"disk"}) \/ Goes({"disk"}, {"wait", "load"})
        \/ Goes({"load"}, {"keep", "remove"})
    BY <1>1, <1>3 DEF Miss, NoFile, FileExists, Load, LoadStale, At
  <2> QED BY <2>1 DEF Nearer, Stage, Steps, Saving
<1>4. CASE Remove(t) \/ RemoveFails(t) \/ Acquire(t) \/ Fetch(t) \/ Truncate(t)
  <2>1. \/ Goes({"remove"}, {"wait"}) \/ Goes({"wait"}, {"fetch"})
        \/ Goes({"fetch"}, {"save"}) \/ Goes({"save"}, {"write"})
    BY <1>1, <1>4 DEF Remove, RemoveFails, Acquire, Fetch, Truncate, At
  <2> QED BY <2>1 DEF Nearer, Stage, Steps, Saving
<1> QED BY <1>2, <1>3, <1>4 DEF Step

(* The step of a task leaves another one where it is, or takes the file from
   under its write. *)
LEMMA OthersAreNotSetBack ==
  ASSUME TypeInv, NEW u \in Task, Step(u), NEW t \in Task, t # u
  PROVE  pc'[t] = pc[t] \/ Nearer(t)
<1>1. CASE Remove(u)
  <2>1. pc'[t] = pc[t] \/ (pc[t] = "write" /\ pc'[t] = "lost")
    BY <1>1 DEF Remove, WritesTo, At
  <2> QED BY <2>1 DEF Nearer, Stage, Steps, Saving
<1>2. CASE ~Remove(u)
  <2>1. \E to : pc' = [pc EXCEPT ![u] = to]
    BY <1>2
    DEF Step, Hit, Miss, NoFile, FileExists, LoadFails, Load, LoadStale, RemoveFails,
        Keep, Acquire, Fetch, FetchFails, Truncate, Write, SaveFails, WriteFails,
        Answer, Goto
  <2> QED BY <2>1 DEF TypeInv, TypeOK
<1> QED BY <1>1, <1>2

(* A call is nearer to its end after each of its steps, and nothing but the end
   of its process sets it back, whatever other tasks and processes do to its
   file: nothing is looked up, loaded or fetched again.  With PermitsAreInUse,
   who waits for a permit waits for a call that waits for none.
   (get_or_fetch.) *)
THEOREM CallsProgress == Spec => [][CallProgress]_vars
<1>1. TypeInv /\ [Next]_vars => [CallProgress]_vars
  <2> SUFFICES ASSUME TypeInv, Next, NEW t \in Task, ~At(t, "idle")
               PROVE  IF Step(t) THEN Nearer(t) ELSE pc'[t] = pc[t] \/ Nearer(t)
    BY DEF CallProgress
  <2>1. Step(t) => Nearer(t)
    BY StepIsNearer
  <2>2. ASSUME NEW u \in Task, NEW k \in Key, Ask(u, k) \/ BuiltIn(u, k)
        PROVE  pc'[t] = pc[t]
    BY <2>2 DEF Ask, BuiltIn, Goto, At, TypeInv, TypeOK
  <2>3. ASSUME NEW u \in Task, u # t, Step(u) PROVE pc'[t] = pc[t] \/ Nearer(t)
    BY <2>3, OthersAreNotSetBack
  <2>4. ASSUME NEW p \in Process, NEW c \in Cluster, Restart(p, c)
        PROVE  pc'[t] = pc[t] \/ Nearer(t)
    BY <2>4 DEF Restart, Nearer
  <2>5. CASE (\E c \in Cluster, k \in Key : Change(c, k)) \/ Tick
    BY <2>1, <2>5 DEF Change, Tick
  <2> QED BY <2>1, <2>2, <2>3, <2>4, <2>5 DEF Next
<1> QED BY <1>1, AlwaysTyped, PTL DEF Spec
-----------------------------------------------------------------------------
(* The promise.                                                            *)

(* Versions are counted by changes, processes saw versions that have been,
   and what was served when a version came is not newer than what is. *)
SinceInv ==
  /\ \A c \in Cluster : gitVersion[c] <= changes
  /\ \A p \in Process : version[p] <= gitVersion[cluster[p]]
  /\ \A c \in Cluster : \A v \in 0 .. gitVersion[c], k \in Key :
        since[c][v][k] <= served[c][k]

(* An entry is of a version that has been, and no older than it. *)
IsTrue(e) ==
  /\ e.version <= gitVersion[e.schema.cluster]
  /\ since[e.schema.cluster][e.version][e.schema.key] <= e.schema.rev
  /\ e.schema.rev <= served[e.schema.cluster][e.schema.key]

EntriesInv ==
  /\ \A k \in Key : file[k] \in Entry => IsTrue(file[k])
  /\ \A p \in Process, k \in Key : memory[p][k] \in Entry => IsTrue(memory[p][k])
  /\ \A t \in Task : got[t] \in Entry => IsTrue(got[t])

(* Who saves has remembered before. *)
SavingInv ==
  \A t \in Task : pc[t] \in Saving =>
    /\ got[t].version = version[Of(t)]
    /\ memory[Of(t)][asked[t]] \in Entry

TrueInv == SinceInv /\ EntriesInv /\ SavingInv

LEMMA InitTrue == Init => TrueInv
<1> SUFFICES ASSUME Init PROVE TrueInv
  OBVIOUS
<1>1. SinceInv
  BY SchemaAssumption DEF Init, SinceInv
<1>2. EntriesInv /\ SavingInv
  BY NoneAssumption DEF Init, EntriesInv, SavingInv, Saving
<1> QED BY <1>1, <1>2 DEF TrueInv

(* What was true stays true: no later change reaches a version that has been. *)
LEMMA ChangeKeepsTrue ==
  ASSUME TypeInv, TypeInv', TrueInv, NEW c \in Cluster, NEW k \in Key, Change(c, k)
  PROVE  TrueInv'
<1>1. /\ served \in [Cluster -> [Key -> Nat]] /\ served' \in [Cluster -> [Key -> Nat]]
      /\ gitVersion \in [Cluster -> Nat] /\ gitVersion' \in [Cluster -> Nat]
      /\ since \in [Cluster -> [0 .. MaxChanges -> [Key -> Nat]]]
      /\ changes \in 0 .. MaxChanges /\ changes' = changes + 1 /\ changes' \in 0 .. MaxChanges
      /\ MaxChanges \in Nat
  BY SchemaAssumption DEF TypeInv, TypeOK, Change
<1>2. /\ served' = [served EXCEPT ![c][k] = @ + 1]
      /\ \/ gitVersion' = gitVersion /\ since' = since
         \/ /\ gitVersion' = [gitVersion EXCEPT ![c] = @ + 1]
            /\ since' = [since EXCEPT ![c][gitVersion[c] + 1] = served'[c]]
  BY DEF Change
<1>3. \A d \in Cluster :
        /\ gitVersion[d] <= changes
        /\ \A v \in 0 .. gitVersion[d], j \in Key : since[d][v][j] <= served[d][j]
  BY DEF TrueInv, SinceInv
<1>4. \A d \in Cluster, j \in Key : served[d][j] <= served'[d][j]
  <2>1. \A d \in Cluster, j \in Key : served[d][j] \in Nat
    BY <1>1
  <2>2. \A d \in Cluster, j \in Key : served'[d][j] \in {served[d][j], served[d][j] + 1}
    <3>1. served \in [Cluster -> [Key -> Nat]] /\ served' = [served EXCEPT ![c][k] = @ + 1]
      BY <1>1, <1>2
    <3> QED BY <3>1
  <2> QED BY <2>1, <2>2
<1>5. \A d \in Cluster :
        /\ gitVersion[d] <= gitVersion'[d]
        /\ gitVersion'[d] <= changes'
  <2> SUFFICES ASSUME NEW d \in Cluster
               PROVE  gitVersion[d] <= gitVersion'[d] /\ gitVersion'[d] <= changes'
    OBVIOUS
  <2>1. gitVersion'[d] = gitVersion[d] \/ gitVersion'[d] = gitVersion[d] + 1
    <3>1. gitVersion \in [Cluster -> Nat]
          /\ (gitVersion' = gitVersion \/ gitVersion' = [gitVersion EXCEPT ![c] = @ + 1])
      BY <1>1, <1>2
    <3> QED BY <3>1
  <2>2. gitVersion[d] \in Nat /\ gitVersion[d] <= changes
    BY <1>1, <1>3
  <2>3. changes \in Nat /\ changes' = changes + 1
    BY <1>1
  <2> QED BY <2>1, <2>2, <2>3
<1>6. ASSUME NEW d \in Cluster, NEW v \in 0 .. gitVersion[d]
      PROVE  v \in 0 .. MaxChanges /\ since'[d][v] = since[d][v]
  <2>1. gitVersion[d] \in Nat /\ gitVersion[d] <= changes
    BY <1>1, <1>3
  <2>2. v \in 0 .. MaxChanges /\ v # gitVersion[d] + 1
    BY <1>1, <2>1
  <2>3. CASE since' = since
    BY <2>2, <2>3
  <2>4. CASE since' = [since EXCEPT ![c][gitVersion[c] + 1] = served'[c]]
    BY <1>1, <2>2, <2>4
  <2> QED BY <1>2, <2>2, <2>3, <2>4
<1>7. ASSUME NEW d \in Cluster, NEW v \in 0 .. gitVersion'[d], NEW j \in Key
      PROVE  since'[d][v][j] <= served'[d][j]
  <2>1. CASE v \in 0 .. gitVersion[d]
    <3>1. since'[d][v] = since[d][v] /\ since[d][v] \in [Key -> Nat]
      BY <1>1, <1>6, <2>1
    <3>2. since[d][v][j] \in Nat /\ served[d][j] \in Nat /\ served'[d][j] \in Nat
      BY <1>1, <3>1
    <3>3. since[d][v][j] <= served[d][j] /\ served[d][j] <= served'[d][j]
      BY <1>3, <1>4, <2>1
    <3> QED BY <3>1, <3>2, <3>3
  <2>2. CASE v \notin 0 .. gitVersion[d]
    <3>1. gitVersion[d] \in Nat /\ gitVersion'[d] \in Nat
      BY <1>1
    <3>2. gitVersion'[d] # gitVersion[d]
      BY <2>2
    <3>3. d = c /\ gitVersion'[d] = gitVersion[c] + 1
          /\ since' = [since EXCEPT ![c][gitVersion[c] + 1] = served'[c]]
      BY <1>1, <1>2, <3>2
    <3>4. v = gitVersion[c] + 1
      BY <2>2, <3>1, <3>3
    <3>5. v \in 0 .. MaxChanges /\ served'[d][j] \in Nat
      BY <1>1, <1>3, <3>1, <3>3, <3>4
    <3>6. since'[c][v] = served'[c]
      BY <1>1, <3>3, <3>4, <3>5
    <3> QED BY <3>3, <3>5, <3>6
  <2> QED BY <2>1, <2>2
<1>8. UNCHANGED <<file, version, cluster, memory, pc, asked, got>>
  BY DEF Change, processVars, taskVars
<1>9. ASSUME NEW e \in Entry, IsTrue(e)
      PROVE  /\ e.version <= gitVersion'[e.schema.cluster]
             /\ since'[e.schema.cluster][e.version][e.schema.key] <= e.schema.rev
             /\ e.schema.rev <= served'[e.schema.cluster][e.schema.key]
  <2> DEFINE d == e.schema.cluster
             j == e.schema.key
  <2>1. d \in Cluster /\ j \in Key /\ e.version \in Nat /\ e.schema.rev \in Nat
    BY DEF Entry, Schema
  <2>2. /\ e.version <= gitVersion[d] /\ since[d][e.version][j] <= e.schema.rev
        /\ e.schema.rev <= served[d][j]
    BY <1>9 DEF IsTrue
  <2>3. gitVersion[d] \in Nat /\ gitVersion'[d] \in Nat
        /\ served[d][j] \in Nat /\ served'[d][j] \in Nat
    BY <1>1, <2>1
  <2> HIDE DEF d, j
  <2>4. since'[d][e.version] = since[d][e.version]
    BY <1>6, <2>1, <2>2, <2>3
  <2>5. e.version <= gitVersion'[d] /\ e.schema.rev <= served'[d][j]
    BY <1>4, <1>5, <2>1, <2>2, <2>3
  <2> QED BY <2>2, <2>4, <2>5 DEF d, j
<1>10. SinceInv'
  <2>1. ASSUME NEW p \in Process PROVE version'[p] <= gitVersion'[cluster'[p]]
    <3>1. cluster[p] \in Cluster /\ version[p] \in Nat /\ version[p] <= gitVersion[cluster[p]]
      BY DEF TypeInv, TypeOK, TrueInv, SinceInv
    <3>2. gitVersion[cluster[p]] \in Nat /\ gitVersion'[cluster[p]] \in Nat
      BY <1>1, <3>1
    <3> QED BY <1>5, <1>8, <3>1, <3>2
  <2> QED BY <1>5, <1>7, <2>1 DEF SinceInv
<1>11. EntriesInv'
  BY <1>8, <1>9 DEF TrueInv, EntriesInv, IsTrue
<1>12. SavingInv'
  BY <1>8 DEF TrueInv, SavingInv, Of
<1> QED BY <1>10, <1>11, <1>12 DEF TrueInv

(* Steps that leave the cluster and the processes alone. *)
LEMMA TruthUnmoved ==
  ASSUME SinceInv, UNCHANGED <<served, gitVersion, since, version, cluster, changes>>
  PROVE  SinceInv' /\ \A e : IsTrue(e)' = IsTrue(e)
BY DEF SinceInv, IsTrue

(* What a task fetches is what its cluster serves. *)
LEMMA FetchedIsTrue ==
  ASSUME TypeInv, SinceInv, NEW t \in Task, Fetch(t)
  PROVE  /\ got'[t] \in Entry /\ IsTrue(got'[t]) /\ got'[t].version = version[Of(t)]
         /\ got'[t].schema.key = asked[t]
         /\ memory' = [memory EXCEPT ![Of(t)][asked[t]] = got'[t]]
<1> DEFINE p == Of(t)
           k == asked[t]
           c == cluster[p]
           fetched == [schema |-> [key |-> k, cluster |-> c, rev |-> served[c][k]],
                       version |-> version[p], at |-> now]
<1>1. p \in Process /\ k \in Key /\ c \in Cluster
  BY SchemaAssumption DEF Of, TypeInv, TypeOK
<1>2. served[c][k] \in Nat /\ version[p] \in Nat /\ now \in Nat /\ gitVersion[c] \in Nat
  BY <1>1, SchemaAssumption DEF TypeInv, TypeOK
<1>3. got'[t] = fetched /\ memory' = [memory EXCEPT ![p][k] = fetched]
  BY DEF Fetch, TypeInv, TypeOK
<1>4. fetched \in Entry
  BY <1>1, <1>2 DEF Entry, Schema
<1>5. version[p] <= gitVersion[c]
  BY <1>1 DEF SinceInv
<1>6. since[c][version[p]][k] <= served[c][k]
  BY <1>1, <1>2, <1>5 DEF SinceInv
<1>7. IsTrue(fetched)
  BY <1>2, <1>5, <1>6 DEF IsTrue
<1>8. fetched.version = version[p] /\ fetched.schema.key = k
  OBVIOUS
<1> HIDE DEF fetched
<1> QED BY <1>3, <1>4, <1>7, <1>8

LEMMA StepKeepsTrue ==
  ASSUME TypeInv, TrueInv, NEW t \in Task, Step(t)
  PROVE  TrueInv'
<1> DEFINE p == Of(t)
           k == asked[t]
<1>1. p \in Process /\ k \in Key /\ \A u \in Task : Of(u) \in Process
  BY SchemaAssumption DEF Of, TypeInv, TypeOK
<1>2. UNCHANGED <<served, gitVersion, since, version, cluster, changes, asked>>
  BY DEF Step, Hit, Miss, NoFile, FileExists, LoadFails, Load, LoadStale, Remove, RemoveFails,
         Keep, Acquire, Fetch, FetchFails, Truncate, Write, SaveFails, WriteFails, Local,
         worldVars, processVars, countVars
<1>3. SinceInv' /\ \A e : IsTrue(e)' = IsTrue(e)
  BY <1>2, TruthUnmoved DEF TrueInv
<1>4. EntriesInv /\ SavingInv
  BY DEF TrueInv
<1>5. /\ \A j \in Key : file[j] \in Entry => IsTrue(file[j])
      /\ \A q \in Process, j \in Key : memory[q][j] \in Entry => IsTrue(memory[q][j])
      /\ \A u \in Task : got[u] \in Entry => IsTrue(got[u])
  BY <1>4 DEF EntriesInv
<1>6. ASSUME /\ \A j \in Key : file'[j] \in Entry => IsTrue(file'[j])
             /\ \A q \in Process, j \in Key : memory'[q][j] \in Entry => IsTrue(memory'[q][j])
             /\ \A u \in Task : got'[u] \in Entry => IsTrue(got'[u])
      PROVE  EntriesInv'
  BY <1>2, <1>6 DEF EntriesInv, IsTrue
<1>7. \A u \in Task : pc[u] \in Saving => got[u] \in Entry
  BY DEF TypeInv, TypeOK
<1>8. CASE \/ Hit(t) \/ Miss(t) \/ NoFile(t) \/ FileExists(t) \/ LoadFails(t) \/ LoadStale(t)
           \/ Remove(t) \/ RemoveFails(t) \/ Acquire(t) \/ FetchFails(t) \/ SaveFails(t)
           \/ WriteFails(t)
  <2>1. memory' = memory
    BY <1>8 DEF Hit, Miss, NoFile, FileExists, LoadFails, LoadStale, Remove, RemoveFails,
                Acquire, FetchFails, SaveFails, WriteFails
  <2>2. \A u \in Task : got'[u] \in {None, got[u]}
    BY <1>8 DEF Hit, Miss, NoFile, FileExists, LoadFails, LoadStale, Remove, RemoveFails,
                Acquire, FetchFails, SaveFails, WriteFails, Answer, TypeInv, TypeOK
  <2>3. \A j \in Key : file'[j] \in {None, Torn, file[j]}
    BY <1>1, <1>8 DEF Hit, Miss, NoFile, FileExists, LoadFails, LoadStale, Remove, RemoveFails,
                Acquire, FetchFails, SaveFails, WriteFails, TypeInv, TypeOK
  <2>4. \A u \in Task : pc'[u] \in Saving => pc[u] \in Saving /\ got'[u] = got[u]
    BY <1>8 DEF Hit, Miss, NoFile, FileExists, LoadFails, LoadStale, Remove, RemoveFails,
                Acquire, FetchFails, SaveFails, WriteFails, Goto, Answer, WritesTo, At, Saving,
                TypeInv, TypeOK
  <2>5. EntriesInv'
    BY <1>5, <1>6, <2>1, <2>2, <2>3, NoneAssumption
  <2>6. SavingInv'
    BY <1>2, <1>4, <2>1, <2>4 DEF SavingInv, Of
  <2> QED BY <1>3, <2>5, <2>6 DEF TrueInv
<1>9. CASE Load(t)
  <2>1. memory' = memory /\ file' = file /\ got'[t] = file[k] /\ pc'[t] = "keep"
        /\ \A u \in Task \ {t} : got'[u] = got[u] /\ pc'[u] = pc[u]
    BY <1>9 DEF Load, Goto, TypeInv, TypeOK
  <2>2. EntriesInv'
    BY <1>1, <1>5, <1>6, <2>1
  <2>3. SavingInv'
    BY <1>2, <1>4, <2>1 DEF SavingInv, Of, Saving
  <2> QED BY <1>3, <2>2, <2>3 DEF TrueInv
<1>10. CASE Keep(t)
  <2>1. file' = file /\ pc'[t] = "idle" /\ got'[t] = None
        /\ \A u \in Task \ {t} : got'[u] = got[u] /\ pc'[u] = pc[u]
    BY <1>10 DEF Keep, Goto, Answer, TypeInv, TypeOK
  <2>2. got[t] \in Entry
    BY <1>10 DEF Keep, At, TypeInv, TypeOK
  <2>3. \A q \in Process, j \in Key :
           memory'[q][j] = IF q = p /\ j = k THEN got[t] ELSE memory[q][j]
    BY <1>10, <1>1 DEF Keep, TypeInv, TypeOK
  <2>4. EntriesInv'
    BY <1>5, <1>6, <2>1, <2>2, <2>3, NoneAssumption
  <2>5. SavingInv'
    <3>1. \A u \in Task : pc'[u] \in Saving => pc[u] \in Saving /\ got'[u] = got[u]
      BY <2>1 DEF Saving
    <3>2. \A u \in Task : memory[Of(u)][asked[u]] \in Entry => memory'[Of(u)][asked[u]] \in Entry
      BY <1>1, <2>2, <2>3 DEF TypeInv, TypeOK
    <3> QED BY <1>2, <1>4, <3>1, <3>2 DEF SavingInv, Of
  <2> QED BY <1>3, <2>4, <2>5 DEF TrueInv
<1>11. CASE Fetch(t)
  <2>1. file' = file /\ pc'[t] = "save" /\ \A u \in Task \ {t} : got'[u] = got[u] /\ pc'[u] = pc[u]
    BY <1>11 DEF Fetch, Goto, TypeInv, TypeOK
  <2>2. /\ got'[t] \in Entry /\ IsTrue(got'[t]) /\ got'[t].version = version[p]
        /\ memory' = [memory EXCEPT ![p][k] = got'[t]]
    BY <1>11, FetchedIsTrue DEF TrueInv
  <2>3. \A q \in Process, j \in Key :
           memory'[q][j] = IF q = p /\ j = k THEN got'[t] ELSE memory[q][j]
    BY <1>1, <2>2 DEF TypeInv, TypeOK
  <2>4. EntriesInv'
    BY <1>5, <1>6, <2>1, <2>2, <2>3
  <2>5. SavingInv'
    <3>1. \A u \in Task \ {t} : pc'[u] \in Saving => pc[u] \in Saving /\ got'[u] = got[u]
      BY <2>1
    <3>2. \A u \in Task : memory[Of(u)][asked[u]] \in Entry => memory'[Of(u)][asked[u]] \in Entry
      <4>1. \A u \in Task : asked[u] \in Key
        BY DEF TypeInv, TypeOK
      <4> QED BY <1>1, <2>2, <2>3, <4>1
    <3>3. got'[t].version = version[Of(t)] /\ memory'[Of(t)][asked[t]] \in Entry
      BY <1>1, <2>2, <2>3
    <3> QED BY <1>2, <1>4, <3>1, <3>2, <3>3 DEF SavingInv, Of
  <2> QED BY <1>3, <2>4, <2>5 DEF TrueInv
<1>12. CASE Truncate(t)
  <2>1. memory' = memory /\ pc[t] \in Saving
        /\ \A u \in Task \ {t} : got'[u] = got[u] /\ pc'[u] = pc[u]
    BY <1>12 DEF Truncate, Goto, At, Saving, TypeInv, TypeOK
  <2>2. \A j \in Key : file'[j] \in {Torn, file[j]}
    BY <1>1, <1>12 DEF Truncate, TypeInv, TypeOK
  <2>3. got'[t].schema = got[t].schema /\ got'[t].version = got[t].version
    BY <1>7, <1>12, <2>1 DEF Truncate, Entry, TypeInv, TypeOK
  <2>4. IsTrue(got'[t])
    BY <1>5, <1>7, <2>1, <2>3 DEF IsTrue
  <2>5. EntriesInv'
    BY <1>5, <1>6, <2>1, <2>2, <2>4, NoneAssumption
  <2>6. SavingInv'
    BY <1>2, <1>4, <2>1, <2>3 DEF SavingInv, Of
  <2> QED BY <1>3, <2>5, <2>6 DEF TrueInv
<1>13. CASE Write(t)
  <2>1. memory' = memory /\ pc[t] \in Saving /\ pc'[t] = "idle" /\ got'[t] = None
        /\ \A u \in Task \ {t} : got'[u] = got[u] /\ pc'[u] = pc[u]
    BY <1>13 DEF Write, Goto, Answer, At, Saving, TypeInv, TypeOK
  <2>2. \A j \in Key : file'[j] \in {Torn, file[j], got[t]}
    BY <1>1, <1>13 DEF Write, TypeInv, TypeOK
  <2>3. EntriesInv'
    BY <1>5, <1>6, <2>1, <2>2, NoneAssumption
  <2>4. SavingInv'
    BY <1>2, <1>4, <2>1 DEF SavingInv, Of, Saving
  <2> QED BY <1>3, <2>3, <2>4 DEF TrueInv
<1> QED BY <1>8, <1>9, <1>10, <1>11, <1>12, <1>13 DEF Step

LEMMA NextKeepsTrue ==
  TypeInv /\ TypeInv' /\ TrueInv /\ [Next]_vars => TrueInv'
<1> SUFFICES ASSUME TypeInv, TypeInv', TrueInv, [Next]_vars PROVE TrueInv'
  OBVIOUS
<1> USE DEF worldVars, processVars
<1>1. ASSUME NEW t \in Task, NEW k \in Key, Ask(t, k) \/ BuiltIn(t, k)
      PROVE  TrueInv'
  <2>1. UNCHANGED <<served, gitVersion, since, version, cluster, changes, file, memory, got>>
    BY <1>1 DEF Ask, BuiltIn
  <2>2. \A u \in Task : pc'[u] \in Saving => pc[u] \in Saving /\ asked'[u] = asked[u]
    BY <1>1 DEF Ask, BuiltIn, At, Goto, Saving, TypeInv, TypeOK
  <2>3. SinceInv' /\ EntriesInv'
    BY <2>1 DEF TrueInv, SinceInv, EntriesInv, IsTrue
  <2>4. SavingInv'
    BY <2>1, <2>2 DEF TrueInv, SavingInv, Of
  <2> QED BY <2>3, <2>4 DEF TrueInv
<1>2. ASSUME NEW p \in Process, NEW c \in Cluster, Restart(p, c)
      PROVE  TrueInv'
  <2>1. UNCHANGED <<served, gitVersion, since, changes, asked>>
    BY <1>2 DEF Restart
  <2>2. \A q \in Process : IF q = p THEN cluster'[q] = c /\ version'[q] = gitVersion[c]
                           ELSE cluster'[q] = cluster[q] /\ version'[q] = version[q]
    BY <1>2 DEF Restart, TypeInv, TypeOK
  <2>3. \A q \in Process, j \in Key :
           memory'[q][j] = IF q = p THEN None ELSE memory[q][j]
    BY <1>2 DEF Restart, TypeInv, TypeOK
  <2>4. \A u \in Task : /\ got'[u] = IF Of(u) = p THEN None ELSE got[u]
                        /\ pc'[u] = IF Of(u) = p THEN "idle" ELSE pc[u]
    BY <1>2 DEF Restart
  <2>5. \A j \in Key : file'[j] \in {Torn, file[j]}
    BY <1>2 DEF Restart
  <2>6. SinceInv'
    <3>1. gitVersion[c] \in Nat
      BY DEF TypeInv, TypeOK
    <3> QED BY <2>1, <2>2, <3>1 DEF TrueInv, SinceInv
  <2>7. EntriesInv'
    <3>1. \A j \in Key : file'[j] \in Entry => IsTrue(file'[j])
      BY <2>5, NoneAssumption DEF TrueInv, EntriesInv
    <3>2. \A q \in Process, j \in Key : memory'[q][j] \in Entry => IsTrue(memory'[q][j])
      BY <2>3, NoneAssumption DEF TrueInv, EntriesInv
    <3>3. \A u \in Task : got'[u] \in Entry => IsTrue(got'[u])
      BY <2>4, NoneAssumption DEF TrueInv, EntriesInv
    <3> QED BY <2>1, <3>1, <3>2, <3>3 DEF EntriesInv, IsTrue
  <2>8. SavingInv'
    <3>1. \A u \in Task : Of(u) \in Process
      BY SchemaAssumption DEF Of
    <3>2. \A u \in Task : pc'[u] \in Saving =>
            /\ Of(u) # p /\ pc[u] \in Saving /\ got'[u] = got[u] /\ asked'[u] = asked[u]
            /\ version'[Of(u)] = version[Of(u)]
            /\ memory'[Of(u)] = memory[Of(u)]
      <4>1. \A q \in Process : q # p => memory'[q] = memory[q]
        BY <1>2 DEF Restart, TypeInv, TypeOK
      <4> QED BY <2>1, <2>2, <2>4, <3>1, <4>1 DEF Saving
    <3> QED BY <3>2 DEF TrueInv, SavingInv, Of
  <2> QED BY <2>6, <2>7, <2>8 DEF TrueInv
<1>3. CASE Tick \/ UNCHANGED vars
  <2>1. UNCHANGED <<served, gitVersion, since, version, cluster, changes, file, memory, got,
                    pc, asked>>
    BY <1>3 DEF Tick, vars, taskVars, countVars
  <2> QED BY <2>1 DEF TrueInv, SinceInv, EntriesInv, SavingInv, IsTrue, Of
<1> QED BY <1>1, <1>2, <1>3, ChangeKeepsTrue, StepKeepsTrue DEF Next

-----------------------------------------------------------------------------
(* Refinement: what a process knows, and which tasks are in a call.        *)

Known == [p \in Process |-> {k \in Key : memory[p][k] # None}]
Calling == [t \in Task |-> ~At(t, "idle")]

LEMMA InitKeepsPromise == Init => Promise!Init
<1> SUFFICES ASSUME Init PROVE Promise!Init
  OBVIOUS
<1>1. Known = [p \in Process |-> {}] /\ Calling = [t \in Task |-> FALSE]
  BY DEF Init, Known, Calling, At
<1>2. \A c \in Cluster : since[c][0] = served[c]
  BY SchemaAssumption DEF Init
<1>3. asked \in [Task -> Key]
  BY SchemaAssumption DEF Init
<1> QED BY <1>1, <1>2, <1>3 DEF Init, Promise!Init, Known, Calling

LEMMA Remembers ==
  ASSUME TypeInv, NEW p \in Process, NEW k \in Key,
         \/ \E e \in Entry : memory' = [memory EXCEPT ![p][k] = e]
         \/ memory' = memory /\ memory[p][k] # None
  PROVE  Known' = [Known EXCEPT ![p] = @ \cup {k}]
<1>1. memory \in [Process -> [Key -> Entry \cup {None}]]
  BY DEF TypeInv, TypeOK
<1>2. \A q \in Process, j \in Key :
         memory'[q][j] # None <=> memory[q][j] # None \/ (q = p /\ j = k)
  BY <1>1, NoneAssumption
<1>3. \A q \in Process :
         {j \in Key : memory'[q][j] # None} =
            IF q = p THEN {j \in Key : memory[q][j] # None} \cup {k}
            ELSE {j \in Key : memory[q][j] # None}
  BY <1>2
<1> QED BY <1>3 DEF Known

(* A call ends: without a schema, or with that of a true entry, which the
   process knows from now on. *)
LEMMA Returns ==
  ASSUME TypeInv, TypeInv', NEW t \in Task, NEW a, pc[t] # "idle", Answer(t, a),
         UNCHANGED <<served, gitVersion, since, version, asked, warm>>,
         \/ ~warm[t] /\ a = Empty /\ memory' = memory
         \/ \E e \in Entry :
              /\ a = e.schema /\ IsTrue(e)
              /\ e.version = version[Of(t)] /\ e.schema.key = asked[t]
              /\ \/ memory' = [memory EXCEPT ![Of(t)][asked[t]] = e]
                 \/ memory' = memory /\ memory[Of(t)][asked[t]] # None
  PROVE  Promise!Return(t)
<1>1. Calling[t] /\ Calling' = [Calling EXCEPT ![t] = FALSE]
  BY DEF Calling, Answer, Goto, At, TypeInv, TypeOK
<1>2. answer' = [answer EXCEPT ![t] = a] /\ answer'[t] = a
  BY DEF Answer, TypeInv, TypeOK
<1>3. CASE ~warm[t] /\ a = Empty /\ memory' = memory
  <2>1. Known' = Known
    BY <1>3 DEF Known
  <2> QED BY <1>1, <1>2, <1>3, <2>1
          DEF Promise!Return, Promise!clusterVars, Known, Calling
<1>4. ASSUME NEW e \in Entry, a = e.schema, IsTrue(e),
             e.version = version[Of(t)], e.schema.key = asked[t],
             \/ memory' = [memory EXCEPT ![Of(t)][asked[t]] = e]
             \/ memory' = memory /\ memory[Of(t)][asked[t]] # None
      PROVE  Promise!Return(t)
  <2>1. Of(t) \in Process /\ asked[t] \in Key
    BY SchemaAssumption DEF Of, TypeInv, TypeOK
  <2>2. Known' = [Known EXCEPT ![Of(t)] = @ \cup {asked[t]}]
    BY <1>4, <2>1, Remembers
  <2>3. a \in Promise!Schema
    BY <1>4 DEF Entry, Schema, Promise!Schema
  <2>4. Promise!Answers(t, a)
    BY <1>4 DEF Promise!Answers, IsTrue, Of
  <2> QED BY <1>1, <1>2, <2>2, <2>3, <2>4
          DEF Promise!Return, Promise!Learnt, Promise!clusterVars, Known, Calling, Of
<1> QED BY <1>3, <1>4

(* Looking, waiting and saving are nobody's business. *)
LEMMA QuietSteps ==
  ASSUME TypeInv, NEW t \in Task,
         \/ Miss(t) \/ NoFile(t) \/ FileExists(t) \/ Load(t) \/ LoadStale(t)
         \/ Remove(t) \/ RemoveFails(t) \/ Acquire(t) \/ Truncate(t)
  PROVE  UNCHANGED Promise!promiseVars
<1>1. UNCHANGED <<served, gitVersion, since, version, asked, warm, answer, memory>>
  BY DEF Miss, NoFile, FileExists, Load, LoadStale, Remove, RemoveFails, Acquire, Truncate,
         Local, worldVars, processVars
<1>2. Calling' = Calling
  <2>1. \A u \in Task : pc'[u] = "idle" <=> pc[u] = "idle"
    BY DEF Miss, NoFile, FileExists, Load, LoadStale, Remove, RemoveFails, Acquire, Truncate,
           Goto, At, WritesTo, TypeInv, TypeOK
  <2> QED BY <2>1 DEF Calling, At
<1>3. Known' = Known
  BY <1>1 DEF Known
<1> QED BY <1>1, <1>2, <1>3
        DEF Promise!promiseVars, Promise!clusterVars, Known, Calling

LEMMA StepKeepsPromise ==
  ASSUME TypeInv, TypeInv', FreshInv, WarmInv, TrueInv, NEW t \in Task, Step(t)
  PROVE  [Promise!Next]_(Promise!promiseVars)
<1> DEFINE p == Of(t)
           k == asked[t]
<1>1. p \in Process /\ k \in Key
  BY SchemaAssumption DEF Of, TypeInv, TypeOK
<1>2. UNCHANGED <<served, gitVersion, since, version, asked, warm>>
  BY DEF Step, Hit, Miss, NoFile, FileExists, LoadFails, Load, LoadStale, Remove, RemoveFails,
         Keep, Acquire, Fetch, FetchFails, Truncate, Write, SaveFails, WriteFails, Local,
         worldVars, processVars
<1>3. CASE \/ Miss(t) \/ NoFile(t) \/ FileExists(t) \/ Load(t) \/ LoadStale(t)
           \/ Remove(t) \/ RemoveFails(t) \/ Acquire(t) \/ Truncate(t)
  BY <1>3, QuietSteps
<1>4. CASE LoadFails(t) \/ FetchFails(t)
  <2>1. pc[t] \in {"load", "fetch"} /\ Answer(t, Empty) /\ memory' = memory
    BY <1>4 DEF LoadFails, FetchFails, At
  <2>2. ~warm[t]
    BY <2>1 DEF WarmInv
  <2>3. Promise!Return(t)
    BY <1>2, <2>1, <2>2, Returns
  <2> QED BY <2>3 DEF Promise!Next
<1>5. CASE Hit(t)
  <2>1. pc[t] = "memory" /\ Answer(t, memory[p][k].schema) /\ memory' = memory /\ memory[p][k] # None
    BY <1>5 DEF Hit, At
  <2>2. memory[p][k] \in Entry
    BY <1>1, <2>1 DEF TypeInv, TypeOK
  <2>3. /\ IsTrue(memory[p][k]) /\ memory[p][k].version = version[p]
        /\ memory[p][k].schema.key = k
    BY <1>1, <2>1, <2>2 DEF TrueInv, EntriesInv, FreshInv, FreshWhenLoaded
  <2>4. Promise!Return(t)
    BY <1>2, <2>1, <2>2, <2>3, Returns
  <2> QED BY <2>4 DEF Promise!Next
<1>6. CASE Keep(t)
  <2>1. /\ pc[t] = "keep" /\ Answer(t, got[t].schema)
        /\ memory' = [memory EXCEPT ![p][k] = got[t]]
    BY <1>6 DEF Keep, At
  <2>2. got[t] \in Entry
    BY <2>1 DEF TypeInv, TypeOK
  <2>3. IsTrue(got[t]) /\ got[t].version = version[p] /\ got[t].schema.key = k
    BY <2>1, <2>2 DEF TrueInv, EntriesInv, FreshInv
  <2>4. Promise!Return(t)
    BY <1>2, <2>1, <2>2, <2>3, Returns
  <2> QED BY <2>4 DEF Promise!Next
<1>7. CASE Write(t) \/ SaveFails(t) \/ WriteFails(t)
  <2>1. pc[t] \in Saving /\ Answer(t, got[t].schema) /\ memory' = memory
    BY <1>7 DEF Write, SaveFails, WriteFails, At, Saving
  <2>2. got[t] \in Entry /\ pc[t] # "idle"
    BY <2>1 DEF Saving, TypeInv, TypeOK
  <2>3. IsTrue(got[t]) /\ got[t].version = version[p] /\ got[t].schema.key = k
    BY <2>1, <2>2 DEF TrueInv, EntriesInv, SavingInv, FreshInv
  <2>4. memory[p][k] # None
    BY <2>1, NoneAssumption DEF TrueInv, SavingInv
  <2>5. Promise!Return(t)
    BY <1>2, <2>1, <2>2, <2>3, <2>4, Returns
  <2> QED BY <2>5 DEF Promise!Next
<1>8. CASE Fetch(t)
  <2>1. pc[t] = "fetch" /\ answer' = answer /\ pc' = [pc EXCEPT ![t] = "save"]
    BY <1>8 DEF Fetch, At, Goto
  <2>2. got'[t] \in Entry /\ memory' = [memory EXCEPT ![p][k] = got'[t]]
    BY <1>8, FetchedIsTrue DEF TrueInv
  <2>3. Calling[t] /\ Calling' = Calling
    BY <2>1 DEF Calling, At, TypeInv, TypeOK
  <2>4. Known' = [Known EXCEPT ![p] = @ \cup {k}]
    BY <1>1, <2>2, Remembers
  <2>5. Promise!Learn(t)
    BY <1>2, <2>1, <2>3, <2>4
    DEF Promise!Learn, Promise!Learnt, Promise!clusterVars, Known, Calling, Of
  <2> QED BY <2>5 DEF Promise!Next
<1> QED BY <1>3, <1>4, <1>5, <1>6, <1>7, <1>8 DEF Step

LEMMA NextKeepsPromise ==
  TypeInv /\ TypeInv' /\ FreshInv /\ WarmInv /\ TrueInv /\ [Next]_vars
    => [Promise!Next]_(Promise!promiseVars)
<1> SUFFICES ASSUME TypeInv, TypeInv', FreshInv, WarmInv, TrueInv, [Next]_vars
             PROVE  [Promise!Next]_(Promise!promiseVars)
  OBVIOUS
<1>1. ASSUME NEW t \in Task, NEW k \in Key, Ask(t, k) \/ BuiltIn(t, k)
      PROVE  Promise!Next
  <2>1. Of(t) \in Process
    BY SchemaAssumption DEF Of
  <2>2. /\ UNCHANGED <<served, gitVersion, since, version, memory>>
        /\ asked' = [asked EXCEPT ![t] = k] /\ ~Calling[t]
    BY <1>1 DEF Ask, BuiltIn, worldVars, processVars, Calling
  <2>3. Known' = Known
    BY <2>2 DEF Known
  <2>4. CASE Ask(t, k)
    <3>1. k \notin Covered /\ answer' = [answer EXCEPT ![t] = None]
      BY <2>4 DEF Ask
    <3>2. Calling' = [Calling EXCEPT ![t] = TRUE]
      BY <2>4 DEF Ask, Goto, Calling, At, TypeInv, TypeOK
    <3>3. warm' = [warm EXCEPT ![t] = k \in Known[ProcessOf[t]]]
      <4>1. (memory[Of(t)][k] # None) = (k \in Known[ProcessOf[t]])
        BY <2>1 DEF Known, Of
      <4>2. warm' = [warm EXCEPT ![t] = memory[Of(t)][k] # None]
        BY <2>4 DEF Ask
      <4> QED BY <4>1, <4>2
    <3>4. Promise!Ask(t, k)
      BY <2>2, <2>3, <3>1, <3>2, <3>3 DEF Promise!Ask, Promise!clusterVars, Known, Calling
    <3> QED BY <3>4 DEF Promise!Next
  <2>5. CASE BuiltIn(t, k)
    <3>1. /\ k \in Covered /\ answer' = [answer EXCEPT ![t] = Empty]
          /\ warm' = [warm EXCEPT ![t] = FALSE] /\ pc' = pc
      BY <2>5 DEF BuiltIn
    <3>2. Calling' = Calling
      BY <3>1 DEF Calling, At
    <3>3. Promise!Ask(t, k)
      BY <2>2, <2>3, <3>1, <3>2 DEF Promise!Ask, Promise!clusterVars, Known, Calling
    <3> QED BY <3>3 DEF Promise!Next
  <2> QED BY <1>1, <2>4, <2>5
<1>2. ASSUME NEW p \in Process, NEW c \in Cluster, Restart(p, c)
      PROVE  Promise!Next
  <2> DEFINE own == {t \in Task : ProcessOf[t] = p}
  <2>1. /\ UNCHANGED <<served, gitVersion, since, asked>>
        /\ version' = [version EXCEPT ![p] = gitVersion[c]]
        /\ answer' = [t \in Task |-> IF t \in own THEN None ELSE answer[t]]
        /\ warm' = [t \in Task |-> t \notin own /\ warm[t]]
    BY <1>2 DEF Restart, worldVars, Of
  <2>2. Known' = [Known EXCEPT ![p] = {}]
    <3>1. \A q \in Process, k \in Key : memory'[q][k] = IF q = p THEN None ELSE memory[q][k]
      BY <1>2 DEF Restart, TypeInv, TypeOK
    <3>2. \A q \in Process : {k \in Key : memory'[q][k] # None} =
             IF q = p THEN {} ELSE {k \in Key : memory[q][k] # None}
      BY <3>1
    <3> QED BY <3>2 DEF Known
  <2>3. Calling' = [t \in Task |-> t \notin own /\ Calling[t]]
    BY <1>2 DEF Restart, Calling, At, Of
  <2>4. Promise!Restart(p, c)
    BY <2>1, <2>2, <2>3 DEF Promise!Restart, Promise!clusterVars, Known, Calling
  <2> QED BY <2>4 DEF Promise!Next
<1>3. ASSUME NEW c \in Cluster, NEW k \in Key, Change(c, k)
      PROVE  Promise!Next
  <2>1. UNCHANGED <<version, asked, warm, answer, memory, pc>>
    BY <1>3 DEF Change, processVars, taskVars
  <2>2. Known' = Known /\ Calling' = Calling
    BY <2>1 DEF Known, Calling, At
  <2>3. Promise!Change(c, k)
    BY <1>3, <2>1, <2>2 DEF Change, Promise!Change, Known, Calling
  <2> QED BY <2>3 DEF Promise!Next
<1>4. CASE Tick \/ UNCHANGED vars
  <2>1. UNCHANGED <<served, gitVersion, since, version, asked, warm, answer, memory, pc>>
    BY <1>4 DEF Tick, vars, worldVars, processVars, taskVars
  <2>2. Known' = Known /\ Calling' = Calling
    BY <2>1 DEF Known, Calling, At
  <2> QED BY <2>1, <2>2 DEF Promise!promiseVars, Promise!clusterVars, Known, Calling
<1> QED BY <1>1, <1>2, <1>3, <1>4, StepKeepsPromise DEF Next

(* The cache keeps SchemaPromise: every call that is answered gets a schema of
   its key that some cluster of its version served since it came to that
   version, or none if its process knew none when it asked, whoever fetched,
   wrote, removed or tore what it was answered from.  (get_schema,
   CachedSchema.) *)
THEOREM PromiseIsKept == Spec => KeepsPromise
<1>1. Spec => []FreshInv
  BY InitFresh, NextKeepsFresh, AlwaysTyped, PTL DEF Spec
<1>2. Spec => []WarmInv
  BY InitWarm, NextKeepsWarm, AlwaysTyped, PTL DEF Spec
<1>3. Spec => []TrueInv
  BY InitTrue, NextKeepsTrue, AlwaysTyped, PTL DEF Spec
<1> QED
  BY <1>1, <1>2, <1>3, InitKeepsPromise, NextKeepsPromise, AlwaysTyped, PTL
  DEF Spec, KeepsPromise, Promise!Spec
=============================================================================
