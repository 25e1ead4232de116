---------------------------- MODULE SchemaCache ----------------------------
(***************************************************************************)
(* The cache of OpenAPI schemas that comparing manifests needs             *)
(* (cmds/rtk/src/k8s/openapi.rs): a map in every rtk process, and a file   *)
(* per API group and version that processes share and that outlives them.  *)
(*                                                                         *)
(* Modelled: every step of get_schema and get_or_fetch, for diff tasks     *)
(* that run in parallel, against clusters that are upgraded and whose CRDs *)
(* change; entries that expire; files that are written in place while      *)
(* others read, write or remove them; requests, reads and writes that      *)
(* fail; processes that are killed.  A schema is abstracted to the cluster *)
(* and the revision it was extracted from; the entry's version and time    *)
(* are what invalidation compares.                                         *)
(***************************************************************************)
EXTENDS Naturals, FiniteSets

CONSTANTS
  Process,     \* rtk processes that share a cache directory
  Task,        \* diff tasks
  ProcessOf,   \* the process of each task
  Key,         \* API groups and versions
  Covered,     \* those that the built-in schemas cover
  Cluster,
  TTL,         \* how old an entry may be
  MaxFetches,  \* MAX_CONCURRENT_FETCHES
  None,        \* no schema, or no file
  Empty,       \* ExtractedSchema::default()
  Torn,        \* a file that cannot be parsed
  MaxCalls,    \* bound: calls of get_schema
  MaxStops,    \* bound: processes that are killed
  MaxChanges,  \* bound: changes of a schema or of a cluster's version
  MaxTime      \* bound: the clock

ASSUME SchemaAssumption ==
  /\ ProcessOf \in [Task -> Process]
  /\ Key # {} /\ Covered \subseteq Key
  /\ Cluster # {}
  /\ TTL \in Nat
  /\ MaxFetches \in Nat \ {0}
  /\ MaxCalls \in Nat /\ MaxStops \in Nat /\ MaxChanges \in Nat /\ MaxTime \in Nat
  /\ None # Empty /\ Torn # None

Schema == [key : Key, cluster : Cluster, rev : Nat]

(* Version: the git version its writer saw; at: when it was made. *)
Entry == [schema : Schema, version : Nat, at : Nat]

ASSUME NoneAssumption ==
  /\ None \notin Entry /\ Torn \notin Entry
  /\ Empty \notin Schema /\ None \notin Schema

VARIABLES
  served,      \* served[c][k]: the revision cluster c serves
  gitVersion,  \* gitVersion[c]: the version cluster c reports
  now,         \* the clock
  file,        \* file[k]: the entry on disk, None or Torn
  cluster,     \* cluster[p]: what process p is connected to
  version,     \* version[p]: what that reported when it connected
  memory,      \* memory[p][k]: memory_cache
  permits,     \* permits[p]: what is left of the semaphore
  pc,          \* what each task does next
  asked,       \* asked[t]: the key
  got,         \* got[t]: what it loaded or fetched
  answer,      \* answer[t]: what its last call returned
  started,     \* history: when p connected
  since,       \* history: what each cluster served when it came to a version
  warm,        \* history: the key was remembered when t asked
  damaged,     \* history: writes of k overlapped or were cut short
  calls, stops, changes

worldVars == <<served, gitVersion, since, now>>
processVars == <<cluster, version, started>>
countVars == <<calls, stops, changes>>
taskVars == <<asked, warm>>
vars == <<worldVars, file, processVars, memory, permits, pc, taskVars, got,
          answer, damaged, countVars>>

(* "lost": the file that is open for writing has been removed. *)
Saving == {"save", "write", "lost"}
Steps == {"idle", "memory", "disk", "load", "remove", "wait", "fetch", "keep"}
         \cup Saving

-----------------------------------------------------------------------------
Of(t) == ProcessOf[t]

(* Variant with a bug: the version is not compared. *)
IsStaleByTime(entry, p) == now > entry.at + TTL

IsStale(entry, p) ==
  \/ now > entry.at + TTL
  \/ entry.version # version[p]

Init ==
  /\ served = [c \in Cluster |-> [k \in Key |-> 0]]
  /\ gitVersion = [c \in Cluster |-> 0]
  /\ since = [c \in Cluster |-> [v \in 0 .. MaxChanges |-> [k \in Key |-> 0]]]
  /\ now = 0
  /\ file = [k \in Key |-> None]
  /\ cluster \in [Process -> Cluster]
  /\ version = [p \in Process |-> 0]
  /\ memory = [p \in Process |-> [k \in Key |-> None]]
  /\ permits = [p \in Process |-> MaxFetches]
  /\ pc = [t \in Task |-> "idle"]
  /\ asked = [t \in Task |-> CHOOSE k \in Key : TRUE]
  /\ got = [t \in Task |-> None]
  /\ answer = [t \in Task |-> None]
  /\ started = [p \in Process |-> 0]
  /\ warm = [t \in Task |-> FALSE]
  /\ damaged = [k \in Key |-> FALSE]
  /\ calls = 0 /\ stops = 0 /\ changes = 0

At(t, step) == pc[t] = step
WritesTo(t, k) == At(t, "write") /\ asked[t] = k
Goto(t, step) == pc' = [pc EXCEPT ![t] = step]

Answer(t, a) ==
  /\ Goto(t, "idle")
  /\ answer' = [answer EXCEPT ![t] = a]
  /\ got' = [got EXCEPT ![t] = None]

Release(t) == permits' = [permits EXCEPT ![Of(t)] = @ + 1]

(* A step of get_or_fetch changes nothing of the world. *)
Local == UNCHANGED <<worldVars, processVars, countVars, asked, warm>>

(* get_schema: for these there is nothing to look up. *)
BuiltIn(t, k) ==
  /\ At(t, "idle")
  /\ k \in Covered
  /\ calls < MaxCalls
  /\ calls' = calls + 1
  /\ asked' = [asked EXCEPT ![t] = k]
  /\ warm' = [warm EXCEPT ![t] = FALSE]
  /\ answer' = [answer EXCEPT ![t] = Empty]
  /\ UNCHANGED <<worldVars, file, processVars, memory, permits, pc, got, damaged,
                 stops, changes>>

Ask(t, k) ==
  /\ At(t, "idle")
  /\ k \notin Covered
  /\ calls < MaxCalls
  /\ calls' = calls + 1
  /\ asked' = [asked EXCEPT ![t] = k]
  /\ warm' = [warm EXCEPT ![t] = memory[Of(t)][k] # None]
  /\ answer' = [answer EXCEPT ![t] = None]
  /\ Goto(t, "memory")
  /\ UNCHANGED <<worldVars, file, processVars, memory, permits, got, damaged,
                 stops, changes>>

Hit(t) ==
  /\ At(t, "memory")
  /\ memory[Of(t)][asked[t]] # None
  /\ Answer(t, memory[Of(t)][asked[t]].schema)
  /\ Local /\ UNCHANGED <<file, memory, permits, damaged>>

Miss(t) ==
  /\ At(t, "memory")
  /\ memory[Of(t)][asked[t]] = None
  /\ Goto(t, "disk")
  /\ Local /\ UNCHANGED <<file, memory, permits, got, answer, damaged>>

(* load_from_disk: whether the file exists is asked before it is read. *)
NoFile(t) ==
  /\ At(t, "disk")
  /\ file[asked[t]] = None
  /\ Goto(t, "wait")
  /\ Local /\ UNCHANGED <<file, memory, permits, got, answer, damaged>>

FileExists(t) ==
  /\ At(t, "disk")
  /\ file[asked[t]] # None
  /\ Goto(t, "load")
  /\ Local /\ UNCHANGED <<file, memory, permits, got, answer, damaged>>

(* The file is gone by now, cannot be read or cannot be parsed. *)
LoadFails(t) ==
  /\ At(t, "load")
  /\ file[asked[t]] \in {None, Torn}
  /\ Answer(t, Empty)
  /\ Local /\ UNCHANGED <<file, memory, permits, damaged>>

Load(t) ==
  /\ At(t, "load")
  /\ file[asked[t]] \in Entry
  /\ ~IsStale(file[asked[t]], Of(t))
  /\ got' = [got EXCEPT ![t] = file[asked[t]]]
  /\ Goto(t, "keep")
  /\ Local /\ UNCHANGED <<file, memory, permits, answer, damaged>>

LoadStale(t) ==
  /\ At(t, "load")
  /\ file[asked[t]] \in Entry
  /\ IsStale(file[asked[t]], Of(t))
  /\ Goto(t, "remove")
  /\ Local /\ UNCHANGED <<file, memory, permits, got, answer, damaged>>

(* Whatever is there by now is removed, also while others write it. *)
Remove(t) ==
  /\ At(t, "remove")
  /\ file' = [file EXCEPT ![asked[t]] = None]
  /\ pc' = [u \in Task |-> IF u = t THEN "wait"
                           ELSE IF WritesTo(u, asked[t]) THEN "lost" ELSE pc[u]]
  /\ Local /\ UNCHANGED <<memory, permits, got, answer, damaged>>

RemoveFails(t) ==
  /\ At(t, "remove")
  /\ Goto(t, "wait")
  /\ Local /\ UNCHANGED <<file, memory, permits, got, answer, damaged>>

Keep(t) ==
  /\ At(t, "keep")
  /\ memory' = [memory EXCEPT ![Of(t)][asked[t]] = got[t]]
  /\ Answer(t, got[t].schema)
  /\ Local /\ UNCHANGED <<file, permits, damaged>>

-----------------------------------------------------------------------------
(* Fetching.  Nothing is looked at again once the permit is there.         *)

(* Variant with a bug: the permit is dropped as soon as it was acquired. *)
AcquireAndDrop(t) ==
  /\ At(t, "wait")
  /\ permits[Of(t)] > 0
  /\ Goto(t, "fetch")
  /\ Local /\ UNCHANGED <<file, memory, permits, got, answer, damaged>>

Acquire(t) ==
  /\ At(t, "wait")
  /\ permits[Of(t)] > 0
  /\ permits' = [permits EXCEPT ![Of(t)] = @ - 1]
  /\ Goto(t, "fetch")
  /\ Local /\ UNCHANGED <<file, memory, got, answer, damaged>>

(* The answer of the server, remembered at once. *)
Fetch(t) ==
  LET p == Of(t)
      k == asked[t]
      fetched == [schema |-> [key |-> k, cluster |-> cluster[p],
                              rev |-> served[cluster[p]][k]],
                  version |-> version[p], at |-> now]
  IN  /\ At(t, "fetch")
      /\ got' = [got EXCEPT ![t] = fetched]
      /\ memory' = [memory EXCEPT ![p][k] = fetched]
      /\ Goto(t, "save")
      /\ Local /\ UNCHANGED <<file, permits, answer, damaged>>

(* Variant with a bug: the permit is kept. *)
FetchFailsAndLeaks(t) ==
  /\ At(t, "fetch")
  /\ Answer(t, Empty)
  /\ Local /\ UNCHANGED <<file, memory, permits, damaged>>

(* Variant with a bug: the failure is remembered. *)
FetchFailsForGood(t) ==
  /\ At(t, "fetch")
  /\ memory' = [memory EXCEPT ![Of(t)][asked[t]] =
                  [schema |-> Empty, version |-> version[Of(t)], at |-> now]]
  /\ Release(t)
  /\ Answer(t, Empty)
  /\ Local /\ UNCHANGED <<file, damaged>>

FetchFails(t) ==
  /\ At(t, "fetch")
  /\ Release(t)
  /\ Answer(t, Empty)
  /\ Local /\ UNCHANGED <<file, memory, damaged>>

(* save_to_disk, best effort: the entry is made, then the file is truncated. *)
Truncate(t) ==
  /\ At(t, "save")
  /\ got' = [got EXCEPT ![t].at = now]
  /\ file' = [file EXCEPT ![asked[t]] = Torn]
  /\ Goto(t, "write")
  /\ Local /\ UNCHANGED <<memory, permits, answer, damaged>>

Overlaps(t) ==
  \/ file[asked[t]] # Torn
  \/ \E u \in Task \ {t} : WritesTo(u, asked[t])

(* Variant with a bug: the content is never written. *)
WriteNothing(t) ==
  /\ At(t, "write")
  /\ Release(t)
  /\ Answer(t, got[t].schema)
  /\ Local /\ UNCHANGED <<file, memory, damaged>>

(* Two writers each write from the start: what is left may be parts of both. *)
Write(t) ==
  LET k == asked[t]
  IN  /\ At(t, "write")
      /\ \/ /\ file' = [file EXCEPT ![k] = got[t]]
            /\ damaged' = [damaged EXCEPT ![k] = @ /\ Overlaps(t)]
         \/ /\ Overlaps(t)
            /\ file' = [file EXCEPT ![k] = Torn]
            /\ damaged' = [damaged EXCEPT ![k] = TRUE]
      /\ Release(t)
      /\ Answer(t, got[t].schema)
      /\ Local /\ UNCHANGED <<memory>>

(* The directory or the file cannot be opened, or what was open is gone. *)
SaveFails(t) ==
  /\ At(t, "save") \/ At(t, "lost")
  /\ Release(t)
  /\ Answer(t, got[t].schema)
  /\ Local /\ UNCHANGED <<file, memory, damaged>>

(* The write stops part way. *)
WriteFails(t) ==
  /\ At(t, "write")
  /\ file' = [file EXCEPT ![asked[t]] = Torn]
  /\ damaged' = [damaged EXCEPT ![asked[t]] = TRUE]
  /\ Release(t)
  /\ Answer(t, got[t].schema)
  /\ Local /\ UNCHANGED <<memory>>

Step(t) ==
  \/ Hit(t) \/ Miss(t)
  \/ NoFile(t) \/ FileExists(t) \/ LoadFails(t) \/ Load(t) \/ LoadStale(t)
  \/ Remove(t) \/ RemoveFails(t) \/ Keep(t)
  \/ Acquire(t) \/ Fetch(t) \/ FetchFails(t)
  \/ Truncate(t) \/ Write(t) \/ SaveFails(t) \/ WriteFails(t)

-----------------------------------------------------------------------------
(* The process is killed, and started again against any cluster. *)
Restart(p, c) ==
  LET own == {t \in Task : Of(t) = p}
      cut == {k \in Key : \E t \in own : WritesTo(t, k)}
  IN  /\ stops < MaxStops
      /\ stops' = stops + 1
      /\ cluster' = [cluster EXCEPT ![p] = c]
      /\ version' = [version EXCEPT ![p] = gitVersion[c]]
      /\ started' = [started EXCEPT ![p] = now]
      /\ memory' = [memory EXCEPT ![p] = [k \in Key |-> None]]
      /\ permits' = [permits EXCEPT ![p] = MaxFetches]
      /\ pc' = [t \in Task |-> IF t \in own THEN "idle" ELSE pc[t]]
      /\ got' = [t \in Task |-> IF t \in own THEN None ELSE got[t]]
      /\ answer' = [t \in Task |-> IF t \in own THEN None ELSE answer[t]]
      /\ warm' = [t \in Task |-> t \notin own /\ warm[t]]
      /\ file' = [k \in Key |-> IF k \in cut THEN Torn ELSE file[k]]
      /\ damaged' = [k \in Key |-> k \in cut \/ damaged[k]]
      /\ UNCHANGED <<worldVars, asked, calls, changes>>

(* A CRD is changed, with or without an upgrade of its cluster. *)
Change(c, k) ==
  /\ changes < MaxChanges
  /\ changes' = changes + 1
  /\ served' = [served EXCEPT ![c][k] = @ + 1]
  /\ \/ UNCHANGED <<gitVersion, since>>
     \/ /\ gitVersion' = [gitVersion EXCEPT ![c] = @ + 1]
        /\ since' = [since EXCEPT ![c][gitVersion[c] + 1] = served'[c]]
  /\ UNCHANGED <<now, file, processVars, memory, permits, pc, taskVars, got,
                 answer, damaged, calls, stops>>

Tick ==
  /\ now < MaxTime
  /\ now' = now + 1
  /\ UNCHANGED <<served, gitVersion, since, file, processVars, memory, permits, pc,
                 taskVars, got, answer, damaged, countVars>>

Next ==
  \/ \E t \in Task, k \in Key : Ask(t, k) \/ BuiltIn(t, k)
  \/ \E t \in Task : Step(t)
  \/ \E p \in Process, c \in Cluster : Restart(p, c)
  \/ \E c \in Cluster, k \in Key : Change(c, k)
  \/ Tick

Spec == Init /\ [][Next]_vars

(* The runtime goes on with every task that can go on. *)
FairSpec == Spec /\ \A t \in Task : WF_vars(Step(t))

-----------------------------------------------------------------------------
(* Properties.                                                             *)

TypeOK ==
  /\ served \in [Cluster -> [Key -> Nat]]
  /\ gitVersion \in [Cluster -> Nat]
  /\ since \in [Cluster -> [0 .. MaxChanges -> [Key -> Nat]]]
  /\ now \in 0 .. MaxTime
  /\ file \in [Key -> Entry \cup {None, Torn}]
  /\ cluster \in [Process -> Cluster]
  /\ version \in [Process -> Nat]
  /\ memory \in [Process -> [Key -> Entry \cup {None}]]
  /\ permits \in [Process -> 0 .. MaxFetches]
  /\ pc \in [Task -> Steps]
  /\ asked \in [Task -> Key]
  /\ got \in [Task -> Entry \cup {None}]
  /\ \A t \in Task : pc[t] \in {"keep"} \cup Saving => got[t] \in Entry
  /\ answer \in [Task -> Schema \cup {None, Empty}]
  /\ started \in [Process -> 0 .. MaxTime]
  /\ warm \in [Task -> BOOLEAN]
  /\ damaged \in [Key -> BOOLEAN]
  /\ calls \in 0 .. MaxCalls
  /\ stops \in 0 .. MaxStops
  /\ changes \in 0 .. MaxChanges

(* What a process goes by, whoever wrote it and however the writers and
   readers of its file interleaved, belongs to the key, was extracted under
   the version that the process's own cluster reported, and was at most TTL
   old when the process began.  (CachedSchema::is_stale.) *)
FreshWhenLoaded ==
  \A p \in Process, k \in Key :
    memory[p][k] # None =>
      /\ memory[p][k].schema.key = k
      /\ memory[p][k].version = version[p]
      /\ memory[p][k].at + TTL >= started[p]

(* A file that cannot be parsed is one that is being written, or one whose
   write was cut short or overlapped with another.  (save_to_disk.) *)
TornHasCause ==
  \A k \in Key :
    file[k] = Torn => damaged[k] \/ \E t \in Task : WritesTo(t, k)

(* Once a process has the schema of a key, no call goes without it, though
   others of its tasks fail to fetch the same schema afterwards.  (get_schema
   turns every error into an empty schema.) *)
RememberedIsAnswered ==
  \A t \in Task : warm[t] => answer[t] # Empty

(* Every call is answered as SchemaPromise says: with a schema as a cluster
   served it since it came to the version that this process saw, whichever
   process fetched it and under whichever version, or with none if none was
   known when it began.  (get_schema, CachedSchema.) *)
Promise ==
  INSTANCE SchemaPromise
  WITH known   <- [p \in Process |-> {k \in Key : memory[p][k] # None}],
       calling <- [t \in Task |-> ~At(t, "idle")]

KeepsPromise == Promise!Spec

(* Every call returns, though fetches fail and more tasks than there are
   permits wait.  (get_or_fetch, the semaphore.) *)
EveryCallReturns == \A t \in Task : ~At(t, "idle") ~> At(t, "idle")
=============================================================================
