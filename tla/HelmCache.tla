------------------------------ MODULE HelmCache ------------------------------
(***************************************************************************)
(* The cache of Helm renders (crates/rtk-jsonnet-helm): a map and a mutex  *)
(* per key in each rtk process, and with --helm-cache a directory of       *)
(* entries that processes share and that outlives them.                    *)
(*                                                                         *)
(* Modelled: every step of Function::cached_or_compute and of              *)
(* Cache::write_disk, the walk that hashes the chart and helm's own        *)
(* reading of it, one file at a time, against an editor that saves files   *)
(* meanwhile; processes that end or are killed at any point; hours that    *)
(* pass and the sweep of abandoned temporaries; every step that can fail.  *)
(* One call's arguments are fixed: a key stands for the chart's contents,  *)
(* and a call with other arguments has keys of its own.                    *)
(***************************************************************************)
EXTENDS RenderService, FiniteSets

CONSTANTS
    Process,         \* the rtk processes that share the cache directory
    ProcessOf,       \* the process of each worker
    Unasked,         \* the identity of helm, before a process first asks it
    Reverts,         \* TRUE: an edit may bring back a version a file had before
    UpgradesMidRun,  \* TRUE: helm may be replaced while a process uses it
    MaxCalls,        \* bound: calls of helmTemplate, in all
    MaxStops         \* bound: ends of a process, for each of them

ASSUME WorkerAssumption == ProcessOf \in [Worker -> Process]
ASSUME FileAssumption == File \subseteq Nat /\ MaxVersion \in Nat
ASSUME SwitchAssumption == Reverts \in BOOLEAN /\ UpgradesMidRun \in BOOLEAN
ASSUME BoundAssumption == MaxCalls \in Nat /\ MaxStops \in Nat
ASSUME NothingAssumption ==
    /\ Nothing \notin Worker \cup Helm \cup Render \cup Key \cup {Failed, Unasked}
    /\ Failed \notin Render
    /\ Unasked \notin Helm

VARIABLES
    values,        \* Cache::values: per process, the render of each key
    computations,  \* Cache::computations: per process and key, who holds the mutex
    identity,      \* State::helm_identity: per process, the helm that answered
    disk,          \* the entries of the cache directory, by key and identity
    temporaries,   \* the temporaries in it: <<worker, life of its process>>
    old,           \* those of them that are over an hour old
    life,          \* how often each process has been started again
    pc,            \* what each worker does next
    unread,        \* the chart's files that its walk, or its helm, has yet to read
    seen,          \* what the walk of the chart has read so far
    key,           \* the key of the call, Nothing when the render is not cached
    value,         \* what helm has read so far, and which helm it is
    calls          \* calls made so far

processVars == <<values, computations, identity, life>>
directoryVars == <<disk, temporaries, old>>
workVars == <<unread, seen, key, value>>
vars == <<serviceVars, processVars, directoryVars, workVars, pc, calls>>

Life == 0..MaxStops
Blank == [f \in File |-> 0]
NoRender == [files |-> Blank, helm |-> CHOOSE h \in Helm : TRUE]

\* Steps between taking the mutex of the call's key, if it has one, and returning.
Guarded == {"again", "identity", "disk", "spawn", "render", "rekey", "create",
            "write", "persist"}

TypeOK ==
    /\ chart \in Key
    /\ helm \in Helm
    /\ began \in [Worker -> Key \cup {Nothing}]
    /\ answer \in [Worker -> Render \cup {Nothing, Failed}]
    /\ values \in [Process -> [Key -> Render \cup {Nothing}]]
    /\ computations \in [Process -> [Key -> Worker \cup {Nothing}]]
    /\ identity \in [Process -> Helm \cup {Unasked, Nothing}]
    /\ disk \in [Key \X Helm -> Render \cup {Nothing}]
    /\ temporaries \subseteq Worker \X Life
    /\ old \subseteq temporaries
    /\ life \in [Process -> Life]
    /\ pc \in [Worker -> {"idle", "key", "get", "lock", "answered"} \cup Guarded]
    /\ unread \in [Worker -> SUBSET File]
    /\ seen \in [Worker -> Key]
    /\ key \in [Worker -> Key \cup {Nothing}]
    /\ value \in [Worker -> Render]
    /\ calls \in 0..MaxCalls

Init ==
    /\ ServiceInit
    /\ values = [p \in Process |-> [k \in Key |-> Nothing]]
    /\ computations = [p \in Process |-> [k \in Key |-> Nothing]]
    /\ identity = [p \in Process |-> Unasked]
    /\ disk = [d \in Key \X Helm |-> Nothing]
    /\ temporaries = {}
    /\ old = {}
    /\ life = [p \in Process |-> 0]
    /\ pc = [w \in Worker |-> "idle"]
    /\ unread = [w \in Worker |-> {}]
    /\ seen = [w \in Worker |-> Blank]
    /\ key = [w \in Worker |-> Nothing]
    /\ value = [w \in Worker |-> NoRender]
    /\ calls = 0

-----------------------------------------------------------------------------
(* Helpers.                                                                *)

Goto(w, step) == pc' = [pc EXCEPT ![w] = step]

\* The process's memory, as worker w sees it.
Remembered(w) == values[ProcessOf[w]][key[w]]

\* Cache::insert.
Insert(w, render) ==
    values' = [values EXCEPT ![ProcessOf[w]] =
                  [@ EXCEPT ![key[w]] = render]]

(* Variant with a bug: the guard is released only once a render is stored. *)
UnlockOnceStored(w) ==
    IF key[w] # Nothing /\ Remembered(w) # Nothing
      THEN computations' = [computations EXCEPT ![ProcessOf[w]] =
                               [k \in Key |-> IF @[k] = w THEN Nothing ELSE @[k]]]
      ELSE UNCHANGED computations

\* The guard is dropped when cached_or_compute returns, whichever way it does.
Unlock(w) ==
    computations' = [computations EXCEPT ![ProcessOf[w]] =
                        [k \in Key |-> IF @[k] = w THEN Nothing ELSE @[k]]]

\* The call returns `result`; what it worked with is dropped.
Return(w, result) ==
    /\ answer' = [answer EXCEPT ![w] = result]
    /\ began' = [began EXCEPT ![w] = Nothing]
    /\ unread' = [unread EXCEPT ![w] = {}]
    /\ seen' = [seen EXCEPT ![w] = Blank]
    /\ key' = [key EXCEPT ![w] = Nothing]
    /\ value' = [value EXCEPT ![w] = NoRender]
    /\ Unlock(w)
    /\ Goto(w, "answered")
    /\ UNCHANGED <<chart, helm, identity, life, calls>>

\* Start reading the chart from its first file.
StartReading(w) == unread' = [unread EXCEPT ![w] = File]

\* The temporary of worker w's present write.
Temporary(w) == <<w, life[ProcessOf[w]]>>

-----------------------------------------------------------------------------
(* The world outside: the editor, helm's installation, the clock.          *)

\* A file of the chart is saved, created or removed: one step per file.
Edit ==
    /\ \E f \in File, v \in Version :
          /\ v # chart[f]
          /\ Reverts \/ v > chart[f]
          /\ chart' = [chart EXCEPT ![f] = v]
    /\ UNCHANGED <<helm, began, answer, processVars, directoryVars, workVars, pc, calls>>

\* A process that has rendered nothing yet and knows no helm.
Untouched(p) ==
    /\ identity[p] = Unasked
    /\ \A k \in Key : values[p][k] = Nothing
    /\ \A w \in Worker : ProcessOf[w] = p => pc[w] = "idle"

\* Another helm is installed.
Upgrade ==
    /\ UpgradesMidRun \/ \A p \in Process : Untouched(p)
    /\ helm' \in Helm \ {helm}
    /\ UNCHANGED <<chart, began, answer, processVars, directoryVars, workVars, pc, calls>>

\* An hour passes: no temporary is recent any more.
Hour ==
    /\ old' = temporaries
    /\ UNCHANGED <<serviceVars, processVars, disk, temporaries, workVars, pc, calls>>

(* The process ends, or is killed, and rtk is started again: what it kept  *)
(* in memory is gone, and a temporary it was writing stays where it is.    *)
Stop(p) ==
    /\ life[p] < MaxStops
    /\ ~Untouched(p)
    /\ LET workers == {w \in Worker : ProcessOf[w] = p}
           Reset(f, blank) == [w \in Worker |-> IF w \in workers THEN blank ELSE f[w]]
       IN  /\ began' = Reset(began, Nothing)
           /\ answer' = Reset(answer, Nothing)
           /\ pc' = Reset(pc, "idle")
           /\ unread' = Reset(unread, {})
           /\ seen' = Reset(seen, Blank)
           /\ key' = Reset(key, Nothing)
           /\ value' = Reset(value, NoRender)
    /\ values' = [values EXCEPT ![p] = [k \in Key |-> Nothing]]
    /\ computations' = [computations EXCEPT ![p] = [k \in Key |-> Nothing]]
    /\ identity' = [identity EXCEPT ![p] = Unasked]
    /\ life' = [life EXCEPT ![p] = @ + 1]
    /\ UNCHANGED <<chart, helm, directoryVars, calls>>

-----------------------------------------------------------------------------
(* Function::cached_or_compute.                                            *)

(* The call begins.  Its key is the chart's contents, unless helm cannot   *)
(* say which namespace it would use: then it is rendered without a key.    *)
Call(w) ==
    /\ pc[w] = "idle"
    /\ calls < MaxCalls
    /\ calls' = calls + 1
    /\ began' = [began EXCEPT ![w] = chart]
    /\ \/ Goto(w, "key") /\ StartReading(w)
       \/ Goto(w, "spawn") /\ UNCHANGED unread
    /\ UNCHANGED <<chart, helm, answer, processVars, directoryVars, seen, key, value>>

\* KeyBuilder::chart hashes the next file, in the order of their paths.
HashFile(w) ==
    /\ pc[w] \in {"key", "rekey"}
    /\ \E f \in unread[w] :
          /\ \A g \in unread[w] : f <= g
          /\ seen' = [seen EXCEPT ![w] = [@ EXCEPT ![f] = chart[f]]]
          /\ unread' = [unread EXCEPT ![w] = @ \ {f}]
    /\ UNCHANGED <<serviceVars, processVars, directoryVars, key, value, pc, calls>>

\* A file vanishes, or changes length, while it is hashed: render without a key.
HashFails(w) ==
    /\ pc[w] = "key"
    /\ unread[w] # {}
    /\ seen' = [seen EXCEPT ![w] = Blank]
    /\ unread' = [unread EXCEPT ![w] = {}]
    /\ Goto(w, "spawn")
    /\ UNCHANGED <<serviceVars, processVars, directoryVars, key, value, calls>>

HashDone(w) ==
    /\ pc[w] = "key"
    /\ unread[w] = {}
    /\ key' = [key EXCEPT ![w] = seen[w]]
    /\ seen' = [seen EXCEPT ![w] = Blank]
    /\ Goto(w, "get")
    /\ UNCHANGED <<serviceVars, processVars, directoryVars, unread, value, calls>>

\* Look the key up in memory, before and again after taking its mutex.
Hit(w) ==
    /\ pc[w] \in {"get", "again"}
    /\ Remembered(w) # Nothing
    /\ Return(w, Remembered(w))
    /\ UNCHANGED <<values, directoryVars>>

Miss(w) ==
    /\ pc[w] \in {"get", "again"}
    /\ Remembered(w) = Nothing
    /\ Goto(w, IF pc[w] = "get" THEN "lock" ELSE "identity")
    /\ UNCHANGED <<serviceVars, processVars, directoryVars, workVars, calls>>

(* Variant with a bug: memory is not looked at again under the mutex. *)
LockAndGoOn(w) ==
    /\ pc[w] = "lock"
    /\ computations[ProcessOf[w]][key[w]] = Nothing
    /\ computations' = [computations EXCEPT ![ProcessOf[w]] =
                           [@ EXCEPT ![key[w]] = w]]
    /\ Goto(w, "identity")
    /\ UNCHANGED <<serviceVars, values, identity, life, directoryVars, workVars, calls>>

\* Take the mutex of the key, once nobody in the process holds it.
Lock(w) ==
    /\ pc[w] = "lock"
    /\ computations[ProcessOf[w]][key[w]] = Nothing
    /\ computations' = [computations EXCEPT ![ProcessOf[w]] =
                           [@ EXCEPT ![key[w]] = w]]
    /\ Goto(w, "again")
    /\ UNCHANGED <<serviceVars, values, identity, life, directoryVars, workVars, calls>>

(* Variant with a bug: that helm gave no answer is kept as its answer. *)
IdentifyAnyhow(w) ==
    LET p == ProcessOf[w]
    IN  /\ pc[w] = "identity"
        /\ IF identity[p] = Unasked
             THEN \E known \in {helm, Failed} :
                     identity' = [identity EXCEPT ![p] = known]
             ELSE UNCHANGED identity
        /\ Goto(w, "disk")
        /\ UNCHANGED <<serviceVars, values, computations, life, directoryVars,
                       workVars, calls>>

(* State::helm_identity: the process asks helm once and keeps the answer.  *)
(* Without one (or without --helm-cache) it renders and uses no entries.   *)
Identify(w) ==
    LET p == ProcessOf[w]
    IN  /\ pc[w] = "identity"
        /\ IF identity[p] = Unasked
             THEN \E known \in {helm, Nothing} :
                     identity' = [identity EXCEPT ![p] = known]
             ELSE UNCHANGED identity
        /\ Goto(w, IF identity'[p] = Nothing THEN "spawn" ELSE "disk")
        /\ UNCHANGED <<serviceVars, values, computations, life, directoryVars,
                       workVars, calls>>

(* Variant with a bug: the name of an entry leaves the helm out. *)
EntryOfAnyHelm(w) ==
    LET found == {h \in Helm : disk[<<key[w], h>>] # Nothing}
    IN  IF found = {} THEN Nothing
        ELSE disk[<<key[w], CHOOSE h \in found : TRUE>>]

\* The entry under the key and the identity of the process's helm.
Entry(w) == disk[<<key[w], identity[ProcessOf[w]]>>]

(* Cache::read_disk finds the entry.  A rename puts whole entries in place *)
(* and an open file stays the one that was opened, so this is one step.    *)
ReadDisk(w) ==
    /\ pc[w] = "disk"
    /\ Entry(w) # Nothing
    /\ Insert(w, Entry(w))
    /\ Return(w, Entry(w))
    /\ UNCHANGED directoryVars

\* There is no entry, or it cannot be read or decoded.
NoEntry(w) ==
    /\ pc[w] = "disk"
    /\ Goto(w, "spawn")
    /\ UNCHANGED <<serviceVars, processVars, directoryVars, workVars, calls>>

\* `helm template` is started: whichever helm is installed by now.
Spawn(w) ==
    /\ pc[w] = "spawn"
    /\ value' = [value EXCEPT ![w] = [files |-> Blank, helm |-> helm]]
    /\ StartReading(w)
    /\ Goto(w, "render")
    /\ UNCHANGED <<serviceVars, processVars, directoryVars, seen, key, calls>>

\* helm reads the files of the chart, in an order of its own.
HelmReads(w) ==
    /\ pc[w] = "render"
    /\ \E f \in unread[w] :
          /\ value' = [value EXCEPT ![w] =
                [files |-> [@.files EXCEPT ![f] = chart[f]], helm |-> @.helm]]
          /\ unread' = [unread EXCEPT ![w] = @ \ {f}]
    /\ UNCHANGED <<serviceVars, processVars, directoryVars, seen, key, pc, calls>>

\* helm fails, or cannot be run, or its output is not YAML.
RenderFails(w) ==
    /\ pc[w] \in {"spawn", "render"}
    /\ Return(w, Failed)
    /\ UNCHANGED <<values, directoryVars>>

\* The output of a render without a key is the answer; another is keyed again.
Rendered(w) ==
    /\ pc[w] = "render"
    /\ unread[w] = {}
    /\ IF key[w] = Nothing
         THEN Return(w, value[w])
         ELSE /\ Goto(w, "rekey")
              /\ StartReading(w)
              /\ UNCHANGED <<serviceVars, computations, identity, life, seen, key,
                             value, calls>>
    /\ UNCHANGED <<values, directoryVars>>

\* "helm inputs changed while rendering; result was not cached"
InputsChanged(w) ==
    /\ pc[w] = "rekey"
    /\ unread[w] # {} \/ seen[w] # key[w]
    /\ Return(w, value[w])
    /\ UNCHANGED <<values, directoryVars>>

(* Variant with a bug: the chart is read again, and not compared. *)
InputsStandAnyhow(w) ==
    /\ pc[w] = "rekey"
    /\ unread[w] = {}
    /\ Insert(w, value[w])
    /\ IF identity[ProcessOf[w]] = Nothing
         THEN Return(w, value[w])
         ELSE /\ Goto(w, "create")
              /\ UNCHANGED <<serviceVars, computations, identity, life, workVars, calls>>
    /\ UNCHANGED directoryVars

\* The chart still has the key: remember the render, and write it to the disk.
InputsStand(w) ==
    /\ pc[w] = "rekey"
    /\ unread[w] = {}
    /\ seen[w] = key[w]
    /\ Insert(w, value[w])
    /\ IF identity[ProcessOf[w]] = Nothing
         THEN Return(w, value[w])
         ELSE /\ Goto(w, "create")
              /\ UNCHANGED <<serviceVars, computations, identity, life, workVars, calls>>
    /\ UNCHANGED directoryVars

-----------------------------------------------------------------------------
(* Cache::write_disk.                                                      *)

\* sweep_abandoned_temporaries, then NamedTempFile::new_in.
CreateTemporary(w) ==
    /\ pc[w] = "create"
    /\ temporaries' = (temporaries \ old) \cup {Temporary(w)}
    /\ old' = {}
    /\ Goto(w, "write")
    /\ UNCHANGED <<serviceVars, processVars, disk, workVars, calls>>

\* The directory or the temporary cannot be created.
CreateFails(w) ==
    /\ pc[w] = "create"
    /\ \/ UNCHANGED <<temporaries, old>>
       \/ temporaries' = temporaries \ old /\ old' = {}
    /\ Return(w, value[w])
    /\ UNCHANGED <<values, disk>>

WriteTemporary(w) ==
    /\ pc[w] = "write"
    /\ Goto(w, "persist")
    /\ UNCHANGED <<serviceVars, processVars, directoryVars, workVars, calls>>

\* A temporary that is dropped deletes itself.
DropTemporary(w) ==
    /\ temporaries' = temporaries \ {Temporary(w)}
    /\ old' = old \ {Temporary(w)}

\* The temporary is renamed to the entry's name, over the entry that is there.
Persist(w) ==
    /\ pc[w] = "persist"
    /\ Temporary(w) \in temporaries
    /\ disk' = [disk EXCEPT ![<<key[w], identity[ProcessOf[w]]>>] = value[w]]
    /\ DropTemporary(w)
    /\ Return(w, value[w])
    /\ UNCHANGED values

(* Variant with a bug: the temporary is left where it is. *)
WriteFailsAndLeaks(w) ==
    /\ pc[w] \in {"write", "persist"}
    /\ Return(w, value[w])
    /\ UNCHANGED <<values, directoryVars>>

\* Encoding, flushing or renaming fails, the latter also when it was swept.
WriteFails(w) ==
    /\ pc[w] \in {"write", "persist"}
    /\ DropTemporary(w)
    /\ Return(w, value[w])
    /\ UNCHANGED <<values, disk>>

\* The evaluator takes the answer.
Take(w) ==
    /\ pc[w] = "answered"
    /\ answer' = [answer EXCEPT ![w] = Nothing]
    /\ Goto(w, "idle")
    /\ UNCHANGED <<chart, helm, began, processVars, directoryVars, workVars, calls>>

-----------------------------------------------------------------------------
\* What a worker does by itself once its call has begun.
Step(w) ==
    \/ HashFile(w) \/ HashFails(w) \/ HashDone(w)
    \/ Hit(w) \/ Miss(w) \/ Lock(w) \/ Identify(w)
    \/ ReadDisk(w) \/ NoEntry(w)
    \/ Spawn(w) \/ HelmReads(w) \/ RenderFails(w) \/ Rendered(w)
    \/ InputsChanged(w) \/ InputsStand(w)
    \/ CreateTemporary(w) \/ CreateFails(w)
    \/ WriteTemporary(w) \/ Persist(w) \/ WriteFails(w)
    \/ Take(w)

Next ==
    \/ Edit \/ Upgrade \/ Hour
    \/ \E p \in Process : Stop(p)
    \/ \E w \in Worker : Call(w) \/ Step(w)

Spec == Init /\ [][Next]_vars

(* Threads are scheduled and a helm that was started ends: a worker that   *)
(* can go on does.  Nothing obliges anybody to call, edit or upgrade.      *)
FairSpec == Spec /\ \A w \in Worker : WF_vars(Step(w))

-----------------------------------------------------------------------------
(* Properties.                                                             *)

(* An entry holds the render of exactly the inputs its key names, in every *)
(* process's memory, and on the disk also by exactly the helm under whose  *)
(* identity it is: the walk before the render and the walk after it catch  *)
(* every edit in between, though no walk sees the chart at one instant,    *)
(* and no failure, kill or race of processes publishes anything else.      *)
EntriesAreTrue ==
    /\ \A p \in Process, k \in Key :
          values[p][k] # Nothing => values[p][k].files = k
    /\ \A k \in Key, h \in Helm :
          disk[<<k, h>>] # Nothing => disk[<<k, h>>] = [files |-> k, helm |-> h]

\* Worker w is rendering for key k.
Rendering(w, k) == key[w] = k /\ pc[w] \in {"render", "rekey"}

(* A chart that several environments share is rendered once in a process:  *)
(* no render starts for a key that the process already has an answer for,  *)
(* or that another of its workers is rendering.                            *)
RenderedOnce ==
    [][\A w \in Worker :
          (pc[w] = "spawn" /\ pc'[w] = "render" /\ key[w] # Nothing) =>
              /\ Remembered(w) = Nothing
              /\ \A u \in Worker \ {w} :
                    ProcessOf[u] = ProcessOf[w] => ~Rendering(u, key[w])]_vars

(* Only a process that was ended outright leaves a temporary behind: every *)
(* other one is being written.                                             *)
OnlyStopsLeaveTemporaries ==
    \A t \in temporaries :
        \/ t[2] < life[ProcessOf[t[1]]]
        \/ pc[t[1]] \in {"write", "persist"}

(* The caches keep the promise of RenderService: an answer, cached or not, *)
(* is a render of files as they were during the call, by the present helm. *)
KeepsPromise == ServiceSpec

(* Every call returns: no worker waits for a mutex that is never released. *)
EveryCallReturns == \A w \in Worker : began[w] # Nothing ~> began[w] = Nothing
=============================================================================
