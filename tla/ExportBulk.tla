----------------------------- MODULE ExportBulk -----------------------------
(***************************************************************************)
(* Engine::export_bulk (rtk-environment/src/export/mod.rs): environments   *)
(* are discovered one at a time and handed to a pool of workers; each is   *)
(* evaluated, serialized in chunks and written file by file by the worker  *)
(* that took it; a fatal failure raises an abort flag that workers read    *)
(* once, before they start; when every environment has reported, the       *)
(* export is reconciled with the index: conflicts, pruning, recording.     *)
(*                                                                         *)
(* A behaviour is a sequence of at most MaxRuns exports into one output    *)
(* directory.  Between two of them the sources may change (another member  *)
(* of Projects), and any of them may be killed half way.                   *)
(*                                                                         *)
(* Workers are interchangeable and carry nothing from one environment to   *)
(* the next, so the state is kept per discovered item ("slot") and the     *)
(* pool is a bound on how many slots are being worked on.                  *)
(***************************************************************************)
EXTENDS OutputDir, Sequences, FiniteSets

CONSTANTS
  Env,          \* environments
  Broken,       \* an entrypoint that cannot be discovered
  IdentOf,      \* IdentOf[e]: metadata.namespace; the environments declared
                \* inline by one entrypoint share it
  Rev,          \* revisions of the project's sources
  Projects,     \* what an export can find
  Options,      \* the options it can be run with
  Faults,       \* which failures the instance lets happen
  Parallelism,  \* size of the worker pool
  ChunkSize,    \* CHUNK_SIZE
  MaxRuns,      \* bound: how many exports a behaviour makes
  MaxSlots      \* bound: how many items a project holds

Strategy == {"none", "fail-on-conflicts", "replace-envs"}

Fault == {"evaluate",   \* evaluating or planning an environment fails
          "serialize",  \* rendering a filename or a manifest fails
          "write",      \* a directory or a file cannot be written
          "delete",     \* a superseded file cannot be deleted
          "index",      \* manifest.json cannot be written
          "crash"}      \* the process is killed

Project == [found : Seq(Env \cup {Broken}),  \* in discovery order
            out   : [Env -> Seq(File)],      \* a file per manifest, in order
            rev   : Rev]

ASSUME ExportAssumption ==
  /\ Broken \notin Env
  /\ IdentOf \in [Env -> Ident]
  /\ Content = Env \X Rev
  /\ Projects \subseteq Project
  /\ Projects # {}
  /\ Options \subseteq [strategy : Strategy, skipManifest : BOOLEAN,
                        gone : SUBSET Ident]
  /\ Options # {}
  /\ Faults \subseteq Fault
  /\ Parallelism \in Nat \ {0}
  /\ ChunkSize \in Nat \ {0}
  /\ MaxRuns \in Nat
  /\ MaxSlots \in Nat
  /\ \A p \in Projects : Len(p.found) <= MaxSlots

VARIABLES
  runs,        \* exports started
  phase,       \* where the export is
  project,     \* what this export finds
  options,     \* what it was asked to do
  pulled,      \* slots handed to a worker so far
  slot,        \* slot[i]: how far the i-th discovered item has come
  landed,      \* landed[i]: how many of its files its report lists
  ready,       \* ready[i]: how many of its manifests are serialized
  abort,       \* the abort flag
  superseded,  \* files of a previous export, still to be pruned
  removed,     \* files that pruning found gone
  ledger,      \* the index in memory, while it is being written
  result,      \* what the last export returned
  unrecorded   \* history: some export ended without saving its index

poolVars == <<pulled, slot, landed, ready, abort>>
pruneVars == <<superseded, removed, ledger>>
vars == <<dirVars, runs, phase, project, options, poolVars, pruneVars,
          result, unrecorded>>

Waiting  == {"queued"}
Working  == {"pulled", "loading", "planned", "writing", "open"}
Finished == {"ok", "failed", "fatal", "skipped", "undiscovered"}

-----------------------------------------------------------------------------
(* The discovered items and what they say for themselves.                  *)

Slots == 1 .. Len(project.found)
Found(i) == project.found[i]
IsEnv(i) == Found(i) # Broken
Out(i) == project.out[Found(i)]
Rendered(i) == <<Found(i), project.rev>>
IdentAt(i) == IdentOf[Found(i)]

(* Variant with a bug: a skipped environment does not count as failed. *)
ReportFailedUnlessSkipped(i) == slot[i] \notin {"ok", "skipped"}

(* Report::failed: an environment that was skipped has failed too. *)
ReportFailed(i) == slot[i] # "ok"

(* Report::files: what reached the disk, whether or not the environment
   went on to fail. *)
Lists(i, j, f) == IsEnv(i) /\ j \in 1 .. landed[i] /\ Out(i)[j] = f
WrittenBy(f) == {i \in Slots : \E j \in 1 .. landed[i] : Lists(i, j, f)}
FilesWritten == {f \in File : WrittenBy(f) # {}}

(* Files are recorded in discovery order, so the last report has the file. *)
Claims ==
  [f \in FilesWritten |->
     IdentAt(CHOOSE i \in WrittenBy(f) : \A k \in WrittenBy(f) : k <= i)]

(* What reconcile may delete: the previous output of every environment that
   did not fail, if replacing, and that of the environments said to be gone. *)
Replaced ==
  IF options.strategy = "replace-envs"
  THEN FilesOf({IdentAt(i) : i \in {k \in Slots : IsEnv(k) /\ ~ReportFailed(k)}})
  ELSE {}
Supersedes == Replaced \cup FilesOf(options.gone)

(* Variant with a bug: only an environment's own files are compared. *)
DuplicateInOneReport ==
  \E f \in File, i \in Slots :
    \E j, l \in 1 .. landed[i] : j # l /\ Lists(i, j, f) /\ Lists(i, l, f)

(* Exported::claim_files, as what it finds rather than as the walk. *)
Duplicate ==
  \E f \in File, i, k \in Slots :
    \E j \in 1 .. landed[i], l \in 1 .. landed[k] :
      <<i, j>> # <<k, l>> /\ Lists(i, j, f) /\ Lists(k, l, f)
Foreign ==
  \E f \in FilesWritten \ Supersedes :
    \E i \in WrittenBy(f) : owner[f] \notin {NoOwner, IdentAt(i)}
Conflict == Duplicate \/ Foreign

TypeOK ==
  /\ DirTypeOK
  /\ runs \in Nat
  /\ phase \in {"idle", "exporting", "pruning", "saving"}
  /\ project \in Project
  /\ options \in [strategy : Strategy, skipManifest : BOOLEAN,
                  gone : SUBSET Ident]
  /\ pulled \in 0 .. Len(project.found)
  /\ slot \in [Slots -> Waiting \cup Working \cup Finished]
  /\ landed \in [Slots -> Nat]
  /\ ready \in [Slots -> Nat]
  /\ abort \in BOOLEAN
  /\ superseded \in SUBSET File
  /\ removed \in SUBSET File
  /\ ledger \in [File -> Ident \cup {NoOwner}]
  /\ result \in {"ok", "conflict", "discovery", "not-empty", "write",
                 "index", "crash"}
  /\ unrecorded \in BOOLEAN

Init ==
  /\ DirInit
  /\ runs = 0
  /\ phase = "idle"
  /\ project \in Projects
  /\ options \in Options
  /\ pulled = 0
  /\ slot = [i \in Slots |-> "queued"]
  /\ landed = [i \in Slots |-> 0]
  /\ ready = [i \in Slots |-> 0]
  /\ abort = FALSE
  /\ superseded = {}
  /\ removed = {}
  /\ ledger = owner
  /\ result = "ok"
  /\ unrecorded = FALSE

-----------------------------------------------------------------------------
(* Starting an export.                                                     *)

Idle == phase = "idle" /\ runs < MaxRuns

(* The options and the sources of this export, before anything happens. *)
Invoke(p, o) ==
  /\ Idle
  /\ runs' = runs + 1
  /\ project' = p
  /\ options' = o
  /\ pulled' = 0
  /\ slot' = [i \in 1 .. Len(p.found) |-> "queued"]
  /\ landed' = [i \in 1 .. Len(p.found) |-> 0]
  /\ ready' = [i \in 1 .. Len(p.found) |-> 0]
  /\ abort' = FALSE
  /\ superseded' = {}
  /\ removed' = {}
  /\ ledger' = owner
  /\ UNCHANGED <<dirVars, unrecorded>>

NothingFound(p) == p.found = <<>>
PeekFails(p) == p.found # <<>> /\ p.found[1] = Broken
Refuses(o) == o.strategy = "none" /\ ~IsEmptyDir

(* Nothing to export leaves no trace, and is an error when it was asked for by
   name or selector; options that do not compile, a failure
   to discover the first environment, a directory in use or one that cannot be
   created end the export before any worker starts. *)
Return(p, o) ==
  /\ Invoke(p, o)
  /\ \/ NothingFound(p) /\ result' \in {"ok", "discovery"}
     \/ PeekFails(p) /\ result' = "discovery"
     \/ ~NothingFound(p) /\ ~PeekFails(p) /\ Refuses(o) /\ result' = "not-empty"
     \/ /\ ~NothingFound(p) /\ ~PeekFails(p) /\ ~Refuses(o)
        /\ "write" \in Faults
        /\ result' = "write"
  /\ UNCHANGED phase

Start(p, o) ==
  /\ Invoke(p, o)
  /\ ~NothingFound(p) /\ ~PeekFails(p) /\ ~Refuses(o)
  /\ phase' = "exporting"
  /\ UNCHANGED result

-----------------------------------------------------------------------------
(* The pool.  Each action below is a step of the worker that holds slot i. *)

poolUnchanged == <<indexFile, owner, runs, phase, project, options, pulled,
                   pruneVars, result, unrecorded>>

Turn(i, from) == phase = "exporting" /\ slot[i] = from

(* Variant with a bug: one item too many is asked for. *)
PullPastTheEnd ==
  /\ phase = "exporting"
  /\ pulled <= Len(project.found)
  /\ Cardinality({i \in Slots : slot[i] \in Working}) < Parallelism
  /\ pulled' = pulled + 1
  /\ slot' = [slot EXCEPT ![pulled + 1] = "pulled"]
  /\ UNCHANGED <<dirVars, runs, phase, project, options, landed, ready, abort,
                 pruneVars, result, unrecorded>>

(* par_bridge hands out the next item of the discovery iterator. *)
Pull ==
  /\ phase = "exporting"
  /\ pulled < Len(project.found)
  /\ Cardinality({i \in Slots : slot[i] \in Working}) < Parallelism
  /\ pulled' = pulled + 1
  /\ slot' = [slot EXCEPT ![pulled + 1] = "pulled"]
  /\ UNCHANGED <<dirVars, runs, phase, project, options, landed, ready, abort,
                 pruneVars, result, unrecorded>>

(* An item that is a discovery failure stops the export. *)
Undiscovered(i) ==
  /\ Turn(i, "pulled") /\ ~IsEnv(i)
  /\ slot' = [slot EXCEPT ![i] = "undiscovered"]
  /\ abort' = TRUE
  /\ UNCHANGED <<disk, landed, ready, poolUnchanged>>

(* run_environment reads the flag once, before it evaluates anything. *)
Begin(i) ==
  /\ Turn(i, "pulled") /\ IsEnv(i)
  /\ slot' = [slot EXCEPT ![i] = IF abort THEN "skipped" ELSE "loading"]
  /\ UNCHANGED <<disk, landed, ready, abort, poolUnchanged>>

(* Variant with a bug: any failure raises the flag. *)
FailAborts(i, how) ==
  /\ slot' = [slot EXCEPT ![i] = how]
  /\ abort' = TRUE
  /\ UNCHANGED <<disk, landed, ready, poolUnchanged>>

(* The error is put in the report; a fatal one raises the flag. *)
Fail(i, how) ==
  /\ slot' = [slot EXCEPT ![i] = how]
  /\ abort' = (abort \/ how = "fatal")
  /\ UNCHANGED <<disk, landed, ready, poolUnchanged>>

(* Variant with a bug: an environment that fails to load is tried again. *)
LoadIsRetried(i) ==
  /\ Turn(i, "loading") /\ "evaluate" \in Faults
  /\ slot' = [slot EXCEPT ![i] = "pulled"]
  /\ UNCHANGED <<disk, landed, ready, abort, poolUnchanged>>

(* Evaluating fails for one environment; a name that cannot be selected or a
   template that cannot be rendered is fatal. *)
LoadFails(i) ==
  /\ Turn(i, "loading") /\ "evaluate" \in Faults
  /\ \E how \in {"failed", "fatal"} : Fail(i, how)

Load(i) ==
  /\ Turn(i, "loading")
  /\ slot' = [slot EXCEPT ![i] = "planned"]
  /\ UNCHANGED <<disk, landed, ready, abort, poolUnchanged>>

(* Between two chunks: everything serialized has been written. *)
MoreToSerialize(i) == Turn(i, "planned") /\ landed[i] < Len(Out(i))
ChunkEnd(i) == IF landed[i] + ChunkSize < Len(Out(i))
               THEN landed[i] + ChunkSize ELSE Len(Out(i))

Serialize(i) ==
  /\ MoreToSerialize(i)
  /\ slot' = [slot EXCEPT ![i] = "writing"]
  /\ ready' = [ready EXCEPT ![i] = ChunkEnd(i)]
  /\ UNCHANGED <<disk, landed, abort, poolUnchanged>>

SerializeFails(i) ==
  /\ MoreToSerialize(i) /\ "serialize" \in Faults
  /\ \E how \in {"failed", "fatal"} : Fail(i, how)

Finish(i) ==
  /\ Turn(i, "planned") /\ landed[i] = Len(Out(i))
  /\ slot' = [slot EXCEPT ![i] = "ok"]
  /\ UNCHANGED <<disk, landed, ready, abort, poolUnchanged>>

(* File::write_to compares, then truncates and writes.  NextFile(i) is the
   file of the first serialized manifest that is not yet on disk. *)
NextFile(i) == Out(i)[landed[i] + 1]

(* The file is recorded as it lands; after the last of the chunk the worker
   goes back for the next one. *)
Land(i) ==
  /\ landed' = [landed EXCEPT ![i] = @ + 1]
  /\ slot' = [slot EXCEPT ![i] = IF landed[i] + 1 = ready[i]
                                 THEN "planned" ELSE "writing"]
  /\ UNCHANGED <<ready, abort, poolUnchanged>>

LeaveUnchanged(i) ==
  /\ Turn(i, "writing") /\ disk[NextFile(i)] = Rendered(i)
  /\ Land(i)
  /\ UNCHANGED disk

Truncate(i) ==
  /\ Turn(i, "writing") /\ disk[NextFile(i)] # Rendered(i)
  /\ slot' = [slot EXCEPT ![i] = "open"]
  /\ disk' = [disk EXCEPT ![NextFile(i)] = Torn]
  /\ UNCHANGED <<landed, ready, abort, poolUnchanged>>

(* Another slot that truncates, or truncated and gave up on, the same file. *)
Rival(i) ==
  \E k \in Slots \ {i} :
    /\ IsEnv(k) /\ slot[k] \in {"open", "failed"}
    /\ landed[k] < Len(Out(k)) /\ NextFile(k) = NextFile(i)

(* Every writer of a file writes from its own offset on: if another one
   completed since this one truncated it, or truncates it meanwhile, what is
   left may be parts of either. *)
Complete(i) ==
  /\ Turn(i, "open")
  /\ \E bytes \in {Rendered(i)} \cup
         (IF disk[NextFile(i)] # Torn \/ Rival(i) THEN {Torn} ELSE {}) :
       disk' = [disk EXCEPT ![NextFile(i)] = bytes]
  /\ Land(i)

(* The parent cannot be created or the file cannot be opened, or the write
   stops part way and the truncated file stays behind. *)
WriteFails(i) ==
  /\ "write" \in Faults
  /\ \/ Turn(i, "writing") /\ disk[NextFile(i)] # Rendered(i)
     \/ Turn(i, "open")
  /\ Fail(i, "failed")

SlotStep(i) ==
  \/ Undiscovered(i) \/ Begin(i)
  \/ Load(i) \/ LoadFails(i)
  \/ Serialize(i) \/ SerializeFails(i) \/ Finish(i)
  \/ LeaveUnchanged(i) \/ Truncate(i) \/ Complete(i) \/ WriteFails(i)

-----------------------------------------------------------------------------
(* Export::reconcile, once every slot has reported.                        *)

reconcileUnchanged == <<runs, project, options, poolVars>>

AllReported == \A i \in Slots : slot[i] \in Finished

(* Variant with a bug: a failed discovery is dropped once reconciled. *)
OutcomeWithoutDiscovery == IF Conflict THEN "conflict" ELSE "ok"

(* What export_bulk returns once the index is dealt with. *)
Outcome ==
  IF Conflict THEN "conflict"
  ELSE IF \E i \in Slots : slot[i] = "undiscovered" THEN "discovery" ELSE "ok"

IndexUnreadable ==
  /\ phase = "exporting" /\ AllReported /\ ~IndexReads
  /\ phase' = "idle"
  /\ result' = "index"
  /\ unrecorded' = TRUE
  /\ UNCHANGED <<dirVars, reconcileUnchanged, pruneVars>>

(* A conflict stops the export from deleting anything. *)
Reconcile ==
  /\ phase = "exporting" /\ AllReported /\ IndexReads
  /\ phase' = "pruning"
  /\ superseded' = IF Conflict THEN {} ELSE Supersedes \ FilesWritten
  /\ UNCHANGED <<dirVars, reconcileUnchanged, removed, ledger, result, unrecorded>>

(* Variant with a bug: a file that could not be deleted is forgotten. *)
PruneForgetsUndeletable(f) ==
  /\ phase = "pruning" /\ f \in superseded
  /\ superseded' = superseded \ {f}
  /\ removed' = removed \cup {f}
  /\ \/ disk' = [disk EXCEPT ![f] = NoFile]
     \/ "delete" \in Faults /\ disk[f] # NoFile /\ UNCHANGED disk
  /\ UNCHANGED <<indexFile, owner, runs, phase, project, options, poolVars,
                 ledger, result, unrecorded>>

(* Manifest::prune: a file already gone counts as deleted, one that cannot be
   deleted is passed over. *)
Prune(f) ==
  /\ phase = "pruning" /\ f \in superseded
  /\ superseded' = superseded \ {f}
  /\ \/ /\ disk' = [disk EXCEPT ![f] = NoFile]
        /\ removed' = removed \cup {f}
     \/ /\ "delete" \in Faults /\ disk[f] # NoFile
        /\ UNCHANGED <<disk, removed>>
  /\ UNCHANGED <<indexFile, owner, runs, phase, project, options, poolVars,
                 ledger, result, unrecorded>>

Pruned == phase = "pruning" /\ superseded = {}

SkipIndex ==
  /\ Pruned /\ options.skipManifest
  /\ phase' = "idle"
  /\ result' = Outcome
  /\ unrecorded' = TRUE
  /\ UNCHANGED <<dirVars, reconcileUnchanged, pruneVars>>

(* Manifest::write replaces the index in place: truncated first ... *)
TruncateIndex ==
  /\ Pruned /\ ~options.skipManifest
  /\ phase' = "saving"
  /\ ledger' = Reindexed(removed, Claims)
  /\ indexFile' = "torn"
  /\ UNCHANGED <<disk, owner, reconcileUnchanged, superseded, removed, result,
                 unrecorded>>

(* ... then written. *)
SaveIndex ==
  /\ phase = "saving"
  /\ phase' = "idle"
  /\ indexFile' = "readable"
  /\ owner' = ledger
  /\ result' = Outcome
  /\ UNCHANGED <<disk, reconcileUnchanged, pruneVars, unrecorded>>

(* It cannot be opened and is left alone, or is left torn. *)
SaveFails ==
  /\ "index" \in Faults
  /\ \/ Pruned /\ ~options.skipManifest
     \/ phase = "saving"
  /\ phase' = "idle"
  /\ result' = "index"
  /\ unrecorded' = TRUE
  /\ UNCHANGED <<dirVars, reconcileUnchanged, pruneVars>>

Finalize ==
  IndexUnreadable \/ Reconcile \/ (\E f \in File : Prune(f))
    \/ SkipIndex \/ TruncateIndex \/ SaveIndex \/ SaveFails

(* The process can be killed at any point; what it knew is lost. *)
Crash ==
  /\ "crash" \in Faults /\ phase # "idle"
  /\ phase' = "idle"
  /\ result' = "crash"
  /\ unrecorded' = TRUE
  /\ UNCHANGED <<dirVars, reconcileUnchanged, pruneVars>>

(* The last export of the behaviour has returned. *)
Quiet == phase = "idle" /\ runs = MaxRuns /\ UNCHANGED vars

Next ==
  \/ \E p \in Projects, o \in Options : Return(p, o) \/ Start(p, o)
  \/ Pull
  \/ \E i \in Slots : SlotStep(i)
  \/ Finalize
  \/ Crash
  \/ Quiet

Spec == Init /\ [][Next]_vars

(* Every worker that has work keeps at it, and so does the thread that
   reconciles: both are threads of a running process.  Nothing obliges anyone
   to start an export, and no failure is obliged to happen. *)
FairSpec ==
  /\ Spec
  /\ WF_vars(Pull)
  /\ \A i \in 1 .. MaxSlots : WF_vars(i \in Slots /\ SlotStep(i))
  /\ WF_vars(Finalize)

-----------------------------------------------------------------------------
(* Properties.                                                             *)

Returned == phase = "idle" /\ runs > 0

(* rtk exits 0 when export_bulk returned Ok and no report counts as failed;
   Exported::failed leaves the skipped ones out of its count. *)
ExitsZero == /\ Returned
             /\ result = "ok"
             /\ \A i \in Slots : slot[i] \notin {"failed", "fatal"}

(* An export that exits 0 exported every environment it found.  Skipped
   environments are not counted as failures, so this rests on every skip
   having a fatal failure or a failed discovery behind it that is reported. *)
ExitZeroMeansExported ==
  ExitsZero => \A i \in Slots : slot[i] = "ok"

(* The same for any moment: the flag is up, and an environment is skipped,
   only with a cause that ends up in what the export returns. *)
AbortHasCause ==
  (abort \/ \E i \in Slots : slot[i] = "skipped") =>
    \E i \in Slots : slot[i] \in {"fatal", "undiscovered"}

(* After an export that exits 0, whatever the workers' schedule and whatever
   was in the directory, every environment's every file holds what that
   environment rendered and belongs to it in the index. *)
SuccessIsFaithful ==
  ExitsZero =>
    \A i \in Slots : \A j \in 1 .. Len(Out(i)) :
      /\ disk[Out(i)[j]] = Rendered(i)
      /\ ~options.skipManifest => /\ indexFile = "readable"
                                  /\ owner[Out(i)[j]] = IdentAt(i)

(* After a replace-envs export that exits 0, the index attributes nothing to
   the exported identifiers but what was just written and what could not be
   deleted: stale manifests are gone from the index, and
   (IndexDescribesDirectory) from the disk. *)
ReplacedLeavesNothingStale ==
  ExitsZero /\ options.strategy = "replace-envs" /\ ~options.skipManifest =>
    \A f \in File, i \in Slots :
      owner[f] = IdentAt(i) =>
        f \in FilesWritten \/ ("delete" \in Faults /\ disk[f] # NoFile)

(* As long as every export got to save its index (none was killed, none was
   told to skip it, none failed to write it), the index and the directory
   agree between exports: an intact manifest has an owner, also when its
   environment went on to fail or the export ended in a conflict, and an entry
   has a file, also when pruning could not delete it. *)
IndexDescribesDirectory ==
  (phase = "idle" /\ ~unrecorded) =>
    \A f \in File : /\ disk[f] \in Content => owner[f] # NoOwner
                    /\ owner[f] # NoOwner => disk[f] # NoFile

(* A file is deleted only if its recorded owner is named as gone or was
   exported without failing under replace-envs, and never when anything wrote
   it during this export, the environments that failed included. *)
DeletesOnlySuperseded ==
  [][\A f \in File : (disk[f] # NoFile /\ disk'[f] = NoFile) =>
       /\ WrittenBy(f) = {}
       /\ \/ owner[f] \in options.gone
          \/ /\ options.strategy = "replace-envs"
             /\ \E i \in Slots : slot[i] = "ok" /\ IdentAt(i) = owner[f]]_vars

(* Every export returns, whatever fails, unless the process is killed. *)
ExportReturns == phase # "idle" ~> phase = "idle"

-----------------------------------------------------------------------------
(* What the comments say of the program, and it does not do.               *)

(* export/mod.rs, reconcile: "Nothing is deleted on the strength of a run that
   did not finish"; replaced environments are the reports that did not fail.
   An environment that failed keeps the files it exported before. *)
FailedEnvironmentKeepsItsFiles ==
  [][\A f \in File : (disk[f] # NoFile /\ disk'[f] = NoFile) =>
       ~\E i \in Slots : slot[i] \in {"failed", "fatal", "skipped"}
                         /\ IdentAt(i) = owner[f]]_vars
=============================================================================
