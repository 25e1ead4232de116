# rustanka in TLA+

`rtk` evaluates Tanka environments (Jsonnet programs), writes the Kubernetes
manifests they produce to a directory or applies them to a cluster. This
project specifies the parts of it whose correctness is a matter of *order*:
workers that share a directory, a flag and a cache, exports that fail or are
killed half way and are followed by another one, commands that change a cluster
which changes by itself, a search whose answer must not depend on the order it
takes. TLC checks small instances;
TLAPS proves the safety properties for every value of the constants.

All paths below are under `src/`. Source names are kept where TLA+ allows.

## Inventory

| component | state | operations | interacts with | what is hard | correct if | status |
|---|---|---|---|---|---|---|
| **bulk export** `crates/rtk-environment/src/export/mod.rs`, `writer.rs` | one report per environment, the abort flag, the discovery iterator | `export_bulk`: peek, pool, `export_environment`, reconcile | pulls from discovery, calls the engine, writes the output directory | pool schedule, a flag read once, partial failure, two writers of one file, several ways to fail at once | exit 0 means everything was exported, faithfully; the index describes the directory; nothing is deleted that somebody wrote | modelled: `ExportBulk` |
| **output directory** `export/manifest.rs` | files, `manifest.json` | read, `files_of`, `record`, `forget`, `write`, `prune`, `is_empty_dir` | outlives an export | crashes, torn files, best-effort pruning | as above | modelled: `OutputDir` |
| **rtkMemoize** `crates/rtk-jsonnet-jrsonnet/src/memoize.rs` | process-wide map of slots, mutex and condition variable per slot, the keys a thread computes | lookup, register, complete, unwind, wait | called by Jsonnet on every worker, calls back into Jsonnet | nested and re-entrant calls, failure while others wait, two mutexes, deadlock across threads | one value per key, one computation at a time, no lost wakeup, every call returns | modelled: `Memoize` |
| **discovery and selection** `rtk-environment/src/discover.rs`, `export/mod.rs` (`Matching`), `export/selector.rs` | a walk, what was found | `discover`, select, `reresolve` | feeds the pool | lazily pulled, errors in the middle | every environment once, errors in order | an input of `ExportBulk` |
| **Helm render cache** `crates/rtk-jsonnet-helm/src/cache.rs`, `functions/template.rs` | memory map, mutex per key, cache directory | get, render, re-key, insert, `write_disk`, sweep | Jsonnet on every worker; other `rtk` processes | charts that change during a render, shared directory, abandoned temporaries | a hit is what a render would give, a key is rendered once, every call returns | modelled: `HelmCache` |
| **apply, prune, delete** `cmds/rtk/src/commands`, `cmds/rtk/src/k8s/apply.rs` | what is still to be compared, listed, written | concurrent comparisons and listings, approval, ordered writes with retry and a create that follows a missed patch, ordered deletes | a Kubernetes API server, and others that write to it | discovery lag, deadlines, lost answers, first error aborts, several versions of one object | what a command reports is what the cluster holds; nothing of the environment is pruned | modelled: `Cluster`, `Rollout` |
| **diff** `cmds/rtk/src/k8s/diff.rs`, `commands/diff.rs` | none that outlives a command | `diff_all`, `diff_manifest`, `find_deleted`, `diff_native` and three other strategies | started by apply and prune; asks the schema cache, builds patches | what was applied last, what is wanted and what is live are three different things | what is shown has all of the manifest and all that was taken out of it, and undoes nothing of others | partly: `Rollout` (comparing, listing), `Preview` (the native strategy) |
| **strategic merge patches** `crates/k8s/src/strategicpatch` | none | three-way patch (a pass for deletions, one for changes, their merge), apply | diff, the mock server | lists merged by key, order directives, deletions | everything in the manifest arrives, what was taken out goes, what others added stays | partly: `StrategicPatch` |
| **API discovery** `cmds/rtk/src/k8s/discovery.rs` | kinds the server lists | `build`, `build_full`, `with_crds` | apply, diff, prune | kinds that appear and disappear | | partly: a step of `Rollout` |
| **OpenAPI schema cache** `cmds/rtk/src/k8s/openapi.rs` | a map and a semaphore per process, a file per API group and version | `get_schema`, `get_or_fetch`, load, save, expire | diff tasks of several processes; the API server | misses together, files written in place, expiry, restarts, upgrades | a schema is of the right version and young enough; every call returns | modelled: `SchemaCache` |
| **importers** `crates/rtk-jsonnet/src/importers.rs`, `imports.rs`, `jpath.rs` | memo, chain of the walk | `find_importers`, `importers_of`; `transitive_imports` | file tree | memoizing inside an import cycle, shadowed vendored files, any order | the backward search agrees with the forward one | modelled: `ImportPaths`, `Importers` |
| **asynchronous imports** `crates/jrsonnet-evaluator/src/async_import.rs` | queue of jobs | load, resolve | embedding program | cycles, failures in the middle | every import resolved once | not modelled |
| **evaluator** `crates/jrsonnet-evaluator` | thunks, object caches, stack depth | evaluation | everything | re-entrancy, errors remembered in thunks | single-threaded; language semantics | not modelled |
| **parsers, formatter, lint, interner, bindings, packages, YAML/template helpers, test tooling** | none that outlives a call, or I/O | | | text, memory layout, downloads | not questions of order | not modelled |

The interactions that matter: `export_bulk` pulls environments out of the
discovery iterator from inside a rayon pool; each worker evaluates one through
the Jsonnet engine, which may block in `rtkMemoize` on another worker; it then
writes files into the output directory, to which all workers have access; after
the pool has returned, one thread reads the previous export's `manifest.json`,
finds conflicts, deletes what is superseded and writes the index. Apply and prune
start comparisons and listings as tasks, which meet in the schema cache, whose
files other processes share; what they find is acted upon later, one request at a
time, on a cluster that others change.

## Modules

| module | what it is |
|---|---|
| `OutputDir` | what survives an export: files, index, owners |
| `ExportBulk` | extends `OutputDir`: exports one after the other into one directory |
| `MemoTable` | abstract: a table that is filled at most once per key |
| `Memoize` | `rtkMemoize`; instantiates `MemoTable` as `Promise` |
| `RenderService` | abstract: what `helmTemplate` answers, caches or no caches |
| `HelmCache` | extends `RenderService`: the memory and disk caches of Helm renders |
| `Cluster` | a Kubernetes cluster as its API shows it: external |
| `CommandPromise` | abstract, extends `Cluster`: a command that decides at once what to change, and changes it |
| `Rollout` | extends `Cluster`: apply, prune and delete, one command after the other; instantiates `CommandPromise` as `Promise` |
| `SchemaPromise` | abstract: which schemas a task may be answered, caches or no caches |
| `SchemaCache` | the caches of OpenAPI schemas; instantiates `SchemaPromise` as `Promise` |
| `ImportPaths` | operators: what an import literal names, forwards and backwards |
| `Importers` | the memoized reverse search over any import graph |
| `StrategicPatch` | operators: three-way strategic merge patches |
| `Preview` | extends `StrategicPatch`: an object that is edited, applied, changed and previewed |
| `MCExportBulk`, `MCMemoize`, `MCHelmCache`, `MCRollout`, `MCSchemaCache`, `MCImporters`, `MCPreview` | their instances for TLC |
| `ExportBulkProofs`, `MemoizeProofs`, `HelmCacheProofs`, `RolloutProofs`, `RolloutPromiseProofs` (extends it), `SchemaCacheProofs`, `ImportPathsProofs`, `ImportersProofs` | theorems about them |

### `ExportBulk`

State. Everything is kept per discovered item, a *slot*: `slot[i]` is how far
the item has come (`queued`, `pulled`, `loading`, `planned`, `writing`, `open`,
then one of `ok`, `failed`, `fatal`, `skipped`, `undiscovered`), `landed[i]` how
many of its files are in its `Report::files`, `ready[i]` how many manifests its
chunks have serialized. A rayon worker carries nothing from one item to the
next, so the pool is a bound (`Parallelism`) on the slots being worked on.
`abort` is `Export::abort`. `phase`, `superseded`, `removed` and `ledger` are
the locals of `reconcile`. `disk`, `indexFile` and `owner` (`OutputDir`) survive;
`unrecorded` is a history variable: some export ended without saving its index.

Actions. `Return` and `Start` are the beginning of `export_bulk`; `Pull` is
`par_bridge` handing out the next item; `Undiscovered`, `Begin`, `Load(Fails)`,
`Serialize(Fails)`, `LeaveUnchanged`, `Truncate`, `Complete`, `WriteFails` and
`Finish` are the steps of one worker in `export_environment`; `Reconcile`,
`Prune`, `TruncateIndex`, `SaveIndex`, `SaveFails`, `SkipIndex` and
`IndexUnreadable` are `reconcile`; `Crash` is a kill at any point of an export.

Abstractions. What a file holds is the pair (environment, revision of the
sources) it was rendered from, or `Torn`. `fs::write` is two steps, truncating
and writing; comparing and truncating are one, which loses nothing, as what two
environments render differs and only the comparison with a file's own
previous export ever succeeds. When two workers have the same file open, what is
left may be torn (`Rival`, `Complete`). `Duplicate` and `Foreign` state what
`claim_files` finds rather than its walk, which only decides which conflict is
reported. `files_of` accepts several spellings of an identifier; they are one
member of `Ident`. Re-resolving an environment by its namespace is taken to land
on the same environment. Empty directories and file timings are left out.
`NothingMatched` and an error of discovery are one result. Failures are
independent of each other and enabled by `Faults`.

### `Memoize`

`cache` is `CACHE`, `slots[s]` a `MemoSlot`, `stack[t]` the `Computing` guards on
thread `t`'s call stack (their keys are its `ACTIVE`), `call[t]` the call it is
in that does not compute. `CACHE` and a slot's mutex are never held together,
so each critical section is one action: `Find` and `Register` under `CACHE`,
`Read` and `Complete` under the slot's, `Uncache` and then `MarkFailed` for the
two of `Drop`. `SpuriousWake` is what `Condvar::wait` may do. A value is the
thread whose thunk produced it. An error (`Raise`, or `Enter` of a key the
thread is already computing) unwinds the whole stack, one guard after the
other, as Jsonnet cannot catch one; then the thread goes on with its next
environment.

`MemoTable` says what callers rely on: `Fill` once per key, `Hit` returns what
the table holds. `Memoize!Table` is the refinement mapping (a key has a value
when its cached slot is done), `ImplementsTable` the claim.

### `HelmCache`

`values` and `computations` are the fields of `Cache`, `identity` is the
`OnceLock` of `State`, one of each per process; `disk` and `temporaries` are the
cache directory, which all processes share. `pc[w]` is how far worker `w` is in
`cached_or_compute`: `key` (first walk, lines 190-202), `get` (204), `lock`
(208-211), `again` (212), `identity` and `disk` (216-227), `spawn` and `render`
(229), `rekey` (the second walk, 230-242), then `create`, `write` and `persist` of
`write_disk`. A call without a key (helm does not name a namespace, or a file
vanishes while it is hashed) goes straight to `spawn` with `key[w] = Nothing`.

The chart is a version per file. A walk reads one file per step, in order; helm
reads in any order; `Edit` saves one file between any two of these steps. A key
is the contents that were read and stands for its hash. A render is the files that
were read and the helm that was spawned. `Stop` is the end of a process, by itself or
killed, and the start of the next: memory is gone, temporaries stay. `Hour` makes
all temporaries old, live ones too (a suspended machine), so that the sweep may
take a temporary from under its writer.

Abstractions. One call's arguments are fixed; other arguments have other keys.
`read_disk` is one step: entries appear by rename, and an open file stays the
same. A process without `--helm-cache`, or whose cache would lie inside the chart,
is one whose helm did not answer. `RTK_HELM_DISABLE_MEMOIZATION` is a call without
a key. The namespace that helm resolves is fixed for a process, as in the code.

`RenderService` says what callers rely on: each file in an answer is no older
than when the call began and no newer than when it answers, and the helm is the
installed one. `HelmCache` extends it, so its state includes the service's and the
refinement mapping is the identity; `KeepsPromise` is the claim.

Two switches name what the code cannot notice. `Reverts`: an edit may restore a
version a file had before, which the second walk mistakes for no edit.
`UpgradesMidRun`: helm may be replaced while a process that already asked for its
identity runs. Both are off where the cache is claimed to be right.

### `Cluster` and `Rollout`

An object is a kind, a namespace and a name (`Id`); what the cluster holds of it
is its incarnation (`uid`), its fields (`spec`), which of them kubectl noted down as
applied last (`annotated`) and which the field manager `tanka` alone has applied
(`held`), and the three marks pruning goes by: the environment's label, a field
manager or annotation that pruning knows (`ours`), and the annotation or owner that
protects it (`spared`). `served` is what discovery lists. A namespace or a CRD takes
its contents with it, at once; a stored CRD is served some time later, and a deleted
one stays listed for a while.

`phase` is where the command is. Apply: `discover` (`DiffEngine::new`), `diff` (one
step per manifest, in any order, as `diff_all` runs them concurrently), `confirm`,
then for each difference `next` (sorted by `kind_position`), `send` and, after a
client-side patch that found nothing, `create`. Prune: `discover` (every kind the
server has, `build_full`), `fetch` (the manifests' own objects, for their uids),
`list` (each kind in each version), `confirm`, `next`, `send`. Delete starts at
`confirm`. `Retry` and `TimeOut` are `apply_when_discovered`. Each request is one
step and may fail; a request can also be served and its answer be lost.

`Applied` is what a write makes of an object, and it is not the manifest. Client-side,
which is the default, the manifest is the patch (`k8s/apply.rs` 171-222): its fields are
set, and everything else stays, a field that was taken out of the manifest included; no
last-applied annotation is written. Server-side apply also takes away what this field
manager alone had applied and the manifest lacks (`held`), and without `--force` is
refused a field that somebody else manages with another value (`Conflicts`). Comparing
(`Differs`) looks for the same leftovers by what the strategy knows of them: the
annotation, if kubectl wrote one, or `held`.

`Approved`, `Declined` and `Unasked` are the prompt and the dry runs. An apply or prune
that is declined, or a dry run, returns Ok without a write. A delete goes
through its list in a dry run, too, without deleting (`Remove`), and any `--dry-run`
spares it the prompt: with `--dry-run none` it deletes without having asked (`GoesOn`).
Everything else but a yes is an error to delete.

`RivalStores` and `RivalDeletes` are other users of the cluster. `calm` and
`blamed` are history variables that only properties read.

Abstractions. A field is set to a value or not there; how patches treat what is inside
of one is `Preview`'s subject. The comparison of an apply is that of the diff
strategy which goes with its own strategy (native with client, server with server). A label
never conflicts. A deleted object is gone when the request returns: there are no
finalizers, and nothing is `Terminating`. Lazy discovery that fails for some kinds is a
failed request, where the code warns and goes on without them (`discovery.rs` 251-271).
The order in which prune deletes is left open. `--force`, `--target` and `--namespace`
are left out.

`CommandPromise` says what whoever gives a command may rely on. Where the program
compares and lists object by object, the abstract command decides in one step on a plan, with
approval unless it is a delete with `--dry-run none`: undisturbed, exactly what differs, or
exactly the orphans; and for a delete always what it was asked to. Then it changes what is
in the plan, each object once, in install order or its reverse. A `Write` sets the
fields of the object's own manifest and takes none away but those that server-side
apply alone had set; which fields are held or annotated afterwards it bounds and does not
say. It may fail at any point, with or without the change that it was making, and returns Ok
only when the plan is empty, when nothing was due, when it was declined, or
after a dry run, which never gets a plan and so changes nothing. Discovery, retries and
the create after a missed patch are invisible. The mapping: `Stage` is `deciding` until
the first of `next`, `send`, `create`, and for a dry run throughout; `Plan` is what is
left and the target. `KeepsPromise` is the claim. It needs, as
`AppliedIsLive` does, that kinds and names tell the objects apart.

### `SchemaCache`

`pc[t]` is how far diff task `t` is in `get_or_fetch`: `memory`, `disk` (is there a
file?), `load`, `remove` (a stale one), `keep`, `wait` (for the semaphore), `fetch`,
`save`, `write`. `file[k]` is shared by all processes: an entry, `None` or
`Torn`. Truncating and writing are two steps; two writers of one file may leave
parts of both; removing a file takes it from under whoever is writing it (`lost`).
The clock, the served revisions and the git version of a cluster only grow;
`Restart` ends a process, kills its tasks wherever they are and connects the next
one. A schema is the cluster and revision it was extracted from. `warm`, `damaged`,
`started` and `since` (what a cluster served when it came to report a version) are
history variables.

`SchemaPromise` knows no files, permits, clocks or fetches. A process learns schemas
until it ends, and a call returns once: with a schema of the key, no older than the version
that the process saw of its cluster; or with none, if the process did not know
the key when the call began. What the code's comparison of versions is for is thus
stated without one: an answer is from after the upgrade, whoever
fetched and saved it, and when. Of clusters that report the same version it
does not say which (see *Known limits*). The mapping: `known` are the keys with an
entry in `memory`, and a task is `calling` unless it is `idle`.

### `ImportPaths` and `Importers`

`ImportPaths` states what a literal means to each of the two searches: for the
backward one (`PointsAt`: the path joined with the importing directory, with
`vendor` and `lib` of the root and of the environment, and charts) and for
the forward one (`Resolved`: the first match on the path of the entrypoint;
`TransitiveImports`: the least set closed under it). `IndexOf` is the project that
`Importers` searches: who imports what, what shadows what, what each forward search
reaches. `Plain` names the trees in which the two searches mean the same by every
literal: no links, no environment inside another or under `vendor` or `lib`, and no
literal that only one of the searches resolves. A literal with `../` must be found
from the directory of the importing file, and a literal that exists under the project root
must exist in a place that both searches try, as the forward search tries the root
last and the backward one does not.
`Importers` takes the resulting relation as an input. `stack` holds the calls of
`importers_of` that have not returned, each with the importers it has yet to
visit; `memo` and `chain` are the memo and the guard against cycles. Any
importer may be visited next, as the code collects them from hash tables and
parallel iterators. `Retain` drops importers that carry their own copy of a vendored file.

### `StrategicPatch` and `Preview`

`StrategicPatch` has both passes of `create_three_way_merge_patch`, the merge of the
two patches, and `apply_strategic_patch`, as recursive operators over JSON values: a
schema is the merge keys of each list field and the fields with `retainKeys`.
`Preview` is one object's life: edits of the manifest, applying, and what controllers
do in between; `Show` is what `rtk diff` would show. `Apply` is `rtk`'s own
client-side apply, which sends the manifest for a patch: nothing is deleted and the
annotation stays as it was. `KubectlApply` is external; it sends the three-way patch
that `Show` shows, with its annotation. That the dry run is `apply_strategic_patch` is
this repository's mock server; a real API server is external.

## Runs

| run | question | states | result |
|---|---|---|---|
| `ExportShared` | two exports with every option and every fault: does the index describe the directory, is exit 0 the truth, is only superseded output deleted, is nothing stale after replacing, has every skip a cause, does every export return? | 1.4 million | holds |
| `ExportSiblings` | does a failed environment keep its earlier files? | | violated |
| `MemoShared` | single flight, no lost wakeup, termination, refinement | 92 thousand | holds |
| `MemoCrossed` | does every call return when two thunks need each other's keys? | | violated |
| `HelmShared` | are entries what their keys name, answers fresh, keys rendered once, temporaries accounted for? | 531 thousand | holds |
| `HelmReturns` | does every call return, with three workers at the same mutexes? | 279 thousand | holds |
| `RolloutShared` | is what a command reports what the cluster holds; is nothing pruned that must stay and nothing left that must go; does apply fail only for a cause outside; do the three commands change what they decided on and nothing else, in order (`KeepsPromise`); does every command return? | 971 thousand | holds |
| `ApplyMisplaces` | is everything live that apply reports as applied? | | violated |
| `SchemaShared` | is a remembered schema of the right key and version and young enough; is a torn file explained; is every answer as old as it may be, and there if it was known (`KeepsPromise`); does every call return? | 461 thousand | holds |
| `ImportersSearch` | is everything reported an importer, is every importer reported, does the search agree with the forward one, in every order, and end? | 79 thousand | holds |
| `ImportersMissed` | does the search agree with the forward one where an environment has its own copy of a vendored file? | | violated |
| `PreviewShown` | does the preview have all of the manifest, nothing that was taken out, and everything others added; is there nothing but removals left to show after `rtk apply`, and nothing at all after `kubectl apply`? | 738 thousand | holds |

The four violations are recorded as findings in `PROJECT.json`, each with the
sentence of the source it contradicts:

* environments declared inline by one entrypoint share its identifier, so
  `replace-envs` deletes the earlier files of one that failed when a sibling
  succeeded;
* re-entrancy of `rtkMemoize` is noticed per thread: two workers whose thunks
  need each other's keys wait for each other forever;
* of two objects of one kind and name in two namespaces, apply sends the first
  one's manifest twice and reports both as applied;
* with a cycle of imports through a vendored file of which one environment has its
  own copy, the search misses that environment in some orders, because what was
  collected at a file is dropped on one way back and the guard against cycles keeps
  the search from collecting it again on another.

### Bounds

Exports: `MaxRuns = 2` exports, since all that one hands to the next is the directory,
and the properties relate one export to what it found there. Three environments, two
of them sharing an identifier, and a broken entrypoint: enough for a pair of workers
with a third item to be skipped, for a conflict within one identifier and between two,
and for a file that moves from one environment to another. Three files; environments
with one and with three manifests; `ChunkSize = 2`, so that a chunk is the whole, a
part, and the last part; and one environment that, in one revision, has no manifests.
`Parallelism = 2` is the least that interleaves. The violation runs are smaller still,
to keep their traces short.

Memoize: three threads, so that a waiter remains when another takes over from a
failed computation; two keys, one built from the other; one thread whose
thunk asks for its own key; `MaxErrors = 2`, so that the second attempt can
fail as well.

Helm: two workers in one process and a third in another, the least that has
both a shared memory and a shared directory; two files, the least that a walk can
see torn; two calls, so that one can store and the other read or race. A third
call multiplies the states twelvefold and more and adds a third party to the same
pairwise races; `HelmReturns` has it, for three workers of one process, with one
file. `MaxStops = 1` start after a stop is what a leftover temporary or entry
needs to be met again; `HelmReturns` has none, as a stop ends every wait. Two helms
and any number of upgrades between runs. `Workers` permutes the two workers of one
process, which nothing tells apart; the liveness run has no symmetry.

Rollout: two commands, since a command hands the next one nothing but the cluster, and
what one leaves half done the next has to make good; nine kinds of them (approved,
declined, with nobody to ask, dry, and with `--dry-run none`), with four revisions of
an environment, one of them with a kind nobody serves; two fields with two values, so
that a revision changes one and drops the other while somebody else sets either
(`Foreign`); a cluster that is empty or that kubectl has filled; a namespace with an
object in it, a CRD with an object of the kind it declares, and a kind in two
versions. One change by somebody else and one failed request: two of either only
repeat what one does, as the properties ask for none or for any. `MaxTries = 1` retry;
the deadline may pass after any number of them.

SchemaCache: two tasks of one process and one of another, the least with both a
shared map and a shared file; one permit, so that tasks wait; a group covered by
built-in schemas and one that is not; one kill, one change of a CRD (with or
without an upgrade) and one tick that makes every entry old (`TTL = 0`). One
cluster: with two, files are mixed up by design (see *Known limits*).

Importers: every graph of three libraries under two environments, some of them in
`vendor`, and five projects with what a graph of libraries has not (charts, links,
nested environments, relative imports); queries of one and two targets and of a
deleted one. Cycles of length two and three, entered at any point, are among them.

Preview: a few hundred objects: one or two containers in either order, with
fields and lists in them, ports merged by two keys, volumes that retain keys. Two
edits, so that a field is there, goes, and another change follows; one change by
the cluster between any two steps. Applying, by either tool, may be repeated at will.

### Fairness

`ExportReturns` assumes that a worker with something to do keeps doing it, that
the pool hands out items as long as a worker is free, and that the reconciling
thread runs: all are running OS threads that wait for nothing but each other's
completion. Nothing obliges anyone to start an export or any failure to happen.
`EveryCallReturns` assumes that each thread keeps taking its own steps; a
sleeper takes none until it is notified, and spurious wakeups and failures are
never obliged.

In `HelmReturns` a worker that can take a step does (`WF` of `Step(w)`): threads
are scheduled, and a helm that was spawned ends. Waiters for a mutex need no
strong fairness because the calls are bounded.

`EveryCommandReturns` assumes that a command that can take a step does: its
requests are answered or fail, and somebody answers at the prompt. `SchemaShared`
assumes it of each task; a semaphore hands permits out in order, but weak fairness
is enough because calls are bounded. `EverySearchEnds` is one thread's `WF`.

## Proofs

All proof modules assume no more than the named assumptions of the module they
extend: what the constants are. Sizes (environments, files, pool, chunks,
threads, keys, objects, import graphs, number of commands, exports or failures)
are unbounded.

`ExportBulkProofs`. The properties speak of an export that has returned; the
invariants have to speak of its middle:

* `TypeInv`: types, and that only environments get past `pulled`.
* `OrderInv`: the flag is up or a slot is skipped only after a slot is `fatal` or
  `undiscovered`. This gives `AbortHasCause`, and with what `Outcome` returns,
  `ExitZeroMeansExported`.
* `LandedInv`: a slot never lists more files than it serialized, and one that is
  `ok` lists all of its own.
* `DiskInv`/`DirectoryInv`: while an export runs, an intact file is owned in the
  old index or listed by a report; while the index is being written the same
  holds of the new one. This gives `IndexDescribesDirectory`.
* `PruneInv`: what is left to prune was written by nobody and belonged to what is
  replaced or gone; with it `DeletesOnlySuperseded` and
  `ReplacedLeavesNothingStale`.
* `IntactInv`/`FaithfulInv`: a file that a slot lists holds what it rendered,
  unless another slot has *touched* it too; if that other one lists it there is a
  conflict, and if it does not it has failed, so neither exits 0. This gives
  `SuccessIsFaithful`, the deepest of them: it holds although two writers may
  tear each other's file, because of when files are recorded.

`FailuresKeepTheirFiles` is the other side of `ExportSiblings`: what that run
refutes is true of every project whose environments have identifiers of their own
(`IdentifiersAreOwn`), as nothing but a sibling's success gives the files of a
failed environment away.

`MemoizeProofs`. The invariant `MemoInv` has five parts besides types. `FrameInv`: a
guard's slot is computing, under its key, and cached until its `Drop` takes it
out, which happens to the innermost guard of an unwinding thread only. `OwnSlot`:
no two guards share a slot. `SlotInv`: what is cached is computing or done, what
is done stays cached, what is computing has a guard. `WaitInv`: sleepers sleep on
computing slots of their own key. `AnswerInv`: what was answered is what the
table holds. From these: `Agreement`, `SingleFlight`, `SleeperIsRemembered` and,
with one lemma for each action that changes the table (`CompleteFills`) and one
that the others do not, `ImplementsTable`. `SettledSlotsAreFinal`: what is done or
failed stays so, and what failed is found by nobody again; so a waiter
may act on what it read after it has let the mutex go. `DistinctInv`: the keys on a
thread's stack differ, and the key it is looking up is none of them; hence, if there
are finitely many keys, `RecursionIsBounded`.

`NotEverybodySleeps` is the other side of `MemoCrossed`. `Grounded` says that the keys
can be ordered so that every thunk asks only for keys before its own; then some thread
is always awake (`SomeoneIsAwake`), for any number of threads, keys and errors.
`AskedInv`: a thread asks for what its innermost thunk needs, and sleeps on no key
that it computes. Take, of all the keys that sleepers wait for, one that needs none of
the others (`NoRingOfSleepers`): who computes it sleeps, too, on a key that it needs,
which is absurd. That thunks form no ring is up to the Jsonnet program; the code
checks it per thread only. `MCMemoize` assumes of its instances that they are grounded
exactly if they are not the crossed one.

`HelmCacheProofs`. `PhaseInv` relates `pc`, keys and identities. `LockInv`: past
the mutex a call holds it, and until it has a render to store its process
remembers none for the key; this gives `RenderedOnce`. `HeldInv` is the converse, a
mutex that is held is held by a call that is past it, so `MutexesAreHeldByCalls`: no
way out of a call leaves one locked. `TemporaryInv` strengthens
`OnlyStopsLeaveTemporaries` by the exact life of a temporary. `WalkInv` is the
heart: as versions only grow, what each walk and helm read are ordered (call
begun, first walk, helm, second walk, now), file by file, so equal walks pin
helm's reading (`WalksAgree`). `HelmInv`: whatever a running process knows of helm
is the installed one. These give `EntriesAreTrue` and, with `AnswersAreAllowed`,
the refinement `KeepsPromise`. The last two theorems assume `~Reverts` and
`~UpgradesMidRun`; the others assume nothing of the outside. Without the first, a
chart that is put back between the walks is cached under the wrong key (see
*Known limits*).

`SchemaCacheProofs`. `PermitInv`: permits and holders of a process sum up to
`MaxFetches`, which is what makes `Release` safe and bounds fetches, and says that
a task waits only while others hold every permit (`PermitsAreInUse`). `FreshInv`
strengthens `FreshWhenLoaded` by what is on disk and what a task is about to
remember; the file may change between any two steps of a reader, so the invariant
is about what was read. `WarmInv`: a task that asked for what is remembered goes
nowhere but to memory (`RememberedAlwaysAnswers`).

For the promise: `EntriesInv`, every entry, in memory, in a file or in a task's hands,
is no older than what its cluster served when it came to the version that the entry
is filed under. `SavingInv`: who saves has remembered already, so that an abandoned save
loses no answer. `SinceInv`: versions that processes saw have been, and what
was served at a version is not newer than what is served now. An entry's version
is the process's own and not the cluster's at the time of the fetch, which may
be ahead; that is why the promise bounds the revision from below only, by what came with
that version. `PromiseIsKept` maps each step: those that return (`Returns`), those
that remember, and the rest, which the promise does not see (`QuietSteps`).

`ImportersProofs`. `SoundInv`: each file collected in a call leads to the call's
file by an import in which it shadows nothing, and each call was made by an
importer of the next; what is memoized along a cycle is therefore right, if
incomplete. `FullInv` is why it is complete in the end although memos are not: the
files memoized or on the stack are closed under what they import from, and each of
their importers is found or in a frame that is still to return. It needs
`NothingIsShadowed`, and `ImportersMissed` shows that it does. `OnceInv`: no
file on the stack is memoized. This gives `MemoIsFinal`
(no memo is replaced, no file searched twice), `RecursionIsBounded`, and
`SearchesProgress`: every step lowers a lexicographic measure, which is the safety
half of `EverySearchEnds`. `TargetInv`: a target is found or still to do. With it and
`FullInv`, `SearchesAgree`: under `LiteralsAgree`, which is about one import at a
time, the whole searches agree, cycles included. `PlainProjectsAgree` removes that
assumption for the graphs (`IndexOf`) of `Plain` trees.

`ImportPathsProofs` has what that takes: joining and splitting paths, where the
first match of `Resolved` can be, and that `PointsAt` tries the same place.
`ReachedIsRetraced`: any set that is closed under going back from what the environment
owns has all that `TransitiveImports` collects. It is stated with sets, not by
induction over the walk, because the forward search's result is a least closed set.

`RolloutProofs`. The invariants say what is left to do at each point. `ShapeInv`:
which phases a command has, what is empty there, and that nothing goes on that was
not to (`GoesOn`). `DeleteInv`: in a delete that is no dry run, an object that is
still there is in the list or is the target. `WorldInv`: uids are unique and below
the counter, and what exists is of a served kind or one whose CRD exists, so that
listing the served kinds meets every orphan. `PruneInv`: while listing, every
orphan is found or of a kind and version still to be listed, and every uid to be
spared belongs to a manifest's object; while deleting, the list is exactly the
orphans that are left. `ApplyInv`: a manifest that is not `Good` is still to be
compared, in the list, or the target. `Good` is what an apply can give: every field of the
manifest and the label are live, and after a server-side one nothing is left that this
manager alone had applied before; of what a client-side apply leaves behind it says
nothing. It needs `Unambiguous` (no kind
and name in two namespaces), because the manifest that is sent is found by kind and
name; `ApplyMisplaces` shows that it does. `CauseInv`, for `ApplyFailsForCause`:
the object that is sent is the first in install order of those that are left, so
what holds it, which `Complete` says the environment has in front of it, is live by
`ApplyInv`; and a custom kind is served as long as its CRD is there, so a missed
patch is followed by a create that is accepted. A conflict between field managers is
somebody else's doing, and a cause. It assumes no `Crowded` kinds, for
which the code does not wait. The assumption on `Clusters` is that
what a cluster holds at first it could have been given.

`DeletedIsGone` and `RememberedAlwaysAnswers` state invariants that no run lists, as the
promises that the runs check say more: `DeletedMeansGone` and `RememberedIsAnswered`.

`RolloutPromiseProofs`. The promise speaks of one decision where the program has many,
so the invariants say what has been decided so far. `ComparedInv`: undisturbed, of
each manifest that is not still to be compared, it is in the list exactly if it
differs. `ListedInv`: when a prune asks for approval, its list is the orphans.
`OrderInv`: a target is off the list, and none that is left goes before it. From these
and `ShapeInv`, `Approved` is `Decide`, each write is a `Write` (`StoreIsWrite`), and
each way to change the cluster is `Act` or, when the answer is lost, `AnswerLost`; the
steps of a dry run are among those that the promise does not see (`QuietSteps`).
`PromiseIsKept` assumes `Unambiguous`.

Only model-checked: the liveness properties, as liveness under fairness is beyond
the prover's backends here, and the four properties of `PreviewShown`, which are about
recursive definitions over JSON values and about `SelectSeq`, of which the provers know
nothing. The four violated formulas are refuted by TLC's traces.

The safety half of liveness is proved. A measure that every step lowers and nobody
else raises: `ExportsProgress` (slots, files, what is left to prune),
`CommandsProgress` (what is left to compare, list, take, send and retry),
`CallsProgress` in `HelmCacheProofs` and in `SchemaCacheProofs` (how far a call has
come), `SearchesProgress`. `CallsProgress` in `MemoizeProofs` is the same but for what
a condition variable adds: at the outermost level of the stack that anything happened
to, less is to come; or the thread falls asleep on what somebody computes, or tries
again after a failure that nobody can find any more; and others do nothing to it but
wake it up. And nobody waits for one that waits:
`MutexesAreHeldByCalls`, `PermitsAreInUse`, `NotEverybodySleeps`. What is left to TLC
is that under the stated fairness these add up, which takes `ENABLED`.

## Known limits of the code that the models show

Facts a reader of the properties should know; they are in the models, and the
properties are worded so as not to deny them.

* Export: `fail-on-conflicts` fails only after it has overwritten the other
  environment's file. A write that fails after truncating leaves a file that no
  report, and so not the index, mentions.
* Helm: a chart that is edited and put back between the two walks is cached under
  the key of the chart it was not rendered from (`Reverts`).
* Rollout: client-side apply takes nothing away and writes no annotation. A field or
  keyed item that was taken out of a manifest stays live after "Apply complete"; if the
  object has kubectl's annotation, every later diff shows the removal and every later
  apply asks about it again (`AppliedShowsOnlyRemovals` is worded for that), and if it has none, the diff calls the object unchanged.
  `rtk delete --dry-run none` deletes without asking.
  Objects applied client-side are known to pruning by kubectl's annotation
  only. Others' changes between approval and deletion are not noticed: a delete
  carries no uid. A delete that fails after the CRD is gone cannot be resumed, as
  the custom kind is no longer served and unknown kinds are refused. A custom kind
  whose group and version other kinds share is not waited for.
* Schema cache: the file name does not name the cluster, so clusters of one
  version share schemas; a CRD that changes without an upgrade is not seen for
  24 hours; a torn file is not repaired or removed, and the fetch is repeated by
  every process; removing a stale file may remove another process's fresh one.
* Importers: a literal that climbs with `../` is not matched to a deleted file. A
  library that imports a file inside an environment below it may be missed. The search
  filters what it reports by file name (`importers.rs` 153-156) and may report the
  `main.jsonnet` of a deleted environment that was itself a target; `Done` speaks
  of entrypoints that exist. `TransitiveImports` is the full closure, while the code does not
  scan a file again that it first met through `importstr` or as a chart's directory
  (`imports.rs` 45-58), so it may collect less.
* Patches: a deletion nested in an item of a keyed list is lost when another item
  of that list changes too; items whose merge key is a number are never matched
  when the two patches are merged; taking elements out of a list of primitives, or
  reordering it, is not shown when there is no annotation or the list has drifted;
  `RemovalsAreShown` is limited accordingly.

## Not modelled

* *Discovery and selection of environments* are sequential; what they yield, errors
  in the middle included, is an input of `ExportBulk`. `export_single` uses the
  same writer and index without a pool.
* *Diff*: the subset and validating strategies leave the comparison to the server or
  compare field by field; of the server-side one there is what `Differs` says, a
  dry run whose conflicts are forced; conflicts and preconditions of patches are
  switched off by the caller.
* *Asynchronous imports* (`async_import.rs`): a queue of jobs that one caller
  drains, for embedders; `rtk` itself does not use it.
* *The evaluator* is single-threaded, and its thunks and object caches are
  observable only through the semantics of Jsonnet, which would need the language
  as a model.
* *Parsers, formatter, lint, interner, YAML and template helpers, the reference
  implementation's functions, packages, bindings, test tooling* are conversions of
  text, memory layout, or I/O. These, with the evaluator, are most of the repository's
  lines, so the map covers a small share of them by design.

## Plan

1. *Done:* exports, `rtkMemoize`, the Helm caches, commands against a cluster, the
   schema cache, the import search, patches and previews; the proofs of the safety
   of all but patches, and, for each of the four violated formulas, of the
   conditions under which they hold (`FailuresKeepTheirFiles`, `NotEverybodySleeps`,
   `AppliedIsLive`, `EveryImporter`).
2. *Done:* an abstract specification of a command (`CommandPromise`) and of the schema
   cache (`SchemaPromise`), and the proofs that they are implemented.
3. An abstract specification of an export: which directories it may leave.
4. `ExportSingle` on top of `OutputDir`; asynchronous imports; the namespace that
   helm resolves once per process, against a kubeconfig context switched meanwhile.
5. Field managers inside lists and objects, `--force`, and diff strategies other than
   the one that goes with the strategy of the apply; deletions that take time.
