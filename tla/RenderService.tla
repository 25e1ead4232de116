---------------------------- MODULE RenderService ----------------------------
(***************************************************************************)
(* What `helmTemplate` promises the Jsonnet that calls it, caches or no    *)
(* caches: the answer is the chart as it was while the call ran, rendered  *)
(* by the helm that is installed, or an error.  The chart's files are      *)
(* edited while it is read, so the promise is made file by file: each file *)
(* is no older than it was when the call began, and no newer than it is    *)
(* when the call answers.                                                  *)
(***************************************************************************)
EXTENDS Naturals

CONSTANTS
    Worker,      \* the threads that evaluate Jsonnet, of every rtk process
    File,        \* the files of the chart, each named by its place in the walk
    MaxVersion,  \* a file's contents are one of the versions 0..MaxVersion
    Helm,        \* the helm executables that may be installed
    Nothing,     \* no call is under way, or no answer was given
    Failed       \* the answer of a call that raised an error

VARIABLES
    chart,   \* the version of each file of the chart
    helm,    \* the helm that is installed
    began,   \* per worker: the chart when its call began, Nothing outside a call
    answer   \* per worker: what its call answered, until the evaluator takes it

serviceVars == <<chart, helm, began, answer>>

Version == 0..MaxVersion

\* The contents a chart may have: what a render key is a hash of.
Key == [File -> Version]

\* What helm writes is a function of the files it read and of the helm it is.
Render == [files : Key, helm : Helm]

\* Every file of `files` is between its version in `a` and its version in `b`.
Between(a, files, b) == \A f \in File : a[f] <= files[f] /\ files[f] <= b[f]

ServiceInit ==
    /\ chart = [f \in File |-> 0]
    /\ helm \in Helm
    /\ began = [w \in Worker |-> Nothing]
    /\ answer = [w \in Worker |-> Nothing]

\* Somebody saves a file of the chart: a version it never had before.
EditForward ==
    /\ \E f \in File, v \in Version :
          /\ v > chart[f]
          /\ chart' = [chart EXCEPT ![f] = v]
    /\ UNCHANGED <<helm, began, answer>>

\* Another helm is installed, while no call is under way.
Install ==
    /\ \A w \in Worker : began[w] = Nothing
    /\ helm' \in Helm
    /\ UNCHANGED <<chart, began, answer>>

Begin(w) ==
    /\ began[w] = Nothing
    /\ answer[w] = Nothing
    /\ began' = [began EXCEPT ![w] = chart]
    /\ UNCHANGED <<chart, helm, answer>>

Reply(w) ==
    /\ began[w] # Nothing
    /\ \/ answer' = [answer EXCEPT ![w] = Failed]
       \/ \E files \in Key :
             /\ Between(began[w], files, chart)
             /\ answer' = [answer EXCEPT ![w] = [files |-> files, helm |-> helm]]
    /\ began' = [began EXCEPT ![w] = Nothing]
    /\ UNCHANGED <<chart, helm>>

Taken(w) ==
    /\ answer[w] # Nothing
    /\ answer' = [answer EXCEPT ![w] = Nothing]
    /\ UNCHANGED <<chart, helm, began>>

\* A process ends, and with it the calls of its workers.
Abandon(workers) ==
    /\ began' = [w \in Worker |-> IF w \in workers THEN Nothing ELSE began[w]]
    /\ answer' = [w \in Worker |-> IF w \in workers THEN Nothing ELSE answer[w]]
    /\ UNCHANGED <<chart, helm>>

ServiceNext ==
    \/ EditForward
    \/ Install
    \/ \E w \in Worker : Begin(w) \/ Reply(w) \/ Taken(w)
    \/ \E workers \in SUBSET Worker : Abandon(workers)

ServiceSpec == ServiceInit /\ [][ServiceNext]_serviceVars
=============================================================================
