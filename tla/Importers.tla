----------------------------- MODULE Importers -----------------------------
(***************************************************************************)
(* The reverse search over the imports of a project                        *)
(* (rtk-jsonnet/importers.rs, find_importers and Search::importers_of):    *)
(* from the files that changed, up to the environments that import them.   *)
(*                                                                         *)
(* Modelled: the recursion with its memo, which the targets of a query     *)
(* share, and its guard against cycles, which is fresh for each target but *)
(* is never taken back within one.  The targets and the importers of a     *)
(* file come in any order: they are collected from hash tables and by      *)
(* parallel iterators.  What a project's literals point at is an input     *)
(* (ImportPaths computes it from a tree of files).                         *)
(***************************************************************************)
EXTENDS Naturals, Sequences

CONSTANTS
  File,      \* paths
  Project,   \* projects, as indexes of what their literals point at
  Query      \* sets of targets

(* direct: the files that import each file; implicit: the entrypoints it
   belongs to; shadows: the importers that carry their own copy of it;
   spellings: what an existing file expands to; readings: what a deleted file
   may have been; reaches: what each entrypoint imports in the end, found
   forwards. *)
Index == [direct : [File -> SUBSET File], implicit : [File -> SUBSET File],
          shadows : [File -> SUBSET File], canonical : [File -> File],
          spellings : [File -> SUBSET File], readings : [File -> SUBSET File],
          existing : SUBSET File, entrypoints : SUBSET File,
          reaches : [File -> SUBSET File]]

Target == [file : File, deleted : BOOLEAN]

ASSUME ImportersAssumption ==
  /\ Project \subseteq Index
  /\ Query \subseteq SUBSET Target

VARIABLES
  project,  \* the index that was built
  query,    \* the targets
  phase,    \* "asked", "searching", "refused" or "done"
  todo,     \* the paths that are left to search from
  found,    \* the files found so far
  memo,     \* memo[f]: the importers of f, once they were searched
  chain,    \* the files entered since the target
  stack,    \* the calls of importers_of that have not returned
  result    \* the answer

vars == <<project, query, phase, todo, found, memo, chain, stack, result>>

(* A call: the importers it has yet to visit, and those it has collected. *)
Frame == [file : File, left : SUBSET File, importers : SUBSET File]
-----------------------------------------------------------------------------
Direct(f) == project.direct[f]
Implicit(f) == project.implicit[f]
Shadows(f) == project.shadows[f]
Canonical(files) == {project.canonical[f] : f \in files}

Init ==
  /\ project \in Project
  /\ query \in Query
  /\ phase = "asked"
  /\ todo = {} /\ found = {} /\ chain = {} /\ stack = <<>>
  /\ memo = [f \in {} |-> {}]
  /\ result = {}

(* One target that should exist and does not fails the query. *)
Refuse ==
  /\ phase = "asked"
  /\ \E t \in query : ~t.deleted /\ t.file \notin project.existing
  /\ phase' = "refused"
  /\ UNCHANGED <<project, query, todo, found, memo, chain, stack, result>>

(* The paths of a target: what a deleted one may have been, or all spellings
   of one that exists. *)
Paths(t) ==
  IF t.deleted THEN project.readings[t.file] ELSE project.spellings[t.file]

ToCheck == UNION {Paths(t) : t \in query}

Begin ==
  /\ phase = "asked"
  /\ \A t \in query : t.deleted \/ t.file \in project.existing
  /\ phase' = "searching"
  /\ todo' = ToCheck
  /\ UNCHANGED <<project, query, found, memo, chain, stack, result>>

-----------------------------------------------------------------------------
Depth == Len(stack)
Top == stack[Depth]
Returned == phase = "searching" /\ stack = <<>>
Searching == phase = "searching" /\ stack # <<>>

(* Variant with a bug: the file does not get its entrypoint. *)
EnterOutside(f) == [file |-> f, left |-> Direct(f), importers |-> {}]

Enter(f) == [file |-> f, left |-> Direct(f), importers |-> Implicit(f)]

(* The next target, with a chain of its own; it was searched before. *)
PickKnown(f) ==
  /\ Returned
  /\ f \in todo
  /\ f \in DOMAIN memo
  /\ todo' = todo \ {f}
  /\ chain' = {f}
  /\ found' = found \cup {f} \cup Canonical(memo[f])
  /\ UNCHANGED <<project, query, phase, memo, stack, result>>

PickNew(f) ==
  /\ Returned
  /\ f \in todo
  /\ f \notin DOMAIN memo
  /\ todo' = todo \ {f}
  /\ chain' = {f}
  /\ found' = found \cup {f}
  /\ stack' = <<Enter(f)>>
  /\ UNCHANGED <<project, query, phase, memo, result>>

(* Variant with a bug: the importer is collected and not ticked off. *)
VisitedAgain(d, more) ==
  [stack EXCEPT ![Depth].importers = @ \cup {d} \cup more]

(* The call goes on with the next direct importer d, and collects it and the
   files in more. *)
Visited(d, more) ==
  [stack EXCEPT ![Depth].left = @ \ {d},
                ![Depth].importers = @ \cup {d} \cup more]

(* It was entered before, by a call that has returned or has not. *)
VisitCycle(d) ==
  /\ Searching
  /\ d \in Top.left
  /\ d \in chain
  /\ stack' = Visited(d, {})
  /\ UNCHANGED <<project, query, phase, todo, found, memo, chain, result>>

VisitKnown(d) ==
  /\ Searching
  /\ d \in Top.left
  /\ d \notin chain
  /\ d \in DOMAIN memo
  /\ chain' = chain \cup {d}
  /\ stack' = Visited(d, memo[d])
  /\ UNCHANGED <<project, query, phase, todo, found, memo, result>>

(* Variant with a bug: the chain is not looked at. *)
VisitUnguarded(d) ==
  /\ Searching
  /\ d \in Top.left
  /\ d \notin DOMAIN memo
  /\ chain' = chain \cup {d}
  /\ stack' = Append(Visited(d, {}), Enter(d))
  /\ UNCHANGED <<project, query, phase, todo, found, memo, result>>

VisitNew(d) ==
  /\ Searching
  /\ d \in Top.left
  /\ d \notin chain
  /\ d \notin DOMAIN memo
  /\ chain' = chain \cup {d}
  /\ stack' = Append(Visited(d, {}), Enter(d))
  /\ UNCHANGED <<project, query, phase, todo, found, memo, result>>

(* Variant with a bug: nobody is dropped. *)
RetainAll(frame) == frame.importers

(* Environments with a copy of their own do not import this one. *)
Retain(frame) == frame.importers \ Shadows(frame.file)

Memoized(files) ==
  [f \in DOMAIN memo \cup {Top.file} |-> IF f = Top.file THEN files ELSE memo[f]]

(* Variant with a bug: what a call found is not handed to the one below. *)
CollectedNothing(files) == SubSeq(stack, 1, Depth - 1)

Collected(files) ==
  [SubSeq(stack, 1, Depth - 1) EXCEPT ![Depth - 1].importers = @ \cup files]

(* The call returns to the one below it. *)
Leave ==
  /\ Searching
  /\ Depth > 1
  /\ Top.left = {}
  /\ memo' = Memoized(Retain(Top))
  /\ stack' = Collected(Retain(Top))
  /\ UNCHANGED <<project, query, phase, todo, found, chain, result>>

(* The call returns to find_importers. *)
Return ==
  /\ Searching
  /\ Depth = 1
  /\ Top.left = {}
  /\ memo' = Memoized(Retain(Top))
  /\ found' = found \cup Canonical(Retain(Top))
  /\ stack' = <<>>
  /\ UNCHANGED <<project, query, phase, todo, chain, result>>

Done ==
  /\ Returned
  /\ todo = {}
  /\ phase' = "done"
  /\ result' = found \cap project.entrypoints
  /\ UNCHANGED <<project, query, todo, found, memo, chain, stack>>

Next ==
  \/ Refuse \/ Begin
  \/ \E f \in File : PickKnown(f) \/ PickNew(f)
  \/ \E d \in File : VisitCycle(d) \/ VisitKnown(d) \/ VisitNew(d)
  \/ Leave \/ Return \/ Done

Spec == Init /\ [][Next]_vars

(* A sequential search: nothing keeps it from its next step. *)
FairSpec == Spec /\ WF_vars(Next)

-----------------------------------------------------------------------------
(* Properties.                                                             *)

(* No file is on the stack twice: the recursion ends. *)
TypeOK ==
  /\ project \in Index
  /\ query \subseteq Target
  /\ phase \in {"asked", "searching", "refused", "done"}
  /\ todo \subseteq File
  /\ found \subseteq File
  /\ DOMAIN memo \subseteq File
  /\ memo \in [DOMAIN memo -> SUBSET File]
  /\ chain \subseteq File
  /\ stack \in Seq(Frame)
  /\ \A i, j \in 1 .. Depth : stack[i].file = stack[j].file => i = j
  /\ result \subseteq File

(* The files that something imports; no other can lead anywhere. *)
Known == {f \in File : Direct(f) \cup Implicit(f) # {}}

(* The files from which a chain of imports leads to e that none of them drops
   because e has a copy of its own: the least set closed under this. *)
LeadsTo(e, files) ==
  {f \in Known : /\ e \notin Shadows(f)
                 /\ \/ e \in Direct(f) \cup Implicit(f)
                    \/ Direct(f) \cap files # {}}

Imported(e) ==
  {f \in Known : \A files \in SUBSET Known : LeadsTo(e, files) \subseteq files => f \in files}

(* Whatever was memoized under whichever chain, every environment reported is
   a target or has a chain of imports to one in which it shadows nothing.
   (importers_of, find_importers.) *)
OnlyImportersAreFound ==
  phase = "done" =>
    \A e \in result :
      \/ e \in ToCheck
      \/ \E f \in File : project.canonical[f] = e /\ Imported(f) \cap ToCheck # {}

(* The targets, and what a chain of imports leads up to from them: the least
   set closed under this. *)
Above(files) == ToCheck \cup UNION {Direct(f) : f \in files}

Dependents ==
  {f \in Above(File) : \A files \in SUBSET Above(File) :
                         Above(files) \subseteq files => f \in files}

NothingIsShadowed == \A f \in File : Shadows(f) = {}

(* Where no vendored file is shadowed, every environment that transitively
   imports a target is reported, whatever the order of the search, though
   what is memoized along a cycle is cut short by the chain it was computed
   under.  (importers_of.) *)
EveryImporterIsFound ==
  phase = "done" /\ NothingIsShadowed =>
    \A f \in Dependents :
      Canonical(Direct(f) \cup Implicit(f)) \cap project.entrypoints \subseteq result

(* The two searches agree: an environment that the forward search finds to
   import an existing target is reported.  (find_importers, against
   transitive_imports.) *)
ReachingEnvironmentsAreFound ==
  phase = "done" =>
    \A t \in query, e \in project.entrypoints :
      ~t.deleted /\ t.file \in project.reaches[e] => e \in result

ForwardsAndBackwardsAgree == NothingIsShadowed => ReachingEnvironmentsAreFound

(* What the index of p knows to belong to e, to be imported by it, or to be
   imported by one of the files; all of it among what e reaches. *)
Retraced(p, e, files) ==
  {f \in p.reaches[e] : \/ e \in p.direct[f] \cup p.implicit[f]
                        \/ p.direct[f] \cap files # {}}

(* Whatever e reaches forwards, imports the index knows lead back from to e. *)
Retraceable(p) ==
  \A e \in p.entrypoints :
    /\ p.canonical[e] = e
    /\ \A f \in p.reaches[e] : f \in p.spellings[f]
    /\ \A files \in SUBSET p.reaches[e] :
         Retraced(p, e, files) \subseteq files => p.reaches[e] \subseteq files \cup {e}

(* The two ways of resolving a literal agree where they need to: what is asked
   of the projects for the two searches to agree. *)
LiteralsAgree ==
  \A p \in Project : (\A f \in File : p.shadows[f] = {}) => Retraceable(p)

(* The search ends.  (The guard against cycles.) *)
EverySearchEnds == <>(phase \in {"refused", "done"})
=============================================================================
