------------------------------- MODULE Preview -------------------------------
(***************************************************************************)
(* What `rtk diff` shows of one object over its life (k8s/diff.rs,         *)
(* diff_native): the manifest is edited and applied, by rtk or by kubectl, *)
(* the cluster sets defaults, adds items and drifts, and at any time a     *)
(* preview has a three-way patch of the last applied, the desired and the  *)
(* live object applied in a dry run.  What rtk then applies client-side is *)
(* another patch, the manifest itself (k8s/apply.rs).                      *)
(*                                                                         *)
(* The dry run is what apply_strategic_patch, this repository's server,    *)
(* makes of the patch.  Kinds that know no strategic merge are left out.   *)
(***************************************************************************)
EXTENDS StrategicPatch, FiniteSets

CONSTANTS
  Manifest,     \* the manifests a user may write
  Drift(_),     \* what the cluster may make of a live object
  MaxEdits,     \* bound: edits of the manifest
  MaxDrifts     \* bound: changes by the cluster

VARIABLES
  manifest,     \* the desired object
  lastApplied,  \* the annotation: <<the manifest applied last>>, or none
  live,         \* the live object
  preview,      \* <<the object the last preview showed>>, or none
  edits, drifts

vars == <<manifest, lastApplied, live, preview, edits, drifts>>

Shown(original, desired, current) ==
  ApplyPatch(current, ThreeWayPatch(original, desired, current), <<>>)

(* The object was created from its manifest by apply or, with no annotation,
   by other means. *)
Init ==
  /\ manifest \in Manifest
  /\ live = manifest
  /\ lastApplied \in {<<manifest>>, <<>>}
  /\ preview = <<>>
  /\ edits = 0 /\ drifts = 0

Edit(m) ==
  /\ edits < MaxEdits
  /\ m # manifest
  /\ edits' = edits + 1
  /\ manifest' = m
  /\ preview' = <<>>
  /\ UNCHANGED <<lastApplied, live, drifts>>

Drifts(object) ==
  /\ drifts < MaxDrifts
  /\ object # live
  /\ drifts' = drifts + 1
  /\ live' = object
  /\ preview' = <<>>
  /\ UNCHANGED <<manifest, lastApplied, edits>>

(* diff_native: the patch, and the dry run of it. *)
Show ==
  /\ preview = <<>>
  /\ preview' = <<Shown(lastApplied, manifest, live)>>
  /\ UNCHANGED <<manifest, lastApplied, live, edits, drifts>>

(* ApplyEngine::apply_manifest, client-side, of an object that differs: the
   manifest is the patch, with nothing to delete in it and no annotation. *)
Apply ==
  /\ preview # <<>>
  /\ preview[1] # live
  /\ live' = ApplyPatch(live, manifest, <<>>)
  /\ preview' = <<>>
  /\ UNCHANGED <<manifest, lastApplied, edits, drifts>>

(* kubectl apply sends what was shown, with its annotation. *)
KubectlApply ==
  /\ preview # <<>>
  /\ live' = preview[1]
  /\ lastApplied' = <<manifest>>
  /\ preview' = <<>>
  /\ UNCHANGED <<manifest, edits, drifts>>

Next ==
  \/ \E m \in Manifest : Edit(m)
  \/ \E object \in Drift(live) : Drifts(object)
  \/ Show
  \/ Apply
  \/ KubectlApply

Spec == Init /\ [][Next]_vars

-----------------------------------------------------------------------------
(* Properties.                                                             *)

(* A list whose items are merged by keys. *)
IsKeyed(f, value) == IsArr(value) /\ MergeKeys[f] # <<>>
Has(object, f) == f \in DOMAIN object.m
HasItem(list, f, item) == KeyOf(item, MergeKeys[f]) \in KeysIn(list.a, MergeKeys[f])
ItemOf(list, f, item) == Keyed(list.a, MergeKeys[f], KeyOf(item, MergeKeys[f]))

(* Value has all that is wanted: its fields, its items by key, and the elements
   of its other lists, in whatever order. *)
RECURSIVE Covers(_, _)
CoversField(f, value, wanted) ==
  IF ~IsKeyed(f, wanted) THEN Covers(value, wanted)
  ELSE \A item \in Range(wanted.a) :
         HasItem(value, f, item) /\ Covers(ItemOf(value, f, item), item)

Covers(value, wanted) ==
  IF IsArr(wanted) THEN IsArr(value) /\ Range(wanted.a) \subseteq Range(value.a)
  ELSE IF ~IsObj(wanted) THEN value = wanted
  ELSE IsObj(value) /\ \A f \in DOMAIN wanted.m : Has(value, f) /\ CoversField(f, value.m[f], wanted.m[f])

(* The preview shows every field and item of the manifest, whatever the
   cluster made of the object in the meantime.  (create_three_way_merge_patch:
   "A strategic merge patch that transforms `current` into `modified`".) *)
ManifestIsShown == preview # <<>> => Covers(preview[1], manifest)

(* Nothing that before has and after has not is in value. *)
RECURSIVE Lost(_, _, _)
LostField(f, before, after, value) ==
  IF ~IsKeyed(f, before) THEN Lost(before, after, value)
  ELSE \A i \in 1 .. Len(before.a) :
         LET item == before.a[i]
         IN  IF ~HasItem(after, f, item) THEN ~HasItem(value, f, item)
             ELSE HasItem(value, f, item) =>
                    Lost(item, ItemOf(after, f, item), ItemOf(value, f, item))

Lost(before, after, value) ==
  IsObj(before) /\ IsObj(after) =>
    \A f \in DOMAIN before.m \cap DOMAIN value.m :
      Has(after, f) /\ LostField(f, before.m[f], after.m[f], value.m[f])

(* When all that is left to do is to remove things, the preview shows
   everything gone that the user had applied and took out of the manifest, at
   any depth.  (merge_patches of the deletions.) *)
RemovalsAreShown ==
  preview # <<>> /\ lastApplied # <<>> /\ Covers(live, manifest) =>
    Lost(lastApplied[1], manifest, preview[1])

(* Fields and items that are neither in the manifest nor in what was applied
   last are left as they are, but where retainKeys asks to drop them. *)
RECURSIVE Kept(_, _, _, _)
KeptField(f, was, ours, theirs, value) ==
  IF ~IsKeyed(f, was) THEN Kept(was, ours, theirs, value)
  ELSE \A i \in 1 .. Len(was.a) :
         LET item == was.a[i]
             In(list) == IF HasItem(list, f, item) THEN ItemOf(list, f, item) ELSE Empty
             foreign == ~HasItem(ours, f, item) /\ ~HasItem(theirs, f, item)
         IN  IF foreign THEN HasItem(value, f, item) /\ ItemOf(value, f, item) = item
             ELSE HasItem(value, f, item) => Kept(item, In(ours), In(theirs), In(value))

Kept(was, ours, theirs, value) ==
  IsObj(was) /\ IsObj(value) =>
    \A f \in DOMAIN was.m \ RetainKeys :
      LET In(object) == IF IsObj(object) /\ Has(object, f) THEN object.m[f]
                        ELSE IF IsArr(was.m[f]) THEN Arr(<<>>) ELSE Empty
          foreign == In(ours) = In(Empty) /\ In(theirs) = In(Empty)
      IN  IF foreign THEN Has(value, f) /\ value.m[f] = was.m[f]
          ELSE Has(value, f) => KeptField(f, was.m[f], In(ours), In(theirs), value.m[f])

Applied == IF lastApplied = <<>> THEN Empty ELSE lastApplied[1]

(* What the cluster or others set is never undone by a change of something
   else, nor by a removal beside it.  (The three-way merge: "not fields added
   by ensure_annotations or other preprocessing", diff_native.) *)
ForeignIsKept == preview # <<>> => Kept(live, manifest, Applied, preview[1])

(* Once rtk has applied it, a manifest is live in full, and the next preview
   shows nothing but removals, which client-side apply does not send; once
   kubectl has, there is no patch that is sent again and again.
   (apply_manifest; diff_native.) *)
AppliedShowsOnlyRemovals ==
  [][/\ Apply => \A object \in {manifest, Shown(lastApplied, manifest, live')} :
                  Covers(live', object)
     /\ KubectlApply => ThreeWayPatch(lastApplied', manifest, live') = Empty]_vars
=============================================================================
