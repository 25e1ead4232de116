--------------------------- MODULE StrategicPatch ---------------------------
(***************************************************************************)
(* Strategic merge patches (crates/k8s/strategicpatch): the three-way      *)
(* patch that comparing a manifest with the cluster sends                  *)
(* (diff.rs, merge.rs: create_three_way_merge_patch), and what applying a  *)
(* patch makes of an object (merge.rs: apply_strategic_patch).             *)
(*                                                                         *)
(* A JSON value is a record with the tag of its type.  What the schema     *)
(* says of a path depends on the field at its end alone; an item of a list *)
(* is one step of a path, whatever its key.  Conflict detection and        *)
(* preconditions, which the caller does not ask for, are left out.         *)
(***************************************************************************)
EXTENDS Naturals, Sequences, SequencesExt, TLC

CONSTANTS
  Field,       \* the keys of objects that are not directives
  MergeKeys,   \* MergeKeys[f]: the merge keys of a list field, in order
  RetainKeys   \* the fields with the strategy retainKeys

ASSUME PatchAssumption ==
  /\ MergeKeys \in [Field -> Seq(Field)]
  /\ RetainKeys \subseteq Field

Str(v) == [is |-> "string", v |-> v]
Num(v) == [is |-> "number", v |-> v]
Null == [is |-> "null"]
Obj(m) == [is |-> "object", m |-> m]
Arr(a) == [is |-> "array", a |-> a]

Nothing == [f \in {} |-> Null]
Empty == Obj(Nothing)
IsObj(value) == value.is = "object"
IsArr(value) == value.is = "array"
IsPrimitive(value) == ~IsObj(value) /\ ~IsArr(value)
HasNoParts(value) == (IsObj(value) /\ DOMAIN value.m = {}) \/ value = Arr(<<>>)

(* Variant with a bug: an object with nothing in it counts as a change. *)
IsNullPatch(patch) == patch = Null

(* is_empty_patch and is_empty_value differ in what null is. *)
IsEmptyPatch(patch) == HasNoParts(patch) \/ patch = Null

Item == "[]"
SetElementOrder(field) == "$setElementOrder/" \o field
DeleteFromPrimitiveList(field) == "$deleteFromPrimitiveList/" \o field
Retained == "$retainKeys"
Patch == "$patch"
IsDelete(value) == IsObj(value) /\ Patch \in DOMAIN value.m /\ value.m[Patch] = Str("delete")

Plain(m) == DOMAIN m \cap Field
Fields(m, keys) == [k \in keys \cap DOMAIN m |-> m[k]]
Joined(maps) ==
  [k \in UNION {DOMAIN m : m \in maps} |-> (CHOOSE m \in maps : k \in DOMAIN m)[k]]

(* Variant with a bug: the first merge key is taken for all of them. *)
KeyOfFirst(item, keys) ==
  IF keys = <<>> \/ keys[1] \notin DOMAIN item.m THEN <<>> ELSE <<item.m[keys[1]].v>>

(* The values of an item's merge keys, or <<>> when it has none. *)
KeyOf(item, keys) ==
  LET Part(k) == IF IsObj(item) /\ k \in DOMAIN item.m /\ item.m[k].is \in {"string", "number"}
                 THEN item.m[k].v ELSE ""
      parts == [i \in 1 .. Len(keys) |-> Part(keys[i])]
  IN  IF \A i \in 1 .. Len(keys) : parts[i] = "" THEN <<>> ELSE parts

(* For merging two patches, only keys that are all strings count. *)
StringKeyOf(item, keys) ==
  IF \A i \in 1 .. Len(keys) :
       IsObj(item) /\ keys[i] \in DOMAIN item.m /\ item.m[keys[i]].is = "string"
  THEN KeyOf(item, keys) ELSE <<>>

KeyObject(item, keys) == Fields(item.m, Range(keys))
KeysIn(list, keys) == {KeyOf(list[i], keys) : i \in 1 .. Len(list)} \ {<<>>}

(* The items of a list are indexed by their keys: the last one counts. *)
Place(list, keys, key) ==
  CHOOSE i \in 1 .. Len(list) :
    /\ KeyOf(list[i], keys) = key
    /\ \A j \in i + 1 .. Len(list) : KeyOf(list[j], keys) # key

Keyed(list, keys, key) == list[Place(list, keys, key)]

-----------------------------------------------------------------------------
(* The difference of two values.  An option says which pass it is.         *)

(* Variant with a bug: what the manifest lacks is deleted from the live object. *)
DeltaWithDeletions(original) == [deletions |-> TRUE, changes |-> TRUE, original |-> original]

Delta(original) == [deletions |-> FALSE, changes |-> TRUE, original |-> original]
Deletions == [deletions |-> TRUE, changes |-> FALSE, original |-> <<>>]

(* has_retain_keys_ancestor. *)
UnderRetainKeys(path) ==
  \E i \in 1 .. Len(path) - 1 : path[i] \in RetainKeys

(* extract_array_at_path: it does not get past an item of a list. *)
RECURSIVE ArrayAt(_, _)
ArrayAt(value, path) ==
  IF path = <<>> THEN (IF IsArr(value) THEN <<value>> ELSE <<>>)
  ELSE IF IsObj(value) /\ Head(path) \in DOMAIN value.m
       THEN ArrayAt(value.m[Head(path)], Tail(path))
       ELSE <<>>

(* insert_diff_result: directives of a list move up to its parent. *)
Inserted(field, diff) ==
  LET directives == {SetElementOrder(field), DeleteFromPrimitiveList(field)}
      isWrapper == /\ IsObj(diff)
                   /\ DOMAIN diff.m \cap directives # {}
                   /\ DOMAIN diff.m \subseteq {field} \cup directives
      Kept(k) == k \in directives \/ ~IsEmptyPatch(diff.m[k])
  IN  IF IsEmptyPatch(diff) THEN Nothing
      ELSE IF isWrapper THEN Fields(diff.m, {k \in DOMAIN diff.m : Kept(k)})
      ELSE field :> diff

(* diff_arrays_primitive. *)
DiffPrimitives(from, to, path, options) ==
  LET field == Last(path)
      added == options.changes /\ ~(Range(to) \subseteq Range(from))
      gone == IF options.deletions THEN SelectSeq(from, LAMBDA v : v \notin Range(to)) ELSE <<>>
      directive == DeleteFromPrimitiveList(field) :> Arr(gone)
  IN  IF from = to \/ (~added /\ gone = <<>>) THEN Empty
      ELSE IF gone = <<>> THEN Arr(to)
      ELSE IF ~added THEN Obj(directive)
      ELSE Obj(field :> Arr(to) @@ directive)

(* append_server_injected_elements: what follows an item in the live list up
   to the next item of the manifest, unless the user had put it there. *)
Injected(from, to, keys, key, original) ==
  LET next == {i \in 1 .. Len(from) :
                 /\ i > Place(from, keys, key)
                 /\ KeyOf(from[i], keys) \in KeysIn(to, keys) \cup {<<>>}}
      last == IF next = {} THEN Len(from)
              ELSE (CHOOSE i \in next : \A j \in next : i <= j) - 1
      after == SubSeq(from, Place(from, keys, key) + 1, last)
  IN  IF original = <<>> \/ key \notin KeysIn(from, keys) THEN <<>>
      ELSE SelectSeq(after, LAMBDA item : KeyOf(item, keys)
                                            \notin KeysIn(original[1].a, keys))

RECURSIVE Diff(_, _, _, _)

(* diff_maps. *)
DiffMaps(from, to, path, options) ==
  LET both == Plain(from) \cap Plain(to)
      gone == Plain(from) \ Plain(to)
      changed == {Inserted(f, Diff(from[f], to[f], Append(path, f), options)) : f \in both}
      added == IF options.changes THEN {Fields(to, Plain(to) \ DOMAIN from)} ELSE {}
      deleted == IF ~options.deletions \/ gone = {} THEN {}
                 ELSE IF UnderRetainKeys(path)
                      THEN {Retained :> Arr(SetToSeq({Str(f) : f \in Plain(to)}))}
                      ELSE {[f \in gone |-> Null]}
  IN  Obj(Joined(changed \cup added \cup deleted))

(* diff_arrays_strategic. *)
DiffKeyed(from, to, path, keys, options) ==
  LET field == Last(path)
      original == IF options.original = <<>> THEN <<>>
                  ELSE ArrayAt(options.original[1], path)
      New(item) == IF options.changes THEN <<item>> ELSE <<>>
      Changed(item) ==
        LET key == KeyOf(item, keys)
            diff == Diff(Keyed(from, keys, key), item, Append(path, Item), options)
        IN  IF key \notin KeysIn(from, keys) THEN New(item)
            ELSE IF IsEmptyPatch(diff) \/ ~IsObj(diff) THEN <<>>
            ELSE <<Obj(KeyObject(item, keys) @@ diff.m)>>
      gone == IF ~options.deletions THEN <<>>
              ELSE SelectSeq(from, LAMBDA item :
                     KeyOf(item, keys) \notin KeysIn(to, keys) \cup {<<>>})
      Directive(item) == Obj(KeyObject(item, keys) @@ (Patch :> Str("delete")))
      deleted == IF gone # <<>> /\ to = <<>> /\ Len(gone) = Len(from)
                 THEN <<Obj(Patch :> Str("replace"))>>
                 ELSE [i \in 1 .. Len(gone) |-> Directive(gone[i])]
      result == FlattenSeq([i \in 1 .. Len(to) |-> Changed(to[i])]) \o deleted
      Order(item) ==
        LET key == KeyOf(item, keys)
            items == <<item>> \o Injected(from, to, keys, key, original)
        IN  IF key = <<>> THEN <<>>
            ELSE [i \in 1 .. Len(items) |-> Obj(KeyObject(items[i], keys))]
      order == IF options.changes THEN FlattenSeq([i \in 1 .. Len(to) |-> Order(to[i])])
               ELSE <<>>
  IN  IF result = <<>> \/ order = <<>> THEN Arr(result)
      ELSE Obj(field :> Arr(result) @@ SetElementOrder(field) :> Arr(order))

(* diff_arrays. *)
DiffArrays(from, to, path, options) ==
  LET keys == MergeKeys[Last(path)]
      primitive == \A v \in Range(from) \cup Range(to) : IsPrimitive(v)
  IN  IF keys # <<>> THEN DiffKeyed(from, to, path, keys, options)
      ELSE IF primitive THEN DiffPrimitives(from, to, path, options)
      ELSE IF options.changes /\ from # to THEN Arr(to)
      ELSE Empty

(* diff_values. *)
Diff(from, to, path, options) ==
  IF IsObj(from) /\ IsObj(to) THEN DiffMaps(from.m, to.m, path, options)
  ELSE IF IsArr(from) /\ IsArr(to) THEN DiffArrays(from.a, to.a, path, options)
  ELSE IF options.changes /\ from # to THEN to
  ELSE Empty

-----------------------------------------------------------------------------
(* Merging the deletions into the changes.                                 *)

RECURSIVE MergePatches(_, _, _)

(* merge_patch_arrays_by_key, merge_patch_arrays. *)
MergeLists(deletions, delta, path) ==
  LET keys == MergeKeys[Last(path)]
      Key(item) == IF keys = <<>> THEN <<>> ELSE StringKeyOf(item, keys)
      Same(item) == SelectSeq(deletions, LAMBDA d : Key(d) = Key(item))
      Merged(item) ==
        IF Key(item) = <<>> \/ Same(item) = <<>> THEN item
        ELSE MergePatches(Last(Same(item)), item, Append(path, Item))
      matched == {Key(item) : item \in Range(delta)} \ {<<>>}
      rest == SelectSeq(deletions, LAMBDA d : IsDelete(d) /\ Key(d) \notin matched)
  IN  Arr([i \in 1 .. Len(delta) |-> Merged(delta[i])] \o rest)

(* merge_patch_maps. *)
MergeMaps(deletions, delta, path) ==
  LET Merged(k) == MergePatches(deletions[k], delta[k],
                                IF k \in Field THEN Append(path, k) ELSE path)
      both == DOMAIN deletions \cap DOMAIN delta
      merged == [k \in {k \in both : ~HasNoParts(Merged(k))} |-> Merged(k)]
  IN  Obj(merged @@ Fields(deletions, DOMAIN deletions \ both)
                 @@ Fields(delta, DOMAIN delta \ both))

(* merge_patches. *)
MergePatches(deletions, delta, path) ==
  IF IsObj(deletions) /\ IsObj(delta) THEN MergeMaps(deletions.m, delta.m, path)
  ELSE IF IsArr(deletions) /\ IsArr(delta) THEN MergeLists(deletions.a, delta.a, path)
  ELSE IF HasNoParts(delta) THEN deletions
  ELSE delta

(* Variant with a bug: without changes there is nothing to do. *)
ChangesOnlyPatch(original, modified, current) ==
  LET delta == Diff(current, modified, <<>>, Delta(original))
  IN  IF original = <<>> \/ delta = Empty THEN delta
      ELSE MergePatches(Diff(original[1], modified, <<>>, Deletions), delta, <<>>)

(* create_three_way_merge_patch; original is empty or the one value. *)
ThreeWayPatch(original, modified, current) ==
  LET delta == Diff(current, modified, <<>>, Delta(original))
  IN  IF original = <<>> THEN delta
      ELSE MergePatches(Diff(original[1], modified, <<>>, Deletions), delta, <<>>)

-----------------------------------------------------------------------------
(* Applying a patch, as apply_strategic_patch does.                        *)

RECURSIVE WithoutNulls(_)
WithoutNulls(value) ==
  IF IsObj(value)
  THEN LET kept == {k \in DOMAIN value.m : value.m[k] # Null}
       IN  Obj([k \in kept |-> WithoutNulls(value.m[k])])
  ELSE IF IsArr(value)
  THEN LET kept == SelectSeq(value.a, LAMBDA v : v # Null)
       IN  Arr([i \in 1 .. Len(kept) |-> WithoutNulls(kept[i])])
  ELSE value

(* reorder_array_by_element_order: items without a key are dropped. *)
Reordered(list, order, keys) ==
  LET ranks == [i \in 1 .. Len(order) |-> KeyOf(order[i], keys)]
      first == SelectSeq(ranks, LAMBDA key : key \in KeysIn(list, keys))
      rest == SelectSeq(list, LAMBDA item : KeyOf(item, keys) \notin Range(ranks) \cup {<<>>})
  IN  [i \in 1 .. Len(first) |-> Keyed(list, keys, first[i])] \o rest

RECURSIVE ApplyPatch(_, _, _)

(* apply_patch_to_array_strategic: one item of the patch after the other.
   Positions are those in the base, though deletions shift the items. *)
RECURSIVE ApplyItems(_, _, _, _)
ApplyItems(base, result, items, path) ==
  LET keys == MergeKeys[Last(path)]
      item == Head(items)
      key == KeyOf(item, keys)
      position == Place(base, keys, key)
      next == IF IsDelete(item)
              THEN SelectSeq(result, LAMBDA r : key = <<>> \/ KeyOf(r, keys) # key)
              ELSE IF key \notin KeysIn(base, keys) THEN Append(result, WithoutNulls(item))
              ELSE [result EXCEPT ![position] = ApplyPatch(@, item, Append(path, Item))]
  IN  IF items = <<>> THEN Arr(result)
      ELSE ApplyItems(base, next, Tail(items), path)

(* apply_patch_to_map: fields, then the directives in their order. *)
ApplyMap(base, patch, path) ==
  LET Merged(f) == IF f \in DOMAIN base THEN ApplyPatch(base[f], patch[f], Append(path, f))
                   ELSE WithoutNulls(patch[f])
      set == {f \in Plain(patch) : patch[f] # Null}
      merged == [f \in set |-> Merged(f)] @@ Fields(base, DOMAIN base \ Plain(patch))
      retained == IF Retained \notin DOMAIN patch THEN merged
                  ELSE Fields(merged, {s.v : s \in Range(patch[Retained].a)})
      Deleted(f) == LET d == DeleteFromPrimitiveList(f)
                    IN  IF d \in DOMAIN patch THEN Range(patch[d].a) ELSE {}
      Ordered(f, list) ==
        LET o == SetElementOrder(f)
        IN  IF o \notin DOMAIN patch \/ MergeKeys[f] = <<>> THEN list
            ELSE Reordered(list, patch[o].a, MergeKeys[f])
      Directed(f) ==
        IF ~IsArr(retained[f]) THEN retained[f]
        ELSE Arr(Ordered(f, SelectSeq(retained[f].a, LAMBDA v : v \notin Deleted(f))))
  IN  Obj([f \in DOMAIN retained |-> Directed(f)])

(* apply_strategic_patch. *)
ApplyPatch(base, patch, path) ==
  IF IsObj(base) /\ IsObj(patch) THEN ApplyMap(base.m, patch.m, path)
  ELSE IF IsArr(base) /\ IsArr(patch) /\ MergeKeys[Last(path)] # <<>>
       THEN ApplyItems(base.a, base.a, patch.a, path)
  ELSE WithoutNulls(patch)
=============================================================================
