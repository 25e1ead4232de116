------------------------------ MODULE MemoTable ------------------------------
(***************************************************************************)
(* What rtkMemoize promises the Jsonnet it is called from: one process-    *)
(* wide table that is filled at most once per key, and every call that     *)
(* returns a value returns what the table holds.                           *)
(***************************************************************************)
CONSTANTS Key, Value, NoValue

VARIABLES
  table,     \* table[k]: the value memoized under k
  answered   \* the pairs <<k, v>> that calls have returned

tableVars == <<table, answered>>

Init ==
  /\ table = [k \in Key |-> NoValue]
  /\ answered = {}

(* The call that computed the value is the first to return it. *)
Fill(k, v) ==
  /\ table[k] = NoValue
  /\ table' = [table EXCEPT ![k] = v]
  /\ answered' = answered \cup {<<k, v>>}

Hit(k) ==
  /\ table[k] # NoValue
  /\ answered' = answered \cup {<<k, table[k]>>}
  /\ UNCHANGED table

Next == \E k \in Key : Hit(k) \/ \E v \in Value : Fill(k, v)

Spec == Init /\ [][Next]_tableVars
=============================================================================
