---------------------------- MODULE MCSchemaCache ----------------------------
(***************************************************************************)
(* Instances of SchemaCache for TLC: two diff tasks of one process and one  *)
(* of another; groups that the built-in schemas cover and that they do not. *)
(***************************************************************************)
EXTENDS SchemaCache, TLC

CONSTANTS t1, t2, t3, p1, p2, apps, custom, c1, c2

TwoProcesses == (t1 :> p1) @@ (t2 :> p1) @@ (t3 :> p2)
=============================================================================
