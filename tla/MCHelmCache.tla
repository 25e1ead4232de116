----------------------------- MODULE MCHelmCache -----------------------------
(***************************************************************************)
(* Instances of HelmCache for TLC: which process each worker belongs to,   *)
(* and the symmetry of the workers of one process.                         *)
(***************************************************************************)
EXTENDS HelmCache, TLC

CONSTANTS w1, w2, w3, p1, p2

(* Two workers share the memory of p1; all three share the directory. *)
TwoProcesses == (w1 :> p1) @@ (w2 :> p1) @@ (w3 :> p2)

(* All three workers share the memory of p1, and wait for its mutexes. *)
OneProcess == [w \in Worker |-> p1]

(* The workers of p1 are interchangeable. *)
Workers == Permutations({w1, w2})
=============================================================================
