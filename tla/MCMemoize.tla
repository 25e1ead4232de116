------------------------------ MODULE MCMemoize ------------------------------
(***************************************************************************)
(* Instances of Memoize for TLC: which keys each thread's environments ask *)
(* for, and what their thunks ask for in turn.                             *)
(***************************************************************************)
EXTENDS Memoize, TLC

CONSTANTS t1, t2, t3, a, b

(* Everybody's value of a is built from b; t3 has it ask for a itself. *)
Ordered ==
  [t \in Thread |-> (a :> IF t = t3 THEN <<b, a>> ELSE <<b>>) @@ (b :> <<>>)]

(* Two environments that build the same two keys from one another, each in
   its own order.  Neither refers to itself. *)
Crossed == (t1 :> ((a :> <<b>>) @@ (b :> <<>>))) @@
           (t2 :> ((a :> <<>>) @@ (b :> <<a>>)))

(* What the first instance has and the second has not. *)
ASSUME Grounded <=> Needs # Crossed

AskBoth == [t \in Thread |-> IF t = t2 THEN <<b, a>> ELSE <<a, b>>]
AskOwn == (t1 :> <<a>>) @@ (t2 :> <<b>>)
=============================================================================
