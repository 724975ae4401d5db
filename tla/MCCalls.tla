------------------------------- MODULE MCCalls -------------------------------
(* Calls on a small instance for TLC: two calls that share one of three users. *)
EXTENDS Calls, TLC

CONSTANTS u1, u2, u3, c1, c2

MCUsers == {u1, u2, u3}
MCCalls == {c1, c2}
MCCallerOf == (c1 :> u1) @@ (c2 :> u3)
MCReceiverOf == (c1 :> u2) @@ (c2 :> u2)

Symmetry == Permutations(Requests)
=============================================================================
