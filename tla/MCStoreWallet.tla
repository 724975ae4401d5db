---------------------------- MODULE MCStoreWallet ----------------------------
(* StoreWallet on a small instance for TLC: an order of two CV credits and a  *)
(* leaderboard reward of a token and a CV credit.                             *)
EXTENDS StoreWallet, TLC

CONSTANTS o1, o2

MCOrders == {o1, o2}
OneOrder == {o1}
MCGives == (o1 :> [cv |-> 2, tokens |-> 0]) @@ (o2 :> [cv |-> 1, tokens |-> 1])
OneGives == o1 :> [cv |-> 2]

Symmetry == Permutations(Spenders)
=============================================================================
