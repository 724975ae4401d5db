-------------------------- MODULE EntitlementLedger --------------------------
(***************************************************************************)
(* What the package store promises, without sessions, locks, retries or    *)
(* refund operations: an order is credited at most once, for a purchase    *)
(* that pays for no other order, and its credit is taken back at most      *)
(* once and only when the money of that purchase went back.                *)
(***************************************************************************)
CONSTANTS Orders, Purchases, NoPurchase

VARIABLES
  credit,   \* "none", "granted" or "revoked", for each order
  paidWith, \* the purchase an order was credited for
  money     \* "paid" or "voided", for each purchase

vars == <<credit, paidWith, money>>

Init ==
  /\ credit = [o \in Orders |-> "none"]
  /\ paidWith = [o \in Orders |-> NoPurchase]
  /\ money = [p \in Purchases |-> "paid"]

Grant(o, p) ==
  /\ credit[o] = "none"
  /\ \A other \in Orders : paidWith[other] # p
  /\ credit' = [credit EXCEPT ![o] = "granted"]
  /\ paidWith' = [paidWith EXCEPT ![o] = p]
  /\ UNCHANGED money

ReturnMoney(p) ==
  /\ money[p] = "paid"
  /\ money' = [money EXCEPT ![p] = "voided"]
  /\ UNCHANGED <<credit, paidWith>>

Revoke(o) ==
  /\ credit[o] = "granted"
  /\ money[paidWith[o]] = "voided"
  /\ credit' = [credit EXCEPT ![o] = "revoked"]
  /\ UNCHANGED <<paidWith, money>>

Next ==
  \/ \E o \in Orders, p \in Purchases : Grant(o, p)
  \/ \E p \in Purchases : ReturnMoney(p)
  \/ \E o \in Orders : Revoke(o)

Spec == Init /\ [][Next]_vars
=============================================================================
