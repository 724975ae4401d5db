---------------------------- MODULE MCStoreOrders ----------------------------
(* What is for sale and how it is paid, on a small instance for TLC:           *)
(* StoreOrders, Subscriptions, Catalogue, Coupons and Commissions side by      *)
(* side. They share no state; `moving` says which of them a behaviour is       *)
(* about, so that TLC explores the sum of their states, not the product.       *)
EXTENDS StoreOrders, Subscriptions, Catalogue, Coupons, Commissions, TLC

\* The names stand for something else in every module: o1 and o2 also for the
\* workers of Subscriptions, the desks of Catalogue and the converters of
\* Commissions; the sessions also for two of the buyers of Coupons.
Symmetry == Permutations(Orders) \union Permutations(Sessions)

VARIABLE moving

BillingInit ==
  /\ Init /\ SubscriptionsInit /\ CatalogueInit /\ CouponsInit /\ CommissionsInit
  /\ moving \in {"orders", "subscriptions", "catalogue", "coupons", "commissions"}
  /\ moving # "coupons" => holder = "nobody" /\ ~native
  /\ moving # "commissions" => coupon = [c \in CouponCodes |-> NoCoupon]

BillingNext ==
  /\ moving' = moving
  /\ \/ moving = "orders" /\ Next
     \/ moving # "orders" /\ UNCHANGED vars
  /\ \/ moving = "subscriptions" /\ SubscriptionsNext
     \/ moving # "subscriptions" /\ UNCHANGED subscriptionVars
  /\ \/ moving = "catalogue" /\ CatalogueNext
     \/ moving # "catalogue" /\ UNCHANGED catalogueVars
  /\ \/ moving = "coupons" /\ CouponsNext
     \/ moving # "coupons" /\ UNCHANGED couponVars
  /\ \/ moving = "commissions" /\ CommissionsNext
     \/ moving # "commissions" /\ UNCHANGED commissionVars

BillingSpec ==
  BillingInit
    /\ [][BillingNext]_<<vars, subscriptionVars, catalogueVars, couponVars, commissionVars, moving>>
=============================================================================
