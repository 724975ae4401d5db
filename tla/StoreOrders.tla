----------------------------- MODULE StoreOrders -----------------------------
(***************************************************************************)
(* The checkout of package-store orders paid through Google Play:          *)
(* src/package-store/services/package-store.service.ts.                    *)
(*                                                                         *)
(* An order is created PENDING.  A session (an HTTP request, the RTDN      *)
(* worker that calls the same handler, or a run of the expiry cron)        *)
(* verifies a purchase against it, cancels it or expires it.  Verification *)
(* is three database transactions with calls to Google Play before and     *)
(* after them, so that sessions interleave between any two of them.        *)
(*                                                                         *)
(* Transactions that change the order row first take its row lock, load    *)
(* the order with its relations, change the copy in memory and save it.    *)
(* The relations cascade, so the save also writes back the provider        *)
(* transaction AS LOADED, and that row is not protected by the order's     *)
(* lock: VerifyMark changes it under a lock of its own.  A load and its    *)
(* save are therefore two actions here, and the lock is held in between.   *)
(***************************************************************************)
EXTENDS Naturals, FiniteSets

CONSTANTS
  Orders,      \* the orders of one user for one product
  Purchases,   \* store purchases (purchase token and store order id, one to one)
  Sessions,    \* concurrent executions of the handlers
  NoOrder, NoPurchase,
  MaxFaults    \* bound on crashes and database errors in a behaviour

ASSUME NoneAssumption == NoOrder \notin Orders /\ NoPurchase \notin Purchases
ASSUME FaultAssumption == MaxFaults \in Nat

VARIABLES
  status,      \* store_orders.status, "none" before the row exists
  overdue,     \* checkoutExpiresAt <= now
  ptx,         \* store_order_provider_transactions: the VERIFIED purchase, or none
  payment,     \* store_order_payments.providerReference
  grants,      \* history: how many times grantOrder was committed for the order
  play,        \* Google Play's record of the purchase: "paid" or "voided"
  consumed,    \* Google Play: the purchase has been consumed
  pc,          \* where a session is
  sOrder,      \* the order a session works on
  sPurchase,   \* the purchase it verifies
  sLoaded,     \* the provider transaction it loaded with the locked order
  faults       \* crashes so far

playVars == <<play, consumed>>
rowVars == <<status, overdue, ptx, payment, grants>>
sessionVars == <<pc, sOrder, sPurchase, sLoaded>>
vars == <<rowVars, playVars, sessionVars, faults>>

-----------------------------------------------------------------------------
Statuses == {"none", "pending", "completed", "cancelled", "expired", "refunded"}

\* completeOrder accepts these (a late purchase recovers a closed checkout).
Recoverable == {"pending", "expired", "cancelled"}

\* A session in one of these holds the row lock of its order.
Holding == {"completing", "expiring", "cancelling"}

Steps == {"idle", "checked", "marked", "granted"} \union Holding

\* (Mutant: the order is read without FOR UPDATE.)
UnlockedAlways(o) == o \in Orders

Unlocked(o) == \A s \in Sessions : ~(pc[s] \in Holding /\ sOrder[s] = o)

Goto(s, step, o, p, loaded) ==
  /\ pc' = [pc EXCEPT ![s] = step]
  /\ sOrder' = [sOrder EXCEPT ![s] = o]
  /\ sPurchase' = [sPurchase EXCEPT ![s] = p]
  /\ sLoaded' = [sLoaded EXCEPT ![s] = loaded]

Leave(s) == Goto(s, "idle", NoOrder, NoPurchase, NoPurchase)

TypeOK ==
  /\ status \in [Orders -> Statuses]
  /\ overdue \in [Orders -> BOOLEAN]
  /\ ptx \in [Orders -> Purchases \union {NoPurchase}]
  /\ payment \in [Orders -> Purchases \union {NoPurchase}]
  /\ grants \in [Orders -> Nat]
  /\ play \in [Purchases -> {"paid", "voided"}]
  /\ consumed \in [Purchases -> BOOLEAN]
  /\ pc \in [Sessions -> Steps]
  /\ sOrder \in [Sessions -> Orders \union {NoOrder}]
  /\ sPurchase \in [Sessions -> Purchases \union {NoPurchase}]
  /\ sLoaded \in [Sessions -> Purchases \union {NoPurchase}]
  /\ faults \in 0..MaxFaults

Init ==
  /\ status = [o \in Orders |-> "none"]
  /\ overdue = [o \in Orders |-> FALSE]
  /\ ptx = [o \in Orders |-> NoPurchase]
  /\ payment = [o \in Orders |-> NoPurchase]
  /\ grants = [o \in Orders |-> 0]
  /\ play = [p \in Purchases |-> "paid"]
  /\ consumed = [p \in Purchases |-> FALSE]
  /\ pc = [s \in Sessions |-> "idle"]
  /\ sOrder = [s \in Sessions |-> NoOrder]
  /\ sPurchase = [s \in Sessions |-> NoPurchase]
  /\ sLoaded = [s \in Sessions |-> NoPurchase]
  /\ faults = 0

-----------------------------------------------------------------------------
(* createOrder: one row per (user, idempotency key); a repeated key returns *)
(* the existing order and changes nothing.                                  *)
Create(o) ==
  /\ status[o] = "none"
  /\ status' = [status EXCEPT ![o] = "pending"]
  /\ UNCHANGED <<overdue, ptx, payment, grants, playVars, sessionVars, faults>>

\* The checkout timer of an order runs out.
CheckoutTimesOut(o) ==
  /\ status[o] # "none"
  /\ ~overdue[o]
  /\ overdue' = [overdue EXCEPT ![o] = TRUE]
  /\ UNCHANGED <<status, ptx, payment, grants, playVars, sessionVars, faults>>

\* The user, the bank or Google voids a purchase.
PurchaseVoided(p) ==
  /\ play[p] = "paid"
  /\ play' = [play EXCEPT ![p] = "voided"]
  /\ UNCHANGED <<rowVars, consumed, sessionVars, faults>>

-----------------------------------------------------------------------------
(* verifyGooglePlayPurchase, a consumable product.                          *)

\* The order is read without a lock and Google Play confirms the purchase.
VerifyCheck(s, o, p) ==
  /\ pc[s] = "idle"
  /\ status[o] # "none"
  /\ play[p] = "paid"
  /\ Goto(s, "checked", o, p, NoPurchase)
  /\ UNCHANGED <<rowVars, playVars, faults>>

\* (Mutants: only this order's transaction is looked at, or only those of others.)
ClaimableHere(o, p) == ptx[o] \in {NoPurchase, p}

ClaimableElsewhere(o, p) == \A other \in Orders \ {o} : ptx[other] # p

\* The checks of markProviderTransactionVerified.  The unique indexes of the
\* two tables repeat them and are left out: the code's own checks must do.
Claimable(o, p) ==
  /\ \A other \in Orders \ {o} : ptx[other] # p
  /\ ptx[o] \in {NoPurchase, p}

\* markProviderTransactionVerified: atomic under the row lock of the provider
\* transaction and the advisory locks of the purchase, NOT of the order.
VerifyMark(s) ==
  LET o == sOrder[s]
      p == sPurchase[s]
  IN /\ pc[s] = "checked"
     /\ Claimable(o, p)
     /\ ptx' = [ptx EXCEPT ![o] = p]
     /\ Goto(s, "marked", o, p, NoPurchase)
     /\ UNCHANGED <<status, overdue, payment, grants, playVars, faults>>

\* (Mutants: a closed checkout is not recovered; the early return of a completed
\* order does not look at the order.)
CompletablePending(o, p) ==
  /\ ptx[o] = p
  /\ status[o] = "pending"
  /\ \A other \in Orders \ {o} : payment[other] # p

AlreadyVerified(o, p) == ptx[o] = p

\* completeOrder, from the lock to the save.
Completable(o, p) ==
  /\ ptx[o] = p
  /\ status[o] \in Recoverable
  /\ \A other \in Orders \ {o} : payment[other] # p

AlreadyCompleted(o, p) ==
  /\ ptx[o] = p
  /\ status[o] = "completed"
  /\ payment[o] = p

CompleteLoad(s) ==
  LET o == sOrder[s]
      p == sPurchase[s]
  IN /\ pc[s] = "marked"
     /\ Unlocked(o)
     /\ \/ Completable(o, p) /\ Goto(s, "completing", o, p, ptx[o])
        \/ AlreadyCompleted(o, p) /\ Goto(s, "granted", o, p, NoPurchase)
     /\ UNCHANGED <<rowVars, playVars, faults>>

\* The saves of completeOrder, grantOrder and the commit.
CompleteSave(s) ==
  LET o == sOrder[s]
      p == sPurchase[s]
  IN /\ pc[s] = "completing"
     /\ status' = [status EXCEPT ![o] = "completed"]
     /\ ptx' = [ptx EXCEPT ![o] = sLoaded[s]]
     /\ payment' = [payment EXCEPT ![o] = p]
     /\ grants' = [grants EXCEPT ![o] = @ + 1]
     /\ Goto(s, "granted", o, p, NoPurchase)
     /\ UNCHANGED <<overdue, playVars, faults>>

\* consumeOneTimeProduct, which first asks again whether the purchase stands.
Consume(s) ==
  LET p == sPurchase[s]
  IN /\ pc[s] = "granted"
     /\ play[p] = "paid"
     /\ consumed' = [consumed EXCEPT ![p] = TRUE]
     /\ Leave(s)
     /\ UNCHANGED <<rowVars, play, faults>>

\* A check of the step the session is at throws: the request ends.
Refused(s) ==
  LET o == sOrder[s]
      p == sPurchase[s]
  IN /\ \/ pc[s] = "checked" /\ ~Claimable(o, p)
        \/ /\ pc[s] = "marked"
           /\ Unlocked(o)
           /\ ~Completable(o, p)
           /\ ~AlreadyCompleted(o, p)
        \/ pc[s] = "granted" /\ play[p] = "voided"
     /\ Leave(s)
     /\ UNCHANGED <<rowVars, playVars, faults>>

-----------------------------------------------------------------------------
\* (Mutant: the status is not checked again under the lock.)
ExpireLoadUnchecked(s, o) ==
  /\ pc[s] = "idle"
  /\ Unlocked(o)
  /\ status[o] # "none"
  /\ overdue[o]
  /\ Goto(s, "expiring", o, NoPurchase, ptx[o])
  /\ UNCHANGED <<rowVars, playVars, faults>>

\* expireSingleCheckoutOrder: the lock, the load and the two early returns.
ExpireLoad(s, o) ==
  /\ pc[s] = "idle"
  /\ Unlocked(o)
  /\ status[o] = "pending"
  /\ overdue[o]
  /\ Goto(s, "expiring", o, NoPurchase, ptx[o])
  /\ UNCHANGED <<rowVars, playVars, faults>>

\* cancelOrder: the lock, the load and the answers that change nothing.
CancelLoad(s, o) ==
  /\ pc[s] = "idle"
  /\ Unlocked(o)
  /\ status[o] = "pending"
  /\ Goto(s, "cancelling", o, NoPurchase, ptx[o])
  /\ UNCHANGED <<rowVars, playVars, faults>>

\* The cascading save of either: the provider transaction is written as loaded.
CloseSave(s, from, to) ==
  LET o == sOrder[s]
  IN /\ pc[s] = from
     /\ status' = [status EXCEPT ![o] = to]
     /\ ptx' = [ptx EXCEPT ![o] = sLoaded[s]]
     /\ Leave(s)
     /\ UNCHANGED <<overdue, payment, grants, playVars, faults>>

ExpireSave(s) == CloseSave(s, "expiring", "expired")

CancelSave(s) == CloseSave(s, "cancelling", "cancelled")

\* The process dies or the database fails: the transaction rolls back.
Crash(s) ==
  /\ pc[s] # "idle"
  /\ faults < MaxFaults
  /\ faults' = faults + 1
  /\ Leave(s)
  /\ UNCHANGED <<rowVars, playVars>>

-----------------------------------------------------------------------------
Verify(s) ==
  \/ \E o \in Orders, p \in Purchases : VerifyCheck(s, o, p)
  \/ VerifyMark(s)
  \/ CompleteLoad(s)
  \/ CompleteSave(s)
  \/ Consume(s)
  \/ Refused(s)

Close(s) ==
  \/ \E o \in Orders : ExpireLoad(s, o) \/ CancelLoad(s, o)
  \/ ExpireSave(s)
  \/ CancelSave(s)

Environment ==
  \/ \E o \in Orders : Create(o) \/ CheckoutTimesOut(o)
  \/ \E p \in Purchases : PurchaseVoided(p)

Next ==
  \/ Environment
  \/ \E s \in Sessions : Verify(s) \/ Close(s) \/ Crash(s)

Spec == Init /\ [][Next]_vars

\* What a session that began a step does next, for the fairness of StoreRefunds.
SessionStep(s) ==
  VerifyMark(s) \/ CompleteLoad(s) \/ CompleteSave(s) \/ Consume(s)
    \/ Refused(s) \/ ExpireSave(s) \/ CancelSave(s)

-----------------------------------------------------------------------------
(* Properties.                                                              *)

\* However many sessions present the same purchase, resume after a crash or
\* race a cancellation, package resources are credited once for a completed
\* order and never for another one (completeOrder under the order's lock).
GrantedExactlyOnce ==
  \A o \in Orders :
    grants[o] = IF status[o] \in {"completed", "refunded"} THEN 1 ELSE 0

\* A completed order keeps the verified transaction it was paid with: no stale
\* cascading save of another session takes it back to PENDING or to another one.
CompletedStaysVerified ==
  \A o \in Orders :
    status[o] \in {"completed", "refunded"} =>
      payment[o] # NoPurchase /\ ptx[o] = payment[o]

\* One purchase pays for at most one order, although an order that lost its
\* verification to a stale save frees the purchase for another order.
OnePurchaseOneOrder ==
  \A o1, o2 \in Orders :
    payment[o1] # NoPurchase /\ payment[o1] = payment[o2] => o1 = o2

\* A purchase is consumed at Google Play only when an order has been credited
\* for it: consuming first would lose the user's money after a crash.
ConsumedWasGranted ==
  \A p \in Purchases :
    consumed[p] => \E o \in Orders : payment[o] = p /\ grants[o] = 1

\* Orders, the purchases they hold and their payments fit together after any
\* interleaving of handlers that save whole graphs (getOrderGraphWithManager).
OrdersConsistent ==
  /\ TypeOK
  /\ CompletedStaysVerified
  /\ OnePurchaseOneOrder
  /\ ConsumedWasGranted

\* The row lock serialises the transactions that load and save an order.
OneHolderPerOrder ==
  \A s, t \in Sessions :
    pc[s] \in Holding /\ pc[t] \in Holding /\ sOrder[s] = sOrder[t] => s = t

\* An order leaves the recoverable states only to COMPLETED, and COMPLETED only
\* to REFUNDED: no late expiry or cancellation closes a paid order.
PaidOrderNotClosed ==
  [][\A o \in Orders :
       /\ status[o] = "completed" => status'[o] \in {"completed", "refunded"}
       /\ status[o] = "refunded" => status'[o] = "refunded"]_vars

\* A paid purchase presented for an order that is still open is eventually
\* credited to some order, or voided, or the order went to another purchase:
\* a checkout that expired or was cancelled meanwhile does not strand it.
PaidIsCredited ==
  \A o \in Orders, p \in Purchases :
    (status[o] \in Recoverable /\ play[p] = "paid") ~>
      \/ \E x \in Orders : payment[x] = p
      \/ play[p] = "voided"
      \/ ptx[o] \notin {p, NoPurchase}
=============================================================================
