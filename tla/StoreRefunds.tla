----------------------------- MODULE StoreRefunds -----------------------------
(***************************************************************************)
(* Refunds of package-store orders, composed with the checkout of          *)
(* StoreOrders: refundGooglePlayOrder, the saga an administrator starts,    *)
(* and applyGooglePlayVoidedPurchase, which the RTDN processor and the      *)
(* reconciliation job call when Google reports a voided purchase.           *)
(*                                                                         *)
(* A saga is: a transaction that reserves the refund operation, the call   *)
(* to Google Play, a transaction that records its success, a transaction   *)
(* that reverses the order, and an unguarded UPDATE of the operation when  *)
(* one of these throws.  A transaction that needs the order takes its row  *)
(* lock; order and operation are only changed under locks, so each of the  *)
(* transactions is one action, enabled while no session holds the order.   *)
(* Two of them lock order and operation in opposite orders: the one        *)
(* PostgreSQL aborts is a database error (DatabaseError, or a crash).      *)
(***************************************************************************)
EXTENDS StoreOrders

CONSTANT Refunders   \* requests and workers that run a refund

VARIABLES
  op,         \* provider_refund_operations.status, "none" before the row exists
  reversals,  \* history: how many times reverseOrder was committed for the order
  rpc,        \* where a refund is
  rOrder      \* the order it is about

refundVars == <<op, reversals, rpc, rOrder>>
refundAllVars == <<vars, refundVars>>

OpStatuses == {"none", "processing", "provider_completed", "completed", "failed"}

\* The steps between the reservation of the operation and its outcome.
Calling == {"call", "record", "callFailed"}

RefundSteps == {"idle", "apply", "applyFailed", "voidApply"} \union Calling

RefundTypeOK ==
  /\ TypeOK
  /\ op \in [Orders -> OpStatuses]
  /\ reversals \in [Orders -> Nat]
  /\ rpc \in [Refunders -> RefundSteps]
  /\ rOrder \in [Refunders -> Orders \union {NoOrder}]

RefundInit ==
  /\ Init
  /\ op = [o \in Orders |-> "none"]
  /\ reversals = [o \in Orders |-> 0]
  /\ rpc = [r \in Refunders |-> "idle"]
  /\ rOrder = [r \in Refunders |-> NoOrder]

RGoto(r, step, o) ==
  /\ rpc' = [rpc EXCEPT ![r] = step]
  /\ rOrder' = [rOrder EXCEPT ![r] = o]

RLeave(r) == RGoto(r, "idle", NoOrder)

-----------------------------------------------------------------------------
(* refundGooglePlayOrder.                                                   *)

\* (Mutants: an operation in progress is taken for a new one; a failed one for
\* one whose money went back.)
PrepareInProgress(r, o) ==
  /\ rpc[r] = "idle"
  /\ Unlocked(o)
  /\ ptx[o] # NoPurchase
  /\ status[o] = "completed"
  /\ op[o] \in {"none", "failed", "processing"}
  /\ op' = [op EXCEPT ![o] = "processing"]
  /\ RGoto(r, "call", o)
  /\ UNCHANGED <<vars, reversals>>

PrepareResumed(r, o) ==
  /\ rpc[r] = "idle"
  /\ Unlocked(o)
  /\ ptx[o] # NoPurchase
  /\ status[o] = "completed"
  /\ \/ /\ op[o] = "none"
        /\ op' = [op EXCEPT ![o] = "processing"]
        /\ RGoto(r, "call", o)
     \/ /\ op[o] \in {"provider_completed", "failed"}
        /\ RGoto(r, "apply", o)
        /\ UNCHANGED op
  /\ UNCHANGED <<vars, reversals>>

\* preparePackageRefundOperation: only a verified, completed order.  A finished
\* operation, one that another request is PROCESSING, or an order REFUNDED
\* meanwhile end the request without a change.  The operation names the Google
\* order it was created for; it is the one of ptx (see OpKeepsPurchase).
Prepare(r, o) ==
  /\ rpc[r] = "idle"
  /\ Unlocked(o)
  /\ ptx[o] # NoPurchase
  /\ status[o] = "completed"
  /\ \/ /\ op[o] \in {"none", "failed"}
        /\ op' = [op EXCEPT ![o] = "processing"]
        /\ RGoto(r, "call", o)
     \/ /\ op[o] = "provider_completed"
        /\ RGoto(r, "apply", o)
        /\ UNCHANGED op
  /\ UNCHANGED <<vars, reversals>>

\* Google Play refunds the order; a purchase voided already may be accepted too.
ProviderRefunds(r) ==
  LET p == ptx[rOrder[r]]
  IN /\ rpc[r] = "call"
     /\ play' = [play EXCEPT ![p] = "voided"]
     /\ RGoto(r, "record", rOrder[r])
     /\ UNCHANGED <<rowVars, consumed, sessionVars, faults, op, reversals>>

\* (Mutant: an error of the call is not caught.)
ProviderThrowsUncaught(r) ==
  LET p == ptx[rOrder[r]]
  IN /\ rpc[r] = "call"
     /\ \/ UNCHANGED play
        \/ play' = [play EXCEPT ![p] = "voided"]
     /\ RLeave(r)
     /\ UNCHANGED <<rowVars, consumed, sessionVars, faults, op, reversals>>

\* The call throws: refused, or the answer is lost after the money went back.
ProviderThrows(r) ==
  LET p == ptx[rOrder[r]]
  IN /\ rpc[r] = "call"
     /\ \/ UNCHANGED play
        \/ play' = [play EXCEPT ![p] = "voided"]
     /\ RGoto(r, "callFailed", rOrder[r])
     /\ UNCHANGED <<rowVars, consumed, sessionVars, faults, op, reversals>>

\* (Mutant: the operation is finished before the order is reversed.)
MarkProviderCompletedEarly(r) ==
  /\ rpc[r] = "record"
  /\ op' = [op EXCEPT ![rOrder[r]] = "completed"]
  /\ RGoto(r, "apply", rOrder[r])
  /\ UNCHANGED <<vars, reversals>>

\* markPackageRefundProviderCompleted.
MarkProviderCompleted(r) ==
  LET o == rOrder[r]
  IN /\ rpc[r] = "record"
     /\ op' = [op EXCEPT ![o] = IF @ = "completed" THEN @ ELSE "provider_completed"]
     /\ RGoto(r, "apply", o)
     /\ UNCHANGED <<vars, reversals>>

\* applyPackageRefundLocally: what it requires and what it changes.
Applicable(o) ==
  /\ op[o] \in {"provider_completed", "completed"}
  /\ status[o] \in {"completed", "refunded"}

\* (Mutant: an order refunded meanwhile is reversed again.)
ApplyLocallyAgain(o) ==
  /\ Unlocked(o)
  /\ Applicable(o)
  /\ op' = [op EXCEPT ![o] = "completed"]
  /\ status' = [status EXCEPT ![o] = "refunded"]
  /\ reversals' = [reversals EXCEPT ![o] = @ + 1]
  /\ UNCHANGED <<overdue, ptx, payment, grants, playVars, sessionVars, faults>>

ApplyLocally(o) ==
  /\ Unlocked(o)
  /\ Applicable(o)
  /\ op' = [op EXCEPT ![o] = "completed"]
  /\ IF status[o] = "refunded"
     THEN UNCHANGED <<status, reversals>>
     ELSE /\ status' = [status EXCEPT ![o] = "refunded"]
          /\ reversals' = [reversals EXCEPT ![o] = @ + 1]
  /\ UNCHANGED <<overdue, ptx, payment, grants, playVars, sessionVars, faults>>

Apply(r) ==
  /\ rpc[r] = "apply"
  /\ ApplyLocally(rOrder[r])
  /\ RLeave(r)

ApplyRefused(r) ==
  /\ rpc[r] = "apply"
  /\ Unlocked(rOrder[r])
  /\ ~Applicable(rOrder[r])
  /\ RGoto(r, "applyFailed", rOrder[r])
  /\ UNCHANGED <<vars, op, reversals>>

\* (Mutant: preserveProviderCompleted for a call that failed.)
MarkFailurePreserved(r) ==
  /\ rpc[r] \in {"callFailed", "applyFailed"}
  /\ op' = [op EXCEPT ![rOrder[r]] = "provider_completed"]
  /\ RLeave(r)
  /\ UNCHANGED <<vars, reversals>>

\* markPackageRefundFailure: an UPDATE by id that looks at nothing.
MarkFailure(r) ==
  LET o == rOrder[r]
  IN /\ \/ /\ rpc[r] = "callFailed"
           /\ op' = [op EXCEPT ![o] = "failed"]
        \/ /\ rpc[r] = "applyFailed"
           /\ op' = [op EXCEPT ![o] = "provider_completed"]
     /\ RLeave(r)
     /\ UNCHANGED <<vars, reversals>>

\* A transaction of the saga throws: its catch block runs.
DatabaseError(r) ==
  /\ faults < MaxFaults
  /\ faults' = faults + 1
  /\ \/ rpc[r] = "record" /\ RGoto(r, "callFailed", rOrder[r])
     \/ rpc[r] = "apply" /\ RGoto(r, "applyFailed", rOrder[r])
  /\ UNCHANGED <<rowVars, playVars, sessionVars, op, reversals>>

-----------------------------------------------------------------------------
(* applyGooglePlayVoidedPurchase.                                           *)

\* (Mutant: a void of an order that has an operation is taken for a duplicate.)
VoidDeliveredOnce(r, o) ==
  /\ rpc[r] = "idle"
  /\ ptx[o] # NoPurchase
  /\ play[ptx[o]] = "voided"
  /\ Unlocked(o)
  /\ op[o] = "none"
  /\ op' = [op EXCEPT ![o] = "provider_completed"]
  /\ RGoto(r, "voidApply", o)
  /\ UNCHANGED <<vars, reversals>>

\* A notification or a listed record of a voided purchase whose provider
\* transaction is found.  It is delivered until it was processed, that is
\* until the order is REFUNDED.  The first transaction looks at the operation,
\* not at the status of the order.
VoidDelivered(r, o) ==
  /\ rpc[r] = "idle"
  /\ ptx[o] # NoPurchase
  /\ play[ptx[o]] = "voided"
  /\ Unlocked(o)
  /\ op[o] # "completed"
  /\ op' = [op EXCEPT ![o] = "provider_completed"]
  /\ RGoto(r, "voidApply", o)
  /\ UNCHANGED <<vars, reversals>>

VoidApply(r) ==
  /\ rpc[r] = "voidApply"
  /\ ApplyLocally(rOrder[r])
  /\ RLeave(r)

\* The event fails and will be retried; nobody marks the operation.
VoidRefused(r) ==
  /\ rpc[r] = "voidApply"
  /\ Unlocked(rOrder[r])
  /\ ~Applicable(rOrder[r])
  /\ RLeave(r)
  /\ UNCHANGED <<vars, op, reversals>>

\* The process dies between two transactions: no catch block runs.
RefundCrash(r) ==
  /\ rpc[r] # "idle"
  /\ faults < MaxFaults
  /\ faults' = faults + 1
  /\ RLeave(r)
  /\ UNCHANGED <<rowVars, playVars, sessionVars, op, reversals>>

-----------------------------------------------------------------------------
RefundStep(r) ==
  \/ ProviderRefunds(r) \/ ProviderThrows(r) \/ MarkProviderCompleted(r)
  \/ Apply(r) \/ ApplyRefused(r) \/ MarkFailure(r)
  \/ VoidApply(r) \/ VoidRefused(r)

RefundNext ==
  \/ Next /\ UNCHANGED refundVars
  \/ \E r \in Refunders :
       \/ \E o \in Orders : Prepare(r, o) \/ VoidDelivered(r, o)
       \/ RefundStep(r)
       \/ DatabaseError(r)
       \/ RefundCrash(r)

RefundSpec == RefundInit /\ [][RefundNext]_refundAllVars

\* Sessions, requests and workers go on; a paid purchase is presented again and
\* again for its order (the app re-sends unfinished purchases, the RTDN worker
\* retries), and a voided one is delivered again (RTDN retries, the
\* reconciliation job lists it) while its order is not reversed.
\* VoidApply is strongly fair: an administrator whose requests fail between the
\* two transactions of every delivery stops asking at some point.
RefundFairness ==
  /\ \A s \in Sessions : WF_refundAllVars(SessionStep(s) /\ UNCHANGED refundVars)
  /\ \A o \in Orders, p \in Purchases :
       SF_refundAllVars((\E s \in Sessions : VerifyCheck(s, o, p)) /\ UNCHANGED refundVars)
  /\ \A r \in Refunders : WF_refundAllVars(RefundStep(r))
  /\ \A r \in Refunders : SF_refundAllVars(VoidApply(r))
  /\ \A o \in Orders :
       SF_refundAllVars(status[o] = "completed"
                          /\ \E r \in Refunders : VoidDelivered(r, o))

FairRefundSpec == RefundSpec /\ RefundFairness

-----------------------------------------------------------------------------
(* Properties.                                                              *)

\* Whatever sagas, notifications, retries and crashes race, the resources of an
\* order are taken back exactly once, when the order becomes REFUNDED.
ReversedExactlyOnce ==
  \A o \in Orders : reversals[o] = IF status[o] = "refunded" THEN 1 ELSE 0

\* No resources are taken back unless Google gave the money back: a failed call,
\* a lost answer or an unguarded failure mark never leads to a local reversal.
RefundedMoneyWentBack ==
  \A o \in Orders : status[o] = "refunded" => play[payment[o]] = "voided"

\* Once a refund operation exists, the order's purchase never changes, so that
\* the operation, which names a Google order of its own, stays about it: a
\* cancellation that loaded the order before the purchase was verified holds
\* the lock the operation needs until its save has erased the purchase.
OpKeepsPurchase ==
  [][\A o \in Orders : op[o] # "none" => ptx'[o] = ptx[o]]_refundAllVars

\* An operation says COMPLETED only when the local reversal was committed.
CompletedOpIsApplied ==
  \A o \in Orders : op[o] = "completed" => status[o] = "refunded"

\* Two requests never both ask Google to refund one order: the reservation of
\* the operation excludes the second until the first recorded its outcome.
OneProviderCall ==
  \A r1, r2 \in Refunders :
    /\ rpc[r1] \in Calling /\ rpc[r2] \in Calling
    /\ rOrder[r1] = rOrder[r2]
    => r1 = r2

\* An operation is reserved with no request calling Google for it only after a
\* process stopped: every way a call ends releases the reservation.
ReservedIsCalling ==
  faults = 0 =>
    \A o \in Orders :
      op[o] = "processing" =>
        \E r \in Refunders : rOrder[r] = o /\ rpc[r] \in Calling

\* The money, the operations and the refunders agree.
RefundsConsistent ==
  /\ RefundTypeOK
  /\ RefundedMoneyWentBack
  /\ CompletedOpIsApplied
  /\ OneProviderCall
  /\ ReservedIsCalling

\* The package store implements the ledger it promises.
Ledger == INSTANCE EntitlementLedger WITH
  credit <- [o \in Orders |-> CASE status[o] = "completed" -> "granted"
                                [] status[o] = "refunded" -> "revoked"
                                [] OTHER -> "none"],
  paidWith <- payment,
  money <- play

ImplementsLedger == Ledger!Spec

\* A credited order whose purchase was voided is eventually reversed, even when
\* the saga that voided it crashed or marked its operation FAILED.
VoidedIsReversed ==
  \A o \in Orders :
    (status[o] = "completed" /\ play[payment[o]] = "voided")
      ~> status[o] = "refunded"
=============================================================================
