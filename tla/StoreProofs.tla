----------------------------- MODULE StoreProofs -----------------------------
(***************************************************************************)
(* What StoreOrders guarantees for every number of orders, purchases and   *)
(* sessions, StoreRefunds for every number of refunders besides, that it   *)
(* implements EntitlementLedger, and Subscriptions for every number of     *)
(* subscriptions and workers and every length of the providers' logs.      *)
(***************************************************************************)
EXTENDS StoreRefunds, Subscriptions, Sums

Paid == {"completed", "refunded"}

Verifying == {"checked", "marked", "completing", "granted"}

\* A verified purchase belongs to one order.
PtxUnique ==
  \A o1, o2 \in Orders : ptx[o1] # NoPurchase /\ ptx[o1] = ptx[o2] => o1 = o2

\* Only a paid order has a payment reference.
PaymentMeansPaid == \A o \in Orders : payment[o] # NoPurchase => status[o] \in Paid

\* What a session knows: the copy a lock holder loaded is not out of date in a
\* way its save could turn into harm.
SessionInv ==
  \A s \in Sessions :
    /\ pc[s] \in Holding \union Verifying => sOrder[s] \in Orders
    /\ pc[s] \in Verifying => sPurchase[s] \in Purchases
    /\ pc[s] = "completing" =>
         /\ sLoaded[s] = sPurchase[s]
         /\ ptx[sOrder[s]] = sPurchase[s]
         /\ status[sOrder[s]] \in Recoverable
    /\ pc[s] \in {"expiring", "cancelling"} =>
         /\ status[sOrder[s]] = "pending"
         /\ sLoaded[s] \in {NoPurchase, ptx[sOrder[s]]}
    /\ pc[s] = "granted" =>
         /\ status[sOrder[s]] \in Paid
         /\ payment[sOrder[s]] = sPurchase[s]

IInv ==
  /\ TypeOK
  /\ GrantedExactlyOnce
  /\ CompletedStaysVerified
  /\ OneHolderPerOrder
  /\ PtxUnique
  /\ PaymentMeansPaid
  /\ SessionInv
  /\ ConsumedWasGranted

-----------------------------------------------------------------------------
LEMMA InitIInv == Init => IInv
  BY NoneAssumption, FaultAssumption
  DEF Init, IInv, TypeOK, GrantedExactlyOnce, CompletedStaysVerified,
      OneHolderPerOrder, PtxUnique, PaymentMeansPaid, SessionInv,
      ConsumedWasGranted, Statuses, Steps, Holding, Verifying, Paid

LEMMA TypeStep == TypeOK /\ SessionInv /\ [Next]_vars => TypeOK'
<1> SUFFICES ASSUME TypeOK, SessionInv, [Next]_vars PROVE TypeOK'
  OBVIOUS
<1> USE NoneAssumption, FaultAssumption
    DEF TypeOK, SessionInv, Statuses, Steps, Holding, Verifying, Goto, Leave,
        playVars, rowVars, sessionVars
<1>1. ASSUME NEW o \in Orders, Create(o) PROVE TypeOK'
  BY <1>1 DEF Create
<1>2. ASSUME NEW o \in Orders, CheckoutTimesOut(o) PROVE TypeOK'
  BY <1>2 DEF CheckoutTimesOut
<1>3. ASSUME NEW p \in Purchases, PurchaseVoided(p) PROVE TypeOK'
  BY <1>3 DEF PurchaseVoided
<1>4. ASSUME NEW s \in Sessions, NEW o \in Orders, NEW p \in Purchases,
             VerifyCheck(s, o, p)
      PROVE TypeOK'
  BY <1>4 DEF VerifyCheck
<1>5. ASSUME NEW s \in Sessions, VerifyMark(s) PROVE TypeOK'
  BY <1>5 DEF VerifyMark
<1>6. ASSUME NEW s \in Sessions, CompleteLoad(s) PROVE TypeOK'
  BY <1>6 DEF CompleteLoad
<1>7. ASSUME NEW s \in Sessions, CompleteSave(s) PROVE TypeOK'
  BY <1>7 DEF CompleteSave
<1>8. ASSUME NEW s \in Sessions, Consume(s) PROVE TypeOK'
  BY <1>8 DEF Consume
<1>9. ASSUME NEW s \in Sessions, Refused(s) PROVE TypeOK'
  BY <1>9 DEF Refused
<1>10. ASSUME NEW s \in Sessions, NEW o \in Orders, ExpireLoad(s, o) \/ CancelLoad(s, o)
       PROVE TypeOK'
  BY <1>10 DEF ExpireLoad, CancelLoad
<1>11. ASSUME NEW s \in Sessions, ExpireSave(s) \/ CancelSave(s) PROVE TypeOK'
  BY <1>11 DEF ExpireSave, CancelSave, CloseSave
<1>12. ASSUME NEW s \in Sessions, Crash(s) PROVE TypeOK'
  BY <1>12 DEF Crash
<1>13. CASE UNCHANGED vars
  BY <1>13 DEF vars
<1> QED
  BY <1>1, <1>2, <1>3, <1>4, <1>5, <1>6, <1>7, <1>8, <1>9, <1>10, <1>11, <1>12,
     <1>13
  DEF Next, Environment, Verify, Close

-----------------------------------------------------------------------------
(* The inductive step.  Sessions only meet in the rows, so the steps that    *)
(* matter are the three that write rows (VerifyMark, CompleteSave and the    *)
(* closing saves) and the two loads that make a session a lock holder.       *)

LEMMA StepIInv == IInv /\ [Next]_vars => IInv'
<1> SUFFICES ASSUME IInv, [Next]_vars PROVE IInv'
  OBVIOUS
<1>0. TypeOK'
  BY TypeStep DEF IInv
<1> USE NoneAssumption
    DEF IInv, TypeOK, GrantedExactlyOnce, CompletedStaysVerified,
        OneHolderPerOrder, PtxUnique, PaymentMeansPaid, SessionInv,
        ConsumedWasGranted, Statuses, Steps, Holding, Verifying, Paid,
        Recoverable, Goto, Leave, playVars, rowVars, sessionVars
<1>1. ASSUME NEW o \in Orders, Create(o) PROVE IInv'
  BY <1>0, <1>1 DEF Create
<1>2. ASSUME NEW o \in Orders, CheckoutTimesOut(o) PROVE IInv'
  BY <1>0, <1>2 DEF CheckoutTimesOut
<1>3. ASSUME NEW p \in Purchases, PurchaseVoided(p) PROVE IInv'
  BY <1>0, <1>3 DEF PurchaseVoided
<1>4. ASSUME NEW s \in Sessions, NEW o \in Orders, NEW p \in Purchases,
             VerifyCheck(s, o, p)
      PROVE IInv'
  BY <1>0, <1>4 DEF VerifyCheck
<1>5. ASSUME NEW s \in Sessions, VerifyMark(s) PROVE IInv'
  \* A completed order has a verified purchase, so Claimable leaves it as it is.
  <2>1. CompletedStaysVerified'
    BY <1>5 DEF VerifyMark, Claimable
  <2>2. PtxUnique'
    BY <1>5 DEF VerifyMark, Claimable
  <2>3. SessionInv'
    BY <1>5 DEF VerifyMark, Claimable
  <2>4. GrantedExactlyOnce' /\ OneHolderPerOrder' /\ PaymentMeansPaid'
          /\ ConsumedWasGranted'
    BY <1>5 DEF VerifyMark
  <2> QED
    BY <1>0, <2>1, <2>2, <2>3, <2>4
<1>6. ASSUME NEW s \in Sessions, CompleteLoad(s) PROVE IInv'
  <2>1. OneHolderPerOrder'
    BY <1>6 DEF CompleteLoad, Unlocked
  <2>2. SessionInv'
    BY <1>6 DEF CompleteLoad, Completable, AlreadyCompleted
  <2>3. GrantedExactlyOnce' /\ CompletedStaysVerified' /\ PtxUnique'
          /\ PaymentMeansPaid' /\ ConsumedWasGranted'
    BY <1>6 DEF CompleteLoad
  <2> QED
    BY <1>0, <2>1, <2>2, <2>3
<1>7. ASSUME NEW s \in Sessions, CompleteSave(s) PROVE IInv'
  \* The order was open, hence not credited, and no other holder saves it.
  <2>1. GrantedExactlyOnce'
    BY <1>7 DEF CompleteSave
  <2>2. CompletedStaysVerified' /\ PtxUnique' /\ PaymentMeansPaid'
    BY <1>7 DEF CompleteSave
  <2>3. OneHolderPerOrder'
    BY <1>7 DEF CompleteSave
  <2>4. SessionInv'
    BY <1>7 DEF CompleteSave
  <2>5. ConsumedWasGranted'
    BY <1>7 DEF CompleteSave
  <2> QED
    BY <1>0, <2>1, <2>2, <2>3, <2>4, <2>5
<1>8. ASSUME NEW s \in Sessions, Consume(s) PROVE IInv'
  BY <1>0, <1>8 DEF Consume
<1>9. ASSUME NEW s \in Sessions, Refused(s) PROVE IInv'
  BY <1>0, <1>9 DEF Refused
<1>10. ASSUME NEW s \in Sessions, NEW o \in Orders,
              ExpireLoad(s, o) \/ CancelLoad(s, o)
       PROVE IInv'
  <2>1. OneHolderPerOrder'
    BY <1>10 DEF ExpireLoad, CancelLoad, Unlocked
  <2>2. SessionInv'
    BY <1>10 DEF ExpireLoad, CancelLoad
  <2>3. GrantedExactlyOnce' /\ CompletedStaysVerified' /\ PtxUnique'
          /\ PaymentMeansPaid' /\ ConsumedWasGranted'
    BY <1>10 DEF ExpireLoad, CancelLoad
  <2> QED
    BY <1>0, <2>1, <2>2, <2>3
<1>11. ASSUME NEW s \in Sessions, ExpireSave(s) \/ CancelSave(s) PROVE IInv'
  \* The order is still pending, so that the stale copy can erase a
  \* verification but never one an order was completed with.
  <2>1. PICK from \in {"expiring", "cancelling"}, to \in {"expired", "cancelled"} :
          CloseSave(s, from, to)
    BY <1>11 DEF ExpireSave, CancelSave
  <2>2. /\ sOrder[s] \in Orders /\ status[sOrder[s]] = "pending"
        /\ payment[sOrder[s]] = NoPurchase
    BY <2>1 DEF CloseSave
  <2>3. GrantedExactlyOnce'
    BY <2>1, <2>2 DEF CloseSave
  <2>4. CompletedStaysVerified' /\ PaymentMeansPaid'
    BY <2>1, <2>2 DEF CloseSave
  <2>5. PtxUnique'
    BY <1>11 DEF ExpireSave, CancelSave, CloseSave
  <2>6. OneHolderPerOrder'
    BY <1>11 DEF ExpireSave, CancelSave, CloseSave
  <2>7. SessionInv'
    BY <1>11 DEF ExpireSave, CancelSave, CloseSave
  <2>8. ConsumedWasGranted'
    BY <1>11 DEF ExpireSave, CancelSave, CloseSave
  <2> QED
    BY <1>0, <2>3, <2>4, <2>5, <2>6, <2>7, <2>8
<1>12. ASSUME NEW s \in Sessions, Crash(s) PROVE IInv'
  BY <1>0, <1>12 DEF Crash
<1>13. CASE UNCHANGED vars
  BY <1>13 DEF vars
<1> QED
  BY <1>1, <1>2, <1>3, <1>4, <1>5, <1>6, <1>7, <1>8, <1>9, <1>10, <1>11, <1>12,
     <1>13
  DEF Next, Environment, Verify, Close

LEMMA Inductive == Spec => []IInv
  BY InitIInv, StepIInv, PTL DEF Spec

-----------------------------------------------------------------------------
\* The tables, the sessions and Google's records keep their shape.
THEOREM TypeCorrect == Spec => []TypeOK
<1>1. IInv => TypeOK
  BY DEF IInv
<1> QED
  BY <1>1, Inductive, PTL

\* Package resources are credited exactly once for a completed order, whatever
\* verifications, crashes, cancellations and expiries race (completeOrder).
THEOREM GrantedOnce == Spec => []GrantedExactlyOnce
<1>1. IInv => GrantedExactlyOnce
  BY DEF IInv
<1> QED
  BY <1>1, Inductive, PTL

\* A stale cascading save never touches the provider transaction of an order
\* that was completed (cancelOrder, expireSingleCheckoutOrder).
THEOREM CompletedVerified == Spec => []CompletedStaysVerified
<1>1. IInv => CompletedStaysVerified
  BY DEF IInv
<1> QED
  BY <1>1, Inductive, PTL

\* One store purchase is the payment of at most one order, without the help of
\* the unique indexes (markProviderTransactionVerified, completeOrder).
THEOREM PurchasePaysOnce == Spec => []OnePurchaseOneOrder
<1>1. IInv => OnePurchaseOneOrder
  BY DEF IInv, OnePurchaseOneOrder, CompletedStaysVerified, PtxUnique,
         PaymentMeansPaid, Paid
<1> QED
  BY <1>1, Inductive, PTL

\* Google Play is told to consume a purchase only after an order was credited
\* for it (verifyGooglePlayPurchase).
THEOREM ConsumedGranted == Spec => []ConsumedWasGranted
<1>1. IInv => ConsumedWasGranted
  BY DEF IInv
<1> QED
  BY <1>1, Inductive, PTL

\* Orders, held purchases and payments fit together (completeOrder,
\* markProviderTransactionVerified and the handlers that save whole graphs).
THEOREM OrdersAreConsistent == Spec => []OrdersConsistent
<1>1. TypeOK /\ CompletedStaysVerified /\ OnePurchaseOneOrder /\ ConsumedWasGranted
       => OrdersConsistent
  BY DEF OrdersConsistent
<1> QED
  BY <1>1, TypeCorrect, CompletedVerified, PurchasePaysOnce, ConsumedGranted, PTL

\* The row lock of an order is held by one transaction.
THEOREM LockExclusive == Spec => []OneHolderPerOrder
<1>1. IInv => OneHolderPerOrder
  BY DEF IInv
<1> QED
  BY <1>1, Inductive, PTL

\* No step closes an order that was paid (cancelOrder, expireSingleCheckoutOrder,
\* completeOrder).
THEOREM PaidNotClosed == Spec => PaidOrderNotClosed
<1> DEFINE Kept ==
      \A o \in Orders :
        /\ status[o] = "completed" => status'[o] \in {"completed", "refunded"}
        /\ status[o] = "refunded" => status'[o] = "refunded"
<1>1. IInv /\ [Next]_vars => [Kept]_vars
  <2> SUFFICES ASSUME IInv, Next PROVE Kept
    BY DEF vars
  <2>1. \/ status' = status
        \/ \E o \in Orders, new \in Statuses :
             status[o] \in {"none"} \union Recoverable
               /\ status' = [status EXCEPT ![o] = new]
    BY DEF Next, Environment, Verify, Close, Create, CheckoutTimesOut,
           PurchaseVoided, VerifyCheck, VerifyMark, CompleteLoad, CompleteSave,
           Consume, Refused, ExpireLoad, CancelLoad, ExpireSave, CancelSave,
           CloseSave, Crash, rowVars, IInv, SessionInv, Recoverable, Statuses,
           Holding, Verifying
  <2> QED
    BY <2>1 DEF Recoverable, IInv, TypeOK
<1> QED
  BY <1>1, Inductive, PTL DEF Spec, PaidOrderNotClosed

-----------------------------------------------------------------------------
(* The refunds.                                                                *)

\* The purchase of an order with an operation is settled: whoever holds the
\* order's lock has loaded it.
PurchaseSettled ==
  \A o \in Orders : op[o] # "none" =>
    /\ ptx[o] # NoPurchase
    /\ \A s \in Sessions :
         pc[s] \in Holding /\ sOrder[s] = o => sLoaded[s] = ptx[o]

\* What the status of an operation says of the order and of the money.
OpInv ==
  \A o \in Orders :
    /\ op[o] \in {"processing", "failed"} => status[o] \in Paid
    /\ op[o] \in {"provider_completed", "completed"} => play[ptx[o]] = "voided"

\* What a refund knows at each of its steps.
SagaInv ==
  \A r \in Refunders :
    LET o == rOrder[r]
    IN /\ rpc[r] # "idle" => o \in Orders /\ op[o] # "none"
       /\ rpc[r] \in Calling \union {"apply", "applyFailed"} => status[o] \in Paid
       /\ rpc[r] \in Calling => op[o] # "failed"
       /\ rpc[r] \in {"record", "apply", "applyFailed", "voidApply"} =>
            play[ptx[o]] = "voided"

RInv ==
  /\ IInv
  /\ ReversedExactlyOnce
  /\ RefundsConsistent
  /\ PurchaseSettled
  /\ OpInv
  /\ SagaInv

-----------------------------------------------------------------------------
LEMMA RefundInitInv == RefundInit => RInv
<1> SUFFICES ASSUME RefundInit PROVE RInv
  OBVIOUS
<1>1. IInv
  BY InitIInv DEF RefundInit
<1> QED
  BY <1>1
  DEF IInv, RefundInit, Init, RInv, RefundTypeOK, OpStatuses, RefundSteps, Calling,
      ReversedExactlyOnce, RefundsConsistent, CompletedOpIsApplied,
      RefundedMoneyWentBack, OneProviderCall, ReservedIsCalling, PurchaseSettled,
      OpInv, SagaInv

\* What the checkout does to the rows a refund relies on.
LEMMA CheckoutKeeps ==
  ASSUME RInv, Next
  PROVE  /\ \A o \in Orders : status[o] \in Paid => status'[o] = status[o]
         /\ \A o \in Orders : status'[o] = "refunded" => status[o] = "refunded"
         /\ \A o \in Orders : payment[o] # NoPurchase => payment'[o] = payment[o]
         /\ \A o \in Orders : op[o] # "none" => ptx'[o] = ptx[o]
         /\ \A p \in Purchases : play[p] = "voided" => play'[p] = "voided"
         /\ \A o \in Orders, s \in Sessions :
              op[o] # "none" /\ pc'[s] \in Holding /\ sOrder'[s] = o
                => sLoaded'[s] = ptx[o]
         /\ faults' = 0 => faults = 0
<1> USE NoneAssumption
    DEF RInv, IInv, TypeOK, PaymentMeansPaid, SessionInv, PurchaseSettled,
        Statuses, Steps, Holding, Verifying, Paid, Recoverable, Goto, Leave,
        playVars, rowVars, sessionVars
<1>1. CASE \E x \in Orders : Create(x)
  BY <1>1 DEF Create
<1>2. CASE \E x \in Orders : CheckoutTimesOut(x)
  BY <1>2 DEF CheckoutTimesOut
<1>3. CASE \E y \in Purchases : PurchaseVoided(y)
  BY <1>3 DEF PurchaseVoided
<1>4. CASE \E s \in Sessions, x \in Orders, y \in Purchases : VerifyCheck(s, x, y)
  BY <1>4 DEF VerifyCheck
<1>5. CASE \E s \in Sessions : VerifyMark(s)
  BY <1>5 DEF VerifyMark, Claimable
<1>6. CASE \E s \in Sessions : CompleteLoad(s)
  BY <1>6 DEF CompleteLoad, Completable, AlreadyCompleted
<1>7. CASE \E s \in Sessions : CompleteSave(s)
  BY <1>7 DEF CompleteSave
<1>8. CASE \E s \in Sessions : Consume(s)
  BY <1>8 DEF Consume
<1>9. CASE \E s \in Sessions : Refused(s)
  BY <1>9 DEF Refused
<1>10. CASE \E s \in Sessions, x \in Orders : ExpireLoad(s, x) \/ CancelLoad(s, x)
  BY <1>10 DEF ExpireLoad, CancelLoad
<1>11. CASE \E s \in Sessions : ExpireSave(s) \/ CancelSave(s)
  BY <1>11 DEF ExpireSave, CancelSave, CloseSave
<1>12. CASE \E s \in Sessions : Crash(s)
  BY <1>12 DEF Crash
<1> QED
  BY <1>1, <1>2, <1>3, <1>4, <1>5, <1>6, <1>7, <1>8, <1>9, <1>10, <1>11, <1>12
  DEF Next, Environment, Verify, Close

\* A step of the checkout preserves the invariant of the refunds.
LEMMA CheckoutStep ==
  ASSUME RInv, Next, UNCHANGED refundVars
  PROVE  RInv'
<1>1. IInv'
  BY StepIInv DEF RInv
<1>2. RefundTypeOK'
  BY <1>1 DEF RInv, IInv, RefundsConsistent, RefundTypeOK, refundVars
<1>3. ReversedExactlyOnce' /\ CompletedOpIsApplied' /\ OneProviderCall'
        /\ ReservedIsCalling'
  BY CheckoutKeeps
  DEF RInv, RefundsConsistent, ReversedExactlyOnce, CompletedOpIsApplied,
      OneProviderCall, ReservedIsCalling, Paid, refundVars
<1>4. RefundedMoneyWentBack'
  BY CheckoutKeeps
  DEF RInv, IInv, TypeOK, RefundsConsistent, RefundedMoneyWentBack,
      CompletedStaysVerified, Paid
<1>5. PurchaseSettled'
  BY CheckoutKeeps DEF RInv, PurchaseSettled, refundVars
<1>6. OpInv'
  BY CheckoutKeeps
  DEF RInv, IInv, TypeOK, OpInv, PurchaseSettled, Paid, refundVars
<1>7. SagaInv'
  BY CheckoutKeeps
  DEF RInv, IInv, TypeOK, SagaInv, PurchaseSettled, Calling, Paid, refundVars
<1> QED
  BY <1>1, <1>2, <1>3, <1>4, <1>5, <1>6, <1>7 DEF RInv, RefundsConsistent

\* The steps of a refund change none of the rows of the order but its status.
LEMMA RefundKeepsRows ==
  ASSUME IInv, UNCHANGED <<rowVars, consumed, sessionVars>>,
         play' \in [Purchases -> {"paid", "voided"}], faults' \in 0..MaxFaults
  PROVE  IInv'
  BY DEF IInv, TypeOK, GrantedExactlyOnce, CompletedStaysVerified,
         OneHolderPerOrder, PtxUnique, PaymentMeansPaid, SessionInv,
         ConsumedWasGranted, rowVars, sessionVars

LEMMA ApplyStep ==
  ASSUME RInv, NEW r \in Refunders, Apply(r) \/ VoidApply(r)
  PROVE  RInv'
<1> DEFINE o == rOrder[r]
<1> USE NoneAssumption
    DEF RInv, RefundsConsistent, Apply, VoidApply, ApplyLocally, RLeave, RGoto
<1>1. o \in Orders /\ ptx[o] \in Purchases
  BY DEF SagaInv, PurchaseSettled, IInv, TypeOK
<1>2. /\ op' = [op EXCEPT ![o] = "completed"]
      /\ rpc' = [rpc EXCEPT ![r] = "idle"]
      /\ rOrder' = [rOrder EXCEPT ![r] = NoOrder]
      /\ Unlocked(o)
      /\ UNCHANGED <<overdue, ptx, payment, grants, playVars, sessionVars, faults>>
  OBVIOUS
<1>3. /\ status[o] \in Paid
      /\ status' = [status EXCEPT ![o] = "refunded"]
      /\ reversals' = [reversals EXCEPT ![o] = 1]
  BY <1>1 DEF Applicable, ReversedExactlyOnce, RefundTypeOK, IInv, TypeOK, Paid
<1>4. play[ptx[o]] = "voided" /\ payment[o] = ptx[o]
  BY <1>1, <1>3 DEF SagaInv, IInv, CompletedStaysVerified, Paid
<1> HIDE DEF o, Apply, VoidApply, ApplyLocally, RLeave, RGoto
<1>5. TypeOK'
  BY <1>1, <1>2, <1>3 DEF IInv, TypeOK, Statuses, playVars, sessionVars
<1>6. GrantedExactlyOnce' /\ CompletedStaysVerified' /\ OneHolderPerOrder'
        /\ PtxUnique' /\ PaymentMeansPaid' /\ ConsumedWasGranted'
  BY <1>1, <1>2, <1>3
  DEF IInv, TypeOK, GrantedExactlyOnce, CompletedStaysVerified,
      OneHolderPerOrder, PtxUnique, PaymentMeansPaid, ConsumedWasGranted, Paid,
      playVars, sessionVars
<1>7. SessionInv'
  BY <1>1, <1>2, <1>3
  DEF IInv, TypeOK, SessionInv, Unlocked, Holding, Paid, playVars, sessionVars
<1>8. RefundTypeOK'
  BY <1>1, <1>2, <1>3, <1>5 DEF RefundTypeOK, OpStatuses, RefundSteps
<1>9. ReversedExactlyOnce' /\ CompletedOpIsApplied'
  BY <1>1, <1>2, <1>3
  DEF IInv, TypeOK, RefundTypeOK, ReversedExactlyOnce, CompletedOpIsApplied
<1>10. RefundedMoneyWentBack'
  BY <1>1, <1>2, <1>3, <1>4 DEF IInv, TypeOK, RefundedMoneyWentBack, playVars
<1>11. OneProviderCall' /\ PurchaseSettled'
  BY <1>1, <1>2, <1>4
  DEF RefundTypeOK, OneProviderCall, PurchaseSettled, SagaInv, Unlocked, Calling,
      playVars, sessionVars
<1>14. ReservedIsCalling'
  <2>1. rpc[r] \notin Calling
    BY DEF Apply, VoidApply, Calling
  <2> QED
    BY <1>1, <1>2, <2>1 DEF RefundTypeOK, ReservedIsCalling, Calling
<1>12. OpInv'
  BY <1>1, <1>2, <1>3, <1>4 DEF IInv, TypeOK, RefundTypeOK, OpInv, Paid, playVars
<1>13. SagaInv'
  BY <1>1, <1>2, <1>3
  DEF IInv, TypeOK, RefundTypeOK, SagaInv, Calling, Paid, playVars
<1> QED
  BY <1>5, <1>6, <1>7, <1>8, <1>9, <1>10, <1>11, <1>12, <1>13,
     <1>14
  DEF IInv

\* What a refund leaves alone, and what it may do to Google's records.
LEMMA RefundFrame ==
  ASSUME RInv, NEW r \in Refunders,
         \/ \E o \in Orders : Prepare(r, o) \/ VoidDelivered(r, o)
         \/ ProviderRefunds(r) \/ ProviderThrows(r) \/ MarkProviderCompleted(r)
         \/ ApplyRefused(r) \/ MarkFailure(r) \/ VoidRefused(r)
         \/ DatabaseError(r) \/ RefundCrash(r)
  PROVE  /\ UNCHANGED <<rowVars, consumed, sessionVars, reversals>>
         /\ \A p \in Purchases : play[p] = "voided" => play'[p] = "voided"
         /\ IInv'
         /\ RefundTypeOK'
<1>1. /\ UNCHANGED <<rowVars, consumed, sessionVars, reversals>>
      /\ play' \in [Purchases -> {"paid", "voided"}]
      /\ \A p \in Purchases : play[p] = "voided" => play'[p] = "voided"
      /\ faults' \in 0..MaxFaults
  BY FaultAssumption
  DEF RInv, IInv, TypeOK, Prepare, VoidDelivered, ProviderRefunds, ProviderThrows,
      MarkProviderCompleted, ApplyRefused, MarkFailure, VoidRefused, DatabaseError,
      RefundCrash, vars, rowVars, playVars, sessionVars
<1>2. IInv'
  BY <1>1, RefundKeepsRows DEF RInv
<1>3. /\ op' \in [Orders -> OpStatuses]
      /\ rpc' \in [Refunders -> RefundSteps]
      /\ rOrder' \in [Refunders -> Orders \union {NoOrder}]
  BY DEF RInv, RefundsConsistent, RefundTypeOK, OpStatuses, RefundSteps, Calling, RGoto, RLeave,
         Prepare, VoidDelivered, ProviderRefunds, ProviderThrows,
         MarkProviderCompleted, ApplyRefused, MarkFailure, VoidRefused,
         DatabaseError, RefundCrash
<1> QED
  BY <1>1, <1>2, <1>3 DEF RInv, RefundsConsistent, IInv, RefundTypeOK

LEMMA RefundStepInv ==
  ASSUME RInv, NEW r \in Refunders,
         \/ \E o \in Orders : Prepare(r, o) \/ VoidDelivered(r, o)
         \/ RefundStep(r)
         \/ DatabaseError(r)
         \/ RefundCrash(r)
  PROVE  RInv'
<1> DEFINE Rest ==
      /\ ReversedExactlyOnce /\ CompletedOpIsApplied /\ RefundedMoneyWentBack
      /\ OneProviderCall /\ ReservedIsCalling /\ PurchaseSettled /\ OpInv /\ SagaInv
<1>0. TypeOK /\ CompletedStaysVerified /\ RefundTypeOK /\ Rest
  BY DEF RInv, RefundsConsistent, IInv
<1> USE <1>0, NoneAssumption
    DEF ReversedExactlyOnce, CompletedOpIsApplied, RefundedMoneyWentBack,
        OneProviderCall, ReservedIsCalling, PurchaseSettled, OpInv, SagaInv, CompletedStaysVerified,
        TypeOK, RefundTypeOK, OpStatuses, RefundSteps, Calling, RGoto, RLeave,
        Paid, vars, playVars, rowVars, sessionVars
<1>1. ASSUME NEW o \in Orders, Prepare(r, o) PROVE Rest'
  <2> USE <1>1, RefundFrame DEF Prepare, Unlocked
  <2>1. ReservedIsCalling'
    OBVIOUS
  <2>2. (PurchaseSettled /\ OpInv)'
    OBVIOUS
  <2>3. (ReversedExactlyOnce /\ CompletedOpIsApplied /\ RefundedMoneyWentBack)'
    OBVIOUS
  <2>4. (OneProviderCall /\ SagaInv)'
    BY SMTT(30)
  <2> QED
    BY <2>1, <2>2, <2>3, <2>4
<1>2. ASSUME ProviderRefunds(r) PROVE Rest'
  BY <1>2, RefundFrame DEF ProviderRefunds
<1>3. ASSUME ProviderThrows(r) PROVE Rest'
  BY <1>3, RefundFrame DEF ProviderThrows
<1>4. ASSUME MarkProviderCompleted(r) PROVE Rest'
  BY <1>4, RefundFrame DEF MarkProviderCompleted
<1>5. ASSUME ApplyRefused(r) PROVE Rest'
  BY <1>5, RefundFrame DEF ApplyRefused
<1>6. ASSUME MarkFailure(r) PROVE Rest'
  BY <1>6, RefundFrame, SMTT(30) DEF MarkFailure
<1>7. ASSUME NEW o \in Orders, VoidDelivered(r, o) PROVE Rest'
  <2> USE <1>7, RefundFrame DEF VoidDelivered, Unlocked
  <2>1. ReservedIsCalling'
    <3> SUFFICES ASSUME faults = 0, NEW x \in Orders, op'[x] = "processing"
                 PROVE  \E q \in Refunders : rOrder'[q] = x /\ rpc'[q] \in Calling
      OBVIOUS
    <3>1. op[x] = "processing"
      OBVIOUS
    <3>2. PICK q \in Refunders : rOrder[q] = x /\ rpc[q] \in Calling
      BY <3>1
    <3>3. q # r /\ rOrder'[q] = x /\ rpc'[q] \in Calling
      BY <3>2
    <3> QED
      BY <3>3
  <2>2. (PurchaseSettled /\ OpInv)'
    OBVIOUS
  <2>3. (ReversedExactlyOnce /\ CompletedOpIsApplied /\ RefundedMoneyWentBack)'
    OBVIOUS
  <2>4. (OneProviderCall /\ SagaInv)'
    OBVIOUS
  <2> QED
    BY <2>1, <2>2, <2>3, <2>4
<1>8. ASSUME VoidRefused(r) PROVE Rest'
  BY <1>8, RefundFrame DEF VoidRefused
<1>9. ASSUME DatabaseError(r) PROVE Rest'
  BY <1>9, RefundFrame DEF DatabaseError
<1>10. ASSUME RefundCrash(r) PROVE Rest'
  BY <1>10, RefundFrame DEF RefundCrash
<1>11. CASE Apply(r) \/ VoidApply(r)
  BY <1>11, ApplyStep
<1> QED
  BY <1>1, <1>2, <1>3, <1>4, <1>5, <1>6, <1>7, <1>8, <1>9, <1>10, <1>11, RefundFrame, ZenonT(60)
  DEF RefundStep, RInv, RefundsConsistent

LEMMA RefundInductive == RefundSpec => []RInv
<1>1. RInv /\ [RefundNext]_refundAllVars => RInv'
  <2> SUFFICES ASSUME RInv, [RefundNext]_refundAllVars PROVE RInv'
    OBVIOUS
  <2>1. CASE Next /\ UNCHANGED refundVars
    BY <2>1, CheckoutStep
  <2>2. CASE \E r \in Refunders :
               \/ \E o \in Orders : Prepare(r, o) \/ VoidDelivered(r, o)
               \/ RefundStep(r)
               \/ DatabaseError(r)
               \/ RefundCrash(r)
    BY <2>2, RefundStepInv
  <2>3. CASE UNCHANGED refundAllVars
    <3>1. IInv'
      BY <2>3, StepIInv DEF RInv, refundAllVars
    <3> QED
      BY <2>3, <3>1
      DEF RInv, RefundsConsistent, RefundTypeOK, IInv, ReversedExactlyOnce,
          CompletedOpIsApplied, RefundedMoneyWentBack, OneProviderCall,
          ReservedIsCalling, PurchaseSettled, OpInv, SagaInv, refundAllVars, refundVars, vars, rowVars, playVars, sessionVars
  <2> QED
    BY <2>1, <2>2, <2>3 DEF RefundNext
<1> QED
  BY <1>1, RefundInitInv, PTL DEF RefundSpec

-----------------------------------------------------------------------------
\* The refund operations and the refunds keep their shape.
THEOREM RefundTypeCorrect == RefundSpec => []RefundTypeOK
<1>1. RInv => RefundTypeOK
  BY DEF RInv, RefundsConsistent
<1> QED
  BY <1>1, RefundInductive, PTL

\* The money, the operations and the refunds agree: an order is REFUNDED only
\* when its money went back, one request at most calls Google for it, a
\* COMPLETED operation has been applied, and while nothing failed a reservation
\* has a request that calls (refundGooglePlayOrder).
THEOREM RefundsAreConsistent == RefundSpec => []RefundsConsistent
<1>1. RInv => RefundsConsistent
  BY DEF RInv
<1> QED
  BY <1>1, RefundInductive, PTL

\* The resources of an order are taken back once, when it becomes REFUNDED,
\* whatever sagas and notifications race (applyPackageRefundLocally).
THEOREM ReversedOnce == RefundSpec => []ReversedExactlyOnce
<1>1. RInv => ReversedExactlyOnce
  BY DEF RInv
<1> QED
  BY <1>1, RefundInductive, PTL

\* An order is REFUNDED only when Google returned the money of the purchase it
\* was paid with (refundGooglePlayOrder, applyGooglePlayVoidedPurchase).
THEOREM MoneyWentBack == RefundSpec => []RefundedMoneyWentBack
<1>1. RInv => RefundedMoneyWentBack
  BY DEF RInv, RefundsConsistent
<1> QED
  BY <1>1, RefundInductive, PTL

\* A COMPLETED operation has been applied (applyPackageRefundLocally).
THEOREM CompletedApplied == RefundSpec => []CompletedOpIsApplied
<1>1. RInv => CompletedOpIsApplied
  BY DEF RInv, RefundsConsistent
<1> QED
  BY <1>1, RefundInductive, PTL

\* Two requests never both ask Google to refund an order
\* (preparePackageRefundOperation).
THEOREM ProviderCalledByOne == RefundSpec => []OneProviderCall
<1>1. RInv => OneProviderCall
  BY DEF RInv, RefundsConsistent
<1> QED
  BY <1>1, RefundInductive, PTL

\* No checkout step changes the purchase of an order that has a refund operation
\* (cancelOrder and expireSingleCheckoutOrder, whose saves cascade).
THEOREM PurchaseKept == RefundSpec => OpKeepsPurchase
<1> DEFINE Kept == \A o \in Orders : op[o] # "none" => ptx'[o] = ptx[o]
<1>1. RInv /\ [RefundNext]_refundAllVars => [Kept]_refundAllVars
  <2> SUFFICES ASSUME RInv, RefundNext PROVE Kept
    OBVIOUS
  <2>1. CASE Next
    BY <2>1, CheckoutKeeps
  <2>2. CASE UNCHANGED ptx
    BY <2>2
  <2> QED
    BY <2>1, <2>2
    DEF RefundNext, RefundStep, Prepare, ProviderRefunds, ProviderThrows,
        MarkProviderCompleted, Apply, ApplyRefused, MarkFailure, VoidApply,
        VoidRefused, ApplyLocally, VoidDelivered, DatabaseError, RefundCrash,
        vars, rowVars
<1> QED
  BY <1>1, RefundInductive, PTL DEF RefundSpec, OpKeepsPurchase

-----------------------------------------------------------------------------
(* The refinement.  A step that completes an order is a Grant, one that     *)
(* voids a purchase a ReturnMoney, one that refunds an order a Revoke; every *)
(* other step leaves the ledger as it is.                                    *)

Credit == [o \in Orders |-> CASE status[o] = "completed" -> "granted"
                             [] status[o] = "refunded" -> "revoked"
                             [] OTHER -> "none"]

LEMMA LedgerVoid ==
  ASSUME IInv, UNCHANGED <<status, payment>>,
         \/ UNCHANGED play
         \/ \E p \in Purchases : play' = [play EXCEPT ![p] = "voided"]
  PROVE  [Ledger!Next]_Ledger!vars
<1>1. CASE UNCHANGED play
  BY <1>1 DEF Ledger!vars
<1>2. ASSUME NEW p \in Purchases, play' = [play EXCEPT ![p] = "voided"]
      PROVE  [Ledger!Next]_Ledger!vars
  <2>1. CASE play[p] = "paid"
    BY <1>2, <2>1 DEF Ledger!Next, Ledger!ReturnMoney
  <2>2. CASE play[p] = "voided"
    <3>1. play' = play
      BY <1>2, <2>2 DEF IInv, TypeOK
    <3> QED
      BY <3>1 DEF Ledger!vars
  <2> QED
    BY <2>1, <2>2 DEF IInv, TypeOK
<1> QED
  BY <1>1, <1>2

LEMMA LedgerStatus ==
  ASSUME IInv, NEW o \in Orders, NEW new \in Statuses \ Paid,
         status[o] \notin Paid, status' = [status EXCEPT ![o] = new],
         UNCHANGED <<payment, play>>
  PROVE  [Ledger!Next]_Ledger!vars
<1>1. Credit' = Credit
  BY DEF Credit, IInv, TypeOK, Paid
<1> QED
  BY <1>1 DEF Ledger!vars, Credit

LEMMA LedgerGrant ==
  ASSUME IInv, NEW s \in Sessions, CompleteSave(s)
  PROVE  Ledger!Next
<1> DEFINE o == sOrder[s]
           p == sPurchase[s]
<1>1. o \in Orders /\ p \in Purchases /\ ptx[o] = p /\ status[o] \in Recoverable
  BY DEF IInv, SessionInv, CompleteSave, Holding, Verifying
<1>2. Credit[o] = "none" /\ Credit' = [Credit EXCEPT ![o] = "granted"]
  BY <1>1 DEF Credit, CompleteSave, Recoverable, IInv, TypeOK
<1>3. \A other \in Orders : payment[other] # p
  BY <1>1, NoneAssumption
  DEF IInv, CompletedStaysVerified, PtxUnique, PaymentMeansPaid, Paid, Recoverable
<1>4. payment' = [payment EXCEPT ![o] = p] /\ UNCHANGED play
  BY DEF CompleteSave, playVars
<1>5. Ledger!Grant(o, p)
  BY <1>1, <1>2, <1>3, <1>4 DEF Ledger!Grant, Credit
<1> QED
  BY <1>1, <1>5 DEF Ledger!Next, Ledger!Grant

LEMMA LedgerRevoke ==
  ASSUME RInv, NEW r \in Refunders, Apply(r) \/ VoidApply(r)
  PROVE  [Ledger!Next]_Ledger!vars
<1> DEFINE o == rOrder[r]
<1>1. o \in Orders /\ UNCHANGED <<payment, play>>
  BY DEF RInv, SagaInv, Apply, VoidApply, ApplyLocally, playVars
<1>2. CASE status[o] = "refunded"
  BY <1>1, <1>2 DEF Apply, VoidApply, ApplyLocally, Ledger!vars
<1>3. CASE status[o] = "completed"
  <2>1. status' = [status EXCEPT ![o] = "refunded"]
    BY <1>3 DEF Apply, VoidApply, ApplyLocally
  <2>2. Credit[o] = "granted" /\ Credit' = [Credit EXCEPT ![o] = "revoked"]
    BY <1>1, <1>3, <2>1 DEF Credit, RInv, IInv, TypeOK
  <2>3. play[payment[o]] = "voided"
    BY <1>1, <1>3
    DEF RInv, IInv, CompletedStaysVerified, SagaInv, Apply, VoidApply
  <2>4. Ledger!Revoke(o)
    BY <1>1, <2>2, <2>3 DEF Ledger!Revoke, Credit
  <2> QED
    BY <1>1, <2>4 DEF Ledger!Next, Ledger!Revoke
<1> QED
  BY <1>2, <1>3 DEF Apply, VoidApply, ApplyLocally, Applicable

\* The package store, refunds included, implements the ledger: every step of
\* the detailed specification is a step of EntitlementLedger or stutters.
THEOREM StoreImplementsLedger == RefundSpec => ImplementsLedger
<1>1. RefundInit => Ledger!Init
  BY DEF RefundInit, Init, Ledger!Init
<1>2. RInv /\ [RefundNext]_refundAllVars => [Ledger!Next]_Ledger!vars
  <2> SUFFICES ASSUME RInv, [RefundNext]_refundAllVars
               PROVE  [Ledger!Next]_Ledger!vars
    OBVIOUS
  <2> USE DEF RInv, rowVars, playVars, vars
  <2>1. ASSUME NEW o \in Orders, Create(o) PROVE [Ledger!Next]_Ledger!vars
    BY <2>1, LedgerStatus DEF Create, Statuses, Paid
  <2>2. ASSUME NEW p \in Purchases, PurchaseVoided(p)
        PROVE  [Ledger!Next]_Ledger!vars
    BY <2>2, LedgerVoid DEF PurchaseVoided
  <2>3. ASSUME NEW s \in Sessions, CompleteSave(s)
        PROVE  [Ledger!Next]_Ledger!vars
    BY <2>3, LedgerGrant
  <2>4. ASSUME NEW s \in Sessions, ExpireSave(s) \/ CancelSave(s)
        PROVE  [Ledger!Next]_Ledger!vars
    BY <2>4, LedgerStatus
    DEF ExpireSave, CancelSave, CloseSave, IInv, SessionInv, Statuses, Paid, Holding
  <2>5. ASSUME NEW r \in Refunders, ProviderRefunds(r) \/ ProviderThrows(r)
        PROVE  [Ledger!Next]_Ledger!vars
    <3>1. ptx[rOrder[r]] \in Purchases
      BY <2>5
      DEF ProviderRefunds, ProviderThrows, SagaInv, PurchaseSettled, IInv, TypeOK
    <3> QED
      BY <2>5, <3>1, LedgerVoid DEF ProviderRefunds, ProviderThrows
  <2>6. ASSUME NEW r \in Refunders, Apply(r) \/ VoidApply(r)
        PROVE  [Ledger!Next]_Ledger!vars
    BY <2>6, LedgerRevoke
  <2>7. CASE UNCHANGED <<status, payment, play>>
    BY <2>7, LedgerVoid
  <2> QED
    BY <2>1, <2>2, <2>3, <2>4, <2>5, <2>6, <2>7
    DEF RefundNext, Next, Environment, Verify, Close, CheckoutTimesOut,
        VerifyCheck, VerifyMark, CompleteLoad, Consume, Refused, ExpireLoad,
        CancelLoad, Crash, RefundStep, Prepare, MarkProviderCompleted,
        ApplyRefused, MarkFailure, VoidDelivered, VoidRefused, DatabaseError,
        RefundCrash, refundAllVars
<1> QED
  BY <1>1, <1>2, RefundInductive, PTL DEF RefundSpec, ImplementsLedger, Ledger!Spec

-----------------------------------------------------------------------------
(* The subscriptions.                                                          *)

\* A subscription's provider has had something to say since.
Newer(s, T) == \E v \in 1..Len(log[s]) : log[s][v].kind # "voided" /\ 2 * v > T
\* A row shows what the provider says now.
ShowsNow(s, r) ==
  /\ r.until = Current(s).until
  /\ r.until > today => (r.active <=> Current(s).state \in {"active", "canceled"})
\* What was handled is no newer than a row.
HandledBy(s, T) == \A v \in handled[s] : log[s][v].kind = "voided" \/ 2 * v <= T
\* A day is the last one that rows protect, if it is still to come.
Covers(p, rowsNow) ==
  /\ \A s \in Subs : rowsNow[s].active /\ rowsNow[s].until > today => rowsNow[s].until <= p
  /\ p > today => \E s \in Subs : rowsNow[s].active /\ rowsNow[s].until = p

JobRecords ==
  [at : {"fetch", "ready"}, job : Jobs, sub : Subs, entry : 1..MaxLog, time : Times, snap : Snapshot]
Periods == [1..MaxLog -> 0..MaxDay]
RowsWritten == [active : BOOLEAN, until : 0..MaxDay, time : Times]
OpenRecords ==
  [at : {"open"}, job : Jobs, sub : Subs, entry : 1..MaxLog, row : RowsWritten,
   refunds : SUBSET (1..MaxLog), renewed : Periods \union {<<>>}, max : 0..MaxDay,
   late : BOOLEAN, out : BOOLEAN]

Happened == 0..MaxHappenings

SubsTyped ==
  /\ today \in 0..MaxDay /\ protection \in 0..MaxDay
  /\ log \in [Subs -> Seq(Entry)] /\ row \in [Subs -> RowOf]
  /\ refunds \in [GoogleSubs -> SUBSET (1..MaxLog)] /\ renewed \in [GoogleSubs -> Periods]
  /\ sync \in [SyncWorkers -> {Idle} \union JobRecords \union OpenRecords]
  /\ extra \in Happened /\ handled \in [Subs -> SUBSET (1..MaxLog)] /\ overtaken \subseteq Subs
  /\ stale \in BOOLEAN

\* What the providers' logs look like.
LogSound(s) ==
  /\ Len(log[s]) \in 1..MaxLog /\ log[s][1].snap = FirstEntry.snap
  /\ \A v \in 1..Len(log[s]) :
       /\ log[s][v].kind = "voided" => s \in GoogleSubs
       /\ log[s][v].kind = "revoked" => log[s][v].snap.state = "revoked"
       /\ log[s][v].kind = "revoked" /\ s \in GoogleSubs => Current(s).state = "revoked"
       /\ log[s][v].snap.order <= v

\* What a worker knows before its transaction...
JobKnows(c) ==
  /\ c.entry <= Len(log[c.sub]) /\ c.time <= Now(c.sub)
  /\ c.job = "notification" =>
       /\ c.at = "ready" /\ c.time = 2 * c.entry
       /\ log[c.sub][c.entry].kind = "revoked" => c.snap.state = "revoked"
  /\ c.at = "ready" /\ c.job # "cancel" => Newer(c.sub, c.time) \/ c.snap = Current(c.sub)
\* ... and in it.
OpenKnows(c) ==
  /\ c.entry <= Len(log[c.sub]) /\ c.row.time <= Now(c.sub)
  /\ c.sub \in GoogleSubs => c.renewed \in Periods
  /\ ~c.out => /\ HandledBy(c.sub, c.row.time)
               /\ Newer(c.sub, c.row.time) \/ ShowsNow(c.sub, c.row)
               /\ c.job = "notification" => 2 * c.entry <= c.row.time
  /\ ~c.late => Covers(c.max, [row EXCEPT ![c.sub] = c.row])
SyncsSound ==
  /\ \A w \in SyncWorkers, c \in JobRecords : sync[w] = c => JobKnows(c)
  /\ \A w \in SyncWorkers, c \in OpenRecords : sync[w] = c => OpenKnows(c)
  /\ \A w, u \in SyncWorkers :
       sync[w].at = "open" /\ sync[u].at = "open" /\ sync[w].sub = sync[u].sub => w = u

RowSound(s, r) ==
  /\ r.time <= Now(s) /\ handled[s] \subseteq 1..Len(log[s])
  /\ s \notin overtaken =>
       /\ HandledBy(s, r.time)
       /\ r # NoRow => Newer(s, r.time) \/ ShowsNow(s, r)
RowsSound == \A s \in Subs, r \in RowOf : row[s] = r => RowSound(s, r)

SubsInv ==
  /\ SubsTyped
  /\ \A s \in Subs : LogSound(s)
  /\ RowsSound
  /\ SyncsSound
  /\ ~stale => Covers(protection, row)

\* Days are numbers.
LEMMA BoundsAre ==
  /\ MaxLog \in Nat \ {0} /\ MaxDay \in Nat \ {0} /\ MaxHappenings \in Nat
  /\ GoogleSubs \intersect AppleSubs = {} /\ Subs = GoogleSubs \union AppleSubs
BY SubscriptionsAssumption DEF Subs

\* A set of days has a last one.
LEMMA LastDayIs ==
  ASSUME NEW S \in SUBSET (0..MaxDay), S # {}
  PROVE  Max(S) \in S /\ \A y \in S : y <= Max(S)
<1> DEFINE Above == {n \in Nat : \A y \in S : y <= n}
<1>1. S \subseteq Nat /\ MaxDay \in Above
  BY BoundsAre
<1>3. PICK n \in Above : \A m \in Above : ~ (<<m, n>> \in OpToRel(<, Nat))
  <2>1. Above # {} /\ Above \subseteq Nat
    BY <1>1
  <2> HIDE DEF Above
  <2> QED
    BY <2>1, NatLessThanWellFounded, WFMin, Zenon
<1>4. \A m \in Above : ~ (m < n)
  BY <1>3 DEF OpToRel
<1>5. n \in S
  <2> SUFFICES ASSUME n \notin S PROVE FALSE
    OBVIOUS
  <2>1. \A y \in S : y <= n - 1 /\ y \in Nat
    BY <1>1
  <2>2. PICK y \in S : TRUE
    OBVIOUS
  <2>3. n - 1 \in Above
    BY <2>1, <2>2
  <2> QED
    BY <1>4, <2>3
<1>6. \E x \in S : \A y \in S : x >= y
  BY <1>1, <1>5
<1>7. Max(S) \in S /\ \A y \in S : Max(S) >= y
  BY <1>6 DEF Max
<1> QED
  BY <1>1, <1>7

\* The maximum is what bounds the rest.
LEMMA MaxIs == ASSUME NEW S \in SUBSET Nat, NEW n \in S, \A x \in S : x <= n PROVE Max(S) = n
<1>1. \A x \in S : x \in Nat
  OBVIOUS
<1>2. \A y \in S : (\A x \in S : y >= x) => y = n
  BY <1>1
<1>3. \E y \in S : \A x \in S : y >= x
  BY <1>1
<1> QED
  BY <1>2, <1>3 DEF Max

\* What a transaction computes from rows covers them...
LEMMA MaxExpiryCovers ==
  ASSUME today \in 0..MaxDay, NEW rowsNow, \A s \in Subs : rowsNow[s].until \in 0..MaxDay
  PROVE  MaxExpiry(rowsNow) \in 0..MaxDay /\ Covers(MaxExpiry(rowsNow), rowsNow)
<1>1. PICK S : S = {0} \union {rowsNow[s].until : s \in {r \in Subs : rowsNow[r].active /\ rowsNow[r].until > today}}
  OBVIOUS
<1>2. S \in SUBSET (0..MaxDay) /\ S # {}
  BY <1>1, BoundsAre
<1>3. PICK p \in S : p = Max(S) /\ \A y \in S : y <= p
  BY <1>2, LastDayIs
<1>4. MaxExpiry(rowsNow) = p /\ p \in 0..MaxDay
  BY <1>1, <1>2, <1>3 DEF MaxExpiry
<1>5. ASSUME NEW s \in Subs, rowsNow[s].active, rowsNow[s].until > today PROVE rowsNow[s].until <= p
  BY <1>1, <1>3, <1>5
<1>6. ASSUME p > today PROVE \E s \in Subs : rowsNow[s].active /\ rowsNow[s].until = p
  <2>1. p # 0
    BY <1>4, <1>6, BoundsAre
  <2> QED
    BY <1>1, <1>3, <2>1
<1> QED
  BY <1>4, <1>5, <1>6 DEF Covers

\* ... and what covers the rows is what would be computed from them.
LEMMA CoversSays ==
  ASSUME today \in 0..MaxDay, NEW rowsNow, \A s \in Subs : rowsNow[s].until \in 0..MaxDay,
         NEW p \in 0..MaxDay, Covers(p, rowsNow)
  PROVE  IF p > today THEN p = MaxExpiry(rowsNow) ELSE MaxExpiry(rowsNow) = 0
<1>1. PICK S : S = {0} \union {rowsNow[s].until : s \in {r \in Subs : rowsNow[r].active /\ rowsNow[r].until > today}}
  OBVIOUS
<1>2. S \in SUBSET Nat /\ today \in Nat /\ p \in Nat
  BY <1>1, BoundsAre
<1>3. \A y \in S : y = 0 \/ (y > today /\ y <= p)
  BY <1>1 DEF Covers
<1>4. CASE p > today
  <2>1. p \in S
    BY <1>1, <1>4 DEF Covers
  <2>2. \A y \in S : y <= p
    BY <1>2, <1>3
  <2>3. Max(S) = p
    BY <1>2, <2>1, <2>2, MaxIs
  <2> QED
    BY <1>1, <1>4, <2>3 DEF MaxExpiry
<1>5. CASE ~(p > today)
  <2>1. 0 \in S
    BY <1>1
  <2>2. \A y \in S : y <= 0
    BY <1>2, <1>3, <1>5
  <2>3. Max(S) = 0
    BY <1>2, <2>1, <2>2, MaxIs
  <2> QED
    BY <1>1, <1>5, <2>3 DEF MaxExpiry
<1> QED
  BY <1>4, <1>5

\* An entry is added to a log.
LEMMA LogGrows ==
  ASSUME SubsTyped, NEW s \in Subs, NEW e \in Entry, log' = [log EXCEPT ![s] = Append(@, e)]
  PROVE  /\ log' \in [Subs -> Seq(Entry)] /\ Len(log'[s]) = Len(log[s]) + 1 /\ Len(log[s]) \in Nat
         /\ \A v \in 1..Len(log[s]) : log'[s][v] = log[s][v]
         /\ log'[s][Len(log[s]) + 1] = e
         /\ \A t \in Subs \ {s} : log'[t] = log[t]
<1>1. PICK q \in Seq(Entry) : q = log[s]
  BY DEF SubsTyped
<1>2. /\ Append(q, e) \in Seq(Entry) /\ Len(Append(q, e)) = Len(q) + 1 /\ Len(q) \in Nat
      /\ \A v \in 1..Len(q) : Append(q, e)[v] = q[v]
      /\ Append(q, e)[Len(q) + 1] = e
  OBVIOUS
<1>3. log'[s] = Append(q, e) /\ log' \in [Subs -> Seq(Entry)] /\ \A t \in Subs \ {s} : log'[t] = log[t]
  BY <1>1, <1>2 DEF SubsTyped
<1> QED
  BY <1>1, <1>2, <1>3

\* The last entry of a log.
LEMMA CurrentIs ==
  ASSUME SubsTyped, NEW s \in Subs, LogSound(s)
  PROVE  /\ Len(log[s]) \in 1..MaxLog /\ Len(log[s]) \in Nat
         /\ \A v \in 1..Len(log[s]) : log[s][v] \in Entry /\ log[s][v].snap \in Snapshot
         /\ Current(s) \in Snapshot /\ Current(s) = log[s][Len(log[s])].snap
         /\ Now(s) = 2 * Len(log[s]) + 1 /\ Now(s) \in Times
<1>1. PICK q \in Seq(Entry) : q = log[s]
  BY DEF SubsTyped
<1>2. Len(q) \in 1..MaxLog /\ MaxLog \in Nat
  BY <1>1, BoundsAre DEF LogSound
<1>3. \A v \in 1..Len(q) : q[v] \in Entry
  OBVIOUS
<1>4. \A v \in 1..Len(q) : q[v].snap \in Snapshot
  BY <1>3 DEF Entry
<1>5. Len(q) \in 1..Len(q)
  BY <1>2
<1>6. Now(s) = 2 * Len(q) + 1 /\ Now(s) \in Times
  BY <1>1, <1>2 DEF Now, Times
<1> QED
  BY <1>1, <1>2, <1>3, <1>4, <1>5, <1>6 DEF Current, Last

\* What an entry that can be added does not do.
EntryFits(s, e) ==
  /\ Len(log[s]) < MaxLog
  /\ e.kind = "voided" => s \in GoogleSubs /\ e.snap = Current(s)
  /\ e.kind = "revoked" => e.snap.state = "revoked"
  /\ s \in GoogleSubs /\ Current(s).state = "revoked" => e.snap.state = "revoked"
  /\ e.snap.order <= Len(log[s]) + 1

\* What was said stays said, and whoever knew the latest knows it or is behind.
LEMMA LogMoves ==
  ASSUME SubsTyped, \A t \in Subs : LogSound(t), NEW s \in Subs, NEW e \in Entry,
         log' = [log EXCEPT ![s] = Append(@, e)], EntryFits(s, e), NEW t \in Subs
  PROVE  /\ Len(log[t]) <= Len(log'[t]) /\ Len(log'[t]) \in 1..MaxLog
         /\ \A v \in 1..Len(log[t]) : v \in 1..Len(log'[t]) /\ log'[t][v] = log[t][v]
         /\ Now(t) <= Now(t)'
         /\ \A T \in Nat : Newer(t, T) => Newer(t, T)'
         /\ \A T \in Nat : T <= Now(t) => Newer(t, T)' \/ Current(t)' = Current(t)
<1>1. /\ Len(log'[s]) = Len(log[s]) + 1 /\ Len(log[s]) \in Nat
      /\ \A v \in 1..Len(log[s]) : log'[s][v] = log[s][v]
      /\ log'[s][Len(log[s]) + 1] = e
      /\ \A u \in Subs \ {s} : log'[u] = log[u]
  BY LogGrows
<1>2. Len(log[t]) \in 1..MaxLog /\ Len(log[t]) \in Nat /\ MaxLog \in Nat
  BY CurrentIs, BoundsAre
<1>3. Len(log[t]) <= Len(log'[t]) /\ Len(log'[t]) \in 1..MaxLog
  BY <1>1, <1>2 DEF EntryFits
<1>4. \A v \in 1..Len(log[t]) : v \in 1..Len(log'[t]) /\ log'[t][v] = log[t][v]
  BY <1>1, <1>2, <1>3
<1>5. Now(t) <= Now(t)'
  BY <1>2, <1>3 DEF Now
<1>6. ASSUME NEW T \in Nat, Newer(t, T) PROVE Newer(t, T)'
  BY <1>4, <1>6 DEF Newer
<1>7. ASSUME NEW T \in Nat, T <= Now(t) PROVE Newer(t, T)' \/ Current(t)' = Current(t)
  <2>1. CASE t # s
    BY <1>1, <2>1 DEF Current, Last
  <2>2. CASE t = s /\ e.kind # "voided"
    <3>1. 2 * (Len(log[s]) + 1) > T
      BY <1>1, <1>7, <2>2 DEF Now
    <3>2. Len(log[s]) + 1 \in 1..Len(log'[s])
      BY <1>1
    <3> QED
      BY <1>1, <2>2, <3>1, <3>2 DEF Newer
  <2>3. CASE t = s /\ e.kind = "voided"
    <3>1. e.snap = Current(s)
      BY <2>3 DEF EntryFits
    <3>2. Current(s)' = e.snap
      BY <1>1 DEF Current, Last
    <3> QED
      BY <2>3, <3>1, <3>2
  <2> QED
    BY <2>1, <2>2, <2>3
<1> QED
  BY <1>3, <1>4, <1>5, <1>6, <1>7

\* A log stays sound when an entry fits at its end.
LEMMA LogStaysSound ==
  ASSUME SubsTyped, \A t \in Subs : LogSound(t), NEW s \in Subs, NEW e \in Entry,
         log' = [log EXCEPT ![s] = Append(@, e)], EntryFits(s, e), NEW t \in Subs
  PROVE  LogSound(t)'
<1>1. /\ Len(log'[s]) = Len(log[s]) + 1 /\ Len(log[s]) \in Nat
      /\ \A v \in 1..Len(log[s]) : log'[s][v] = log[s][v]
      /\ log'[s][Len(log[s]) + 1] = e
      /\ \A u \in Subs \ {s} : log'[u] = log[u]
  BY LogGrows
<1>2. /\ Len(log'[t]) \in 1..MaxLog /\ \A v \in 1..Len(log[t]) : log'[t][v] = log[t][v]
  BY LogMoves
<1>3. Len(log[t]) \in 1..MaxLog /\ Len(log[t]) \in Nat
  BY CurrentIs
<1>4. CASE t # s
  <2>1. log'[t] = log[t]
    BY <1>1, <1>4
  <2> QED
    BY <2>1, ZenonT(60) DEF LogSound, Current, Last
<1>5. CASE t = s
  <2>1. log'[s][1] = log[s][1]
    BY <1>2, <1>3, <1>5
  <2>2. Current(s)' = e.snap
    BY <1>1 DEF Current, Last
  <2>3. ASSUME NEW v \in 1..Len(log'[s])
        PROVE  /\ log'[s][v].kind = "voided" => s \in GoogleSubs
               /\ log'[s][v].kind = "revoked" => log'[s][v].snap.state = "revoked"
               /\ log'[s][v].kind = "revoked" /\ s \in GoogleSubs => e.snap.state = "revoked"
               /\ log'[s][v].snap.order <= v
    <3>1. CASE v \in 1..Len(log[s])
      <4>1. log'[s][v] = log[s][v]
        BY <1>1, <3>1
      <4>2. /\ log[s][v].kind = "voided" => s \in GoogleSubs
            /\ log[s][v].kind = "revoked" => log[s][v].snap.state = "revoked"
            /\ log[s][v].kind = "revoked" /\ s \in GoogleSubs => Current(s).state = "revoked"
            /\ log[s][v].snap.order <= v
        BY <3>1 DEF LogSound
      <4> QED
        BY <4>1, <4>2 DEF EntryFits
    <3>2. CASE v \notin 1..Len(log[s])
      <4>1. v = Len(log[s]) + 1
        BY <1>1, <3>2
      <4> QED
        BY <1>1, <4>1 DEF EntryFits
    <3> QED
      BY <3>1, <3>2
  <2>4. log[s][1].snap = FirstEntry.snap
    BY DEF LogSound
  <2>5. Len(log'[s]) \in 1..MaxLog
    BY <1>2, <1>5
  <2>6. LogSound(s)'
    BY <2>1, <2>2, <2>3, <2>4, <2>5 DEF LogSound
  <2> QED
    BY <1>5, <2>6
<1> QED
  BY <1>4, <1>5

\* What a row shows and what a worker knows, when a log grows.
LEMMA ShownStays ==
  ASSUME SubsTyped, \A t \in Subs : LogSound(t), NEW s \in Subs, NEW e \in Entry,
         log' = [log EXCEPT ![s] = Append(@, e)], EntryFits(s, e), UNCHANGED today,
         NEW t \in Subs, NEW r, r.time \in Nat, r.time <= Now(t),
         Newer(t, r.time) \/ ShowsNow(t, r)
  PROVE  Newer(t, r.time)' \/ ShowsNow(t, r)'
<1>1. PICK T \in Nat : T = r.time
  OBVIOUS
<1>2. Newer(t, T) => Newer(t, T)'
  BY LogMoves
<1>3. Newer(t, T)' \/ Current(t)' = Current(t)
  BY <1>1, LogMoves
<1>4. Current(t)' = Current(t) /\ ShowsNow(t, r) => ShowsNow(t, r)'
  BY DEF ShowsNow
<1>5. Newer(t, r.time)' <=> Newer(t, T)'
  BY <1>1 DEF Newer
<1> QED
  BY <1>1, <1>2, <1>3, <1>4, <1>5

\* A new entry was not handled yet.
LEMMA HandledStays ==
  ASSUME SubsTyped, \A t \in Subs : LogSound(t), NEW s \in Subs, NEW e \in Entry,
         log' = [log EXCEPT ![s] = Append(@, e)], EntryFits(s, e), UNCHANGED handled,
         NEW t \in Subs, handled[t] \subseteq 1..Len(log[t]), NEW T, HandledBy(t, T)
  PROVE  HandledBy(t, T)' /\ handled'[t] \subseteq 1..Len(log'[t])
<1>1. \A v \in 1..Len(log[t]) : v \in 1..Len(log'[t]) /\ log'[t][v] = log[t][v]
  BY LogMoves
<1> QED
  BY <1>1 DEF HandledBy

\* The columns of a row.
LEMMA RowOfIs ==
  ASSUME NEW r \in RowOf
  PROVE  /\ r.active \in BOOLEAN /\ r.until \in 0..MaxDay /\ r.time \in Nat
         /\ r.time = 0 => r = NoRow
<1>1. MaxDay \in Nat /\ MaxLog \in Nat
  BY BoundsAre
<1>2. CASE r = NoRow
  BY <1>1, <1>2 DEF NoRow
<1>3. CASE r \in [active : BOOLEAN, until : 0..MaxDay, time : Times]
  BY <1>1, <1>3 DEF Times
<1> QED
  BY <1>2, <1>3 DEF RowOf

\* The rows stay sound when the provider does something.
LEMMA RowsStaySound ==
  ASSUME SubsTyped, \A t \in Subs : LogSound(t), RowsSound, NEW s \in Subs, NEW e \in Entry,
         log' = [log EXCEPT ![s] = Append(@, e)], EntryFits(s, e),
         UNCHANGED <<today, row, handled, overtaken>>
  PROVE  RowsSound'
<1>1. ASSUME NEW t \in Subs, NEW r \in RowOf, row[t] = r PROVE RowSound(t, r)'
  <2>1. RowSound(t, r)
    BY <1>1 DEF RowsSound
  <2>2. r.time \in Nat
    BY RowOfIs
  <2>3. r.time <= Now(t)'
    <3>1. Now(t) <= Now(t)' /\ Len(log'[t]) \in 1..MaxLog
      BY LogMoves
    <3>2. Now(t) \in Nat /\ Now(t)' \in Nat
      BY <3>1, CurrentIs, BoundsAre DEF Now
    <3>3. r.time <= Now(t)
      BY <2>1 DEF RowSound
    <3> QED
      BY <2>2, <3>1, <3>2, <3>3
  <2>4. handled'[t] \subseteq 1..Len(log'[t])
    <3>1. handled[t] \subseteq 1..Len(log[t])
      BY <2>1 DEF RowSound
    <3>2. \A v \in 1..Len(log[t]) : v \in 1..Len(log'[t])
      BY LogMoves
    <3> QED
      BY <3>1, <3>2
  <2>5. ASSUME t \notin overtaken PROVE HandledBy(t, r.time)'
    BY <2>1, <2>5, HandledStays DEF RowSound
  <2>6. ASSUME t \notin overtaken, r # NoRow PROVE Newer(t, r.time)' \/ ShowsNow(t, r)'
    BY <2>1, <2>2, <2>6, ShownStays DEF RowSound
  <2> QED
    BY <2>3, <2>4, <2>5, <2>6 DEF RowSound
<1> QED
  BY <1>1 DEF RowsSound

\* The fields of a job.
LEMMA JobFields ==
  ASSUME NEW c \in JobRecords
  PROVE  /\ c.at \in {"fetch", "ready"} /\ c.job \in Jobs /\ c.sub \in Subs /\ c.snap \in Snapshot
         /\ c.entry \in 1..MaxLog /\ c.entry \in Nat /\ c.time \in Times /\ c.time \in Nat
<1>1. MaxLog \in Nat
  BY BoundsAre
<1> QED
  BY <1>1 DEF JobRecords, Times

\* The fields of an open transaction.
LEMMA OpenFields ==
  ASSUME NEW c \in OpenRecords
  PROVE  /\ c.at = "open" /\ c.job \in Jobs /\ c.sub \in Subs /\ c.max \in 0..MaxDay
         /\ c.entry \in 1..MaxLog /\ c.entry \in Nat /\ c.row \in RowsWritten
         /\ c.row \in RowOf /\ c.row # NoRow /\ c.row.time \in Nat /\ c.row.until \in 0..MaxDay
         /\ c.refunds \in SUBSET (1..MaxLog) /\ c.late \in BOOLEAN /\ c.out \in BOOLEAN
<1>1. MaxLog \in Nat
  BY BoundsAre
<1>2. /\ c.at = "open" /\ c.job \in Jobs /\ c.sub \in Subs /\ c.max \in 0..MaxDay
      /\ c.entry \in 1..MaxLog /\ c.row \in RowsWritten
      /\ c.refunds \in SUBSET (1..MaxLog) /\ c.late \in BOOLEAN /\ c.out \in BOOLEAN
  BY DEF OpenRecords
<1>3. c.row.time \in Times /\ c.row.until \in 0..MaxDay /\ c.row \in RowOf
  BY <1>2 DEF RowsWritten, RowOf
<1>4. c.row.time \in Nat /\ c.row # NoRow
  BY <1>1, <1>3 DEF Times, NoRow
<1> QED
  BY <1>1, <1>2, <1>3, <1>4

\* A worker knows as much as before when the provider does something...
LEMMA JobStaysKnown ==
  ASSUME SubsTyped, \A t \in Subs : LogSound(t), NEW s \in Subs, NEW e \in Entry,
         log' = [log EXCEPT ![s] = Append(@, e)], EntryFits(s, e),
         NEW c \in JobRecords, JobKnows(c)
  PROVE  JobKnows(c)'
<1>1. PICK t \in Subs : t = c.sub
  BY JobFields
<1>2. c.time \in Nat /\ c.entry \in Nat /\ c.entry \in 1..MaxLog
  BY JobFields
<1>3. /\ Len(log[t]) <= Len(log'[t]) /\ Len(log[t]) \in Nat /\ Len(log'[t]) \in 1..MaxLog
      /\ Now(t) <= Now(t)' /\ Now(t) \in Nat /\ Now(t)' \in Nat
  <2>1. /\ Len(log[t]) <= Len(log'[t]) /\ Len(log'[t]) \in 1..MaxLog /\ Now(t) <= Now(t)'
    BY LogMoves
  <2>2. Len(log[t]) \in Nat
    BY CurrentIs
  <2>3. Len(log'[t]) \in Nat
    BY <2>1, BoundsAre
  <2> QED
    BY <2>1, <2>2, <2>3 DEF Now
<1>4. c.entry <= Len(log[t]) /\ c.time <= Now(t)
  BY <1>1 DEF JobKnows
<1>5. c.entry <= Len(log'[t]) /\ c.time <= Now(t)'
  <2>1. Len(log'[t]) \in Nat
    BY <1>3, BoundsAre
  <2> QED
    BY <1>2, <1>3, <1>4, <2>1
<1>6. log'[t][c.entry] = log[t][c.entry]
  <2>1. c.entry \in 1..Len(log[t])
    BY <1>2, <1>3, <1>4
  <2> QED
    BY <2>1, LogMoves
<1>7. (Newer(t, c.time) => Newer(t, c.time)') /\ (Newer(t, c.time)' \/ Current(t)' = Current(t))
  BY <1>2, <1>4, LogMoves
<1>8. c.at = "ready" /\ c.job # "cancel" => Newer(t, c.time) \/ c.snap = Current(t)
  BY <1>1 DEF JobKnows
<1>9. c.job = "notification" =>
        /\ c.at = "ready" /\ c.time = 2 * c.entry
        /\ log[t][c.entry].kind = "revoked" => c.snap.state = "revoked"
  BY <1>1 DEF JobKnows
<1>10. c.at = "ready" /\ c.job # "cancel" => Newer(t, c.time)' \/ c.snap = Current(t)'
  BY <1>7, <1>8
<1> QED
  BY <1>1, <1>5, <1>6, <1>9, <1>10 DEF JobKnows

\* ... and so does one in its transaction.
LEMMA OpenStaysKnown ==
  ASSUME SubsTyped, \A t \in Subs : LogSound(t), RowsSound, NEW s \in Subs, NEW e \in Entry,
         log' = [log EXCEPT ![s] = Append(@, e)], EntryFits(s, e),
         UNCHANGED <<today, row, handled>>,
         NEW c \in OpenRecords, OpenKnows(c)
  PROVE  OpenKnows(c)'
<1>1. PICK t \in Subs, r \in RowsWritten : t = c.sub /\ r = c.row /\ r.time \in Nat
  BY OpenFields
<1>3. /\ Len(log[t]) <= Len(log'[t]) /\ Len(log[t]) \in Nat /\ Len(log'[t]) \in Nat
      /\ Now(t) <= Now(t)' /\ Now(t) \in Nat /\ Now(t)' \in Nat
  <2>1. /\ Len(log[t]) <= Len(log'[t]) /\ Len(log'[t]) \in 1..MaxLog /\ Now(t) <= Now(t)'
    BY LogMoves
  <2>2. Len(log[t]) \in Nat
    BY CurrentIs
  <2>3. Len(log'[t]) \in Nat
    BY <2>1, BoundsAre
  <2> QED
    BY <2>1, <2>2, <2>3 DEF Now
<1>4. c.entry <= Len(log'[t]) /\ r.time <= Now(t)'
  <2>1. c.entry \in Nat /\ c.entry <= Len(log[t]) /\ r.time <= Now(t)
    BY <1>1, OpenFields DEF OpenKnows
  <2> QED
    BY <1>1, <1>3, <2>1
<1>5. ASSUME ~c.out
      PROVE  /\ HandledBy(t, r.time)'
             /\ Newer(t, r.time)' \/ ShowsNow(t, r)'
  <2>1. HandledBy(t, r.time) /\ (Newer(t, r.time) \/ ShowsNow(t, r)) /\ r.time <= Now(t)
    BY <1>1, <1>5 DEF OpenKnows
  <2>2. handled[t] \subseteq 1..Len(log[t])
    <3>1. PICK x \in RowOf : x = row[t]
      BY DEF SubsTyped
    <3> QED
      BY <3>1 DEF RowsSound, RowSound
  <2>3. HandledBy(t, r.time)'
    BY <2>1, <2>2, HandledStays
  <2>4. Newer(t, r.time)' \/ ShowsNow(t, r)'
    BY <1>1, <2>1, ShownStays
  <2> QED
    BY <2>3, <2>4
<1>6. ~c.late => Covers(c.max, [row EXCEPT ![t] = r])'
  BY <1>1 DEF OpenKnows, Covers
<1>7. (t \in GoogleSubs => c.renewed \in Periods) /\ (~c.out /\ c.job = "notification" => 2 * c.entry <= r.time)
  BY <1>1 DEF OpenKnows
<1> QED
  BY <1>1, <1>4, <1>5, <1>6, <1>7 DEF OpenKnows

\* A provider's entry leaves everything sound that the service has.
LEMMA LogInv ==
  ASSUME SubsInv, NEW s \in Subs, NEW e \in Entry,
         log' = [log EXCEPT ![s] = Append(@, e)], EntryFits(s, e),
         UNCHANGED <<today, row, refunds, renewed, protection, handled, overtaken, stale>>,
         extra' \in Happened
  PROVE  /\ sync' \in [SyncWorkers -> {Idle} \union JobRecords \union OpenRecords] => SubsTyped'
         /\ \A t \in Subs : LogSound(t)'
         /\ RowsSound'
         /\ \A c \in JobRecords : JobKnows(c) => JobKnows(c)'
         /\ \A c \in OpenRecords : OpenKnows(c) => OpenKnows(c)'
         /\ ~stale' => Covers(protection, row)'
<1>t. SubsTyped /\ (\A t \in Subs : LogSound(t)) /\ RowsSound /\ SyncsSound /\ (~stale => Covers(protection, row))
  BY DEF SubsInv
<1>1. log' \in [Subs -> Seq(Entry)]
  BY <1>t, LogGrows
<1>2. sync' \in [SyncWorkers -> {Idle} \union JobRecords \union OpenRecords] => SubsTyped'
  BY <1>t, <1>1 DEF SubsTyped
<1>3. \A t \in Subs : LogSound(t)'
  BY <1>t, LogStaysSound
<1>4. RowsSound'
  BY <1>t, RowsStaySound
<1>5. \A c \in JobRecords : JobKnows(c) => JobKnows(c)'
  BY <1>t, JobStaysKnown
<1>6. \A c \in OpenRecords : OpenKnows(c) => OpenKnows(c)'
  BY <1>t, OpenStaysKnown
<1>7. ~stale' => Covers(protection, row)'
  BY <1>t DEF Covers
<1> QED
  BY <1>2, <1>3, <1>4, <1>5, <1>6, <1>7

\* Something happens at the provider.
LEMMA HappensInv ==
  ASSUME SubsInv, NEW s \in Subs, NEW e \in Entry,
         log' = [log EXCEPT ![s] = Append(@, e)], EntryFits(s, e),
         UNCHANGED <<today, row, refunds, renewed, protection, sync, extra, handled, overtaken, stale>>
  PROVE  SubsInv'
<1>1. /\ sync' \in [SyncWorkers -> {Idle} \union JobRecords \union OpenRecords] => SubsTyped'
      /\ \A t \in Subs : LogSound(t)'
      /\ RowsSound'
      /\ \A c \in JobRecords : JobKnows(c) => JobKnows(c)'
      /\ \A c \in OpenRecords : OpenKnows(c) => OpenKnows(c)'
      /\ ~stale' => Covers(protection, row)'
  <2>1. extra' \in Happened
    BY DEF SubsInv, SubsTyped
  <2> QED
    BY <2>1, LogInv
<1>2. SubsTyped'
  BY <1>1 DEF SubsInv, SubsTyped
<1>3. SyncsSound'
  BY <1>1 DEF SubsInv, SyncsSound
<1> QED
  BY <1>1, <1>2, <1>3 DEF SubsInv

\* What happens at a provider.
LEMMA HappensSound ==
  ASSUME SubsInv, NEW s \in Subs, NEW k \in Kinds, NEW order \in 1..MaxLog, NEW new \in Snapshot,
         Happens(s, k, order, new),
         k = "voided" => s \in GoogleSubs /\ new = Current(s),
         k = "revoked" => new.state = "revoked",
         s \in GoogleSubs /\ Current(s).state = "revoked" => new.state = "revoked",
         new.order <= Len(log[s]) + 1
  PROVE  SubsInv'
<1>1. PICK e \in Entry : e = [kind |-> k, order |-> order, snap |-> new] /\ e.kind = k /\ e.snap = new
  <2> DEFINE e == [kind |-> k, order |-> order, snap |-> new]
  <2>1. e \in Entry /\ e.kind = k /\ e.snap = new
    BY DEF Entry
  <2> QED
    BY <2>1
<1>2. /\ log' = [log EXCEPT ![s] = Append(@, e)] /\ Len(log[s]) < MaxLog
      /\ UNCHANGED <<today, row, refunds, renewed, protection, sync, extra, handled, overtaken, stale>>
  BY <1>1 DEF Happens
<1>3. EntryFits(s, e)
  BY <1>1, <1>2 DEF EntryFits
<1> QED
  BY <1>2, <1>3, HappensInv

\* What a subscription is when its state changes.
LEMMA SnapshotOf ==
  ASSUME NEW d \in Snapshot, NEW x \in States
  PROVE  \E c \in Snapshot : c = [d EXCEPT !.state = x] /\ c.state = x /\ c.order = d.order /\ c.until = d.until
<1> DEFINE c == [d EXCEPT !.state = x]
<1>1. c \in Snapshot /\ c.state = x /\ c.order = d.order /\ c.until = d.until
  BY DEF Snapshot
<1> QED
  BY <1>1

\* The providers.
LEMMA ProviderInv ==
  ASSUME SubsInv, NEW s \in Subs,
         \/ Renews(s) \/ Revokes(s) \/ Voids(s) \/ RefundsEarlier(s) \/ RefundReversed(s)
         \/ \E state \in {"canceled", "hold", "expired"} : Changes(s, state)
  PROVE  SubsInv'
<1>1. PICK d \in Snapshot, n \in Nat :
        /\ d = Current(s) /\ n = Len(log[s]) /\ n \in 1..MaxLog /\ d.order <= n
        /\ d.order \in 1..MaxLog /\ d.until \in 1..MaxDay /\ MaxLog \in Nat /\ MaxDay \in Nat
  <2>1. /\ Len(log[s]) \in 1..MaxLog /\ Len(log[s]) \in Nat /\ Current(s) \in Snapshot
        /\ Current(s) = log[s][Len(log[s])].snap
    BY CurrentIs DEF SubsInv
  <2>2. Current(s).order <= Len(log[s])
    <3>1. Len(log[s]) \in 1..Len(log[s])
      BY <2>1
    <3> QED
      BY <2>1, <3>1 DEF SubsInv, LogSound
  <2>3. Current(s).order \in 1..MaxLog /\ Current(s).until \in 1..MaxDay
    BY <2>1 DEF Snapshot
  <2> QED
    BY <2>1, <2>2, <2>3, BoundsAre
<1>k. /\ {"renewed", "changed", "revoked", "refunded", "voided"} \subseteq Kinds
      /\ States = {"active", "canceled", "hold", "expired", "revoked"}
      /\ d.order \in Nat /\ d.until \in Nat
  BY <1>1 DEF Kinds, States
<1>2. CASE Renews(s)
  <2>1. /\ d.state # "revoked" /\ d.until < MaxDay /\ n < MaxLog
        /\ Happens(s, "renewed", d.order + 1, [state |-> "active", until |-> d.until + 1, order |-> d.order + 1])
    BY <1>1, <1>2 DEF Renews, Happens
  <2>2. d.until + 1 \in 1..MaxDay /\ d.order + 1 \in 1..MaxLog
    BY <1>1, <2>1
  <2>3. PICK c \in Snapshot : /\ c = [state |-> "active", until |-> d.until + 1, order |-> d.order + 1]
                              /\ c.state = "active" /\ c.order = d.order + 1
    <3> DEFINE c == [state |-> "active", until |-> d.until + 1, order |-> d.order + 1]
    <3>1. c \in Snapshot /\ c.state = "active" /\ c.order = d.order + 1
      BY <1>k, <2>2 DEF Snapshot
    <3> QED
      BY <3>1
  <2>4. Happens(s, "renewed", d.order + 1, c) /\ c.order <= n + 1
    BY <1>1, <2>1, <2>3
  <2> QED
    BY <1>1, <1>k, <2>1, <2>2, <2>4, HappensSound
<1>3. CASE Revokes(s)
  <2>1. PICK c \in Snapshot : c = [d EXCEPT !.state = "revoked"] /\ c.state = "revoked" /\ c.order = d.order
    BY <1>k, SnapshotOf
  <2>2. Happens(s, "revoked", d.order, c) /\ c.order <= n + 1
    BY <1>1, <1>3, <2>1 DEF Revokes
  <2> QED
    BY <1>1, <1>k, <2>1, <2>2, HappensSound
<1>4. CASE Voids(s)
  <2>1. PICK k \in 1..d.order : s \in GoogleSubs /\ Happens(s, "voided", k, d)
    BY <1>1, <1>4 DEF Voids
  <2>2. k \in 1..MaxLog /\ d.order <= n + 1
    BY <1>1
  <2> QED
    BY <1>1, <1>k, <2>1, <2>2, HappensSound
<1>5. CASE RefundsEarlier(s)
  <2>1. PICK k \in 1..(d.order - 1) : s \in AppleSubs /\ Happens(s, "refunded", k, d)
    BY <1>1, <1>5 DEF RefundsEarlier
  <2>2. k \in 1..MaxLog /\ d.order <= n + 1 /\ s \notin GoogleSubs
    BY <1>1, <2>1, BoundsAre
  <2> QED
    BY <1>1, <1>k, <2>1, <2>2, HappensSound
<1>6. CASE RefundReversed(s)
  <2>1. PICK c \in Snapshot : c = [d EXCEPT !.state = "active"] /\ c.state = "active" /\ c.order = d.order
    BY <1>k, SnapshotOf
  <2>2. Happens(s, "changed", d.order, c) /\ c.order <= n + 1 /\ s \notin GoogleSubs
    BY <1>1, <1>6, <2>1, BoundsAre DEF RefundReversed
  <2> QED
    BY <1>1, <1>k, <2>1, <2>2, HappensSound
<1>7. ASSUME NEW state \in {"canceled", "hold", "expired"}, Changes(s, state) PROVE SubsInv'
  <2>1. state \in States
    BY <1>k
  <2>2. PICK c \in Snapshot : c = [d EXCEPT !.state = state] /\ c.state = state /\ c.order = d.order
    BY <2>1, SnapshotOf
  <2>3. d.state # "revoked" /\ Happens(s, "changed", d.order, c) /\ c.order <= n + 1
    BY <1>1, <1>7, <2>2 DEF Changes
  <2> QED
    BY <1>1, <1>k, <2>2, <2>3, HappensSound
<1> QED
  BY <1>2, <1>3, <1>4, <1>5, <1>6, <1>7

\* A day passes.
LEMMA DayPassesInv == ASSUME SubsInv, DayPasses PROVE SubsInv'
<1>t. SubsTyped /\ (\A t \in Subs : LogSound(t)) /\ RowsSound /\ SyncsSound /\ (~stale => Covers(protection, row))
  BY DEF SubsInv
<1>1. /\ today' = today + 1 /\ today + 1 < MaxDay
      /\ UNCHANGED <<log, row, refunds, renewed, protection, sync, extra, handled, overtaken, stale>>
  BY DEF DayPasses
<1>2. today \in Nat /\ today' \in 0..MaxDay /\ today' \in Nat /\ today < today'
  BY <1>t, <1>1, BoundsAre DEF SubsTyped
<1>3. SubsTyped'
  BY <1>t, <1>1, <1>2 DEF SubsTyped
<1>4. \A t \in Subs : LogSound(t)'
  BY <1>t, <1>1 DEF LogSound, Current, Last
<1>5. ASSUME NEW t \in Subs, NEW r, r.until \in Nat, ShowsNow(t, r) PROVE ShowsNow(t, r)'
  <2>1. Current(t)' = Current(t)
    BY <1>1 DEF Current, Last
  <2>2. r.until > today' => r.until > today
    BY <1>2, <1>5
  <2> QED
    BY <1>5, <2>1, <2>2 DEF ShowsNow
<1>6. ASSUME NEW p \in Nat, NEW rows, \A t \in Subs : rows[t].until \in Nat, Covers(p, rows)
      PROVE  Covers(p, rows)'
  <2>1. \A x \in Nat : x > today' => x > today
    BY <1>2
  <2> QED
    BY <1>6, <2>1 DEF Covers
<1>7. RowsSound'
  <2>1. ASSUME NEW t \in Subs, NEW r \in RowOf, row[t] = r PROVE RowSound(t, r)'
    <3>1. RowSound(t, r) /\ r.until \in Nat
      BY <1>t, <2>1, RowOfIs, BoundsAre DEF RowsSound
    <3>2. ShowsNow(t, r) => ShowsNow(t, r)'
      BY <1>5, <3>1
    <3>3. Newer(t, r.time)' <=> Newer(t, r.time)
      BY <1>1 DEF Newer
    <3>4. (HandledBy(t, r.time)' <=> HandledBy(t, r.time)) /\ Now(t)' = Now(t)
      BY <1>1 DEF HandledBy, Now
    <3> QED
      BY <1>1, <3>1, <3>2, <3>3, <3>4 DEF RowSound
  <2> QED
    BY <1>1, <2>1 DEF RowsSound
<1>8. \A t \in Subs : row[t].until \in Nat
  <2>1. ASSUME NEW t \in Subs PROVE row[t].until \in Nat
    <3>1. PICK r \in RowOf : r = row[t]
      BY <1>t DEF SubsTyped
    <3> QED
      BY <3>1, RowOfIs, BoundsAre
  <2> QED
    BY <2>1
<1>9. SyncsSound'
  <2>1. ASSUME NEW c \in JobRecords, JobKnows(c) PROVE JobKnows(c)'
    BY <1>1, <2>1 DEF JobKnows, Newer, Current, Last, Now
  <2>2. ASSUME NEW c \in OpenRecords, OpenKnows(c) PROVE OpenKnows(c)'
    <3>1. PICK t \in Subs, r \in RowsWritten, p \in Nat :
            t = c.sub /\ r = c.row /\ p = c.max /\ r.until \in Nat
      BY OpenFields, BoundsAre
    <3>2. ShowsNow(t, r) => ShowsNow(t, r)'
      BY <1>5, <3>1
    <3>3. (Newer(t, r.time)' <=> Newer(t, r.time)) /\ Now(t)' = Now(t)
      BY <1>1 DEF Newer, Now
    <3>4. HandledBy(t, r.time)' <=> HandledBy(t, r.time)
      BY <1>1 DEF HandledBy
    <3>5. ~c.late => Covers(p, [row EXCEPT ![t] = r])'
      <4>1. PICK rows : rows = [row EXCEPT ![t] = r]
        OBVIOUS
      <4>2. \A u \in Subs : rows[u].until \in Nat
        BY <1>t, <1>8, <3>1, <4>1 DEF SubsTyped
      <4>3. ~c.late => Covers(p, rows)
        BY <2>2, <3>1, <4>1 DEF OpenKnows
      <4>4. ~c.late => Covers(p, rows)'
        BY <1>6, <4>2, <4>3
      <4>5. Covers(p, [row EXCEPT ![t] = r])' <=> Covers(p, rows)'
        BY <1>1, <4>1 DEF Covers
      <4> QED
        BY <4>4, <4>5
    <3> QED
      BY <1>1, <2>2, <3>1, <3>2, <3>3, <3>4, <3>5 DEF OpenKnows
  <2> QED
    BY <1>t, <1>1, <2>1, <2>2 DEF SyncsSound
<1>10. ~stale' => Covers(protection, row)'
  <2>1. PICK p, rows : p \in Nat /\ p = protection /\ rows = row
    BY <1>t, BoundsAre DEF SubsTyped
  <2>2. ~stale => Covers(p, rows)'
    BY <1>t, <1>6, <1>8, <2>1
  <2> QED
    BY <1>1, <2>1, <2>2 DEF Covers
<1> QED
  BY <1>3, <1>4, <1>7, <1>9, <1>10 DEF SubsInv

\* A worker goes on; what the others know stays true.
LEMMA SyncMoves ==
  ASSUME SubsTyped, SyncsSound, NEW w \in SyncWorkers,
         NEW c \in {Idle} \union JobRecords \union OpenRecords,
         sync' = [sync EXCEPT ![w] = c],
         c \in JobRecords => JobKnows(c)', c \in OpenRecords => OpenKnows(c)',
         \A u \in SyncWorkers \ {w}, d \in JobRecords : sync[u] = d => JobKnows(d)',
         \A u \in SyncWorkers \ {w}, d \in OpenRecords : sync[u] = d => OpenKnows(d)',
         c.at = "open" => \A u \in SyncWorkers \ {w} : ~(sync[u].at = "open" /\ sync[u].sub = c.sub)
  PROVE  SyncsSound' /\ sync' \in [SyncWorkers -> {Idle} \union JobRecords \union OpenRecords]
<1>1. /\ sync' \in [SyncWorkers -> {Idle} \union JobRecords \union OpenRecords]
      /\ sync'[w] = c /\ \A u \in SyncWorkers \ {w} : sync'[u] = sync[u]
  BY DEF SubsTyped
<1>2. \A u \in SyncWorkers, d \in JobRecords : sync'[u] = d => JobKnows(d)'
  BY <1>1
<1>3. \A u \in SyncWorkers, d \in OpenRecords : sync'[u] = d => OpenKnows(d)'
  BY <1>1
<1>4. \A u, v \in SyncWorkers :
        sync'[u].at = "open" /\ sync'[v].at = "open" /\ sync'[u].sub = sync'[v].sub => u = v
  BY <1>1 DEF SyncsSound
<1> QED
  BY <1>1, <1>2, <1>3, <1>4 DEF SyncsSound

\* Who has nothing to do has no job.
LEMMA IdleIs == Idle.at = "idle" /\ Idle \notin JobRecords /\ Idle \notin OpenRecords
<1>1. Idle.at = "idle"
  BY DEF Idle
<1>2. \A c \in JobRecords : c.at # "idle"
  BY JobFields
<1>3. \A c \in OpenRecords : c.at # "idle"
  BY OpenFields
<1> QED
  BY <1>1, <1>2, <1>3

\* A step that changes only what a worker does.
LEMMA QuietSyncInv ==
  ASSUME SubsInv, NEW w \in SyncWorkers, NEW c \in {Idle} \union JobRecords \union OpenRecords,
         sync' = [sync EXCEPT ![w] = c],
         c \in JobRecords => JobKnows(c), c \in OpenRecords => OpenKnows(c),
         c.at = "open" => \A u \in SyncWorkers \ {w} : ~(sync[u].at = "open" /\ sync[u].sub = c.sub),
         UNCHANGED <<today, log, row, refunds, renewed, protection, handled, overtaken, stale>>,
         extra' \in Happened
  PROVE  SubsInv'
<1>t. SubsTyped /\ (\A t \in Subs : LogSound(t)) /\ RowsSound /\ SyncsSound /\ (~stale => Covers(protection, row))
  BY DEF SubsInv
<1>1. \A t \in Subs : LogSound(t)'
  BY <1>t DEF LogSound, Current, Last
<1>2. ASSUME NEW t \in Subs, NEW r \in RowOf, RowSound(t, r) PROVE RowSound(t, r)'
  BY <1>2 DEF RowSound, HandledBy, Newer, ShowsNow, Now, Current, Last
<1>3. RowsSound'
  BY <1>t, <1>2 DEF RowsSound
<1>4. \A d \in JobRecords : JobKnows(d) => JobKnows(d)'
  BY DEF JobKnows, Newer, Current, Last, Now
<1>5. \A d \in OpenRecords : OpenKnows(d) => OpenKnows(d)'
  BY DEF OpenKnows, HandledBy, Newer, ShowsNow, Covers, Current, Last, Now
<1>6. \A u \in SyncWorkers \ {w}, d \in JobRecords : sync[u] = d => JobKnows(d)'
  BY <1>t, <1>4 DEF SyncsSound
<1>7. \A u \in SyncWorkers \ {w}, d \in OpenRecords : sync[u] = d => OpenKnows(d)'
  BY <1>t, <1>5 DEF SyncsSound
<1>8. (c \in JobRecords => JobKnows(c)') /\ (c \in OpenRecords => OpenKnows(c)')
  BY <1>4, <1>5
<1>9. SyncsSound' /\ sync' \in [SyncWorkers -> {Idle} \union JobRecords \union OpenRecords]
  BY <1>t, <1>6, <1>7, <1>8, SyncMoves
<1>10. SubsTyped'
  BY <1>t, <1>9 DEF SubsTyped
<1>11. ~stale' => Covers(protection, row)'
  BY <1>t DEF Covers
<1> QED
  BY <1>1, <1>3, <1>9, <1>10, <1>11 DEF SubsInv

\* What a worker begins.
LEMMA JobIs ==
  ASSUME NEW at \in {"fetch", "ready"}, NEW j \in Jobs, NEW s \in Subs, NEW v \in 1..MaxLog,
         NEW T \in Times, NEW new \in Snapshot
  PROVE  \E c \in JobRecords : /\ c = Job(at, j, s, v, T, new) /\ c.at = at /\ c.job = j /\ c.sub = s
                               /\ c.entry = v /\ c.time = T /\ c.snap = new
<1> DEFINE c == [at |-> at, job |-> j, sub |-> s, entry |-> v, time |-> T, snap |-> new]
<1>1. /\ c \in JobRecords /\ c.at = at /\ c.job = j /\ c.sub = s
      /\ c.entry = v /\ c.time = T /\ c.snap = new
  BY DEF JobRecords
<1> QED
  BY <1>1 DEF Job

\* What is counted of the happenings stays within their bound.
LEMMA OneMoreFits ==
  ASSUME SubsTyped
  PROVE  Happenings < MaxHappenings \/ Happenings + 1 < MaxHappenings => extra + 1 \in Happened
<1>1. ASSUME NEW s \in Subs PROVE Len(log[s]) \in Nat
  BY DEF SubsTyped
<1>2. Entries \in [Subs -> Nat]
  BY <1>1 DEF Entries
<1>3. IsFiniteSet(Subs) /\ MaxHappenings \in Nat
  BY SubscriptionsAssumption
<1>4. Total(Entries, Subs) \in Nat
  BY <1>2, <1>3, TotalIsNat
<1>5. Happenings = Total(Entries, Subs) + extra
  BY DEF Happenings, Total
<1>6. extra \in Nat
  BY DEF SubsTyped, Happened
<1> QED
  BY <1>3, <1>4, <1>5, <1>6 DEF Happened

\* A worker takes a job.
LEMMA StartsInv ==
  ASSUME SubsInv, NEW w \in SyncWorkers, NEW c \in JobRecords, JobKnows(c), NEW again, Starts(w, c, again)
  PROVE  SubsInv'
<1>1. /\ sync' = [sync EXCEPT ![w] = c]
      /\ UNCHANGED <<today, log, row, refunds, renewed, protection, handled, overtaken, stale>>
      /\ extra' = IF again THEN extra + 1 ELSE extra
  BY DEF Starts
<1>2. extra' \in Happened
  <2>1. extra \in Happened /\ SubsTyped
    BY DEF SubsInv, SubsTyped
  <2>2. again => Happenings < MaxHappenings
    BY DEF Starts
  <2> QED
    BY <1>1, <2>1, <2>2, OneMoreFits
<1>3. c.at # "open" /\ c \notin OpenRecords
  BY JobFields, OpenFields
<1> QED
  BY <1>1, <1>2, <1>3, QuietSyncInv

\* A notification comes in, a purchase is registered or restored.
LEMMA BeginsInv ==
  ASSUME SubsInv, NEW w \in SyncWorkers,
         \/ \E s \in GoogleSubs : \E v \in DOMAIN log[s] : GoogleNotification(w, s, v)
         \/ \E s \in AppleSubs : \E v \in DOMAIN log[s] : AppleNotification(w, s, v)
         \/ \E s \in Subs : RegisterInitialPurchase(w, s) \/ RestoreVerifiedSubscription(w, s)
  PROVE  SubsInv'
<1>t. SubsTyped /\ \A t \in Subs : LogSound(t)
  BY DEF SubsInv
<1>0. \A s \in GoogleSubs : s \in Subs
  BY BoundsAre
<1>a. \A s \in AppleSubs : s \in Subs /\ s \notin GoogleSubs
  BY BoundsAre
<1>k. "notification" \in Jobs /\ "register" \in Jobs /\ "restore" \in Jobs
  BY DEF Jobs
<1>l. ASSUME NEW s \in Subs
      PROVE  /\ Len(log[s]) \in 1..MaxLog /\ Len(log[s]) \in Nat /\ MaxLog \in Nat
             /\ DOMAIN log[s] = 1..Len(log[s])
             /\ Current(s) \in Snapshot /\ Now(s) = 2 * Len(log[s]) + 1 /\ Now(s) \in Times
             /\ Current(s) = log[s][Len(log[s])].snap
             /\ \A v \in 1..Len(log[s]) : log[s][v].snap \in Snapshot /\ v \in 1..MaxLog /\ 2 * v \in Times
  <2>1. PICK q \in Seq(Entry) : q = log[s]
    BY <1>t DEF SubsTyped
  <2>2. DOMAIN log[s] = 1..Len(log[s])
    BY <2>1
  <2>3. /\ Len(log[s]) \in 1..MaxLog /\ Len(log[s]) \in Nat /\ MaxLog \in Nat
        /\ Current(s) \in Snapshot /\ Now(s) = 2 * Len(log[s]) + 1 /\ Now(s) \in Times
        /\ Current(s) = log[s][Len(log[s])].snap
        /\ \A v \in 1..Len(log[s]) : log[s][v].snap \in Snapshot
    BY <1>t, CurrentIs, BoundsAre
  <2>4. \A v \in 1..Len(log[s]) : v \in 1..MaxLog /\ 2 * v \in Times
    BY <2>3 DEF Times
  <2> QED
    BY <2>2, <2>3, <2>4
<1>1. ASSUME NEW s \in GoogleSubs, NEW v \in DOMAIN log[s], GoogleNotification(w, s, v) PROVE SubsInv'
  <2>1. s \in Subs /\ v \in 1..Len(log[s]) /\ v \in Nat
    BY <1>0, <1>1, <1>l
  <2>2. PICK c \in JobRecords :
          /\ c = Job("ready", "notification", s, v, 2 * v, Current(s)) /\ c.at = "ready"
          /\ c.job = "notification" /\ c.sub = s /\ c.entry = v /\ c.time = 2 * v /\ c.snap = Current(s)
    <3>1. v \in 1..MaxLog /\ 2 * v \in Times /\ Current(s) \in Snapshot
      BY <1>l, <2>1
    <3> QED
      BY <1>k, <2>1, <3>1, JobIs
  <2>3. JobKnows(c)
    <3>1. v <= Len(log[s]) /\ 2 * v <= Now(s)
      BY <1>l, <2>1
    <3>2. log[s][v].kind = "revoked" => Current(s).state = "revoked"
      BY <1>t, <1>1, <2>1 DEF LogSound
    <3> QED
      BY <2>2, <3>1, <3>2 DEF JobKnows
  <2>4. Starts(w, c, v \in handled[s])
    BY <1>1, <2>2 DEF GoogleNotification
  <2> QED
    BY <2>3, <2>4, StartsInv
<1>2. ASSUME NEW s \in AppleSubs, NEW v \in DOMAIN log[s], AppleNotification(w, s, v) PROVE SubsInv'
  <2>1. s \in Subs /\ v \in 1..Len(log[s]) /\ v \in Nat
    BY <1>a, <1>2, <1>l
  <2>2. PICK c \in JobRecords :
          /\ c = Job("ready", "notification", s, v, 2 * v, log[s][v].snap) /\ c.at = "ready"
          /\ c.job = "notification" /\ c.sub = s /\ c.entry = v /\ c.time = 2 * v /\ c.snap = log[s][v].snap
    <3>1. v \in 1..MaxLog /\ 2 * v \in Times /\ log[s][v].snap \in Snapshot
      BY <1>l, <2>1
    <3> QED
      BY <1>k, <2>1, <3>1, JobIs
  <2>3. JobKnows(c)
    <3>1. v <= Len(log[s]) /\ 2 * v <= Now(s)
      BY <1>l, <2>1
    <3>2. log[s][v].kind = "revoked" => log[s][v].snap.state = "revoked"
      BY <1>t, <2>1 DEF LogSound
    <3>3. Newer(s, 2 * v) \/ log[s][v].snap = Current(s)
      <4>1. CASE v = Len(log[s])
        BY <1>l, <2>1, <4>1
      <4>2. CASE v # Len(log[s])
        <5>1. v + 1 \in 1..Len(log[s]) /\ 2 * (v + 1) > 2 * v
          BY <1>l, <2>1, <4>2
        <5>2. log[s][v + 1].kind # "voided"
          BY <1>t, <1>a, <2>1, <5>1 DEF LogSound
        <5> QED
          BY <5>1, <5>2 DEF Newer
      <4> QED
        BY <4>1, <4>2
    <3> QED
      BY <2>2, <3>1, <3>2, <3>3 DEF JobKnows
  <2>4. Starts(w, c, v \in handled[s])
    BY <1>2, <2>2 DEF AppleNotification
  <2> QED
    BY <2>3, <2>4, StartsInv
<1>f. FirstEntry.snap \in Snapshot /\ 1 \in 1..MaxLog /\ 2 \in Times
  BY BoundsAre DEF FirstEntry, Snapshot, States, Times
<1>3. ASSUME NEW s \in Subs, RegisterInitialPurchase(w, s) PROVE SubsInv'
  <2>1. CASE s \in GoogleSubs
    <3>1. PICK c \in JobRecords :
            /\ c = Job("fetch", "register", s, 1, Now(s), FirstEntry.snap) /\ c.at = "fetch"
            /\ c.job = "register" /\ c.sub = s /\ c.entry = 1 /\ c.time = Now(s)
      BY <1>f, <1>k, <1>l, JobIs
    <3>2. JobKnows(c)
      <4>1. 1 <= Len(log[s]) /\ Now(s) <= Now(s)
        BY <1>l
      <4> QED
        BY <3>1, <4>1 DEF JobKnows
    <3>3. Starts(w, c, TRUE)
      BY <1>3, <2>1, <3>1 DEF RegisterInitialPurchase
    <3> QED
      BY <3>2, <3>3, StartsInv
  <2>2. CASE s \notin GoogleSubs
    <3>1. PICK c \in JobRecords :
            /\ c = Job("ready", "register", s, 1, 2, FirstEntry.snap) /\ c.at = "ready"
            /\ c.job = "register" /\ c.sub = s /\ c.entry = 1 /\ c.time = 2 /\ c.snap = FirstEntry.snap
      BY <1>f, <1>k, JobIs
    <3>2. 1 <= Len(log[s]) /\ 2 <= Now(s)
      BY <1>l
    <3>3. Newer(s, 2) \/ FirstEntry.snap = Current(s)
      <4>1. log[s][1].snap = FirstEntry.snap
        BY <1>t DEF LogSound
      <4>2. CASE Len(log[s]) = 1
        BY <1>l, <4>1, <4>2
      <4>3. CASE Len(log[s]) # 1
        <5>1. 2 \in 1..Len(log[s]) /\ 2 * 2 > 2
          <6>1. PICK n \in Nat : n = Len(log[s])
            BY <1>l
          <6>2. n \in 1..MaxLog /\ MaxLog \in Nat /\ n # 1
            BY <1>l, <4>3, <6>1
          <6>3. n >= 2
            BY <6>2
          <6>4. 2 \in 1..n
            BY <6>3
          <6>5. 2 * 2 > 2
            OBVIOUS
          <6> QED
            BY <6>1, <6>4, <6>5
        <5>2. log[s][2].kind # "voided"
          BY <1>t, <2>2, <5>1 DEF LogSound
        <5> QED
          BY <5>1, <5>2 DEF Newer
      <4> QED
        BY <4>2, <4>3
    <3>4. JobKnows(c)
      BY <3>1, <3>2, <3>3 DEF JobKnows
    <3>5. Starts(w, c, TRUE)
      BY <1>3, <2>2, <3>1 DEF RegisterInitialPurchase
    <3> QED
      BY <3>4, <3>5, StartsInv
  <2> QED
    BY <2>1, <2>2
<1>4. ASSUME NEW s \in Subs, RestoreVerifiedSubscription(w, s) PROVE SubsInv'
  <2>1. PICK c \in JobRecords :
          /\ c = Job("ready", "restore", s, Len(log[s]), Now(s), Current(s)) /\ c.at = "ready"
          /\ c.job = "restore" /\ c.sub = s /\ c.entry = Len(log[s]) /\ c.time = Now(s) /\ c.snap = Current(s)
    BY <1>k, <1>l, JobIs
  <2>2. JobKnows(c)
    <3>1. Len(log[s]) <= Len(log[s]) /\ Now(s) <= Now(s)
      BY <1>l
    <3> QED
      BY <2>1, <3>1 DEF JobKnows
  <2>3. Starts(w, c, TRUE)
    BY <1>4, <2>1 DEF RestoreVerifiedSubscription
  <2> QED
    BY <2>2, <2>3, StartsInv
<1> QED
  BY <1>1, <1>2, <1>3, <1>4

\* An administrator cancels at Google.
LEMMA CancelInv == ASSUME SubsInv, NEW w \in SyncWorkers, NEW s \in Subs, CancelSubscription(w, s) PROVE SubsInv'
<1>t. SubsTyped /\ (\A t \in Subs : LogSound(t)) /\ SyncsSound
  BY DEF SubsInv
<1>1. PICK d \in Snapshot, n \in Nat :
        d = Current(s) /\ n = Len(log[s]) /\ n < MaxLog /\ d.order <= n /\ d.state = "active" /\ s \in GoogleSubs
  <2>1. /\ Len(log[s]) \in 1..MaxLog /\ Len(log[s]) \in Nat /\ Current(s) \in Snapshot
        /\ Current(s) = log[s][Len(log[s])].snap
    BY <1>t, CurrentIs
  <2>2. Len(log[s]) \in 1..Len(log[s])
    BY <2>1
  <2>3. Current(s).order <= Len(log[s])
    BY <1>t, <2>1, <2>2 DEF LogSound
  <2> QED
    BY <2>1, <2>3 DEF CancelSubscription
<1>2. PICK new \in Snapshot : new = [d EXCEPT !.state = "canceled"] /\ new.state = "canceled" /\ new.order = d.order
  <2>1. "canceled" \in States
    BY DEF States
  <2> QED
    BY <2>1, SnapshotOf
<1>3. PICK e \in Entry : e = [kind |-> "changed", order |-> new.order, snap |-> new] /\ e.kind = "changed" /\ e.snap = new
  <2> DEFINE e == [kind |-> "changed", order |-> new.order, snap |-> new]
  <2>1. e \in Entry /\ e.kind = "changed" /\ e.snap = new
    BY DEF Entry, Kinds, Snapshot
  <2> QED
    BY <2>1
<1>4. PICK c \in JobRecords : /\ c = Job("fetch", "cancel", s, n + 1, 1, d) /\ c.at = "fetch" /\ c.job = "cancel"
                              /\ c.sub = s /\ c.entry = n + 1 /\ c.time = 1
  <2>1. n + 1 \in 1..MaxLog /\ 1 \in Times /\ "cancel" \in Jobs
    BY <1>1, BoundsAre DEF Times, Jobs
  <2> QED
    BY <2>1, JobIs
<1>5. /\ log' = [log EXCEPT ![s] = Append(@, e)] /\ sync' = [sync EXCEPT ![w] = c]
      /\ UNCHANGED <<today, row, refunds, renewed, protection, handled, overtaken, stale>>
      /\ extra' \in Happened
  <2>1. /\ log' = [log EXCEPT ![s] = Append(@, e)] /\ sync' = [sync EXCEPT ![w] = c]
        /\ UNCHANGED <<today, row, refunds, renewed, protection, handled, overtaken, stale>>
        /\ extra' = extra + 1
    BY <1>t, <1>1, <1>2, <1>3, <1>4 DEF CancelSubscription, SubsTyped
  <2>2. Happenings + 1 < MaxHappenings
    BY DEF CancelSubscription
  <2>3. extra' \in Happened
    BY <1>t, <2>1, <2>2, OneMoreFits
  <2> QED
    BY <2>1, <2>3
<1>6. EntryFits(s, e)
  <2>1. d.order \in 1..MaxLog /\ MaxLog \in Nat
    BY BoundsAre DEF Snapshot
  <2>2. new.order <= n + 1
    BY <1>1, <1>2, <2>1
  <2> QED
    BY <1>1, <1>2, <1>3, <2>2 DEF EntryFits
<1>7. /\ sync' \in [SyncWorkers -> {Idle} \union JobRecords \union OpenRecords] => SubsTyped'
      /\ \A t \in Subs : LogSound(t)'
      /\ RowsSound'
      /\ \A x \in JobRecords : JobKnows(x) => JobKnows(x)'
      /\ \A x \in OpenRecords : OpenKnows(x) => OpenKnows(x)'
      /\ ~stale' => Covers(protection, row)'
  BY <1>5, <1>6, LogInv
<1>8. JobKnows(c)'
  <2>1. Len(log'[s]) = n + 1
    BY <1>t, <1>1, <1>5, LogGrows
  <2>2. n + 1 <= Len(log'[s]) /\ 1 <= Now(s)'
    BY <2>1 DEF Now
  <2> QED
    BY <1>4, <2>2 DEF JobKnows
<1>9. SyncsSound' /\ sync' \in [SyncWorkers -> {Idle} \union JobRecords \union OpenRecords]
  <2>1. \A u \in SyncWorkers \ {w}, x \in JobRecords : sync[u] = x => JobKnows(x)'
    BY <1>t, <1>7 DEF SyncsSound
  <2>2. \A u \in SyncWorkers \ {w}, x \in OpenRecords : sync[u] = x => OpenKnows(x)'
    BY <1>t, <1>7 DEF SyncsSound
  <2>3. c.at # "open" /\ c \notin OpenRecords
    BY <1>4, OpenFields
  <2> QED
    BY <1>t, <1>5, <1>8, <2>1, <2>2, <2>3, SyncMoves
<1> QED
  BY <1>7, <1>9 DEF SubsInv

\* What a worker has in hand.
LEMMA InHand ==
  ASSUME SubsInv, NEW w \in SyncWorkers, sync[w].at \in {"fetch", "ready"}
  PROVE  \E d \in JobRecords : d = sync[w] /\ JobKnows(d)
<1>1. sync[w] \in {Idle} \union JobRecords \union OpenRecords
  BY DEF SubsInv, SubsTyped
<1>2. sync[w] \in JobRecords
  BY <1>1, IdleIs, OpenFields
<1> QED
  BY <1>2 DEF SubsInv, SyncsSound

\* A worker asks the provider.
LEMMA FetchInv == ASSUME SubsInv, NEW w \in SyncWorkers, Fetch(w) PROVE SubsInv'
<1>1. PICK d \in JobRecords : d = sync[w] /\ JobKnows(d) /\ d.at = "fetch"
  BY InHand DEF Fetch
<1>2. PICK s \in Subs : s = d.sub
  BY JobFields
<1>3. /\ Len(log[s]) \in 1..MaxLog /\ Len(log[s]) \in Nat /\ Current(s) \in Snapshot
  BY CurrentIs DEF SubsInv
<1>4. PICK c \in JobRecords : /\ c = [d EXCEPT !.at = "ready", !.snap = Current(s), !.entry = Len(log[s])]
                              /\ c.at = "ready" /\ c.job = d.job /\ c.sub = s /\ c.entry = Len(log[s])
                              /\ c.time = d.time /\ c.snap = Current(s)
  <2> DEFINE c == [d EXCEPT !.at = "ready", !.snap = Current(s), !.entry = Len(log[s])]
  <2>1. c \in JobRecords /\ c.at = "ready" /\ c.job = d.job /\ c.sub = s /\ c.entry = Len(log[s])
        /\ c.time = d.time /\ c.snap = Current(s)
    BY <1>2, <1>3 DEF JobRecords
  <2> QED
    BY <2>1
<1>5. /\ sync' = [sync EXCEPT ![w] = c]
      /\ UNCHANGED <<today, log, row, refunds, renewed, protection, extra, handled, overtaken, stale>>
  BY <1>1, <1>2, <1>4 DEF Fetch
<1>6. JobKnows(c)
  <2>1. d.job # "notification" /\ d.time <= Now(s) /\ Len(log[s]) <= Len(log[s])
    BY <1>1, <1>2, <1>3 DEF JobKnows
  <2> QED
    BY <1>4, <2>1 DEF JobKnows
<1>7. extra' \in Happened
  BY <1>5 DEF SubsInv, SubsTyped
<1>8. c.at # "open" /\ c \notin OpenRecords
  BY <1>4, OpenFields
<1> QED
  BY <1>5, <1>6, <1>7, <1>8, QuietSyncInv

\* A transaction has locked and written the row.
LEMMA OpensInv ==
  ASSUME SubsInv, NEW w \in SyncWorkers, NEW d \in JobRecords, d = sync[w], NEW s \in Subs, s = d.sub,
         NEW new \in RowsWritten, NEW gone \in SUBSET (1..MaxLog), NEW paid \in Periods \union {<<>>},
         NEW out \in BOOLEAN, Opens(w, new, gone, paid, out),
         ~Locked(s), new.time <= Now(s), d.entry <= Len(log[s]), s \in GoogleSubs => paid \in Periods,
         ~out => /\ HandledBy(s, new.time)
                 /\ Newer(s, new.time) \/ ShowsNow(s, new)
                 /\ d.job = "notification" => 2 * d.entry <= new.time,
         UNCHANGED <<today, log, row, refunds, renewed, protection, extra, handled, overtaken, stale>>
  PROVE  SubsInv'
<1>1. PICK rows : rows = [row EXCEPT ![s] = new]
  OBVIOUS
<1>2. \A t \in Subs : rows[t].until \in 0..MaxDay
  <2>1. ASSUME NEW t \in Subs PROVE rows[t].until \in 0..MaxDay
    <3>1. CASE t = s
      <4>1. rows[t] = new
        BY <1>1, <3>1 DEF SubsInv, SubsTyped
      <4> QED
        BY <4>1 DEF RowsWritten
    <3>2. CASE t # s
      <4>1. PICK r \in RowOf : r = row[t] /\ rows[t] = r
        BY <1>1, <3>2 DEF SubsInv, SubsTyped
      <4> QED
        BY <4>1, RowOfIs
    <3> QED
      BY <3>1, <3>2
  <2> QED
    BY <2>1
<1>3. PICK p \in 0..MaxDay : p = MaxExpiry(rows) /\ Covers(p, rows)
  BY <1>2, MaxExpiryCovers DEF SubsInv, SubsTyped
<1>4. d.job \in Jobs /\ d.entry \in 1..MaxLog
  BY JobFields
<1>5. PICK c \in OpenRecords :
        /\ c.at = "open" /\ c.job = d.job /\ c.sub = s /\ c.entry = d.entry /\ c.row = new
        /\ c.renewed = paid /\ c.max = p /\ c.late = FALSE /\ c.out = out
        /\ sync' = [sync EXCEPT ![w] = c]
  <2> DEFINE c == [at |-> "open", job |-> d.job, sub |-> s, entry |-> d.entry, row |-> new, refunds |-> gone,
                   renewed |-> paid, max |-> p, late |-> FALSE, out |-> out]
  <2>1. /\ c \in OpenRecords /\ c.at = "open" /\ c.job = d.job /\ c.sub = s /\ c.entry = d.entry
        /\ c.row = new /\ c.renewed = paid /\ c.max = p /\ c.late = FALSE /\ c.out = out
    BY <1>4 DEF OpenRecords
  <2>2. sync' = [sync EXCEPT ![w] = c]
    BY <1>1, <1>3 DEF Opens
  <2> HIDE DEF c
  <2> QED
    BY <2>1, <2>2
<1>6. OpenKnows(c)
  <2>1. Covers(p, [row EXCEPT ![s] = new])
    BY <1>1, <1>3
  <2> QED
    BY <1>5, <2>1 DEF OpenKnows
<1>7. \A u \in SyncWorkers \ {w} : ~(sync[u].at = "open" /\ sync[u].sub = s)
  BY DEF Locked
<1>8. c \notin JobRecords /\ extra' \in Happened
  BY <1>5, JobFields DEF SubsInv, SubsTyped
<1> QED
  BY <1>5, <1>6, <1>7, <1>8, QuietSyncInv

\* What a worker's state of the subscription says of the access, is what the
\* provider says.
LEMMA ProjectedIs ==
  ASSUME NEW w \in SyncWorkers, NEW d \in JobRecords, d = sync[w], NEW s \in Subs, s = d.sub, JobKnows(d),
         Kind(w) # "refunded", d.snap.until > today
  PROVE  Projected(w) <=> d.snap.state \in {"active", "canceled"}
<1>1. Kind(w) = "revoked" => d.snap.state = "revoked"
  BY DEF Kind, JobKnows
<1> QED
  BY <1>1 DEF Projected

\* A transaction that writes what the provider said.
LEMMA BeginSyncInv == ASSUME SubsInv, NEW w \in SyncWorkers, BeginSync(w) PROVE SubsInv'
<1>1. PICK d \in JobRecords : d = sync[w] /\ JobKnows(d) /\ d.at = "ready"
  BY InHand DEF BeginSync
<1>2. PICK s \in Subs : s = d.sub /\ d.snap \in Snapshot /\ d.time \in Times
  BY JobFields
<1>3. /\ Len(log[s]) \in Nat /\ Now(s) \in Times /\ Times \subseteq Nat /\ MaxDay \in Nat
  BY CurrentIs, BoundsAre DEF SubsInv, Times
<1>4. PICK T \in Times : T = EventTime(w) /\ T = IF d.job = "cancel" THEN Now(s) ELSE d.time
  BY <1>1, <1>2, <1>3 DEF EventTime
<1>5. T <= Now(s) /\ d.entry <= Len(log[s])
  BY <1>1, <1>2, <1>3, <1>4 DEF JobKnows
<1>6. PICK active \in BOOLEAN : active = Projected(w)
  BY DEF Projected
<1>7. PICK new \in RowsWritten : /\ new = [active |-> Projected(w), until |-> d.snap.until, time |-> T]
                                 /\ new.active = Projected(w) /\ new.until = d.snap.until /\ new.time = T
  <2> DEFINE new == [active |-> active, until |-> d.snap.until, time |-> T]
  <2>1. d.snap.until \in 0..MaxDay
    BY <1>2, <1>3 DEF Snapshot
  <2>2. new \in RowsWritten /\ new.active = active /\ new.until = d.snap.until /\ new.time = T
    BY <2>1 DEF RowsWritten
  <2> QED
    BY <1>6, <2>2
<1>8. PICK out \in BOOLEAN :
        out = IF Kind(w) = "refunded" \/ (sync[w].job = "cancel" /\ d.snap # Current(s)) THEN TRUE
              ELSE s \in overtaken /\ ~ \A v \in handled[s] : 2 * v <= T
  OBVIOUS
<1>9. PICK gone \in SUBSET (1..MaxLog), paid \in Periods \union {<<>>} :
        Opens(w, new, gone, paid, out) /\ (s \in GoogleSubs => paid \in Periods)
  <2>1. CASE s \in GoogleSubs
    <3>1. [renewed[s] EXCEPT ![d.snap.order] = d.snap.until] \in Periods
      BY <1>2, <1>3, <2>1 DEF SubsInv, SubsTyped, Periods, Snapshot
    <3>2. refunds[s] \in SUBSET (1..MaxLog)
      BY <2>1 DEF SubsInv, SubsTyped
    <3>3. Opens(w, new, refunds[s], [renewed[s] EXCEPT ![d.snap.order] = d.snap.until], out)
      BY <1>1, <1>2, <1>4, <1>7, <1>8, <2>1 DEF BeginSync
    <3> QED
      BY <3>1, <3>2, <3>3
  <2>2. CASE s \notin GoogleSubs
    <3>1. Opens(w, new, {}, <<>>, out)
      BY <1>1, <1>2, <1>4, <1>7, <1>8, <2>2 DEF BeginSync
    <3> QED
      BY <2>2, <3>1
  <2> QED
    BY <2>1, <2>2
<1>10. ASSUME ~out
       PROVE  /\ HandledBy(s, T)
              /\ Newer(s, T) \/ ShowsNow(s, new)
              /\ d.job = "notification" => 2 * d.entry <= T
  <2>1. /\ Kind(w) # "refunded" /\ (d.job = "cancel" => d.snap = Current(s))
        /\ s \notin overtaken \/ \A v \in handled[s] : 2 * v <= T
    BY <1>1, <1>8, <1>10
  <2>2. HandledBy(s, T)
    <3>1. CASE \A v \in handled[s] : 2 * v <= T
      BY <3>1 DEF HandledBy
    <3>2. CASE s \notin overtaken
      <4>1. PICK r \in RowOf : r = row[s]
        BY DEF SubsInv, SubsTyped
      <4>2. HandledBy(s, r.time) /\ handled[s] \subseteq 1..Len(log[s])
        BY <3>2, <4>1 DEF SubsInv, RowsSound, RowSound
      <4>3. r.time <= T
        <5>1. ~(r.time > T) /\ r.time \in Nat
          BY <1>1, <1>2, <1>4, <4>1, RowOfIs DEF BeginSync, Older
        <5> QED
          BY <1>3, <5>1
      <4>4. r.time \in Nat /\ T \in Nat
        BY <1>3, RowOfIs
      <4>5. ASSUME NEW v \in handled[s] PROVE log[s][v].kind = "voided" \/ 2 * v <= T
        <5>1. v \in Nat
          BY <1>3, <4>2
        <5>2. log[s][v].kind = "voided" \/ 2 * v <= r.time
          BY <4>2 DEF HandledBy
        <5> QED
          BY <4>3, <4>4, <5>1, <5>2
      <4> QED
        BY <4>5 DEF HandledBy
    <3> QED
      BY <2>1, <3>1, <3>2
  <2>3. Newer(s, T) \/ d.snap = Current(s)
    <3>1. CASE d.job = "cancel"
      BY <2>1, <3>1
    <3>2. CASE d.job # "cancel"
      BY <1>1, <1>2, <1>4, <3>2 DEF JobKnows
    <3> QED
      BY <3>1, <3>2
  <2>4. d.snap = Current(s) => ShowsNow(s, new)
    <3>1. d.snap.until > today => (Projected(w) <=> d.snap.state \in {"active", "canceled"})
      BY <1>1, <1>2, <2>1, ProjectedIs
    <3> QED
      BY <1>7, <3>1 DEF ShowsNow
  <2>5. d.job = "notification" => 2 * d.entry <= T
    <3>1. d.job = "notification" => T = 2 * d.entry
      BY <1>1, <1>4 DEF JobKnows
    <3> QED
      BY <1>3, <3>1
  <2> QED
    BY <2>2, <2>3, <2>4, <2>5
<1>11. /\ UNCHANGED <<today, log, row, refunds, renewed, protection, extra, handled, overtaken, stale>>
       /\ ~Locked(s)
  BY <1>1, <1>2 DEF BeginSync
<1>12. new.time <= Now(s) /\ (~out => /\ HandledBy(s, new.time)
                                      /\ Newer(s, new.time) \/ ShowsNow(s, new)
                                      /\ d.job = "notification" => 2 * d.entry <= new.time)
  BY <1>5, <1>7, <1>10
<1> QED
  BY <1>1, <1>2, <1>5, <1>9, <1>11, <1>12, OpensInv

\* A transaction that writes what a void leaves.
LEMMA BeginVoidInv == ASSUME SubsInv, NEW w \in SyncWorkers, BeginVoid(w) PROVE SubsInv'
<1>1. PICK d \in JobRecords : d = sync[w] /\ JobKnows(d) /\ d.at = "ready"
  BY InHand DEF BeginVoid
<1>2. PICK s \in Subs : s = d.sub /\ d.time \in Times /\ d.entry \in 1..MaxLog /\ d.entry \in Nat
  BY JobFields
<1>3. /\ Len(log[s]) \in Nat /\ Len(log[s]) \in 1..MaxLog /\ Now(s) \in Times /\ Times \subseteq Nat
      /\ MaxDay \in Nat /\ MaxLog \in Nat
  BY CurrentIs, BoundsAre DEF SubsInv, Times
<1>4. d.time <= Now(s) /\ d.entry <= Len(log[s])
  BY <1>1, <1>2 DEF JobKnows
<1>5. s \in GoogleSubs /\ log[s][d.entry] \in Entry
  <2>1. log[s][d.entry].kind = "voided"
    BY <1>1, <1>2 DEF BeginVoid, IsVoid, Kind
  <2>2. d.entry \in 1..Len(log[s])
    BY <1>2, <1>3, <1>4
  <2>3. s \in GoogleSubs
    BY <2>1, <2>2 DEF SubsInv, LogSound
  <2>4. log[s][d.entry] \in Entry
    BY <2>2, CurrentIs DEF SubsInv
  <2> QED
    BY <2>3, <2>4
<1>6. PICK table \in Periods, old \in SUBSET (1..MaxLog), k \in 1..MaxLog :
        table = renewed[s] /\ old = refunds[s] /\ k = log[s][d.entry].order
  BY <1>5 DEF SubsInv, SubsTyped, Entry
<1>7. PICK gone \in SUBSET (1..MaxLog) : gone = IF table[k] > 0 THEN old \union {k} ELSE old
  OBVIOUS
<1>8. PICK paid : paid = {o \in 1..MaxLog \ gone : table[o] > today}
  OBVIOUS
<1>9. PICK new \in RowsWritten :
        /\ new = IF k = 1 \/ paid = {}
                   THEN [active |-> FALSE, until |-> today, time |-> d.time]
                   ELSE [active |-> TRUE, until |-> Max({table[o] : o \in paid}), time |-> d.time]
        /\ new.time = d.time
  <2>1. today \in 0..MaxDay
    BY DEF SubsInv, SubsTyped
  <2>2. CASE k = 1 \/ paid = {}
    <3> DEFINE new == [active |-> FALSE, until |-> today, time |-> d.time]
    <3>1. new \in RowsWritten /\ new.time = d.time
      BY <1>2, <2>1 DEF RowsWritten
    <3> QED
      BY <2>2, <3>1
  <2>3. CASE ~(k = 1 \/ paid = {})
    <3>1. {table[o] : o \in paid} \in SUBSET (0..MaxDay) /\ {table[o] : o \in paid} # {}
      BY <1>8, <2>3 DEF Periods
    <3>2. PICK until \in 0..MaxDay : until = Max({table[o] : o \in paid})
      BY <3>1, LastDayIs
    <3> DEFINE new == [active |-> TRUE, until |-> until, time |-> d.time]
    <3>3. new \in RowsWritten /\ new.time = d.time
      BY <1>2 DEF RowsWritten
    <3> QED
      BY <2>3, <3>2, <3>3
  <2> QED
    BY <2>2, <2>3
<1>10. Opens(w, new, gone, table, TRUE)
  BY <1>1, <1>2, <1>6, <1>7, <1>8, <1>9, ZenonT(60) DEF BeginVoid
<1>11. /\ UNCHANGED <<today, log, row, refunds, renewed, protection, extra, handled, overtaken, stale>>
       /\ ~Locked(s) /\ TRUE \in BOOLEAN /\ table \in Periods \union {<<>>} /\ new.time <= Now(s)
  BY <1>1, <1>2, <1>4, <1>9 DEF BeginVoid
<1> QED
  BY <1>1, <1>2, <1>4, <1>6, <1>10, <1>11, OpensInv

\* A notification that changes nothing is handled.
LEMMA HandledInv ==
  ASSUME SubsInv, NEW w \in SyncWorkers, NEW d \in JobRecords, d = sync[w], JobKnows(d), NEW s \in Subs, s = d.sub,
         ~Locked(s), sync' = [sync EXCEPT ![w] = Idle],
         \/ handled' = handled
         \/ /\ handled' = [handled EXCEPT ![s] = @ \union {d.entry}]
            /\ log[s][d.entry].kind = "voided" \/ 2 * d.entry <= row[s].time,
         UNCHANGED <<today, log, row, refunds, renewed, protection, extra, overtaken, stale>>
  PROVE  SubsInv'
<1>t. SubsTyped /\ (\A t \in Subs : LogSound(t)) /\ RowsSound /\ SyncsSound /\ (~stale => Covers(protection, row))
  BY DEF SubsInv
<1>1. d.entry \in 1..MaxLog /\ d.entry \in 1..Len(log[s])
  <2>1. d.entry \in 1..MaxLog /\ d.entry \in Nat /\ d.entry <= Len(log[s]) /\ Len(log[s]) \in Nat
    BY <1>t, JobFields, CurrentIs DEF JobKnows
  <2> QED
    BY <2>1
<1>2. /\ handled' \in [Subs -> SUBSET (1..MaxLog)]
      /\ \A t \in Subs \ {s} : handled'[t] = handled[t]
      /\ \/ handled'[s] = handled[s]
         \/ /\ handled'[s] = handled[s] \union {d.entry}
            /\ log[s][d.entry].kind = "voided" \/ 2 * d.entry <= row[s].time
  <2>1. handled \in [Subs -> SUBSET (1..MaxLog)]
    BY <1>t DEF SubsTyped
  <2>2. handled[s] \union {d.entry} \in SUBSET (1..MaxLog)
    BY <1>1, <2>1
  <2>3. CASE handled' = handled
    BY <2>1, <2>3
  <2>4. CASE /\ handled' = [handled EXCEPT ![s] = @ \union {d.entry}]
             /\ log[s][d.entry].kind = "voided" \/ 2 * d.entry <= row[s].time
    BY <2>1, <2>2, <2>4
  <2> QED
    BY <2>3, <2>4
<1>3. \A t \in Subs : LogSound(t)'
  BY <1>t DEF LogSound, Current, Last
<1>4. /\ \A t \in Subs, T \in Nat : Newer(t, T)' <=> Newer(t, T)
      /\ \A t \in Subs : Current(t)' = Current(t) /\ Now(t)' = Now(t)
  BY DEF Newer, Current, Last, Now
<1>5. RowsSound'
  <2>1. ASSUME NEW t \in Subs, NEW r \in RowOf, row[t] = r PROVE RowSound(t, r)'
    <3>1. RowSound(t, r) /\ r.time \in Nat
      BY <1>t, <2>1, RowOfIs DEF RowsSound
    <3>2. (Newer(t, r.time) \/ ShowsNow(t, r)) => (Newer(t, r.time)' \/ ShowsNow(t, r)')
      BY <1>4, <3>1 DEF ShowsNow
    <3>3. handled'[t] \subseteq 1..Len(log[t])
      BY <1>1, <1>2, <3>1 DEF RowSound
    <3>4. HandledBy(t, r.time) => HandledBy(t, r.time)'
      <4>1. CASE handled'[t] = handled[t]
        BY <4>1 DEF HandledBy
      <4>2. CASE handled'[t] # handled[t]
        <5>1. t = s
          BY <1>2, <4>2
        <5>2. handled'[t] = handled[t] \union {d.entry}
          BY <1>2, <4>2, <5>1
        <5>3. log[t][d.entry].kind = "voided" \/ 2 * d.entry <= r.time
          BY <1>2, <2>1, <4>2, <5>1
        <5> QED
          BY <5>2, <5>3 DEF HandledBy
      <4> QED
        BY <4>1, <4>2
    <3> QED
      BY <1>4, <3>1, <3>2, <3>3, <3>4 DEF RowSound
  <2> QED
    BY <2>1 DEF RowsSound
<1>6. ASSUME NEW x \in JobRecords, JobKnows(x) PROVE JobKnows(x)'
  BY <1>6 DEF JobKnows, Newer, Current, Last, Now
<1>7. ASSUME NEW u \in SyncWorkers \ {w}, NEW x \in OpenRecords, sync[u] = x PROVE OpenKnows(x)'
  <2>1. OpenKnows(x) /\ x.at = "open"
    BY <1>t, <1>7, OpenFields DEF SyncsSound
  <2>2. x.sub \in Subs /\ x.sub # s
    BY <1>7, <2>1, OpenFields DEF Locked
  <2>3. handled'[x.sub] = handled[x.sub]
    BY <1>2, <2>2
  <2> QED
    BY <2>1, <2>3 DEF OpenKnows, HandledBy, Newer, ShowsNow, Covers, Current, Last, Now
<1>8. SyncsSound' /\ sync' \in [SyncWorkers -> {Idle} \union JobRecords \union OpenRecords]
  <2>1. \A u \in SyncWorkers \ {w}, x \in JobRecords : sync[u] = x => JobKnows(x)'
    BY <1>t, <1>6 DEF SyncsSound
  <2>2. \A u \in SyncWorkers \ {w}, x \in OpenRecords : sync[u] = x => OpenKnows(x)'
    BY <1>7
  <2>3. Idle.at # "open" /\ Idle \notin JobRecords /\ Idle \notin OpenRecords
    BY IdleIs
  <2> QED
    BY <1>t, <2>1, <2>2, <2>3, SyncMoves
<1>9. SubsTyped'
  BY <1>t, <1>2, <1>8 DEF SubsTyped
<1>10. ~stale' => Covers(protection, row)'
  BY <1>t DEF Covers
<1> QED
  BY <1>3, <1>5, <1>8, <1>9, <1>10 DEF SubsInv

\* A notification that is too old, or of no row.
LEMMA IgnoredInv == ASSUME SubsInv, NEW w \in SyncWorkers, IgnoreOlder(w) \/ VoidUnmatched(w) PROVE SubsInv'
<1>1. PICK d \in JobRecords : d = sync[w] /\ JobKnows(d) /\ d.at = "ready"
  BY InHand DEF IgnoreOlder, VoidUnmatched
<1>2. PICK s \in Subs : s = d.sub /\ d.time \in Nat
  BY JobFields
<1>3. CASE IgnoreOlder(w)
  <2>1. /\ ~Locked(s) /\ sync' = [sync EXCEPT ![w] = Idle]
        /\ UNCHANGED <<today, log, row, refunds, renewed, protection, extra, overtaken, stale>>
        /\ handled' = IF d.job = "notification" THEN [handled EXCEPT ![s] = @ \union {d.entry}] ELSE handled
        /\ row[s].time > EventTime(w)
    BY <1>1, <1>2, <1>3 DEF IgnoreOlder, Older
  <2>2. CASE d.job = "notification"
    <3>1. EventTime(w) = 2 * d.entry
      BY <1>1, <2>2 DEF EventTime, JobKnows
    <3>2. PICK r \in RowOf : r = row[s] /\ r.time \in Nat
      BY RowOfIs DEF SubsInv, SubsTyped
    <3>3. 2 * d.entry <= row[s].time
      BY <1>1, <1>2, <2>1, <2>2, <3>1, <3>2 DEF JobKnows
    <3> QED
      BY <1>1, <1>2, <2>1, <2>2, <3>3, HandledInv
  <2>3. CASE d.job # "notification"
    BY <1>1, <1>2, <2>1, <2>3, HandledInv
  <2> QED
    BY <2>2, <2>3
<1>4. CASE VoidUnmatched(w)
  <2>1. /\ ~Locked(s) /\ sync' = [sync EXCEPT ![w] = Idle]
        /\ UNCHANGED <<today, log, row, refunds, renewed, protection, extra, overtaken, stale>>
        /\ handled' = [handled EXCEPT ![s] = @ \union {d.entry}]
        /\ log[s][d.entry].kind = "voided"
    BY <1>1, <1>2, <1>4 DEF VoidUnmatched, IsVoid, Kind
  <2> QED
    BY <1>1, <1>2, <2>1, HandledInv
<1> QED
  BY <1>3, <1>4

\* A transaction commits.
LEMMA CommitInv == ASSUME SubsInv, NEW w \in SyncWorkers, Commit(w) PROVE SubsInv'
<1>t. SubsTyped /\ (\A t \in Subs : LogSound(t)) /\ RowsSound /\ SyncsSound
  BY DEF SubsInv
<1>1. PICK d \in OpenRecords : d = sync[w] /\ d.at = "open"
  <2>1. sync[w] \in {Idle} \union JobRecords \union OpenRecords /\ sync[w].at = "open"
    BY <1>t DEF Commit, SubsTyped
  <2> QED
    BY <2>1, IdleIs, JobFields
<1>2. PICK s \in Subs, r \in RowsWritten :
        /\ s = d.sub /\ r = d.row /\ r \in RowOf /\ r.time \in Nat
        /\ d.max \in 0..MaxDay /\ d.entry \in 1..MaxLog /\ d.entry \in Nat
        /\ d.refunds \in SUBSET (1..MaxLog) /\ d.late \in BOOLEAN
  BY OpenFields
<1>3. OpenKnows(d)
  BY <1>t, <1>1 DEF SyncsSound
<1>4. /\ row' = [row EXCEPT ![s] = r]
      /\ refunds' = IF s \in GoogleSubs THEN [refunds EXCEPT ![s] = d.refunds] ELSE refunds
      /\ renewed' = IF s \in GoogleSubs THEN [renewed EXCEPT ![s] = d.renewed] ELSE renewed
      /\ protection' = d.max
      /\ handled' = IF d.job = "notification" THEN [handled EXCEPT ![s] = @ \union {d.entry}] ELSE handled
      /\ overtaken' = IF d.out THEN overtaken \union {s} ELSE overtaken \ {s}
      /\ stale' = d.late
      /\ sync' = [u \in SyncWorkers |->
                    IF u = w THEN Idle
                    ELSE IF sync[u].at = "open" THEN [sync[u] EXCEPT !.late = TRUE] ELSE sync[u]]
      /\ UNCHANGED <<today, log, extra>>
  BY <1>1, <1>2 DEF Commit, NewProtection
<1>5. d.entry \in 1..Len(log[s]) /\ r.time <= Now(s)
  <2>1. d.entry <= Len(log[s]) /\ Len(log[s]) \in Nat /\ r.time <= Now(s)
    BY <1>t, <1>2, <1>3, CurrentIs DEF OpenKnows
  <2> QED
    BY <1>2, <2>1
<1>6. /\ row' \in [Subs -> RowOf] /\ row'[s] = r /\ \A t \in Subs \ {s} : row'[t] = row[t]
  BY <1>t, <1>2, <1>4 DEF SubsTyped
<1>7. /\ handled' \in [Subs -> SUBSET (1..MaxLog)]
      /\ \A t \in Subs \ {s} : handled'[t] = handled[t]
      /\ handled'[s] = handled[s] \/ (d.job = "notification" /\ handled'[s] = handled[s] \union {d.entry})
  BY <1>t, <1>2, <1>4 DEF SubsTyped
<1>8. /\ \A t \in Subs, T \in Nat : Newer(t, T)' <=> Newer(t, T)
      /\ \A t \in Subs : Current(t)' = Current(t) /\ Now(t)' = Now(t)
  BY <1>4 DEF Newer, Current, Last, Now
<1>9. ASSUME NEW u \in SyncWorkers, u # w, sync[u].at = "open"
      PROVE  \E x, y \in OpenRecords :
               /\ x = sync[u] /\ y = sync'[u] /\ y.late = TRUE /\ y.sub = x.sub /\ y.entry = x.entry /\ y.row = x.row
               /\ y.renewed = x.renewed /\ y.out = x.out /\ y.job = x.job /\ x.sub # s
  <2>1. PICK x \in OpenRecords : x = sync[u]
    BY <1>t, <1>9, IdleIs, JobFields DEF SubsTyped
  <2>2. x.sub # s
    BY <1>t, <1>1, <1>2, <1>9, <2>1 DEF SyncsSound
  <2> DEFINE y == [x EXCEPT !.late = TRUE]
  <2>3. /\ y \in OpenRecords /\ y.late = TRUE /\ y.sub = x.sub /\ y.entry = x.entry /\ y.row = x.row
        /\ y.renewed = x.renewed /\ y.out = x.out /\ y.job = x.job
    BY DEF OpenRecords
  <2>4. y = sync'[u]
    BY <1>4, <1>9, <2>1
  <2> HIDE DEF y
  <2> QED
    BY <2>1, <2>2, <2>3, <2>4
<1>10. \A u \in SyncWorkers : u # w /\ sync[u].at # "open" => sync'[u] = sync[u]
  BY <1>4
<1>11. sync'[w] = Idle
  BY <1>4
<1>12. sync' \in [SyncWorkers -> {Idle} \union JobRecords \union OpenRecords]
  <2>1. ASSUME NEW u \in SyncWorkers PROVE sync'[u] \in {Idle} \union JobRecords \union OpenRecords
    <3>1. CASE u = w
      BY <1>11, <3>1
    <3>2. CASE u # w /\ sync[u].at = "open"
      BY <1>9, <3>2
    <3>3. CASE u # w /\ sync[u].at # "open"
      BY <1>t, <1>10, <3>3 DEF SubsTyped
    <3> QED
      BY <3>1, <3>2, <3>3
  <2>2. DOMAIN sync' = SyncWorkers /\ sync' = [u \in SyncWorkers |-> sync'[u]]
    BY <1>4
  <2> QED
    BY <2>1, <2>2
<1>13. SubsTyped'
  <2>1. refunds' \in [GoogleSubs -> SUBSET (1..MaxLog)]
    BY <1>t, <1>2, <1>4 DEF SubsTyped
  <2>2. renewed' \in [GoogleSubs -> Periods]
    <3>1. s \in GoogleSubs => d.renewed \in Periods
      BY <1>2, <1>3 DEF OpenKnows
    <3> QED
      BY <1>t, <1>4, <3>1 DEF SubsTyped
  <2>3. overtaken' \subseteq Subs /\ stale' \in BOOLEAN /\ protection' \in 0..MaxDay
    BY <1>t, <1>2, <1>4 DEF SubsTyped
  <2> QED
    BY <1>t, <1>4, <1>6, <1>7, <1>12, <2>1, <2>2, <2>3 DEF SubsTyped
<1>14. \A t \in Subs : LogSound(t)'
  BY <1>t, <1>4 DEF LogSound, Current, Last
<1>15. RowsSound'
  <2>1. ASSUME NEW t \in Subs, NEW x \in RowOf, row'[t] = x PROVE RowSound(t, x)'
    <3>x. x.time \in Nat
      BY RowOfIs
    <3>1. CASE t # s
      <4>1. row[t] = x /\ handled'[t] = handled[t] /\ (t \in overtaken' <=> t \in overtaken)
        BY <1>4, <1>6, <1>7, <2>1, <3>1
      <4>2. RowSound(t, x)
        BY <1>t, <4>1 DEF RowsSound
      <4>3. (Newer(t, x.time) \/ ShowsNow(t, x)) => (Newer(t, x.time)' \/ ShowsNow(t, x)')
        BY <1>4, <1>8, <3>x DEF ShowsNow
      <4>4. HandledBy(t, x.time) => HandledBy(t, x.time)'
        BY <1>4, <4>1 DEF HandledBy
      <4> QED
        BY <1>4, <1>8, <4>1, <4>2, <4>3, <4>4 DEF RowSound
    <3>2. CASE t = s
      <4>1. x = r
        BY <1>6, <2>1, <3>2
      <4>2. handled[s] \subseteq 1..Len(log[s])
        <5>1. PICK o \in RowOf : o = row[s]
          BY <1>t DEF SubsTyped
        <5> QED
          BY <1>t, <5>1 DEF RowsSound, RowSound
      <4>3. handled'[s] \subseteq 1..Len(log'[s])
        BY <1>4, <1>5, <1>7, <4>2
      <4>4. ASSUME s \notin overtaken'
            PROVE  HandledBy(s, r.time)' /\ (Newer(s, r.time)' \/ ShowsNow(s, r)')
        <5>1. ~d.out
          BY <1>4, <4>4
        <5>2. /\ HandledBy(s, r.time) /\ (Newer(s, r.time) \/ ShowsNow(s, r))
              /\ d.job = "notification" => 2 * d.entry <= r.time
          BY <1>2, <1>3, <5>1 DEF OpenKnows
        <5>3. HandledBy(s, r.time)'
          BY <1>4, <1>7, <5>2 DEF HandledBy
        <5>4. Newer(s, r.time)' \/ ShowsNow(s, r)'
          BY <1>2, <1>4, <1>8, <5>2 DEF ShowsNow
        <5> QED
          BY <5>3, <5>4
      <4>5. RowSound(s, r)'
        BY <1>5, <1>8, <4>3, <4>4 DEF RowSound
      <4> QED
        BY <3>2, <4>1, <4>5
    <3> QED
      BY <3>1, <3>2
  <2> QED
    BY <2>1 DEF RowsSound
<1>16. SyncsSound'
  <2>1. ASSUME NEW u \in SyncWorkers, NEW x \in JobRecords, sync'[u] = x PROVE JobKnows(x)'
    <3>1. u # w /\ sync[u].at # "open"
      <4>1. u # w
        BY <1>11, <2>1, IdleIs
      <4>2. x \notin OpenRecords
        BY JobFields, OpenFields
      <4> QED
        BY <1>9, <2>1, <4>1, <4>2
    <3>2. JobKnows(x)
      BY <1>t, <1>10, <2>1, <3>1 DEF SyncsSound
    <3> QED
      BY <1>4, <3>2 DEF JobKnows, Newer, Current, Last, Now
  <2>2. ASSUME NEW u \in SyncWorkers, NEW y \in OpenRecords, sync'[u] = y PROVE OpenKnows(y)'
    <3>1. u # w /\ sync[u].at = "open"
      <4>1. u # w
        BY <1>11, <2>2, IdleIs
      <4>2. y.at = "open"
        BY OpenFields
      <4> QED
        BY <1>10, <2>2, <4>1, <4>2
    <3>2. PICK x \in OpenRecords :
            /\ x = sync[u] /\ y.late = TRUE /\ y.sub = x.sub /\ y.entry = x.entry /\ y.row = x.row
            /\ y.renewed = x.renewed /\ y.out = x.out /\ y.job = x.job /\ x.sub # s
      <4>1. PICK x, z \in OpenRecords :
              /\ x = sync[u] /\ z = sync'[u] /\ z.late = TRUE /\ z.sub = x.sub /\ z.entry = x.entry /\ z.row = x.row
              /\ z.renewed = x.renewed /\ z.out = x.out /\ z.job = x.job /\ x.sub # s
        BY <1>9, <3>1
      <4>2. z = y
        BY <2>2, <4>1
      <4> QED
        BY <4>1, <4>2
    <3>3. OpenKnows(x)
      BY <1>t, <3>2 DEF SyncsSound
    <3>4. x.sub \in Subs /\ handled'[x.sub] = handled[x.sub]
      BY <1>7, <3>2, OpenFields
    <3> QED
      BY <1>4, <3>2, <3>3, <3>4 DEF OpenKnows, HandledBy, Newer, ShowsNow, Current, Last, Now
  <2>3. ASSUME NEW u \in SyncWorkers, NEW v \in SyncWorkers,
               sync'[u].at = "open", sync'[v].at = "open", sync'[u].sub = sync'[v].sub
        PROVE  u = v
    <3>1. u # w /\ v # w
      BY <1>11, <2>3, IdleIs
    <3>2. sync[u].at = "open" /\ sync[v].at = "open"
      BY <1>10, <2>3, <3>1
    <3>3. sync[u].sub = sync'[u].sub /\ sync[v].sub = sync'[v].sub
      BY <1>9, <3>1, <3>2
    <3> QED
      BY <1>t, <2>3, <3>2, <3>3 DEF SyncsSound
  <2> QED
    BY <2>1, <2>2, <2>3 DEF SyncsSound
<1>17. ~stale' => Covers(protection, row)'
  <2>1. ~d.late => Covers(d.max, [row EXCEPT ![s] = r])
    BY <1>2, <1>3 DEF OpenKnows
  <2> QED
    BY <1>4, <2>1 DEF Covers
<1> QED
  BY <1>13, <1>14, <1>15, <1>16, <1>17 DEF SubsInv

\* At first nothing is known of the subscriptions.
LEMMA SubsInitInv == ASSUME SubscriptionsInit PROVE SubsInv
<1>1. /\ FirstEntry.snap \in Snapshot /\ FirstEntry.snap.order = 1 /\ FirstEntry.kind = "purchased"
      /\ FirstEntry \in Entry
  <2>1. 1 \in 1..MaxLog /\ 1 \in 1..MaxDay
    BY BoundsAre
  <2> QED
    BY <2>1 DEF FirstEntry, Entry, Snapshot, States, Kinds
<1>2. NoRow \in RowOf /\ NoRow.time = 0 /\ NoRow.active = FALSE
  BY DEF NoRow, RowOf
<1>3. <<FirstEntry>> \in Seq(Entry) /\ Len(<<FirstEntry>>) = 1 /\ <<FirstEntry>>[1] = FirstEntry
  BY <1>1
<1>4. \A s \in Subs : Len(log[s]) = 1 /\ log[s][1] = FirstEntry /\ row[s] = NoRow /\ handled[s] = {}
  BY <1>3 DEF SubscriptionsInit
<1>5. SubsTyped
  <2>1. [k \in 1..MaxLog |-> 0] \in Periods
    BY BoundsAre DEF Periods
  <2>2. today \in 0..MaxDay /\ protection \in 0..MaxDay /\ extra \in Happened /\ stale \in BOOLEAN /\ overtaken \subseteq Subs
    <3>1. MaxDay \in Nat /\ 0 \in 0..MaxDay
      BY BoundsAre
    <3>2. today = 0 /\ protection = 0 /\ extra = 0 /\ stale = FALSE /\ overtaken = {}
      BY DEF SubscriptionsInit
    <3>3. extra \in Happened
      BY <3>2, SubscriptionsAssumption DEF Happened
    <3> QED
      BY <3>1, <3>2, <3>3
  <2>3. log \in [Subs -> Seq(Entry)]
    BY <1>3 DEF SubscriptionsInit
  <2>4. row \in [Subs -> RowOf] /\ handled \in [Subs -> SUBSET (1..MaxLog)]
    BY <1>2 DEF SubscriptionsInit
  <2>5. refunds \in [GoogleSubs -> SUBSET (1..MaxLog)] /\ renewed \in [GoogleSubs -> Periods]
    BY <2>1 DEF SubscriptionsInit
  <2>6. sync \in [SyncWorkers -> {Idle} \union JobRecords \union OpenRecords]
    BY DEF SubscriptionsInit
  <2> QED
    BY <2>2, <2>3, <2>4, <2>5, <2>6 DEF SubsTyped
<1>6. ASSUME NEW s \in Subs PROVE LogSound(s)
  <2>1. Len(log[s]) = 1 /\ log[s][1] = FirstEntry
    BY <1>4
  <2>2. Len(log[s]) \in 1..MaxLog
    BY <2>1, BoundsAre
  <2>3. \A v \in 1..Len(log[s]) : v = 1
    BY <2>1
  <2> QED
    BY <1>1, <2>1, <2>2, <2>3 DEF LogSound
<1>7. RowsSound
  <2>1. ASSUME NEW s \in Subs, NEW r \in RowOf, row[s] = r PROVE RowSound(s, r)
    <3>1. r = NoRow /\ r.time = 0 /\ handled[s] = {} /\ Len(log[s]) = 1
      BY <1>2, <1>4, <2>1
    <3> QED
      BY <3>1 DEF RowSound, HandledBy, Now
  <2> QED
    BY <2>1 DEF RowsSound
<1>8. SyncsSound
  <2>1. \A w \in SyncWorkers : sync[w] = Idle
    BY DEF SubscriptionsInit
  <2> QED
    BY <2>1, IdleIs DEF SyncsSound
<1>9. Covers(protection, row)
  <2>1. protection = 0 /\ today = 0
    BY DEF SubscriptionsInit
  <2> QED
    BY <1>2, <1>4, <2>1 DEF Covers
<1> QED
  BY <1>5, <1>6, <1>7, <1>8, <1>9 DEF SubsInv

\* Nothing happens.
LEMMA SubsStutters == ASSUME SubsInv, UNCHANGED subscriptionVars PROVE SubsInv'
<1>1. /\ today' = today /\ log' = log /\ row' = row /\ refunds' = refunds /\ renewed' = renewed
      /\ protection' = protection /\ sync' = sync /\ extra' = extra /\ handled' = handled
      /\ overtaken' = overtaken /\ stale' = stale
  BY DEF subscriptionVars
<1>2. SubsTyped' <=> SubsTyped
  BY <1>1 DEF SubsTyped
<1>3. \A s \in Subs : LogSound(s)' <=> LogSound(s)
  BY <1>1 DEF LogSound, Current, Last
<1>4. RowsSound' <=> RowsSound
  BY <1>1 DEF RowsSound, RowSound, HandledBy, Newer, ShowsNow, Current, Last, Now
<1>5. Covers(protection, row)' <=> Covers(protection, row)
  BY <1>1 DEF Covers
<1>6. \A c \in JobRecords : JobKnows(c)' <=> JobKnows(c)
  BY <1>1 DEF JobKnows, Newer, Current, Last, Now
<1>7. \A c \in OpenRecords : OpenKnows(c)' <=> OpenKnows(c)
  BY <1>1 DEF OpenKnows, HandledBy, Newer, ShowsNow, Covers, Current, Last, Now
<1>8. SyncsSound => SyncsSound'
  BY <1>1, <1>6, <1>7 DEF SyncsSound
<1> QED
  BY <1>1, <1>2, <1>3, <1>4, <1>5, <1>8 DEF SubsInv

\* Every step preserves the invariant.
LEMMA SubsStepInv == SubsInv /\ [SubscriptionsNext]_subscriptionVars => SubsInv'
<1> SUFFICES ASSUME SubsInv, [SubscriptionsNext]_subscriptionVars PROVE SubsInv'
  OBVIOUS
<1>1. CASE UNCHANGED subscriptionVars
  BY <1>1, SubsStutters
<1>2. CASE DayPasses
  BY <1>2, DayPassesInv
<1>3. CASE \E s \in Subs :
             \/ Renews(s) \/ Revokes(s) \/ Voids(s) \/ RefundsEarlier(s) \/ RefundReversed(s)
             \/ \E state \in {"canceled", "hold", "expired"} : Changes(s, state)
  BY <1>3, ProviderInv
<1>4. ASSUME NEW w \in SyncWorkers,
             \/ \E s \in GoogleSubs : \E v \in DOMAIN log[s] : GoogleNotification(w, s, v)
             \/ \E s \in AppleSubs : \E v \in DOMAIN log[s] : AppleNotification(w, s, v)
             \/ \E s \in Subs :
                  RegisterInitialPurchase(w, s) \/ RestoreVerifiedSubscription(w, s)
                    \/ CancelSubscription(w, s)
             \/ Fetch(w) \/ BeginSync(w) \/ IgnoreOlder(w)
             \/ BeginVoid(w) \/ VoidUnmatched(w) \/ Commit(w)
      PROVE  SubsInv'
  <2>1. CASE \/ \E s \in GoogleSubs : \E v \in DOMAIN log[s] : GoogleNotification(w, s, v)
             \/ \E s \in AppleSubs : \E v \in DOMAIN log[s] : AppleNotification(w, s, v)
             \/ \E s \in Subs : RegisterInitialPurchase(w, s) \/ RestoreVerifiedSubscription(w, s)
    BY <2>1, BeginsInv
  <2>2. CASE \E s \in Subs : CancelSubscription(w, s)
    BY <2>2, CancelInv
  <2>3. CASE Fetch(w)
    BY <2>3, FetchInv
  <2>4. CASE BeginSync(w)
    BY <2>4, BeginSyncInv
  <2>5. CASE IgnoreOlder(w) \/ VoidUnmatched(w)
    BY <2>5, IgnoredInv
  <2>6. CASE BeginVoid(w)
    BY <2>6, BeginVoidInv
  <2>7. CASE Commit(w)
    BY <2>7, CommitInv
  <2> QED
    BY <1>4, <2>1, <2>2, <2>3, <2>4, <2>5, <2>6, <2>7
<1> QED
  BY <1>1, <1>2, <1>3, <1>4 DEF SubscriptionsNext

\* What the invariant says of a settled subscription and of the wallet.
LEMMA SubsInvSays == SubsInv => SubscriptionsConsistent
<1> SUFFICES ASSUME SubsInv PROVE SubscriptionsConsistent
  OBVIOUS
<1>t. SubsTyped /\ (\A s \in Subs : LogSound(s)) /\ RowsSound /\ SyncsSound /\ (~stale => Covers(protection, row))
  BY DEF SubsInv
<1>1. SubscriptionsTypeOK
  <2>1. \A s \in Subs : log[s] \in Seq(Entry) /\ Len(log[s]) \in 1..MaxLog
    BY <1>t DEF SubsTyped, LogSound
  <2>2. ASSUME NEW w \in SyncWorkers, sync[w] # Idle
        PROVE  sync[w].at \in {"fetch", "ready", "open"} /\ sync[w].job \in Jobs /\ sync[w].sub \in Subs
    <3>1. sync[w] \in JobRecords \/ sync[w] \in OpenRecords
      BY <1>t, <2>2 DEF SubsTyped
    <3> QED
      BY <3>1, JobFields, OpenFields
  <2> QED
    BY <1>t, <2>1, <2>2 DEF SubsTyped, SubscriptionsTypeOK, Periods, Happened
<1>2. RowFollowsProvider
  <2>1. ASSUME NEW s \in Subs \ overtaken, Settled(s), row[s] # NoRow
        PROVE  (RowAccess(s) <=> ProviderAccess(s)) /\ (RowAccess(s) => row[s].until = Current(s).until)
    <3>1. PICK r \in RowOf : r = row[s]
      BY <1>t DEF SubsTyped
    <3>2. r.until \in 0..MaxDay /\ r.time \in Nat /\ r.active \in BOOLEAN
      BY RowOfIs
    <3>3. HandledBy(s, r.time) /\ (Newer(s, r.time) \/ ShowsNow(s, r))
      BY <1>t, <2>1, <3>1 DEF RowsSound, RowSound
    <3>4. Len(log[s]) \in Nat /\ handled[s] = 1..Len(log[s])
      <4>1. log[s] \in Seq(Entry)
        BY <1>t DEF SubsTyped
      <4> QED
        BY <2>1, <4>1 DEF Settled
    <3>5. ~Newer(s, r.time)
      <4>1. ASSUME NEW v \in 1..Len(log[s]) PROVE log[s][v].kind = "voided" \/ ~(2 * v > r.time)
        <5>1. log[s][v].kind = "voided" \/ 2 * v <= r.time
          BY <3>3, <3>4 DEF HandledBy
        <5>2. v \in Nat
          BY <3>4
        <5> QED
          BY <3>2, <5>1, <5>2
      <4> QED
        BY <4>1 DEF Newer
    <3>6. ShowsNow(s, r)
      BY <3>3, <3>5
    <3> QED
      BY <3>1, <3>6 DEF ShowsNow, RowAccess, ProviderAccess
  <2> QED
    BY <2>1 DEF RowFollowsProvider
<1>3. WalletFollowsRows
  <2>1. ASSUME NEW s \in Subs PROVE row[s].until \in 0..MaxDay
    <3>1. PICK r \in RowOf : r = row[s]
      BY <1>t DEF SubsTyped
    <3> QED
      BY <3>1, RowOfIs
  <2>2. today \in 0..MaxDay /\ protection \in 0..MaxDay
    BY <1>t DEF SubsTyped
  <2> QED
    BY <1>t, <2>1, <2>2, CoversSays DEF WalletFollowsRows
<1> QED
  BY <1>1, <1>2, <1>3 DEF SubscriptionsConsistent

\* In every reachable state the rows of the subscriptions follow the providers
\* once the notifications were handled, in any order, and the streak protection
\* in the wallet follows the rows.
THEOREM SubscriptionsStayConsistent == SubscriptionsSpec => []SubscriptionsConsistent
<1>1. SubscriptionsInit => SubsInv
  BY SubsInitInv
<1>2. SubsInv /\ [SubscriptionsNext]_subscriptionVars => SubsInv'
  BY SubsStepInv
<1>3. SubsInv => SubscriptionsConsistent
  BY SubsInvSays
<1> QED
  BY <1>1, <1>2, <1>3, PTL DEF SubscriptionsSpec

=============================================================================
