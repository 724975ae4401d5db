----------------------------- MODULE CourseOrders -----------------------------
(***************************************************************************)
(* The orders of one user for one course, the store purchases that pay for   *)
(* them, and the enrollment they give                                        *)
(* (src/module-2/course-commerce/services, and the course part of            *)
(* src/billing/app-store/services/app-store-notification.service.ts).        *)
(*                                                                         *)
(* A purchase has the name of the order whose checkout it was made in.  The   *)
(* App Store ties it to that order (appAccountToken); Google Play only to the *)
(* user and the product, so that any of his orders for the product may        *)
(* present it.  Verification runs in several transactions; a call may die     *)
(* between two of them (CallDies), and so may an administrator's refund.      *)
(***************************************************************************)
EXTENDS Naturals, FiniteSets

CONSTANTS
  CourseOrderIds,
  TimedOrders,    \* for a time-limited product; the others are for ever
  AppleOrders,    \* paid through the App Store; the others through Google Play
  Verifiers,      \* concurrent verifications: requests, Google and Apple notices
  MaxCourseOrders,\* bound on the orders the user makes
  Length,         \* days of a time-limited product
  LastDay,        \* bound on the clock
  MaxDecisions,   \* bound on refunds, reversals, grants and foreign purchases
  NoCourseOrder

ASSUME CourseOrdersAssumption ==
  /\ TimedOrders \subseteq CourseOrderIds
  /\ AppleOrders \subseteq CourseOrderIds
  /\ NoCourseOrder \notin CourseOrderIds
  /\ MaxCourseOrders \in Nat
  /\ Length \in Nat \ {0}
  /\ LastDay \in Nat
  /\ MaxDecisions \in Nat

VARIABLES
  day,         \* the clock
  store,       \* what the store knows of each purchase
  ends,        \* when the store's subscription ends, 0 before and for ever
  notices,     \* store notices not processed yet: <<kind, purchase>>
  order,       \* course_purchase_orders.status
  bound,       \* the purchase of the order's VERIFIED provider transaction
  until,       \* entitlementExpiresAt, 0 for null
  enrollment,  \* the user's row in course_enrollments
  grant,       \* his external access grant
  refund,      \* provider_refund_operations.status
  refunding,   \* orders whose refund an administrator's request is asking for
  verifier,    \* the verifications
  decisions,   \* how many of them there were
  excused,     \* history: a verification, or the reversal of a refund, wrote over a
               \* newer or better enrollment
  missed       \* history: purchases of which a notice was processed out of order

courseOrderVars == <<day, store, ends, notices, order, bound, until, enrollment,
                     grant, refund, refunding, verifier, decisions, excused, missed>>

-----------------------------------------------------------------------------
Days == 0..(LastDay + Length)

Enrollments ==
  [status : {"none", "ACTIVE", "EXPIRED", "REFUNDED", "REVOKED"},
   order : CourseOrderIds \union {NoCourseOrder},
   lifetime : BOOLEAN,
   expires : Nat]

NotEnrolled ==
  [status |-> "none", order |-> NoCourseOrder, lifetime |-> FALSE, expires |-> 0]

IdleVerifier == [at |-> "idle", order |-> NoCourseOrder, purchase |-> NoCourseOrder,
         target |-> NoCourseOrder, read |-> NotEnrolled]

Stages == {"idle", "verified", "marking", "reopening", "paying", "completing",
           "superseding", "failing"}

CourseOrdersTypeOK ==
  /\ day \in 0..LastDay
  /\ store \in [CourseOrderIds -> {"unsold", "owned", "refunded"}]
  /\ ends \in [CourseOrderIds -> Days]
  /\ notices \subseteq {"REFUND", "REFUND_REVERSED"} \X CourseOrderIds
  /\ order \in [CourseOrderIds -> {"none", "PENDING", "PROCESSING", "PAID", "REFUNDED",
                                   "FAILED", "CANCELLED"}]
  /\ bound \in [CourseOrderIds -> CourseOrderIds \union {NoCourseOrder}]
  /\ until \in [CourseOrderIds -> Nat]
  /\ enrollment \in Enrollments
  /\ grant \in {"none", "ACTIVE", "REVOKED"}
  /\ refund \in [CourseOrderIds -> {"none", "PROCESSING", "PROVIDER_COMPLETED",
                                    "COMPLETED", "FAILED"}]
  /\ refunding \subseteq CourseOrderIds
  /\ verifier \in [Verifiers ->
       [at : Stages,
        order : CourseOrderIds \union {NoCourseOrder},
        purchase : CourseOrderIds \union {NoCourseOrder},
        target : CourseOrderIds \union {NoCourseOrder},
        read : Enrollments]]
  /\ decisions \in 0..MaxDecisions
  /\ excused \in BOOLEAN
  /\ missed \subseteq CourseOrderIds

CourseOrdersInit ==
  /\ day = 0
  /\ store = [p \in CourseOrderIds |-> "unsold"]
  /\ ends = [p \in CourseOrderIds |-> 0]
  /\ notices = {}
  /\ order = [o \in CourseOrderIds |-> "none"]
  /\ bound = [o \in CourseOrderIds |-> NoCourseOrder]
  /\ until = [o \in CourseOrderIds |-> 0]
  /\ enrollment = NotEnrolled
  /\ grant = "none"
  /\ refund = [o \in CourseOrderIds |-> "none"]
  /\ refunding = {}
  /\ verifier = [v \in Verifiers |-> IdleVerifier]
  /\ decisions = 0
  /\ excused = FALSE
  /\ missed = {}

-----------------------------------------------------------------------------
(* Helpers.                                                                 *)

SameProduct(o, p) == (o \in TimedOrders) = (p \in TimedOrders)
Google(o) == o \notin AppleOrders

\* hasEnrollmentAccess.
HasAccess(e) == e.status = "ACTIVE" /\ (e.lifetime \/ e.expires > day)

\* The order's row is locked by the transaction of completePayment.
OrderLocked(o) == \E v \in Verifiers : verifier[v].at = "completing" /\ verifier[v].target = o

Later(a, b) == IF a > b THEN a ELSE b

Done(v) == verifier' = [verifier EXCEPT ![v] = IdleVerifier]
Goto(v, stage) == verifier' = [verifier EXCEPT ![v].at = stage]

\* restorePreviousPaidEntitlement / restorePreviousCourseEntitlement: what the
\* enrollment becomes when order o is refunded at a time.
Remaining(o, time) ==
  LET paid == {x \in CourseOrderIds \ {o} : order[x] = "PAID"}
      lifetime == paid \ TimedOrders
      timed == {x \in paid \intersect TimedOrders : until[x] > time}
  IN IF lifetime # {}
       THEN {[status |-> "ACTIVE", order |-> x, lifetime |-> TRUE, expires |-> 0] :
               x \in lifetime}
     ELSE IF timed # {}
       THEN {[status |-> "ACTIVE", order |-> x, lifetime |-> FALSE, expires |-> until[x]] :
               x \in {y \in timed : \A z \in timed : until[z] <= until[y]}}
     ELSE {[enrollment EXCEPT !.status = "REFUNDED"]}

\* A PAID order is refunded.  Only the enrollment that rests on it is touched.
RefundOrder(o, time) ==
  /\ order' = [order EXCEPT ![o] = "REFUNDED"]
  /\ IF enrollment.order = o THEN enrollment' \in Remaining(o, time)
                             ELSE enrollment' = enrollment

history == <<excused, missed>>
enrolledVars == <<order, enrollment>>
storeVars == <<store, ends, notices>>
refundVars == <<grant, refund, refunding>>

-----------------------------------------------------------------------------
(* The user, the stores and the clock.                                      *)

\* createOrder: no order for a user who has access for ever.
CreateOrder(o) ==
  /\ order[o] = "none"
  /\ Cardinality({x \in CourseOrderIds : order[x] # "none"}) < MaxCourseOrders
  /\ ~(HasAccess(enrollment) /\ enrollment.lifetime)
  /\ order' = [order EXCEPT ![o] = "PENDING"]
  /\ UNCHANGED <<day, storeVars, bound, until, enrollment, refundVars, verifier, decisions, history>>

\* The store charges the user in the checkout of an order.  Google Play sells a
\* product only to those who do not own it.
Charge(p) ==
  /\ store[p] = "unsold"
  /\ order[p] \in {"PENDING", "PROCESSING"}
  /\ Google(p) => \A q \in CourseOrderIds :
                    Google(q) /\ SameProduct(p, q) /\ store[q] = "owned" => q \in TimedOrders /\ ends[q] <= day
  /\ store' = [store EXCEPT ![p] = "owned"]
  /\ ends' = [ends EXCEPT ![p] = IF p \in TimedOrders THEN day + Length ELSE 0]
  /\ UNCHANGED <<day, notices, enrolledVars, bound, until, refundVars, verifier, decisions, history>>

\* The store refunds the user by itself and sends a notice.
StoreRefunds(p) ==
  /\ decisions < MaxDecisions
  /\ decisions' = decisions + 1
  /\ store[p] = "owned"
  /\ store' = [store EXCEPT ![p] = "refunded"]
  /\ notices' = notices \union {<<"REFUND", p>>}
  /\ UNCHANGED <<day, ends, enrolledVars, bound, until, refundVars, verifier, history>>

\* Apple reverses a refund.
StoreReversesRefund(p) ==
  /\ decisions < MaxDecisions
  /\ decisions' = decisions + 1
  /\ p \in AppleOrders
  /\ store[p] = "refunded"
  /\ store' = [store EXCEPT ![p] = "owned"]
  /\ notices' = notices \union {<<"REFUND_REVERSED", p>>}
  /\ UNCHANGED <<day, ends, enrolledVars, bound, until, refundVars, verifier, history>>

CourseDayPasses ==
  /\ day < LastDay
  /\ day' = day + 1
  /\ UNCHANGED <<storeVars, enrolledVars, bound, until, refundVars, verifier, decisions, history>>

\* expireDueEnrollments, on the way to every read of the enrollment.
Expire ==
  /\ enrollment.status = "ACTIVE" /\ ~enrollment.lifetime /\ enrollment.expires <= day
  /\ enrollment' = [enrollment EXCEPT !.status = "EXPIRED"]
  /\ UNCHANGED <<day, storeVars, order, bound, until, refundVars, verifier, decisions, history>>

-----------------------------------------------------------------------------
(* Verification of a purchase p with an order o.                            *)

\* Google Play confirms that the user owns p, a purchase of the order's product;
\* a subscription must not have ended.
GoogleConfirms(o, p) ==
  /\ Google(o) /\ Google(p) /\ SameProduct(o, p)
  /\ store[p] = "owned" /\ (p \in TimedOrders => ends[p] > day)

\* The App Store confirms the order's own purchase, also when it is restored.
AppleConfirms(o, p) == ~Google(o) /\ o = p /\ store[p] = "owned"

\* verifyGooglePlayPurchase, verifyAppStorePurchase and restoreAppStorePurchase, up
\* to the answer of the store.
Verify(v, o, p) ==
  /\ verifier[v] = IdleVerifier
  /\ order[o] # "none"
  /\ GoogleConfirms(o, p) \/ AppleConfirms(o, p)
  /\ verifier' = [verifier EXCEPT ![v] =
       [IdleVerifier EXCEPT !.at = IF Google(o) THEN "verified" ELSE "marking",
                    !.order = o, !.purchase = p, !.target = o]]
  /\ UNCHANGED <<day, storeVars, enrolledVars, bound, until, refundVars, decisions, history>>

\* The purchase is another account's, which is a final refusal.
PresentForeign(v, o) ==
  /\ decisions < MaxDecisions
  /\ decisions' = decisions + 1
  /\ verifier[v] = IdleVerifier
  /\ Google(o) /\ order[o] # "none"
  /\ verifier' = [verifier EXCEPT ![v] =
       [IdleVerifier EXCEPT !.at = "failing", !.order = o, !.target = o]]
  /\ UNCHANGED <<day, storeVars, enrolledVars, bound, until, refundVars, history>>

\* restoreExistingGooglePlayCoursePurchase: is the purchase another order's?
\* Nothing is locked.
FindExisting(v) ==
  /\ verifier[v].at = "verified"
  /\ LET existing == {x \in CourseOrderIds \ {verifier[v].order} : bound[x] = verifier[v].purchase}
     IN IF existing = {} THEN Goto(v, "marking")
        ELSE \E x \in existing :
               verifier' = [verifier EXCEPT ![v].at = "reopening", ![v].target = x]
  /\ UNCHANGED <<day, storeVars, enrolledVars, bound, until, refundVars, decisions, history>>

\* (Mutant: the purchase may belong to another order.)
MarkVerifiedTwice(v) ==
  /\ verifier[v].at = "marking"
  /\ LET o == verifier[v].target
         p == verifier[v].purchase
     IN IF bound[o] \in {NoCourseOrder, p}
          THEN bound' = [bound EXCEPT ![o] = p] /\ Goto(v, "paying")
          ELSE bound' = bound /\ Done(v)
  /\ UNCHANGED <<day, storeVars, enrolledVars, until, refundVars, decisions, history>>

\* markProviderTransactionVerified, under locks on the transaction and on the
\* purchase: it pays for one order, and an order is paid with one purchase.
MarkVerified(v) ==
  /\ verifier[v].at = "marking"
  /\ LET o == verifier[v].target
         p == verifier[v].purchase
     IN IF (\A x \in CourseOrderIds \ {o} : bound[x] # p) /\ bound[o] \in {NoCourseOrder, p}
          THEN bound' = [bound EXCEPT ![o] = p] /\ Goto(v, "paying")
          ELSE bound' = bound /\ Done(v)
  /\ UNCHANGED <<day, storeVars, enrolledVars, until, refundVars, decisions, history>>

\* (Mutant: a refunded order is reopened with the others.)
ReopenAny(v) ==
  LET o == verifier[v].target IN
  /\ verifier[v].at = "reopening"
  /\ ~OrderLocked(o)
  /\ Goto(v, "paying")
  /\ order' = IF order[o] \in {"FAILED", "CANCELLED", "REFUNDED"}
                THEN [order EXCEPT ![o] = "PROCESSING"] ELSE order
  /\ UNCHANGED <<day, storeVars, enrollment, bound, until, refundVars, decisions, history>>

\* reopenGooglePlayOrderForRestore.
Reopen(v) ==
  LET o == verifier[v].target IN
  /\ verifier[v].at = "reopening"
  /\ ~OrderLocked(o)
  /\ Goto(v, IF order[o] = "REFUNDED" THEN "failing" ELSE "paying")
  /\ order' = IF order[o] \in {"FAILED", "CANCELLED"}
                THEN [order EXCEPT ![o] = "PROCESSING"] ELSE order
  /\ UNCHANGED <<day, storeVars, enrollment, bound, until, refundVars, decisions, history>>

\* What follows completePayment: the order that presented another order's
\* purchase is superseded by it.
AfterPayment(v) ==
  IF verifier[v].target = verifier[v].order THEN IdleVerifier
  ELSE [verifier[v] EXCEPT !.at = "superseding", !.read = NotEnrolled]

\* completePayment of a PAID order: a subscription that ends later than the
\* enrollment does extends it.  An enrollment without an end counts as earlier.
ConfirmPaid(v) ==
  LET o == verifier[v].target
      p == verifier[v].purchase
      longer == o \in TimedOrders /\ Google(o)
                  /\ (enrollment.expires = 0 \/ enrollment.expires < ends[p])
  IN
  /\ verifier[v].at = "paying"
  /\ ~OrderLocked(o)
  /\ order[o] = "PAID"
  /\ IF enrollment.status = "none"
       THEN /\ Done(v)
            /\ UNCHANGED <<enrollment, until, excused>>
       ELSE /\ verifier' = [verifier EXCEPT ![v] = AfterPayment(v)]
            /\ IF longer
                 THEN /\ enrollment' = [enrollment EXCEPT !.status = "ACTIVE",
                                          !.lifetime = FALSE, !.expires = ends[p]]
                      /\ until' = [until EXCEPT ![o] = ends[p]]
                      /\ excused' = (excused \/ enrollment.lifetime)
                 ELSE UNCHANGED <<enrollment, until, excused>>
  /\ UNCHANGED <<day, storeVars, order, bound, refundVars, decisions, missed>>

\* (Mutant: any order that is not paid yet is completed.)
BeginPaymentAny(v) ==
  LET o == verifier[v].target IN
  /\ verifier[v].at = "paying"
  /\ ~OrderLocked(o)
  /\ order[o] # "PAID"
  /\ verifier' = [verifier EXCEPT ![v].at = "completing", ![v].read = enrollment]
  /\ UNCHANGED <<day, storeVars, enrolledVars, bound, until, refundVars, decisions, history>>

\* completePayment of an order that waits: its row is locked, the enrollment is
\* read and not locked.
BeginPayment(v) ==
  LET o == verifier[v].target IN
  /\ verifier[v].at = "paying"
  /\ ~OrderLocked(o)
  /\ order[o] # "PAID"
  /\ IF order[o] \in {"PENDING", "PROCESSING"}
       THEN verifier' = [verifier EXCEPT ![v].at = "completing", ![v].read = enrollment]
       ELSE Done(v)
  /\ UNCHANGED <<day, storeVars, enrolledVars, bound, until, refundVars, decisions, history>>

\* The end of the access a time-limited order gives.
EndOf(o, p, read) ==
  IF o \notin TimedOrders THEN 0
  ELSE IF Google(o) THEN ends[p]
  ELSE Later(day, read.expires) + Length

\* (Mutant: the order that paid before stays the enrollment's order.)
CompletedKeepsOrder(o, p, read) ==
  LET keeps == read.status # "none" /\ read.lifetime
  IN [status |-> "ACTIVE", order |-> IF read.status = "none" THEN o ELSE read.order,
      lifetime |-> keeps \/ o \notin TimedOrders,
      expires |-> IF keeps THEN 0 ELSE EndOf(o, p, read)]

\* The enrollment completePayment makes of the one it has read: access for ever
\* is never shortened.
Completed(o, p, read) ==
  LET keeps == read.status # "none" /\ read.lifetime
  IN [status |-> "ACTIVE", order |-> o,
      lifetime |-> keeps \/ o \notin TimedOrders,
      expires |-> IF keeps THEN 0 ELSE EndOf(o, p, read)]

\* The enrollment is saved and the transaction commits.  save() writes the
\* columns that differ from the row as it finds it, which is the row that was
\* read if it must then wait for another transaction to commit.  A row that was
\* inserted since makes the insertion, and all of the transaction, fail.
FinishPayment(v) ==
  LET o == verifier[v].target
      p == verifier[v].purchase
      read == verifier[v].read
      entity == Completed(o, p, read)
  IN
  /\ verifier[v].at = "completing"
  /\ IF read.status = "none" /\ enrollment.status # "none"
       THEN /\ Done(v)
            /\ UNCHANGED <<enrolledVars, until, excused>>
       ELSE /\ \E found \in {read, enrollment} :
                 enrollment' = [column \in DOMAIN entity |->
                                  IF entity[column] # found[column] THEN entity[column]
                                  ELSE enrollment[column]]
            /\ order' = [order EXCEPT ![o] = "PAID"]
            /\ until' = [until EXCEPT ![o] = EndOf(o, p, read)]
            /\ verifier' = [verifier EXCEPT ![v] = AfterPayment(v)]
            /\ excused' = (excused \/ read # enrollment)
  /\ UNCHANGED <<day, storeVars, bound, refundVars, decisions, missed>>

\* markSupersededGooglePlayOrder.
Supersede(v) ==
  LET o == verifier[v].order IN
  /\ verifier[v].at = "superseding"
  /\ ~OrderLocked(o)
  /\ order' = IF order[o] \in {"PAID", "REFUNDED"} THEN order
              ELSE [order EXCEPT ![o] = "CANCELLED"]
  /\ Done(v)
  /\ UNCHANGED <<day, storeVars, enrollment, bound, until, refundVars, decisions, history>>

\* markGooglePlayOrderFailed, after a refusal that is final.
Fail(v) ==
  LET o == verifier[v].order IN
  /\ verifier[v].at = "failing"
  /\ ~OrderLocked(o)
  /\ order' = IF order[o] \in {"PAID", "REFUNDED", "CANCELLED"} THEN order
              ELSE [order EXCEPT ![o] = "FAILED"]
  /\ Done(v)
  /\ UNCHANGED <<day, storeVars, enrollment, bound, until, refundVars, decisions, history>>

\* An error, or the end of the server: the transaction it is in is rolled back.
CallDies(v) ==
  /\ verifier[v] # IdleVerifier
  /\ Done(v)
  /\ UNCHANGED <<day, storeVars, enrolledVars, bound, until, refundVars, decisions, history>>

-----------------------------------------------------------------------------
(* Refunds.                                                                 *)

\* refundGooglePlayOrder: prepareCourseRefundOperation.
PrepareRefund(o) ==
  /\ decisions < MaxDecisions
  /\ decisions' = decisions + 1
  /\ Google(o) /\ order[o] = "PAID" /\ ~OrderLocked(o)
  /\ refund[o] \in {"none", "FAILED"}
  /\ refund' = [refund EXCEPT ![o] = "PROCESSING"]
  /\ refunding' = refunding \union {o}
  /\ UNCHANGED <<day, storeVars, enrolledVars, bound, until, grant, verifier, history>>

\* The answer of Google, which refunds the purchase unless it was before.
ProviderRefunds(o) ==
  LET p == bound[o] IN
  /\ o \in refunding
  /\ store' = [store EXCEPT ![p] = "refunded"]
  /\ notices' = IF store[p] = "owned" THEN notices \union {<<"REFUND", p>>} ELSE notices
  /\ refund' = IF refund[o] = "COMPLETED" THEN refund
               ELSE [refund EXCEPT ![o] = "PROVIDER_COMPLETED"]
  /\ refunding' = refunding \ {o}
  /\ UNCHANGED <<day, ends, enrolledVars, bound, until, grant, verifier, decisions, history>>

\* markCourseRefundFailure, whatever the operation's status is by now.  Google may
\* have refunded the purchase nevertheless.
RefundFails(o) ==
  LET p == bound[o] IN
  /\ o \in refunding
  /\ \/ UNCHANGED <<store, notices>>
     \/ /\ store[p] = "owned"
        /\ store' = [store EXCEPT ![p] = "refunded"]
        /\ notices' = notices \union {<<"REFUND", p>>}
  /\ refund' = [refund EXCEPT ![o] = "FAILED"]
  /\ refunding' = refunding \ {o}
  /\ UNCHANGED <<day, ends, enrolledVars, bound, until, grant, verifier, decisions, history>>

\* The administrator's request dies while it waits for Google.
RefundDies(o) ==
  /\ o \in refunding
  /\ refunding' = refunding \ {o}
  /\ UNCHANGED <<day, storeVars, enrolledVars, bound, until, grant, refund, verifier, decisions, history>>

\* applyGooglePlayVoidedPurchase, from a notice or from the reconciliation, which
\* tries a purchase it cannot match again: its first transaction.
VoidArrives(o) ==
  /\ Google(o) /\ <<"REFUND", bound[o]>> \in notices /\ ~OrderLocked(o)
  /\ IF refund[o] = "COMPLETED"
       THEN notices' = notices \ {<<"REFUND", bound[o]>>} /\ refund' = refund
       ELSE notices' = notices /\ refund' = [refund EXCEPT ![o] = "PROVIDER_COMPLETED"]
  /\ UNCHANGED <<day, store, ends, enrolledVars, bound, until, grant, refunding, verifier, decisions, history>>

\* applyCourseRefundLocally; with it the notice may have been processed.
ApplyRefund(o) ==
  /\ refund[o] = "PROVIDER_COMPLETED" /\ ~OrderLocked(o)
  /\ \/ order[o] = "PAID" /\ RefundOrder(o, day)
     \/ order[o] = "REFUNDED" /\ UNCHANGED enrolledVars
  /\ refund' = [refund EXCEPT ![o] = "COMPLETED"]
  /\ notices' \in {notices, notices \ {<<"REFUND", bound[o]>>}}
  /\ UNCHANGED <<day, store, ends, bound, until, grant, refunding, verifier, decisions, history>>

\* revokeCourseOrder, for a refund signed at some earlier time.  The notice is
\* processed again if the server dies before it is marked.
AppleRefund(p) ==
  /\ p \in AppleOrders /\ <<"REFUND", p>> \in notices /\ ~OrderLocked(p)
  /\ IF order[p] = "PAID" THEN \E time \in 0..day : RefundOrder(p, time)
                          ELSE UNCHANGED enrolledVars
  /\ notices' \in {notices, notices \ {<<"REFUND", p>>}}
  /\ missed' = IF order[p] \notin {"PAID", "REFUNDED"} \/ store[p] = "owned"
                 THEN missed \union {p} ELSE missed
  /\ UNCHANGED <<day, store, ends, bound, until, refundVars, verifier, decisions, excused>>

\* restoreCourseOrder.
AppleReversal(p) ==
  /\ p \in AppleOrders /\ <<"REFUND_REVERSED", p>> \in notices /\ ~OrderLocked(p)
  /\ IF order[p] = "REFUNDED"
       THEN /\ order' = [order EXCEPT ![p] = "PAID"]
            /\ \E time \in 0..day :
                 enrollment' =
                   [status |-> IF p \in TimedOrders /\ until[p] <= time THEN "EXPIRED" ELSE "ACTIVE",
                    order |-> p, lifetime |-> p \notin TimedOrders,
                    expires |-> IF p \in TimedOrders THEN until[p] ELSE 0]
       ELSE UNCHANGED enrolledVars
  /\ notices' \in {notices, notices \ {<<"REFUND_REVERSED", p>>}}
  /\ missed' = IF order[p] # "REFUNDED" \/ store[p] = "refunded"
                 THEN missed \union {p} ELSE missed
  /\ excused' = (excused \/ (order[p] = "REFUNDED" /\ p \in TimedOrders /\ enrollment.lifetime))
  /\ UNCHANGED <<day, store, ends, bound, until, refundVars, verifier, decisions>>

-----------------------------------------------------------------------------
(* Access that was paid for outside the stores.                             *)

\* grantExternalCourseAccess, for ever or for Length days more (LastDay bounds
\* repeated grants).
GrantExternal(forEver) ==
  /\ decisions < MaxDecisions
  /\ decisions' = decisions + 1
  /\ enrollment.expires <= LastDay
  /\ \A o \in CourseOrderIds : order[o] # "PAID"
  /\ ~(enrollment.status = "ACTIVE" /\ (enrollment.order # NoCourseOrder \/ enrollment.lifetime))
  /\ enrollment' = [status |-> "ACTIVE", order |-> NoCourseOrder, lifetime |-> forEver,
                    expires |-> IF forEver THEN 0 ELSE Later(day, enrollment.expires) + Length]
  /\ grant' = "ACTIVE"
  /\ UNCHANGED <<day, storeVars, order, bound, until, refund, refunding, verifier, history>>

\* revokeExternalCourseAccess.
RevokeExternal ==
  /\ grant = "ACTIVE"
  /\ grant' = "REVOKED"
  /\ enrollment' = IF enrollment.order = NoCourseOrder /\ enrollment.status = "ACTIVE"
                     THEN [enrollment EXCEPT !.status = "REVOKED"] ELSE enrollment
  /\ UNCHANGED <<day, storeVars, order, bound, until, refund, refunding, verifier, decisions, history>>

CourseOrdersNext ==
  \/ CourseDayPasses \/ Expire \/ RevokeExternal
  \/ \E forEver \in BOOLEAN : GrantExternal(forEver)
  \/ \E v \in Verifiers :
       \/ \E o, p \in CourseOrderIds : Verify(v, o, p)
       \/ \E o \in CourseOrderIds : PresentForeign(v, o)
       \/ FindExisting(v) \/ MarkVerified(v) \/ Reopen(v)
       \/ ConfirmPaid(v) \/ BeginPayment(v) \/ FinishPayment(v)
       \/ Supersede(v) \/ Fail(v) \/ CallDies(v)
  \/ \E o \in CourseOrderIds :
       \/ CreateOrder(o) \/ Charge(o) \/ StoreRefunds(o) \/ StoreReversesRefund(o)
       \/ PrepareRefund(o) \/ ProviderRefunds(o) \/ RefundFails(o) \/ RefundDies(o)
       \/ VoidArrives(o) \/ ApplyRefund(o)
       \/ AppleRefund(o) \/ AppleReversal(o)

CourseOrdersSpec == CourseOrdersInit /\ [][CourseOrdersNext]_courseOrderVars

-----------------------------------------------------------------------------
(* Properties.                                                              *)

\* Once the notices about a purchase are processed its order agrees with the
\* store, unless Apple's were processed before the payment or after the store had
\* changed its mind.
OrdersFollowTheStore ==
  \A o \in CourseOrderIds :
    LET p == bound[o] IN
    p \notin missed /\ {<<"REFUND", p>>, <<"REFUND_REVERSED", p>>} \intersect notices = {} =>
      /\ p # NoCourseOrder /\ store[p] = "refunded" => order[o] # "PAID"
      /\ order[o] = "REFUNDED" => store[p] = "refunded"

\* The orders follow the store, and a purchase pays for one order, however many
\* orders of the product present it at the same time
\* (markProviderTransactionVerified).
CourseOrdersConsistent ==
  /\ CourseOrdersTypeOK
  /\ OrdersFollowTheStore
  /\ \A o, x \in CourseOrderIds :
       bound[o] = bound[x] /\ bound[o] # NoCourseOrder => o = x

\* Whoever has access has paid for it: in an order that is not refunded, or
\* outside the stores (completePayment, the three refunds, the grants).
AccessIsPaidFor ==
  HasAccess(enrollment) => grant = "ACTIVE" \/ \E o \in CourseOrderIds : order[o] = "PAID"

\* Whoever has paid for access for ever has it, whatever is refunded, revoked or
\* bought besides, unless something wrote over the enrollment: a verification that
\* had read an older row or that repeated an older order's, or the reversal of the
\* refund of a time-limited order, which looks at no other order.
PayerHasAccess ==
  (\E o \in CourseOrderIds \ TimedOrders : order[o] = "PAID") =>
    HasAccess(enrollment) \/ excused

\* Access and payment agree, both ways (completePayment, the three refunds).
AccessFollowsPayment == AccessIsPaidFor /\ PayerHasAccess

\* "Only revoke the enrollment if the refunded order is still the enrollment's
\* current order. This preserves a later repurchase of the same course."
\* (admin-course-commerce.service.ts:1555.)  The later order is completed while
\* the older one is refunded: the enrollment is the later order's, and REFUNDED.
LaterRepurchasePreserved ==
  \A o \in CourseOrderIds :
    order[o] = "PAID" /\ enrollment.order = o => enrollment.status # "REFUNDED"
=============================================================================
