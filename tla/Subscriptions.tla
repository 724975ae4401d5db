----------------------------- MODULE Subscriptions -----------------------------
(***************************************************************************)
(* The subscriptions of one user and the streak protection they give him:    *)
(* google-play-subscription-lifecycle.service.ts and                         *)
(* app-store-subscription-lifecycle.service.ts.                              *)
(*                                                                         *)
(* A provider keeps a log per subscription: entry v is what happened and     *)
(* what the subscription was from then on.  Notifications are delivered in   *)
(* any order, late, and more than once.  A Google notification only says     *)
(* that something happened, the service then asks for the current state; an  *)
(* Apple notification carries the state.  Entry v happens at time 2v, and a  *)
(* clock read while v is the last entry gives 2v + 1.                        *)
(***************************************************************************)
EXTENDS Naturals, Sequences, FiniteSetsExt

CONSTANTS
  GoogleSubs, AppleSubs,
  SyncWorkers,   \* requests and notification handlers
  MaxLog,        \* bound on the entries of a log
  MaxHappenings, \* bound on the entries of all logs together with the repeated
                 \* notifications, registrations, restorations and cancellations
  MaxDay         \* bound on the time; periods end at days 1..MaxDay

Subs == GoogleSubs \union AppleSubs

ASSUME SubscriptionsAssumption ==
  /\ GoogleSubs \intersect AppleSubs = {} /\ IsFiniteSet(Subs)
  /\ MaxLog \in Nat \ {0}
  /\ MaxHappenings \in Nat
  /\ MaxDay \in Nat \ {0}

VARIABLES
  today,
  log,        \* the provider's entries
  row,        \* store_subscriptions
  refunds,    \* the orders whose store_subscription_renewals row is REFUNDED
  renewed,    \* the orders with such a row, and the day their period ends
  protection, \* wallet.unlimitedStreakProtectionUntil, 0 for null
  sync,       \* what each worker is doing
  extra,      \* history: repetitions and requests so far
  handled,    \* history: entries whose notification was handled
  overtaken,  \* history: subscriptions on which a void or a cancellation had the last word
  stale       \* history: the wallet was written from rows read before another commit

subscriptionVars ==
  <<today, log, row, refunds, renewed, protection, sync, extra, handled, overtaken, stale>>

-----------------------------------------------------------------------------
States == {"active", "canceled", "hold", "expired", "revoked"}
Snapshot == [state : States, until : 1..MaxDay, order : 1..MaxLog]
Kinds == {"purchased", "renewed", "changed", "revoked", "refunded", "voided"}
Entry == [kind : Kinds, order : 1..MaxLog, snap : Snapshot]
Times == 1..(2 * MaxLog + 1)
NoRow == [active |-> FALSE, until |-> 0, time |-> 0]
RowOf == [active : BOOLEAN, until : 0..MaxDay, time : Times] \union {NoRow}

FirstEntry == [kind |-> "purchased", order |-> 1,
               snap |-> [state |-> "active", until |-> 1, order |-> 1]]

\* A worker that has nothing to do; "fetch": about to ask the provider, "ready":
\* about to begin the transaction, "open": the row is locked and written.
Idle == [at |-> "idle"]
Jobs == {"notification", "register", "restore", "cancel"}

Job(at, job, s, v, time, snap) ==
  [at |-> at, job |-> job, sub |-> s, entry |-> v, time |-> time, snap |-> snap]

SubscriptionsTypeOK ==
  /\ today \in 0..MaxDay
  /\ \A s \in Subs : log[s] \in Seq(Entry) /\ Len(log[s]) \in 1..MaxLog
  /\ row \in [Subs -> RowOf]
  /\ refunds \in [GoogleSubs -> SUBSET (1..MaxLog)]
  /\ renewed \in [GoogleSubs -> [1..MaxLog -> 0..MaxDay]]
  /\ protection \in 0..MaxDay
  /\ \A w \in SyncWorkers :
       sync[w] # Idle =>
         /\ sync[w].at \in {"fetch", "ready", "open"}
         /\ sync[w].job \in Jobs
         /\ sync[w].sub \in Subs
  /\ extra \in 0..MaxHappenings
  /\ handled \in [Subs -> SUBSET (1..MaxLog)]
  /\ overtaken \subseteq Subs
  /\ stale \in BOOLEAN

SubscriptionsInit ==
  /\ today = 0
  /\ log = [s \in Subs |-> <<FirstEntry>>]
  /\ row = [s \in Subs |-> NoRow]
  /\ refunds = [s \in GoogleSubs |-> {}]
  /\ renewed = [s \in GoogleSubs |-> [k \in 1..MaxLog |-> 0]]
  /\ protection = 0
  /\ sync = [w \in SyncWorkers |-> Idle]
  /\ extra = 0
  /\ handled = [s \in Subs |-> {}]
  /\ overtaken = {}
  /\ stale = FALSE

-----------------------------------------------------------------------------
(* The providers.                                                           *)

Now(s) == 2 * Len(log[s]) + 1
Last(s) == log[s][Len(log[s])]
Current(s) == Last(s).snap

\* The user has paid for today.
ProviderAccess(s) ==
  Current(s).state \in {"active", "canceled"} /\ Current(s).until > today

Entries == [s \in Subs |-> Len(log[s])]
Happenings == MapThenSumSet(LAMBDA s : Entries[s], Subs) + extra

Happens(s, kind, order, snap) ==
  /\ Len(log[s]) < MaxLog /\ Happenings < MaxHappenings
  /\ log' = [log EXCEPT ![s] = Append(@, [kind |-> kind, order |-> order, snap |-> snap])]
  /\ UNCHANGED <<today, row, refunds, renewed, protection, sync, extra, handled, overtaken, stale>>

Renews(s) ==
  /\ Current(s).state # "revoked"
  /\ Current(s).until < MaxDay
  /\ Happens(s, "renewed", Current(s).order + 1,
             [state |-> "active", until |-> Current(s).until + 1, order |-> Current(s).order + 1])

\* The user cancels, the payment fails, the paid time is over.
Changes(s, state) ==
  /\ Current(s).state \in {"active", "canceled", "hold"}
  /\ \/ state = "canceled" /\ Current(s).state = "active"
     \/ state = "hold" /\ Current(s).state = "active"
     \/ state = "expired" /\ Current(s).until <= today
  /\ Happens(s, "changed", Current(s).order, [Current(s) EXCEPT !.state = state])

\* Google revokes; Apple revokes, or refunds the current period.
Revokes(s) ==
  /\ Current(s).state # "revoked"
  /\ Happens(s, "revoked", Current(s).order, [Current(s) EXCEPT !.state = "revoked"])

\* Google gives the money of a period back and leaves the subscription as it is.
Voids(s) ==
  /\ s \in GoogleSubs
  /\ \E k \in 1..Current(s).order : Happens(s, "voided", k, Current(s))

\* Apple refunds an earlier period: the notification carries that transaction.
RefundsEarlier(s) ==
  /\ s \in AppleSubs
  /\ \E k \in 1..(Current(s).order - 1) : Happens(s, "refunded", k, Current(s))

\* Apple takes a refund back.
RefundReversed(s) ==
  /\ s \in AppleSubs
  /\ Current(s).state = "revoked"
  /\ Happens(s, "changed", Current(s).order, [Current(s) EXCEPT !.state = "active"])

DayPasses ==
  /\ today + 1 < MaxDay
  /\ today' = today + 1
  /\ UNCHANGED <<log, row, refunds, renewed, protection, sync, extra, handled, overtaken, stale>>

-----------------------------------------------------------------------------
(* The service.                                                             *)

\* Somebody else holds the lock of the row.
Locked(s) == \E w \in SyncWorkers : sync[w].at = "open" /\ sync[w].sub = s

Starts(w, job, repeated) ==
  /\ sync[w] = Idle
  /\ sync' = [sync EXCEPT ![w] = job]
  /\ extra' = IF repeated THEN extra + 1 ELSE extra
  /\ repeated => Happenings < MaxHappenings
  /\ UNCHANGED <<today, log, row, refunds, renewed, protection, handled, overtaken, stale>>

\* A notification is delivered, perhaps again.  The Google handler asks for the
\* current state, unless the purchase was voided.
GoogleNotification(w, s, v) ==
  Starts(w, Job("ready", "notification", s, v, 2 * v, Current(s)), v \in handled[s])

AppleNotification(w, s, v) ==
  Starts(w, Job("ready", "notification", s, v, 2 * v, log[s][v].snap), v \in handled[s])

\* registerInitialPurchase at the end of the checkout: the clock is read, then
\* Google is asked.  Apple's purchase comes with the request.
RegisterInitialPurchase(w, s) ==
  /\ row[s] = NoRow
  /\ IF s \in GoogleSubs
       THEN Starts(w, Job("fetch", "register", s, 1, Now(s), FirstEntry.snap), TRUE)
       ELSE Starts(w, Job("ready", "register", s, 1, 2, FirstEntry.snap), TRUE)

\* restoreVerifiedSubscription: Apple signs the current state now.
RestoreVerifiedSubscription(w, s) ==
  /\ s \in AppleSubs
  /\ Starts(w, Job("ready", "restore", s, Len(log[s]), Now(s), Current(s)), TRUE)

\* cancelSubscription: an administrator cancels at Google...
CancelSubscription(w, s) ==
  /\ s \in GoogleSubs
  /\ sync[w] = Idle
  /\ row[s] # NoRow
  /\ Current(s).state = "active"
  /\ Len(log[s]) < MaxLog /\ Happenings + 1 < MaxHappenings
  /\ LET canceled == [Current(s) EXCEPT !.state = "canceled"] IN
       log' = [log EXCEPT ![s] = Append(@, [kind |-> "changed", order |-> canceled.order,
                                            snap |-> canceled])]
  /\ sync' = [sync EXCEPT ![w] = Job("fetch", "cancel", s, Len(log[s]) + 1, 1, Current(s))]
  /\ extra' = extra + 1
  /\ UNCHANGED <<today, row, refunds, renewed, protection, handled, overtaken, stale>>

\* ... and asks Google for the result.
Fetch(w) ==
  /\ sync[w].at = "fetch"
  /\ LET s == sync[w].sub IN
       sync' = [sync EXCEPT ![w].at = "ready", ![w].snap = Current(s),
                            ![w].entry = Len(log[s])]
  /\ UNCHANGED <<today, log, row, refunds, renewed, protection, extra, handled, overtaken, stale>>

\* The time of the event: cancelSubscription reads the clock after the answer.
EventTime(w) == IF sync[w].job = "cancel" THEN Now(sync[w].sub) ELSE sync[w].time

Kind(w) == IF sync[w].job = "notification" THEN log[sync[w].sub][sync[w].entry].kind ELSE "changed"
IsVoid(w) == Kind(w) = "voided"

\* (Mutant: nothing is older than what the row has.)
NeverOlder(w) == FALSE

\* The guard of syncSubscription against notifications out of order.
Older(w) == row[sync[w].sub].time > EventTime(w)

\* (Mutant: whatever has not ended gives access.)
HoldIsActive(w) ==
  /\ Kind(w) \notin {"revoked", "refunded"}
  /\ sync[w].snap.state \in {"active", "canceled", "hold"}

\* projectState: does the user have access until the end of the period?
Projected(w) ==
  LET snap == sync[w].snap IN
  /\ Kind(w) \notin {"revoked", "refunded"}
  /\ IF sync[w].sub \in GoogleSubs
       THEN snap.state = "active" \/ (snap.state = "canceled" /\ snap.until > today)
       ELSE snap.state \in {"active", "canceled"} /\ snap.until > today

\* What a transaction sees of the rows: what is committed, and its own writes.
MaxExpiry(rows) ==
  Max({0} \union {rows[s].until : s \in {r \in Subs : rows[r].active /\ rows[r].until > today}})

\* A transaction that has locked the subscription has written its row and
\* computed the protection; the wallet is locked and written at the commit.
Opens(w, newRow, newRefunds, newRenewed, out) ==
  LET s == sync[w].sub IN
  sync' = [sync EXCEPT ![w] =
             [at |-> "open", job |-> @.job, sub |-> s, entry |-> @.entry,
              row |-> newRow, refunds |-> newRefunds, renewed |-> newRenewed,
              max |-> MaxExpiry([row EXCEPT ![s] = newRow]), late |-> FALSE, out |-> out]]

\* syncSubscription up to the read of the user's rows.
BeginSync(w) ==
  /\ sync[w].at = "ready" /\ ~IsVoid(w)
  /\ ~Locked(sync[w].sub)
  /\ ~Older(w)
  /\ LET s == sync[w].sub
         snap == sync[w].snap
         new == [active |-> Projected(w), until |-> snap.until, time |-> EventTime(w)]
         newest == \A v \in handled[s] : 2 * v <= EventTime(w)
         out == IF Kind(w) = "refunded" \/ (sync[w].job = "cancel" /\ snap # Current(s)) THEN TRUE
                ELSE s \in overtaken /\ ~newest
     IN IF s \in GoogleSubs
          THEN Opens(w, new, refunds[s], [renewed[s] EXCEPT ![snap.order] = snap.until], out)
          ELSE Opens(w, new, {}, <<>>, out)
  /\ UNCHANGED <<today, log, row, refunds, renewed, protection, extra, handled, overtaken, stale>>

\* The entry is older than what the row shows.
IgnoreOlder(w) ==
  /\ sync[w].at = "ready" /\ ~IsVoid(w)
  /\ ~Locked(sync[w].sub)
  /\ Older(w)
  /\ handled' = IF sync[w].job = "notification"
                  THEN [handled EXCEPT ![sync[w].sub] = @ \union {sync[w].entry}] ELSE handled
  /\ sync' = [sync EXCEPT ![w] = Idle]
  /\ UNCHANGED <<today, log, row, refunds, renewed, protection, extra, overtaken, stale>>

\* applyVoidedPurchase ends the access when the initial order is voided, or no
\* other period is paid; up to the read of the user's rows.
BeginVoid(w) ==
  /\ sync[w].at = "ready" /\ IsVoid(w)
  /\ ~Locked(sync[w].sub)
  /\ row[sync[w].sub] # NoRow
  /\ LET s == sync[w].sub
         k == log[s][sync[w].entry].order
         gone == IF renewed[s][k] > 0 THEN refunds[s] \union {k} ELSE refunds[s]
         paid == {o \in 1..MaxLog \ gone : renewed[s][o] > today}
         new == IF k = 1 \/ paid = {}
                  THEN [active |-> FALSE, until |-> today, time |-> sync[w].time]
                  ELSE [active |-> TRUE, until |-> Max({renewed[s][o] : o \in paid}),
                        time |-> sync[w].time]
     IN Opens(w, new, gone, renewed[s], TRUE)
  /\ UNCHANGED <<today, log, row, refunds, renewed, protection, extra, handled, overtaken, stale>>

\* No row yet: the notification is answered as unmatched.
VoidUnmatched(w) ==
  /\ sync[w].at = "ready" /\ IsVoid(w)
  /\ row[sync[w].sub] = NoRow
  /\ ~Locked(sync[w].sub)
  /\ handled' = [handled EXCEPT ![sync[w].sub] = @ \union {sync[w].entry}]
  /\ sync' = [sync EXCEPT ![w] = Idle]
  /\ UNCHANGED <<today, log, row, refunds, renewed, protection, extra, overtaken, stale>>

\* (Mutant: the wallet only ever gets more protection.)
MoreProtection(w) == Max({protection, sync[w].max})

\* What recomputeUnlimitedStreakProtection saves.
NewProtection(w) == sync[w].max

\* recomputeUnlimitedStreakProtection locks and saves the wallet, and the
\* transaction commits.  The others that are open have not seen its row.
Commit(w) ==
  /\ sync[w].at = "open"
  /\ LET t == sync[w]
         s == sync[w].sub
     IN /\ row' = [row EXCEPT ![s] = t.row]
        /\ refunds' = IF s \in GoogleSubs THEN [refunds EXCEPT ![s] = t.refunds] ELSE refunds
        /\ renewed' = IF s \in GoogleSubs THEN [renewed EXCEPT ![s] = t.renewed] ELSE renewed
        /\ protection' = NewProtection(w)
        /\ handled' = IF t.job = "notification" THEN [handled EXCEPT ![s] = @ \union {t.entry}] ELSE handled
        /\ overtaken' = IF t.out THEN overtaken \union {s} ELSE overtaken \ {s}
        /\ stale' = t.late
  /\ sync' = [u \in SyncWorkers |->
                IF u = w THEN Idle
                ELSE IF sync[u].at = "open" THEN [sync[u] EXCEPT !.late = TRUE] ELSE sync[u]]
  /\ UNCHANGED <<today, log, extra>>

SubscriptionsNext ==
  \/ DayPasses
  \/ \E s \in Subs :
       \/ Renews(s) \/ Revokes(s) \/ Voids(s) \/ RefundsEarlier(s) \/ RefundReversed(s)
       \/ \E state \in {"canceled", "hold", "expired"} : Changes(s, state)
  \/ \E w \in SyncWorkers :
       \/ \E s \in GoogleSubs : \E v \in DOMAIN log[s] : GoogleNotification(w, s, v)
       \/ \E s \in AppleSubs : \E v \in DOMAIN log[s] : AppleNotification(w, s, v)
       \/ \E s \in Subs :
            RegisterInitialPurchase(w, s) \/ RestoreVerifiedSubscription(w, s)
              \/ CancelSubscription(w, s)
       \/ Fetch(w) \/ BeginSync(w) \/ IgnoreOlder(w)
       \/ BeginVoid(w) \/ VoidUnmatched(w) \/ Commit(w)

SubscriptionsSpec == SubscriptionsInit /\ [][SubscriptionsNext]_subscriptionVars

-----------------------------------------------------------------------------
(* Properties.                                                              *)

RowAccess(s) == row[s].active /\ row[s].until > today

\* Nothing of the subscription is under way and every entry was handled.
Settled(s) ==
  /\ handled[s] = DOMAIN log[s]
  /\ \A w \in SyncWorkers : sync[w] = Idle \/ sync[w].sub # s

\* Once every notification was handled, in whatever order and however often,
\* the user has access exactly when the provider says so, and as long.  Except
\* when the last word had a void (which trusts the renewals, not Google), the
\* refund of an earlier period (which ends the current one at Apple), or an
\* administrator's cancellation during which something else happened.
RowFollowsProvider ==
  \A s \in Subs \ overtaken :
    Settled(s) /\ row[s] # NoRow =>
      /\ RowAccess(s) <=> ProviderAccess(s)
      /\ RowAccess(s) => row[s].until = Current(s).until

\* The protection in the wallet is that of the rows, except after a transaction
\* that read the rows before another one committed.
WalletFollowsRows ==
  ~stale => IF protection > today THEN protection = MaxExpiry(row) ELSE MaxExpiry(row) = 0

\* The rows are well formed, they follow the provider and the wallet follows them.
SubscriptionsConsistent == SubscriptionsTypeOK /\ RowFollowsProvider /\ WalletFollowsRows
=============================================================================
