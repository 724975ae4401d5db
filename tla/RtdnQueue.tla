------------------------------ MODULE RtdnQueue ------------------------------
(***************************************************************************)
(* The queue of Google Play real-time developer notifications:             *)
(* src/billing/google-play-rtdn/services.  Pub/Sub pushes a message until   *)
(* it is acknowledged; ingest stores it once; the worker of each server     *)
(* claims stored events with SKIP LOCKED and a lease of staleMinutes,       *)
(* handles them and saves the outcome; administrators put events back.      *)
(*                                                                         *)
(* A worker keeps the entity it claimed in memory and saves all of it at    *)
(* the end, whatever has happened to the row since: the save overwrites a   *)
(* status and an attempt count another worker or an administrator wrote.   *)
(***************************************************************************)
EXTENDS Naturals, FiniteSets

CONSTANTS
  Events,       \* Pub/Sub message ids
  Workers,      \* server processes (workerRunning: one batch each)
  Admins,       \* administrators' retry requests
  NoEvent,
  MaxAttempts,  \* GOOGLE_PLAY_RTDN_MAX_ATTEMPTS
  MaxFaults,    \* bound on crashes and failed saves
  MaxRetries    \* bound on administrators' requests

ASSUME AttemptsAssumption == MaxAttempts \in Nat \ {0}
ASSUME NoEventAssumption == NoEvent \notin Events
ASSUME BoundsAssumption == MaxFaults \in Nat /\ MaxRetries \in Nat

VARIABLES
  event,     \* the status column, "absent" before the row exists
  attempts,  \* attemptCount
  due,       \* nextAttemptAt <= now
  stale,     \* processingStartedAt <= now - staleMinutes
  handled,   \* history: a handler of the event has run to its end
  lapsed,    \* history: a handler outlived its lease, or the event was reset
  wpc,       \* where a worker is
  wEvent,    \* the event it claimed
  wAttempts, \* attemptCount of its copy
  asked,     \* the ids an administrator's request selected
  faults, retries

rowVars == <<event, attempts, due, stale>>
workerVars == <<wpc, wEvent, wAttempts>>
boundVars == <<faults, retries>>
vars == <<rowVars, handled, lapsed, workerVars, asked, boundVars>>

-----------------------------------------------------------------------------
Statuses == {"absent", "pending", "processing", "processed", "failed", "dead_letter"}

TypeOK ==
  /\ event \in [Events -> Statuses]
  /\ attempts \in [Events -> 0..MaxAttempts]
  /\ due \in [Events -> BOOLEAN]
  /\ stale \in [Events -> BOOLEAN]
  /\ handled \in [Events -> BOOLEAN]
  /\ lapsed \in [Events -> BOOLEAN]
  /\ wpc \in [Workers -> {"idle", "handling", "succeeded", "threw"}]
  /\ wEvent \in [Workers -> Events \union {NoEvent}]
  /\ wAttempts \in [Workers -> 0..MaxAttempts]
  /\ asked \in [Admins -> SUBSET Events]
  /\ faults \in 0..MaxFaults
  /\ retries \in 0..MaxRetries

Init ==
  /\ event = [e \in Events |-> "absent"]
  /\ attempts = [e \in Events |-> 0]
  /\ due = [e \in Events |-> FALSE]
  /\ stale = [e \in Events |-> FALSE]
  /\ handled = [e \in Events |-> FALSE]
  /\ lapsed = [e \in Events |-> FALSE]
  /\ wpc = [w \in Workers |-> "idle"]
  /\ wEvent = [w \in Workers |-> NoEvent]
  /\ wAttempts = [w \in Workers |-> 0]
  /\ asked = [a \in Admins |-> {}]
  /\ faults = 0
  /\ retries = 0

-----------------------------------------------------------------------------
\* ingest: the row is inserted; a message delivered again finds its unique
\* messageId, is answered and changes nothing.
Ingest(e) ==
  /\ event[e] = "absent"
  /\ event' = [event EXCEPT ![e] = "pending"]
  /\ due' = [due EXCEPT ![e] = TRUE]
  /\ UNCHANGED <<attempts, stale, handled, lapsed, workerVars, asked, boundVars>>

\* The next attempt of a failed event comes due.
BackoffEnds(e) ==
  /\ event[e] = "failed" /\ ~due[e]
  /\ due' = [due EXCEPT ![e] = TRUE]
  /\ UNCHANGED <<event, attempts, stale, handled, lapsed, workerVars, asked, boundVars>>

\* staleMinutes go by since the event was claimed.
LeaseEnds(e) ==
  /\ event[e] = "processing" /\ ~stale[e]
  /\ stale' = [stale EXCEPT ![e] = TRUE]
  /\ lapsed' = [lapsed EXCEPT ![e] = @ \/ \E w \in Workers : wEvent[w] = e]
  /\ UNCHANGED <<event, attempts, due, handled, workerVars, asked, boundVars>>

-----------------------------------------------------------------------------
\* (Mutants: no lease; no recovery of a lost claim.)
ClaimableLeased(e) ==
  /\ event[e] \in {"pending", "processing"} \/ (event[e] = "failed" /\ due[e])
  /\ attempts[e] < MaxAttempts

ClaimableWaiting(e) ==
  /\ event[e] = "pending" \/ (event[e] = "failed" /\ due[e])
  /\ attempts[e] < MaxAttempts

\* claimNextEvent, one transaction with the row locked.
Claimable(e) ==
  /\ \/ event[e] = "pending"
     \/ event[e] = "failed" /\ due[e]
     \/ event[e] = "processing" /\ stale[e]
  /\ attempts[e] < MaxAttempts

Claim(w, e) ==
  /\ wpc[w] = "idle"
  /\ Claimable(e)
  /\ event' = [event EXCEPT ![e] = "processing"]
  /\ attempts' = [attempts EXCEPT ![e] = @ + 1]
  /\ due' = [due EXCEPT ![e] = FALSE]
  /\ stale' = [stale EXCEPT ![e] = FALSE]
  /\ wpc' = [wpc EXCEPT ![w] = "handling"]
  /\ wEvent' = [wEvent EXCEPT ![w] = e]
  /\ wAttempts' = [wAttempts EXCEPT ![w] = attempts[e] + 1]
  /\ UNCHANGED <<handled, lapsed, asked, boundVars>>

\* processNotification returns, or throws.
Handle(w) ==
  /\ wpc[w] = "handling"
  /\ \/ /\ wpc' = [wpc EXCEPT ![w] = "succeeded"]
        /\ handled' = [handled EXCEPT ![wEvent[w]] = TRUE]
     \/ /\ wpc' = [wpc EXCEPT ![w] = "threw"]
        /\ UNCHANGED handled
  /\ UNCHANGED <<rowVars, lapsed, wEvent, wAttempts, asked, boundVars>>

\* save(event): every column of the worker's copy reaches the row.
SaveCopy(w, to) ==
  LET e == wEvent[w]
  IN /\ event' = [event EXCEPT ![e] = to]
     /\ attempts' = [attempts EXCEPT ![e] = wAttempts[w]]
     /\ due' = [due EXCEPT ![e] = FALSE]
     /\ stale' = [stale EXCEPT ![e] = FALSE]
     /\ wpc' = [wpc EXCEPT ![w] = "idle"]
     /\ wEvent' = [wEvent EXCEPT ![w] = NoEvent]
     /\ wAttempts' = [wAttempts EXCEPT ![w] = 0]
     /\ UNCHANGED <<handled, lapsed, asked, boundVars>>

\* (Mutants: an exception is swallowed; one attempt too many is left.)
SaveProcessedAnyway(w) == wpc[w] \in {"succeeded", "threw"} /\ SaveCopy(w, "processed")

SaveFailureOnceMore(w) ==
  /\ wpc[w] = "threw"
  /\ SaveCopy(w, IF wAttempts[w] > MaxAttempts THEN "dead_letter" ELSE "failed")

\* processClaimedEvent after a handler that returned.
SaveProcessed(w) == wpc[w] = "succeeded" /\ SaveCopy(w, "processed")

\* markProcessingFailure.
SaveFailure(w) ==
  /\ wpc[w] = "threw"
  /\ SaveCopy(w, IF wAttempts[w] >= MaxAttempts THEN "dead_letter" ELSE "failed")

\* Saving PROCESSED throws inside the try block: the event counts as failed.
SaveThrows(w) ==
  /\ wpc[w] = "succeeded"
  /\ faults < MaxFaults
  /\ faults' = faults + 1
  /\ wpc' = [wpc EXCEPT ![w] = "threw"]
  /\ UNCHANGED <<rowVars, handled, lapsed, wEvent, wAttempts, asked, retries>>

\* The server stops, or the save of a failure throws: the claim is left behind.
Crash(w) ==
  /\ wpc[w] # "idle"
  /\ faults < MaxFaults
  /\ faults' = faults + 1
  /\ wpc' = [wpc EXCEPT ![w] = "idle"]
  /\ wEvent' = [wEvent EXCEPT ![w] = NoEvent]
  /\ wAttempts' = [wAttempts EXCEPT ![w] = 0]
  /\ UNCHANGED <<rowVars, handled, lapsed, asked, retries>>

-----------------------------------------------------------------------------
\* retryEvent reads the event and refuses a PROCESSED one; retryFailedEvents
\* selects the FAILED ones and, if asked to, the DEAD_LETTER ones.
RetrySelect(a) ==
  /\ asked[a] = {}
  /\ retries < MaxRetries
  /\ retries' = retries + 1
  /\ \/ \E e \in Events :
          /\ event[e] \notin {"absent", "processed"}
          /\ asked' = [asked EXCEPT ![a] = {e}]
     \/ \E statuses \in {{"failed"}, {"failed", "dead_letter"}} :
          asked' = [asked EXCEPT ![a] = {e \in Events : event[e] \in statuses}]
  /\ UNCHANGED <<rowVars, handled, lapsed, workerVars, faults>>

\* Both then update the rows by id, without looking at the status again.
RetryUpdate(a) ==
  LET ids == asked[a]
  IN /\ ids # {}
     /\ event' = [e \in Events |-> IF e \in ids THEN "pending" ELSE event[e]]
     /\ attempts' = [e \in Events |-> IF e \in ids THEN 0 ELSE attempts[e]]
     /\ due' = [e \in Events |-> e \in ids \/ due[e]]
     /\ stale' = [e \in Events |-> e \notin ids /\ stale[e]]
     /\ lapsed' = [e \in Events |-> e \in ids \/ lapsed[e]]
     /\ asked' = [asked EXCEPT ![a] = {}]
     /\ UNCHANGED <<handled, workerVars, boundVars>>

-----------------------------------------------------------------------------
WorkerStep(w) == Handle(w) \/ SaveProcessed(w) \/ SaveFailure(w)

Next ==
  \/ \E e \in Events : Ingest(e) \/ BackoffEnds(e) \/ LeaseEnds(e)
  \/ \E w \in Workers :
       \/ \E e \in Events : Claim(w, e)
       \/ WorkerStep(w)
       \/ SaveThrows(w)
       \/ Crash(w)
  \/ \E a \in Admins : RetrySelect(a) \/ RetryUpdate(a)

Spec == Init /\ [][Next]_vars

\* The cron fires every ten seconds on a server that is up, handlers end, time
\* goes by.
Fairness ==
  /\ \A w \in Workers : WF_vars(WorkerStep(w))
  /\ \A e \in Events :
       /\ WF_vars(\E w \in Workers : Claim(w, e))
       /\ WF_vars(BackoffEnds(e))
       /\ WF_vars(LeaseEnds(e))
  /\ \A a \in Admins : WF_vars(RetryUpdate(a))

FairSpec == Spec /\ Fairness

-----------------------------------------------------------------------------
(* Properties.                                                              *)

\* An event is PROCESSED only if a handler of it ran to its end, although a
\* worker that lost its lease and one that failed save over each other.
ProcessedWasHandled == \A e \in Events : event[e] = "processed" => handled[e]

\* An event that waits for an attempt has one left: the attempt count a late
\* worker writes back never strands an event as FAILED or PENDING.
WaitingIsClaimable ==
  \A e \in Events : event[e] \in {"pending", "failed"} => attempts[e] < MaxAttempts

\* One worker at a time handles an event, unless a handler outlived its lease
\* or an administrator reset the event under it.
HandlersExclusive ==
  \A v, w \in Workers :
    wEvent[v] # NoEvent /\ wEvent[v] = wEvent[w] /\ ~lapsed[wEvent[v]] => v = w

\* The event table is a work queue: what waits can be claimed, what is claimed
\* has one worker, and what is done was handled (claimNextEvent and the saves of processClaimedEvent).
RtdnConsistent ==
  /\ TypeOK
  /\ ProcessedWasHandled
  /\ WaitingIsClaimable
  /\ HandlersExclusive

\* Under the same condition PROCESSED is final, and so is DEAD_LETTER: the
\* whole-row saves of workers overtake each other in no other way.
OutcomeIsFinal ==
  \A e \in Events :
    event[e] \in {"processed", "dead_letter"} /\ ~lapsed'[e] => event'[e] = event[e]

\* Every stored event is settled, except one whose worker died during its last
\* allowed attempt: that one stays PROCESSING, which claimNextEvent skips for
\* its attempt count and retryFailedEvents for its status.
StoredIsSettled ==
  \A e \in Events :
    event[e] # "absent" ~>
      \/ event[e] \in {"processed", "dead_letter"}
      \/ /\ event[e] = "processing" /\ attempts[e] = MaxAttempts
         /\ \A w \in Workers : wEvent[w] # e

\* The notifications do their work: the table is consistent throughout, and an
\* outcome that is saved stays (processClaimedEvent, claimNextEvent).
NotificationsDoTheirWork == [][RtdnConsistent' /\ OutcomeIsFinal]_vars
=============================================================================
