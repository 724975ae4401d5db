----------------------------- MODULE LiveSummaries -----------------------------
(***************************************************************************)
(* The summaries of live voice sessions:                                    *)
(* src/ai-tutor/ai-tutor-live-session.service.ts, with the withdrawal of     *)
(* consent in src/ai-consent.                                               *)
(*                                                                         *)
(* A cron job reads the ten least recently updated open sessions, claims     *)
(* the due ones under a lease, asks Gemini for a summary outside any         *)
(* transaction and commits it.  Ticks overlap: nothing waits for the         *)
(* previous one, and there may be several servers.  Meanwhile the client     *)
(* records transcript events, ends the session, and records late events.     *)
(***************************************************************************)
EXTENDS Naturals, FiniteSets, Sequences, SequencesExt

CONSTANTS
  Sessions,
  Events,       \* the transcript events of a session
  Ticks,        \* ticks of the cron job that may overlap
  NoSession,
  BatchSize,    \* 10 in the code
  MaxAttempts,  \* 3 in the code
  MaxFaults     \* bound on crashes, exceptions and long leases that run out

ASSUME LiveAssumption ==
  /\ NoSession \notin Sessions
  /\ BatchSize \in Nat \ {0}
  /\ MaxAttempts \in Nat \ {0}
  /\ MaxFaults \in Nat

VARIABLES
  status,     \* ai_tutor_live_sessions.status, "none" before the row exists
  lease,      \* summaryLeaseUntil: past ("free"), seconds or minutes away
  pending,    \* pendingTranscript
  accepted,   \* processedEventIds
  attempts,   \* summaryAttemptCount
  rolling,    \* the events that rollingSummary tells of
  final,      \* the events that finalSummary tells of
  recent,     \* endedAt is less than two minutes ago
  consent,    \* the user's consent stands
  queue,      \* the open sessions by updatedAt
  tpc, tBatch, tSession,
  tFinal, tTranscript, tRolling,  \* the copy a tick has claimed
  late,       \* history: an event was accepted during the final summary
  overlapped, \* history: two ticks were on the session
  faults

sessionVars == <<status, lease, pending, accepted, attempts, rolling, final, recent, queue>>
tickVars == <<tpc, tBatch, tSession, tFinal, tTranscript, tRolling>>
historyVars == <<late, overlapped>>
vars == <<sessionVars, consent, tickVars, historyVars, faults>>

-----------------------------------------------------------------------------
Statuses == {"none", "active", "finalizing", "completed", "failed"}
Open == {"active", "finalizing"}
TickSteps == {"idle", "batch", "claimed", "summarizing", "writing", "threw"}

TypeOK ==
  /\ status \in [Sessions -> Statuses]
  /\ lease \in [Sessions -> {"free", "short", "long"}]
  /\ pending \in [Sessions -> SUBSET Events]
  /\ accepted \in [Sessions -> SUBSET Events]
  /\ attempts \in [Sessions -> 0..MaxFaults]
  /\ rolling \in [Sessions -> SUBSET Events]
  /\ final \in [Sessions -> SUBSET Events]
  /\ recent \in [Sessions -> BOOLEAN]
  /\ consent \in [Sessions -> BOOLEAN]
  /\ queue \in Seq({s \in Sessions : status[s] \in Open})
  /\ tpc \in [Ticks -> TickSteps]
  /\ tBatch \in [Ticks -> SUBSET Sessions]
  /\ tSession \in [Ticks -> Sessions \union {NoSession}]
  /\ tFinal \in [Ticks -> BOOLEAN]
  /\ tTranscript \in [Ticks -> SUBSET Events]
  /\ tRolling \in [Ticks -> SUBSET Events]
  /\ late \in [Sessions -> BOOLEAN]
  /\ overlapped \in [Sessions -> BOOLEAN]
  /\ faults \in 0..MaxFaults

Init ==
  /\ status = [s \in Sessions |-> "none"]
  /\ lease = [s \in Sessions |-> "free"]
  /\ pending = [s \in Sessions |-> {}]
  /\ accepted = [s \in Sessions |-> {}]
  /\ attempts = [s \in Sessions |-> 0]
  /\ rolling = [s \in Sessions |-> {}]
  /\ final = [s \in Sessions |-> {}]
  /\ recent = [s \in Sessions |-> FALSE]
  /\ consent = [s \in Sessions |-> TRUE]
  /\ queue = <<>>
  /\ tpc = [t \in Ticks |-> "idle"]
  /\ tBatch = [t \in Ticks |-> {}]
  /\ tSession = [t \in Ticks |-> NoSession]
  /\ tFinal = [t \in Ticks |-> FALSE]
  /\ tTranscript = [t \in Ticks |-> {}]
  /\ tRolling = [t \in Ticks |-> {}]
  /\ late = [s \in Sessions |-> FALSE]
  /\ overlapped = [s \in Sessions |-> FALSE]
  /\ faults = 0

\* A write of a session's row: it moves to the end of the open sessions, or
\* leaves them.
Touch(s, st) ==
  LET others == RemoveFirst(queue, s)
  IN /\ status' = [status EXCEPT ![s] = st]
     /\ queue' = IF st \in Open THEN Append(others, s) ELSE others

Fault == faults < MaxFaults /\ faults' = faults + 1

On(s) == {t \in Ticks : tSession[t] = s}

-----------------------------------------------------------------------------
(* The client and the user.                                                 *)

Create(s) ==
  /\ status[s] = "none"
  /\ consent[s]
  /\ Touch(s, "active")
  /\ UNCHANGED <<lease, pending, accepted, attempts, rolling, final, recent,
                 consent, tickVars, historyVars, faults>>

\* recordEvents, under the row lock: a new event or a repeated one.
RecordEvent(s, e) ==
  /\ status[s] = "active" \/ (status[s] = "finalizing" /\ recent[s])
  /\ e \notin accepted[s] \/ status[s] = "finalizing"
  /\ accepted' = [accepted EXCEPT ![s] = @ \union {e}]
  /\ pending' = [pending EXCEPT ![s] = IF e \in accepted[s] THEN @ ELSE @ \union {e}]
  /\ lease' = [lease EXCEPT ![s] = IF status[s] = "finalizing" THEN "short" ELSE @]
  /\ late' = [late EXCEPT ![s] =
                @ \/ (e \notin accepted[s] /\ \E t \in On(s) : tFinal[t])]
  /\ Touch(s, status[s])
  /\ UNCHANGED <<attempts, rolling, final, recent, consent, tickVars, overlapped, faults>>

\* updateActiveSeconds.
Heartbeat(s) ==
  /\ status[s] = "active"
  /\ Touch(s, "active")
  /\ UNCHANGED <<lease, pending, accepted, attempts, rolling, final, recent,
                 consent, tickVars, historyVars, faults>>

\* markForFinalSummary: it also shortens the lease of a tick that has the session.
MarkForFinalSummary(s) ==
  /\ status[s] = "active"
  /\ Touch(s, "finalizing")
  /\ lease' = [lease EXCEPT ![s] = "short"]
  /\ recent' = [recent EXCEPT ![s] = TRUE]
  /\ UNCHANGED <<pending, accepted, attempts, rolling, final, consent, tickVars,
                 historyVars, faults>>

\* revoke: the consent first, then the sessions, in another transaction.
WithdrawConsent(s) ==
  /\ consent[s]
  /\ consent' = [consent EXCEPT ![s] = FALSE]
  /\ UNCHANGED <<sessionVars, tickVars, historyVars, faults>>

\* The session is failed and its transcript discarded.
Discard(s) ==
  /\ Touch(s, "failed")
  /\ lease' = [lease EXCEPT ![s] = "free"]
  /\ pending' = [pending EXCEPT ![s] = {}]
  /\ UNCHANGED <<accepted, attempts, rolling, final>>

RevokeSession(s) ==
  /\ ~consent[s]
  /\ status[s] = "active"
  /\ Discard(s)
  /\ UNCHANGED <<recent, consent, tickVars, historyVars, faults>>

-----------------------------------------------------------------------------
(* Time.                                                                    *)

TwoMinutesPass(s) ==
  /\ recent[s]
  /\ recent' = [recent EXCEPT ![s] = FALSE]
  /\ UNCHANGED <<status, lease, pending, accepted, attempts, rolling, final, queue,
                 consent, tickVars, historyVars, faults>>

\* Fifteen and three seconds pass during a request to Gemini, which may take
\* twenty; ninety only if a tick hangs.
LeaseEnds(s) ==
  /\ lease[s] # "free"
  /\ lease' = [lease EXCEPT ![s] = "free"]
  /\ IF lease[s] = "long" /\ On(s) # {} THEN Fault ELSE UNCHANGED faults
  /\ UNCHANGED <<status, pending, accepted, attempts, rolling, final, recent, queue,
                 consent, tickVars, historyVars>>

-----------------------------------------------------------------------------
(* A tick of the cron job.                                                  *)

\* It is done with its session and goes on to the next of its batch.
GoOn(t) ==
  /\ tpc' = [tpc EXCEPT ![t] = IF tBatch[t] = {} THEN "idle" ELSE "batch"]
  /\ tSession' = [tSession EXCEPT ![t] = NoSession]
  /\ tFinal' = [tFinal EXCEPT ![t] = FALSE]
  /\ tTranscript' = [tTranscript EXCEPT ![t] = {}]
  /\ tRolling' = [tRolling EXCEPT ![t] = {}]
  /\ UNCHANGED tBatch

Proceed(t, step) ==
  /\ tpc' = [tpc EXCEPT ![t] = step]
  /\ UNCHANGED <<tBatch, tSession, tFinal, tTranscript, tRolling>>

\* (Mutant: only sessions in use are due.)
DueInUse(s) == lease[s] = "free" /\ status[s] = "active" /\ pending[s] # {}

\* isDue; the interval of active seconds may have passed or not.
Due(s) ==
  /\ lease[s] = "free"
  /\ \/ status[s] = "finalizing"
     \/ status[s] = "active" /\ pending[s] # {}

\* processDueSummaries: the batch is read and filtered.
ReadBatch(t) ==
  LET oldest == {queue[i] : i \in {j \in DOMAIN queue : j <= BatchSize}}
      due == {s \in oldest : Due(s)}
  IN /\ tpc[t] = "idle"
     /\ \E b \in SUBSET due :
          /\ {s \in due : status[s] = "finalizing"} \subseteq b
          /\ b # {}
          /\ tBatch' = [tBatch EXCEPT ![t] = b]
     /\ tpc' = [tpc EXCEPT ![t] = "batch"]
     /\ UNCHANGED <<sessionVars, consent, tSession, tFinal, tTranscript, tRolling,
                    historyVars, faults>>

\* claim: a conditional UPDATE, then the row is read.
Claim(t, s) ==
  /\ tpc[t] = "batch"
  /\ s \in tBatch[t]
  /\ tBatch' = [tBatch EXCEPT ![t] = @ \ {s}]
  /\ IF lease[s] = "free" /\ status[s] \in Open
     THEN /\ lease' = [lease EXCEPT ![s] = "long"]
          /\ Touch(s, status[s])
          /\ tpc' = [tpc EXCEPT ![t] = "claimed"]
          /\ tSession' = [tSession EXCEPT ![t] = s]
          /\ tFinal' = [tFinal EXCEPT ![t] = status[s] = "finalizing"]
          /\ tTranscript' = [tTranscript EXCEPT ![t] = pending[s]]
          /\ tRolling' = [tRolling EXCEPT ![t] = rolling[s]]
          /\ overlapped' = [overlapped EXCEPT ![s] = @ \/ On(s) # {}]
     ELSE /\ tpc' = [tpc EXCEPT ![t] = IF tBatch[t] = {s} THEN "idle" ELSE "batch"]
          /\ UNCHANGED <<status, queue, lease, tSession, tFinal, tTranscript, tRolling,
                         overlapped>>
  /\ UNCHANGED <<pending, accepted, attempts, rolling, final, recent, consent, late, faults>>

\* processSummary before the request: consent withdrawn, nothing to do, or go on.
CheckConsent(t) ==
  LET s == tSession[t]
  IN /\ tpc[t] = "claimed"
     /\ \/ ~consent[s] /\ Discard(s) /\ GoOn(t)
        \/ /\ consent[s] /\ tTranscript[t] = {} /\ ~tFinal[t]
           /\ lease' = [lease EXCEPT ![s] = "free"]
           /\ Touch(s, status[s])
           /\ GoOn(t)
           /\ UNCHANGED <<pending, accepted, attempts, rolling, final>>
        \/ /\ consent[s] /\ (tTranscript[t] # {} \/ tFinal[t])
           /\ Proceed(t, "summarizing")
           /\ UNCHANGED <<status, queue, lease, pending, accepted, attempts, rolling, final>>
     /\ UNCHANGED <<recent, consent, historyVars, faults>>

\* Gemini answers; without a transcript it is not asked.
Summarize(t) ==
  /\ tpc[t] = "summarizing"
  /\ Proceed(t, "writing")
  /\ UNCHANGED <<sessionVars, consent, historyVars, faults>>

\* Gemini or a statement throws.
Throw(t) ==
  /\ tpc[t] \in {"claimed", "summarizing", "writing"}
  /\ Fault
  /\ Proceed(t, "threw")
  /\ UNCHANGED <<sessionVars, consent, historyVars>>

\* (Mutant: the transcript is emptied, not reduced by what was summarized.)
CommitAll(t) ==
  LET s == tSession[t]
      summary == tRolling[t] \union tTranscript[t]
  IN /\ tpc[t] = "writing"
     /\ pending' = [pending EXCEPT ![s] = {}]
     /\ rolling' = [rolling EXCEPT ![s] = summary]
     /\ attempts' = [attempts EXCEPT ![s] = 0]
     /\ lease' = [lease EXCEPT ![s] = "free"]
     /\ final' = [final EXCEPT ![s] = IF tFinal[t] THEN summary ELSE @]
     /\ Touch(s, IF tFinal[t] THEN "completed" ELSE status[s])
     /\ GoOn(t)
     /\ UNCHANGED <<accepted, recent, consent, historyVars, faults>>

\* (Mutant: the session is completed as it is when the summary is written.)
CommitAsFound(t) ==
  LET s == tSession[t]
      summary == tRolling[t] \union tTranscript[t]
      done == status[s] = "finalizing"
  IN /\ tpc[t] = "writing"
     /\ pending' = [pending EXCEPT ![s] = @ \ tTranscript[t]]
     /\ rolling' = [rolling EXCEPT ![s] = summary]
     /\ attempts' = [attempts EXCEPT ![s] = 0]
     /\ lease' = [lease EXCEPT ![s] = "free"]
     /\ final' = [final EXCEPT ![s] = IF done THEN summary ELSE @]
     /\ Touch(s, IF done THEN "completed" ELSE status[s])
     /\ GoOn(t)
     /\ UNCHANGED <<accepted, recent, consent, historyVars, faults>>

\* The summary is written under the row lock, unless the session has failed;
\* the learner's memory and profile are merged in the same transaction.
Commit(t) ==
  LET s == tSession[t]
      summary == tRolling[t] \union tTranscript[t]
  IN /\ tpc[t] = "writing"
     /\ IF status[s] = "failed"
        THEN UNCHANGED <<status, queue, lease, pending, attempts, rolling, final>>
        ELSE /\ pending' = [pending EXCEPT ![s] = @ \ tTranscript[t]]
             /\ rolling' = [rolling EXCEPT ![s] = summary]
             /\ attempts' = [attempts EXCEPT ![s] = 0]
             /\ lease' = [lease EXCEPT ![s] = "free"]
             /\ final' = [final EXCEPT ![s] = IF tFinal[t] THEN summary ELSE @]
             /\ Touch(s, IF tFinal[t] THEN "completed" ELSE status[s])
     /\ GoOn(t)
     /\ UNCHANGED <<accepted, recent, consent, historyVars, faults>>

\* recordSummaryFailure, under the row lock.
RecordFailure(t) ==
  LET s == tSession[t]
      last == status[s] = "finalizing" /\ attempts[s] + 1 >= MaxAttempts
  IN /\ tpc[t] = "threw"
     /\ attempts' = [attempts EXCEPT ![s] = @ + 1]
     /\ Touch(s, IF last THEN "failed" ELSE status[s])
     /\ lease' = [lease EXCEPT ![s] = IF last THEN "free" ELSE "long"]
     /\ GoOn(t)
     /\ UNCHANGED <<pending, accepted, rolling, final, recent, consent, historyVars, faults>>

\* The server stops: the lease stays.
Crash(t) ==
  /\ tpc[t] # "idle"
  /\ Fault
  /\ tpc' = [tpc EXCEPT ![t] = "idle"]
  /\ tBatch' = [tBatch EXCEPT ![t] = {}]
  /\ tSession' = [tSession EXCEPT ![t] = NoSession]
  /\ tFinal' = [tFinal EXCEPT ![t] = FALSE]
  /\ tTranscript' = [tTranscript EXCEPT ![t] = {}]
  /\ tRolling' = [tRolling EXCEPT ![t] = {}]
  /\ UNCHANGED <<sessionVars, consent, historyVars>>

-----------------------------------------------------------------------------
TickStep(t) ==
  \/ \E s \in Sessions : Claim(t, s)
  \/ CheckConsent(t) \/ Summarize(t) \/ Commit(t) \/ RecordFailure(t)

Next ==
  \/ \E s \in Sessions :
       \/ Create(s) \/ Heartbeat(s) \/ MarkForFinalSummary(s)
       \/ WithdrawConsent(s) \/ RevokeSession(s)
       \/ TwoMinutesPass(s) \/ LeaseEnds(s)
       \/ \E e \in Events : RecordEvent(s, e)
  \/ \E t \in Ticks : ReadBatch(t) \/ TickStep(t) \/ Throw(t) \/ Crash(t)

Spec == Init /\ [][Next]_vars

\* The cron job ticks, ticks go on, and time goes by.
Fairness ==
  /\ \A t \in Ticks : SF_vars(ReadBatch(t)) /\ WF_vars(TickStep(t))
  /\ \A s \in Sessions : WF_vars(TwoMinutesPass(s)) /\ SF_vars(LeaseEnds(s))

FairSpec == Spec /\ Fairness

-----------------------------------------------------------------------------
(* Properties.                                                              *)

\* While one tick at a time summarizes a session, an event that was accepted is
\* told of in the rolling summary or still pending, whenever it came.
NothingForgotten ==
  \A s \in Sessions :
    status[s] # "failed" /\ ~overlapped[s] => accepted[s] \subseteq pending[s] \union rolling[s]

\* The final summary of a completed session tells of every event accepted before
\* it was begun, even if it was ended during a summary; a late event
\* accepted during the final summary is never summarized.
FinalSummaryIsWhole ==
  \A s \in Sessions :
    status[s] = "completed" /\ ~overlapped[s] /\ ~late[s] => accepted[s] \subseteq final[s]

\* The sessions are well formed, their summaries forget nothing and the final
\* ones are whole.
SummariesConsistent == TypeOK /\ NothingForgotten /\ FinalSummaryIsWhole

\* An ended session is completed or failed in the end, if there come to be fewer
\* ACTIVE sessions than a batch holds: ACTIVE sessions that are abandoned stay the
\* least recently updated ones for ever and keep all others out of the batch.
EndedIsSettled ==
  <>[](Cardinality({s \in Sessions : status[s] = "active"}) < BatchSize) =>
    \A s \in Sessions :
      status[s] = "finalizing" ~> status[s] \in {"completed", "failed"}
=============================================================================
