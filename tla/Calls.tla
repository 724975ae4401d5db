-------------------------------- MODULE Calls --------------------------------
(***************************************************************************)
(* One-to-one calls: src/calls/services/call.service.ts, with the ringing   *)
(* timers of call-orchestrator.service.ts.                                  *)
(*                                                                         *)
(* Answer, reject, cancel, end and timeout each read the call, check its    *)
(* status and save the copy, without a lock or a condition on the UPDATE:   *)
(* two such requests interleave between the read and the save, and the      *)
(* later save wins.  Heartbeats and the two expiries are conditional        *)
(* UPDATEs, hence atomic.  A call's row is keyed by the caller's            *)
(* clientCallId, so that caller and receiver are functions of the call.     *)
(***************************************************************************)
EXTENDS Naturals, FiniteSets

CONSTANTS
  Users, Calls, NoCall,
  CallerOf, ReceiverOf,  \* the participants of a call
  Requests,              \* requests and timer callbacks that run at a time
  MaxCallFaults              \* bound on restarts and failed saves

ASSUME PartiesAssumption ==
  /\ NoCall \notin Calls
  /\ CallerOf \in [Calls -> Users]
  /\ ReceiverOf \in [Calls -> Users]
  /\ \A c \in Calls : CallerOf[c] # ReceiverOf[c]
ASSUME FaultAssumption == MaxCallFaults \in Nat

VARIABLES
  call,     \* the status column, "none" before the row exists
  old,      \* createdAt is more than 60 s ago
  beat,     \* lastHeartbeatAt: NULL, less or more than 90 s ago
  timer,    \* ringingTimeouts: the in-memory timer of the call is armed
  reqPc,       \* where a request is
  target,   \* the call it works on
  goal,     \* the status it will save
  rBeat,    \* lastHeartbeatAt of its copy
  answered, \* history: the call has been ACTIVE
  callFaults

requestVars == <<reqPc, target, goal, rBeat>>
callVars == <<call, old, beat, timer, requestVars, answered, callFaults>>

-----------------------------------------------------------------------------
Ongoing == {"ringing", "active"}
Final == {"rejected", "cancelled", "ended", "missed", "failed"}
CallStatuses == {"none"} \union Ongoing \union Final
Beats == {"null", "recent", "late"}

Parties(c) == {CallerOf[c], ReceiverOf[c]}

\* (Mutant: only the caller is looked up.)
BlockingCaller(c) == {d \in Calls : call[d] \in Ongoing /\ CallerOf[c] \in Parties(d)}

\* The ongoing calls assertUsersAreNotBusy finds for the parties of c.
Blocking(c) == {d \in Calls : call[d] \in Ongoing /\ Parties(d) \intersect Parties(c) # {}}

CallsTypeOK ==
  /\ call \in [Calls -> CallStatuses]
  /\ old \in [Calls -> BOOLEAN]
  /\ beat \in [Calls -> Beats]
  /\ timer \in [Calls -> BOOLEAN]
  /\ reqPc \in [Requests -> {"idle", "lookup", "insert", "save"}]
  /\ target \in [Requests -> Calls \union {NoCall}]
  /\ goal \in [Requests -> CallStatuses]
  /\ rBeat \in [Requests -> Beats]
  /\ answered \in [Calls -> BOOLEAN]
  /\ callFaults \in 0..MaxCallFaults

CallsInit ==
  /\ call = [c \in Calls |-> "none"]
  /\ old = [c \in Calls |-> FALSE]
  /\ beat = [c \in Calls |-> "null"]
  /\ timer = [c \in Calls |-> FALSE]
  /\ reqPc = [r \in Requests |-> "idle"]
  /\ target = [r \in Requests |-> NoCall]
  /\ goal = [r \in Requests |-> "none"]
  /\ rBeat = [r \in Requests |-> "null"]
  /\ answered = [c \in Calls |-> FALSE]
  /\ callFaults = 0

RequestGoto(r, step, c, to, b) ==
  /\ reqPc' = [reqPc EXCEPT ![r] = step]
  /\ target' = [target EXCEPT ![r] = c]
  /\ goal' = [goal EXCEPT ![r] = to]
  /\ rBeat' = [rBeat EXCEPT ![r] = b]

Done(r) == RequestGoto(r, "idle", NoCall, "none", "null")

-----------------------------------------------------------------------------
(* createRingingCall and scheduleRingingTimeout.                            *)

\* (Mutant: the expiry does not look at the status.)
SilentOngoing(c) == call[c] \in Ongoing /\ beat[c] \in {"late", "null"}

\* expireStaleActiveCalls: no heartbeat for 90 s, or none at all for 12 hours.
Silent(c) == call[c] = "active" /\ beat[c] \in {"late", "null"}

\* (Mutant: the busy check comes before the expiry.)
InitiateExpireLast(r, c) ==
  /\ reqPc[r] = "idle"
  /\ Blocking(c) = {}
  /\ RequestGoto(r, "lookup", c, "none", "null")
  /\ UNCHANGED <<call, old, beat, timer, answered, callFaults>>

\* expireStaleRingingCalls and expireStaleActiveCalls, conditional UPDATEs.
InitiateExpire(r, c) ==
  /\ reqPc[r] = "idle"
  /\ \E silent \in SUBSET {d \in Calls : Silent(d) /\ beat[d] = "null"} :
       call' = [d \in Calls |->
                  CASE call[d] = "ringing" /\ old[d] -> "missed"
                    [] Silent(d) /\ (beat[d] = "late" \/ d \in silent) -> "failed"
                    [] OTHER -> call[d]]
  /\ RequestGoto(r, "lookup", c, "none", "null")
  /\ UNCHANGED <<old, beat, timer, answered, callFaults>>

\* The lookup by clientCallId, then assertUsersAreNotBusy.
InitiateLookup(r) ==
  LET c == target[r]
  IN /\ reqPc[r] = "lookup"
     /\ \/ /\ call[c] # "none"      \* the existing call: its timer is re-armed
           /\ timer' = [timer EXCEPT ![c] = @ \/ call[c] = "ringing"]
           /\ Done(r)
        \/ /\ call[c] = "none"
           /\ IF Blocking(c) = {} THEN RequestGoto(r, "insert", c, "none", "null")
                                  ELSE Done(r)
           /\ UNCHANGED timer
     /\ UNCHANGED <<call, old, beat, answered, callFaults>>

\* (Mutant: the call is saved, not inserted.)
InitiateUpsert(r) ==
  /\ reqPc[r] = "insert"
  /\ call' = [call EXCEPT ![target[r]] = "ringing"]
  /\ timer' = [timer EXCEPT ![target[r]] = TRUE]
  /\ Done(r)
  /\ UNCHANGED <<old, beat, answered, callFaults>>

\* The INSERT (a second one for the same clientCallId violates its index) and
\* the timer.
InitiateInsert(r) ==
  LET c == target[r]
  IN /\ reqPc[r] = "insert"
     /\ IF call[c] = "none"
        THEN /\ call' = [call EXCEPT ![c] = "ringing"]
             /\ timer' = [timer EXCEPT ![c] = TRUE]
        ELSE UNCHANGED <<call, timer>>
     /\ Done(r)
     /\ UNCHANGED <<old, beat, answered, callFaults>>

-----------------------------------------------------------------------------
(* The requests that read, check and save.                                  *)

\* The status a request needs to find, and the one it saves.
Transition(kind) ==
  CASE kind = "answer"  -> <<"ringing", "active">>
    [] kind = "reject"  -> <<"ringing", "rejected">>
    [] kind = "cancel"  -> <<"ringing", "cancelled">>
    [] kind = "timeout" -> <<"ringing", "missed">>
    [] kind = "end"     -> <<"active", "ended">>

\* (Mutant: the status is not checked.)
ReadCallUnchecked(r, c, kind) ==
  /\ reqPc[r] = "idle"
  /\ call[c] # "none"
  /\ RequestGoto(r, "save", c, Transition(kind)[2], beat[c])
  /\ UNCHANGED <<call, old, beat, timer, answered, callFaults>>

\* The read and the checks.  A call that already has the wanted status, and any
\* call for a timeout, is answered without a save and its timer cleared; another
\* status is a conflict.
ReadCall(r, c, kind) ==
  LET from == Transition(kind)[1]
      to == Transition(kind)[2]
  IN /\ reqPc[r] = "idle"
     /\ call[c] # "none"
     /\ \/ /\ call[c] = from
           /\ RequestGoto(r, "save", c, to, beat[c])
           /\ UNCHANGED timer
        \/ /\ call[c] = to \/ (kind = "timeout" /\ call[c] # from)
           /\ timer' = [timer EXCEPT ![c] = FALSE]
           /\ UNCHANGED requestVars
     /\ UNCHANGED <<call, old, beat, answered, callFaults>>

\* timeoutFromServer: the timer fires, then the same read and checks.
TimerFires(r, c) ==
  /\ reqPc[r] = "idle"
  /\ timer[c]
  /\ old[c]
  /\ timer' = [timer EXCEPT ![c] = FALSE]
  /\ IF call[c] = "ringing" THEN RequestGoto(r, "save", c, "missed", beat[c])
                            ELSE UNCHANGED requestVars
  /\ UNCHANGED <<call, old, beat, answered, callFaults>>

\* save(call): the copy's status and heartbeat replace whatever the row has.
SaveCall(r) ==
  LET c == target[r]
  IN /\ reqPc[r] = "save"
     /\ call' = [call EXCEPT ![c] = goal[r]]
     /\ beat' = [beat EXCEPT ![c] = rBeat[r]]
     /\ timer' = [timer EXCEPT ![c] = FALSE]
     /\ answered' = [answered EXCEPT ![c] = @ \/ goal[r] = "active"]
     /\ Done(r)
     /\ UNCHANGED <<old, callFaults>>

-----------------------------------------------------------------------------
\* heartbeatActiveCall: an UPDATE with the condition status = ACTIVE.
Heartbeat(c) ==
  /\ call[c] = "active"
  /\ beat[c] # "recent"
  /\ beat' = [beat EXCEPT ![c] = "recent"]
  /\ UNCHANGED <<call, old, timer, requestVars, answered, callFaults>>

\* (Mutant: a call without any heartbeat is never silent for 90 s.)
ExpireActiveBeaten(c) ==
  /\ Silent(c)
  /\ beat[c] = "late"
  /\ call' = [call EXCEPT ![c] = "failed"]
  /\ UNCHANGED <<old, beat, timer, requestVars, answered, callFaults>>

\* The cron of the orchestrator, or getParticipantCall for one call.
ExpireActive(c) ==
  /\ Silent(c)
  /\ call' = [call EXCEPT ![c] = "failed"]
  /\ UNCHANGED <<old, beat, timer, requestVars, answered, callFaults>>

\* Time passes: the ringing limit, and the silence of the clients.
GrowsOld(c) ==
  /\ call[c] # "none" /\ ~old[c]
  /\ old' = [old EXCEPT ![c] = TRUE]
  /\ UNCHANGED <<call, beat, timer, requestVars, answered, callFaults>>

BeatAges(c) ==
  /\ beat[c] = "recent"
  /\ beat' = [beat EXCEPT ![c] = "late"]
  /\ UNCHANGED <<call, old, timer, requestVars, answered, callFaults>>

\* The save throws; a timeout's callback logs it.
CallSaveThrows(r) ==
  /\ reqPc[r] = "save"
  /\ callFaults < MaxCallFaults
  /\ callFaults' = callFaults + 1
  /\ Done(r)
  /\ UNCHANGED <<call, old, beat, timer, answered>>

\* The server restarts: requests and timers are gone.
Restart ==
  /\ callFaults < MaxCallFaults
  /\ callFaults' = callFaults + 1
  /\ timer' = [c \in Calls |-> FALSE]
  /\ reqPc' = [r \in Requests |-> "idle"]
  /\ target' = [r \in Requests |-> NoCall]
  /\ goal' = [r \in Requests |-> "none"]
  /\ rBeat' = [r \in Requests |-> "null"]
  /\ UNCHANGED <<call, old, beat, answered>>

-----------------------------------------------------------------------------
CallKinds == {"answer", "reject", "cancel", "timeout", "end"}

RequestStep(r) == InitiateLookup(r) \/ InitiateInsert(r) \/ SaveCall(r)

CallsNext ==
  \/ \E r \in Requests, c \in Calls :
       \/ InitiateExpire(r, c)
       \/ \E kind \in CallKinds : ReadCall(r, c, kind)
       \/ TimerFires(r, c)
  \/ \E r \in Requests : RequestStep(r) \/ CallSaveThrows(r)
  \/ \E c \in Calls :
       Heartbeat(c) \/ ExpireActive(c) \/ GrowsOld(c) \/ BeatAges(c)
  \/ Restart

CallsSpec == CallsInit /\ [][CallsNext]_callVars

\* Requests end, time passes, armed timers and the cron run, and users keep
\* trying to call.
CallsFairness ==
  /\ \A r \in Requests : WF_callVars(RequestStep(r))
  /\ \A c \in Calls :
       /\ WF_callVars(GrowsOld(c))
       /\ SF_callVars(\E r \in Requests : TimerFires(r, c))
       /\ SF_callVars(ExpireActive(c))
       /\ SF_callVars(\E r \in Requests : InitiateExpire(r, c))

FairCallsSpec == CallsSpec /\ CallsFairness

-----------------------------------------------------------------------------
(* Properties.                                                              *)

\* A call counts as ENDED or FAILED only after it was answered, whichever of
\* the overlapping saves came last.
EndedWasAnswered ==
  \A c \in Calls : call[c] \in {"active", "ended", "failed"} => answered[c]

\* Every state the overlapping saves leave is one of a call's life cycle.
CallsConsistent == CallsTypeOK /\ EndedWasAnswered

\* No request takes a call back to RINGING: a copy read while it rang is only
\* saved with the status the request asked for.
NeverRingsAgain ==
  [][\A c \in Calls : call[c] \notin {"none", "ringing"} => call'[c] # "ringing"]_callVars

\* The calls run the course of their life cycle, in state and in step.
CallsRunTheirCourse == []CallsConsistent /\ NeverRingsAgain

\* No user is in two ongoing calls.
BusyUsersExcluded ==
  \A c, d \in Calls :
    call[c] \in Ongoing /\ call[d] \in Ongoing /\ Parties(c) \intersect Parties(d) # {}
      => c = d

\* A call that is over stays over with the outcome it had; only an end that the
\* expiry overtook turns FAILED into ENDED.
FinalIsFinal ==
  [][\A c \in Calls :
       call[c] \in Final =>
         call'[c] = call[c] \/ (call[c] = "failed" /\ call'[c] = "ended")]_callVars

\* What the checks of createRingingCall and of the transitions achieve when
\* requests do not overlap, with timers, expiries and a restart in between.
SerialCallsAreSound == []BusyUsersExcluded /\ FinalIsFinal

\* "Prevent an abandoned ringing call from blocking both users forever"
\* (createRingingCall): also after a restart lost the timer or its save failed.
RingingEnds == \A c \in Calls : call[c] = "ringing" ~> call[c] # "ringing"

\* Of a call both clients abandoned, the cron ends the ACTIVE state.
SilentCallEnds ==
  \A c \in Calls : Silent(c) ~> call[c] # "active" \/ beat[c] = "recent"

\* Neither state keeps the users of a call busy for ever.
CallsEnd == RingingEnds /\ SilentCallEnds

\* timeoutRingingCall, call.service.ts:330-331: "A late timeout event can race
\* with answer/reject/cancel. In that case, keep the authoritative server state
\* and treat the timeout as idempotent."
LateTimeoutIsIdempotent ==
  [][\A c \in Calls :
       call[c] \in {"active", "rejected", "cancelled"} => call'[c] # "missed"]_callVars
=============================================================================
