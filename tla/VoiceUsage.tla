------------------------------- MODULE VoiceUsage -------------------------------
(***************************************************************************)
(* The metering of one user's AI voice sessions: ai-tutor-usage.service.ts,  *)
(* the start of a session in ai-tutor.service.ts, and the withdrawal of the  *)
(* consent in ai-consent-session-revocation.service.ts.                      *)
(*                                                                         *)
(* A heartbeat is one transaction under the row's lock.  Activation and end   *)
(* read the row and save their copy, and everything between two database     *)
(* calls of a start is interleaved with the other requests.  Voice time is    *)
(* counted in steps of 10 s, of which a heartbeat charges two at most.        *)
(***************************************************************************)
EXTENDS Naturals, FiniteSets, FiniteSetsExt

CONSTANTS
  VoiceSessions,
  VoiceRequests,  \* requests under way at a time
  Credit,         \* the voice time of the wallet
  Ttl             \* the time a client asks for

ASSUME VoiceAssumption == Credit \in Nat /\ Ttl \in Nat \ {0} /\ IsFiniteSet(VoiceSessions)

VARIABLES
  usage,       \* ai_tutor_voice_usage_sessions
  voiceCredit, \* wallet.aiVoiceSeconds
  voiceConsent,\* the AI consent is granted
  voiceReq,    \* what each request is doing
  charged,     \* history: what a session cost
  overwritten  \* history: sessions whose charge a stale copy overwrote

voiceVars == <<usage, voiceCredit, voiceConsent, voiceReq, charged, overwritten>>

-----------------------------------------------------------------------------
Free == [at |-> "free"]
NoUsage == [status |-> "none", allocated |-> 0, used |-> 0, beat |-> "none",
            old |-> FALSE, provider |-> FALSE]

VoiceTypeOK ==
  /\ usage \in [VoiceSessions ->
       [status : {"none", "pending", "active", "ended", "cancelled"},
        allocated : 0..Ttl, used : 0..Ttl,
        beat : {"none", "fresh", "late"},  \* lastHeartbeatAt: null, less or more than 45 s ago
        old : BOOLEAN,                     \* createdAt is more than 120 s ago
        provider : BOOLEAN]]               \* providerSessionId is set
  /\ voiceCredit \in 0..Credit
  /\ voiceConsent \in BOOLEAN
  /\ \A r \in VoiceRequests :
       voiceReq[r].at \in {"free", "insert", "created", "activate", "answer", "end", "beat", "revoke"}
  /\ charged \in [VoiceSessions -> 0..Credit]
  /\ overwritten \subseteq VoiceSessions

VoiceInit ==
  /\ usage = [s \in VoiceSessions |-> NoUsage]
  /\ voiceCredit = Credit
  /\ voiceConsent = TRUE
  /\ voiceReq = [r \in VoiceRequests |-> Free]
  /\ charged = [s \in VoiceSessions |-> 0]
  /\ overwritten = {}

MaxCharge == 2  \* HEARTBEAT_MAX_CHARGE_SECONDS, FINAL_CHARGE_CAP_SECONDS

Least(a, b) == IF a < b THEN a ELSE b
Goes(r, to) == voiceReq' = [voiceReq EXCEPT ![r] = to]
Remaining(s) == usage[s].allocated - usage[s].used

\* The conditional UPDATEs of expireStaleSessions.
Expired(s) ==
  LET u == usage[s] IN
  IF u.status = "active" /\ (u.beat = "late" \/ (u.beat = "none" /\ u.old))
    THEN [u EXCEPT !.status = "ended"]
  ELSE IF u.status = "pending" /\ u.old THEN [u EXCEPT !.status = "cancelled"]
  ELSE u

-----------------------------------------------------------------------------
(* startVoiceSession.                                                       *)

\* The guard finds the consent; beginVoiceSession expires stale sessions and
\* reads the balance...
BeginVoiceSession(r, s) ==
  /\ voiceReq[r] = Free
  /\ voiceConsent
  /\ usage[s] = NoUsage
  /\ \A q \in VoiceRequests : voiceReq[q].at = "insert" => voiceReq[q].session # s
  /\ usage' = [t \in VoiceSessions |-> Expired(t)]
  /\ Goes(r, IF voiceCredit = 0 THEN Free
             ELSE [at |-> "insert", session |-> s, allocated |-> Least(Ttl, voiceCredit)])
  /\ UNCHANGED <<voiceCredit, voiceConsent, charged, overwritten>>

\* ... and inserts the session.
InsertVoiceSession(r) ==
  /\ voiceReq[r].at = "insert"
  /\ LET s == voiceReq[r].session IN
       /\ usage' = [usage EXCEPT ![s] = [NoUsage EXCEPT !.status = "pending",
                                                        !.allocated = voiceReq[r].allocated]]
       /\ Goes(r, [at |-> "created", session |-> s])
  /\ UNCHANGED <<voiceCredit, voiceConsent, charged, overwritten>>

\* The provider gave a session; activateVoiceSession reads the row...
ActivateRead(r) ==
  /\ voiceReq[r].at = "created"
  /\ LET s == voiceReq[r].session IN
       Goes(r, [at |-> "activate", session |-> s, copy |-> usage[s]])
  /\ UNCHANGED <<usage, voiceCredit, voiceConsent, charged, overwritten>>

\* ... and saves it, whatever became of it.
ActivateSave(r) ==
  /\ voiceReq[r].at = "activate"
  /\ LET s == voiceReq[r].session IN
       /\ usage' = [usage EXCEPT ![s] = [voiceReq[r].copy EXCEPT !.status = "active",
                                                                 !.provider = TRUE,
                                                                 !.old = usage[s].old]]
       /\ Goes(r, [at |-> "answer", session |-> s])
  /\ UNCHANGED <<voiceCredit, voiceConsent, charged, overwritten>>

Answered(r) ==
  /\ voiceReq[r].at = "answer"
  /\ Goes(r, Free)
  /\ UNCHANGED <<usage, voiceCredit, voiceConsent, charged, overwritten>>

\* The provider, or the read of the balances for the answer, fails:
\* cancelVoiceSession.
StartFails(r) ==
  /\ voiceReq[r].at \in {"created", "answer"}
  /\ usage' = [usage EXCEPT ![voiceReq[r].session].status = "cancelled"]
  /\ Goes(r, Free)
  /\ UNCHANGED <<voiceCredit, voiceConsent, charged, overwritten>>

-----------------------------------------------------------------------------
\* endVoiceSession reads the row...
EndRead(r, s) ==
  /\ voiceReq[r] = Free
  /\ usage[s].provider /\ usage[s].status # "ended"
  /\ Goes(r, [at |-> "end", session |-> s, copy |-> usage[s]])
  /\ UNCHANGED <<usage, voiceCredit, voiceConsent, charged, overwritten>>

\* (Mutant: only the time of the end is set.)
CopyAsRead(r) == [voiceReq[r].copy EXCEPT !.old = usage[voiceReq[r].session].old]

\* What the end saves: the columns as it read them, and the status.
EndedCopy(r) ==
  [voiceReq[r].copy EXCEPT !.status = "ended", !.old = usage[voiceReq[r].session].old]

\* ... and saves its copy: a heartbeat that was charged meanwhile is lost.
EndSave(r) ==
  /\ voiceReq[r].at = "end"
  /\ LET s == voiceReq[r].session IN
       /\ usage' = [usage EXCEPT ![s] = EndedCopy(r)]
       /\ overwritten' = IF EndedCopy(r).used < usage[s].used
                           THEN overwritten \union {s} ELSE overwritten
       /\ Goes(r, Free)
  /\ UNCHANGED <<voiceCredit, voiceConsent, charged>>

\* A heartbeat of an active session passes the consent guard...
HeartbeatArrives(r, s) ==
  /\ voiceReq[r] = Free
  /\ voiceConsent
  /\ usage[s].provider
  /\ Goes(r, [at |-> "beat", session |-> s])
  /\ UNCHANGED <<usage, voiceCredit, voiceConsent, charged, overwritten>>

\* (Mutant: the allocation does not limit the charge.)
ChargeElapsed(s, elapsed) == elapsed

\* What a heartbeat after "elapsed" charges.
Charge(s, elapsed) == Least(elapsed, Remaining(s))

\* (Mutant: an ended session is charged as well.)
IsMeteredLate(s) == usage[s].status \in {"active", "ended"}

\* The rows the heartbeat's query finds.
IsMetered(s) == usage[s].status = "active"

\* ... and is charged.  The first one only notes the time; one the wallet cannot
\* pay for is rolled back.
VoiceHeartbeat(r, elapsed) ==
  /\ voiceReq[r].at = "beat"
  /\ Goes(r, Free)
  /\ LET s == voiceReq[r].session
         cost == IF usage[s].beat = "none" THEN 0 ELSE Charge(s, elapsed)
         left == usage[s].allocated - (usage[s].used + cost)
     IN IF ~IsMetered(s) \/ cost > voiceCredit
          THEN UNCHANGED <<usage, voiceCredit, charged>>
          ELSE /\ usage' = [usage EXCEPT ![s] =
                              [usage[s] EXCEPT !.used = @ + cost, !.beat = "fresh",
                                               !.status = IF left = 0 THEN "ended" ELSE @]]
               /\ voiceCredit' = voiceCredit - cost
               /\ charged' = [charged EXCEPT ![s] = @ + cost]
  /\ UNCHANGED <<voiceConsent, overwritten>>

-----------------------------------------------------------------------------
\* AiConsentService.revoke saves the withdrawal...
WithdrawVoiceConsent(r) ==
  /\ voiceReq[r] = Free
  /\ voiceConsent
  /\ voiceConsent' = FALSE
  /\ Goes(r, [at |-> "revoke"])
  /\ UNCHANGED <<usage, voiceCredit, charged, overwritten>>

\* (Mutant: the final charge is not recorded.)
RevokedUncounted(s, cost) ==
  IF usage[s].status = "active" THEN [usage[s] EXCEPT !.status = "ended"]
  ELSE IF usage[s].status = "pending" THEN [usage[s] EXCEPT !.status = "cancelled"]
  ELSE usage[s]

\* What revokeUserSessions makes of a session.
Revoked(s, cost) ==
  IF usage[s].status = "active" THEN [usage[s] EXCEPT !.status = "ended", !.used = @ + cost]
  ELSE IF usage[s].status = "pending" THEN [usage[s] EXCEPT !.status = "cancelled"]
  ELSE usage[s]

\* ... and revokeUserSessions charges the time since the last heartbeats and
\* ends the sessions in one transaction, unless it fails.
RevokeUserSessions(r) ==
  /\ voiceReq[r].at = "revoke"
  /\ Goes(r, Free)
  /\ \E cost \in [VoiceSessions -> 0..MaxCharge] :
       LET sum == MapThenSumSet(LAMBDA s : cost[s], VoiceSessions)
       IN /\ \A s \in VoiceSessions :
               cost[s] > 0 => /\ usage[s].status = "active" /\ usage[s].beat # "none"
                              /\ cost[s] <= Remaining(s)
          /\ sum <= voiceCredit
          /\ voiceCredit' = voiceCredit - sum
          /\ usage' = [s \in VoiceSessions |-> Revoked(s, cost[s])]
          /\ charged' = [s \in VoiceSessions |-> charged[s] + cost[s]]
  /\ UNCHANGED <<voiceConsent, overwritten>>

RevocationFails(r) ==
  /\ voiceReq[r].at = "revoke"
  /\ Goes(r, Free)
  /\ UNCHANGED <<usage, voiceCredit, voiceConsent, charged, overwritten>>

GrantConsent ==
  /\ ~voiceConsent
  /\ voiceConsent' = TRUE
  /\ UNCHANGED <<usage, voiceCredit, voiceReq, charged, overwritten>>

\* 45 s without a heartbeat; 120 s since the start.
VoiceTimePasses(s) ==
  /\ \/ usage[s].beat = "fresh" /\ usage' = [usage EXCEPT ![s].beat = "late"]
     \/ usage[s].status # "none" /\ ~usage[s].old /\ usage' = [usage EXCEPT ![s].old = TRUE]
  /\ UNCHANGED <<voiceCredit, voiceConsent, voiceReq, charged, overwritten>>

VoiceNext ==
  \/ \E r \in VoiceRequests :
       \/ \E s \in VoiceSessions :
            BeginVoiceSession(r, s) \/ EndRead(r, s) \/ HeartbeatArrives(r, s)
       \/ InsertVoiceSession(r) \/ ActivateRead(r) \/ ActivateSave(r)
       \/ Answered(r) \/ StartFails(r) \/ EndSave(r)
       \/ \E elapsed \in 0..MaxCharge : VoiceHeartbeat(r, elapsed)
       \/ WithdrawVoiceConsent(r) \/ RevokeUserSessions(r) \/ RevocationFails(r)
  \/ GrantConsent
  \/ \E s \in VoiceSessions : VoiceTimePasses(s)

VoiceSpec == VoiceInit /\ [][VoiceNext]_voiceVars

-----------------------------------------------------------------------------
(* Properties.                                                              *)

\* What a session cost is what its row says it used, except where the end of the
\* session, which saves the copy it read, overwrote a heartbeat.
ChargesAreRecorded ==
  \A s \in VoiceSessions \ overwritten : usage[s].used = charged[s]

\* A session never costs more than it was allocated: whatever heartbeats, the
\* end, the withdrawal and the expiry overwrite of each other.
NeverOvercharged == \A s \in VoiceSessions : charged[s] <= usage[s].allocated

\* A session that is over stays over.  Only the request that is starting it
\* takes one back that was cancelled meanwhile, by the expiry or by the
\* withdrawal of the consent.
OverStaysOver ==
  [][\A s \in VoiceSessions :
       usage[s].status \in {"ended", "cancelled"} /\ usage'[s].status = "active" =>
         /\ usage[s].status = "cancelled"
         /\ \E r \in VoiceRequests : voiceReq[r].at = "activate" /\ voiceReq[r].session = s]_voiceVars

\* Rows, wallet and history fit together: the rows tell what the sessions cost,
\* and no session cost more than its allocation.
VoiceConsistent == VoiceTypeOK /\ ChargesAreRecorded /\ NeverOvercharged

\* What a session cost is recorded at all times, and its end is final but for
\* the request that starts it.
VoiceIsMetered == []VoiceConsistent /\ OverStaysOver
=============================================================================
