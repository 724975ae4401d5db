-------------------------- MODULE VoidReconciliation --------------------------
(* The reconciliation of voided Google Play purchases                          *)
(* (billing/google-play-reconciliation): every hour one of the servers fetches *)
(* what Google lists since its checkpoint and stores a record of each void;    *)
(* every minute each of them works off the records, which reverses the         *)
(* purchases. A lease keeps runs apart and claims keep workers apart, but both *)
(* end by time, under a run or a worker that is slow. Administrators           *)
(* start runs over a window of their own and put records back.                 *)
EXTENDS Integers, FiniteSets, FiniteSetsExt

CONSTANTS
  Voids,              \* purchases Google voids
  Runners,            \* servers, and administrators' requests
  NoRun,
  NoVoid,
  Overlap,            \* GOOGLE_PLAY_VOIDED_OVERLAP_MINUTES
  Horizon,            \* the 29 days Google's list can be asked for
  LastHour,           \* bound: the time that goes by
  VoidAttempts,       \* GOOGLE_PLAY_VOIDED_MAX_ATTEMPTS
  MaxTroubles         \* bound: runs that fail, die or outlive their lease, workers
                      \* that outlive their claim, saves that throw,
                      \* administrators' requests

ASSUME WindowAssumption == Overlap \in Nat /\ Horizon \in Nat /\ Overlap <= Horizon
ASSUME TriesAssumption == VoidAttempts \in Nat \ {0} /\ LastHour \in Nat
ASSUME NoVoidAssumption == NoVoid \notin Voids

NoTime == -1

VARIABLES
  hour,               \* the time
  enabled,            \* GOOGLE_PLAY_VOIDED_RECONCILIATION_ENABLED
  voidedAt,           \* when Google voided a purchase, NoTime: it did not
  listed,             \* the voids Google's list shows
  matched,            \* those whose purchase has a transaction row here
  lastEnd,            \* checkpoint.lastSuccessfulEndTime
  leaseOwner,         \* checkpoint.leaseOwner
  record,             \* a void's record: its status, "NONE": no row
  tries,              \* its attemptCount
  run,                \* what a runner is doing
  troubles,           \* bounded by MaxTroubles
  reversed,           \* history: voids that have been applied
  overtaken,             \* history: records whose claim went stale, or that were
                      \* put back, under a worker
  skipped             \* history: voids left out by a window somebody chose, or
                      \* that Google's list no longer reaches

googleVars == <<hour, enabled, voidedAt, listed, matched>>
recordVars == <<record, tries>>
voidHistory == <<reversed, overtaken, skipped>>
voidVars ==
  <<googleVars, lastEnd, leaseOwner, recordVars, run, troubles, voidHistory>>

NoWork ==
  [pc |-> "idle", start |-> 0, end |-> 0, chosen |-> FALSE, todo |-> {},
   job |-> NoVoid, jobTries |-> 0, went |-> "none"]

VoidsInit ==
  /\ hour = 0 /\ enabled \in BOOLEAN
  /\ voidedAt = [v \in Voids |-> NoTime] /\ listed = {} /\ matched = {}
  /\ lastEnd = NoTime /\ leaseOwner = NoRun
  /\ record = [v \in Voids |-> "NONE"] /\ tries = [v \in Voids |-> 0]
  /\ run = [r \in Runners |-> NoWork]
  /\ troubles = 0
  /\ reversed = {} /\ overtaken = {} /\ skipped = {}
-----------------------------------------------------------------------------
(* Time and Google. A void is listed at the latest after the time the windows  *)
(* of two runs overlap by.                                                     *)
Voided == {v \in Voids : voidedAt[v] # NoTime}

HourPasses ==
  /\ hour < LastHour
  /\ \A v \in Voided \ listed : hour - voidedAt[v] < Overlap
  /\ hour' = hour + 1
  /\ UNCHANGED <<enabled, voidedAt, listed, matched, lastEnd, leaseOwner, recordVars, run,
                 troubles, voidHistory>>

PurchaseVoided(v) ==
  /\ v \notin Voided
  /\ voidedAt' = [voidedAt EXCEPT ![v] = hour]
  /\ UNCHANGED <<hour, enabled, listed, matched, lastEnd, leaseOwner, recordVars, run,
                 troubles, voidHistory>>

GoogleLists(v) ==
  /\ v \in Voided \ listed
  /\ listed' = listed \union {v}
  /\ UNCHANGED <<hour, enabled, voidedAt, matched, lastEnd, leaseOwner, recordVars, run,
                 troubles, voidHistory>>

(* The purchase is verified here, before its void or after it.                 *)
PurchaseRecorded(v) ==
  /\ v \notin matched
  /\ matched' = matched \union {v}
  /\ UNCHANGED <<hour, enabled, voidedAt, listed, lastEnd, leaseOwner, recordVars, run,
                 troubles, voidHistory>>
-----------------------------------------------------------------------------
(* A run.                                                                      *)
Becomes(r, state) == run' = [run EXCEPT ![r] = state]
Leaves(r, pc) ==
  Becomes(r, [run[r] EXCEPT !.pc = pc, !.start = 0, !.end = 0, !.chosen = FALSE, !.todo = {}])

(* What ends by time has run out: trouble, if it has under somebody.           *)
TroubleIf(so) ==
  /\ so => troubles < MaxTroubles
  /\ troubles' = IF so THEN troubles + 1 ELSE troubles

(* acquireLease, under the checkpoint's row lock: the lease is free or over.   *)
StartRun(r, start, end, chosen, byHand) ==
  /\ run[r].pc = "idle" /\ start < end
  /\ TroubleIf(byHand \/ (leaseOwner # NoRun /\ run[leaseOwner].pc # "idle"))
  /\ leaseOwner' = r
  /\ Becomes(r, [run[r] EXCEPT !.pc = "list", !.start = start, !.end = end, !.chosen = chosen])
  /\ UNCHANGED <<googleVars, lastEnd, recordVars, voidHistory>>

\* Mutant of Resume: a run begins where the last one ended.
ResumeAtEnd == lastEnd

Resume == lastEnd - Overlap

(* calculateStartTime                                                          *)
StartScheduledRun(r) ==
  LET oldestAllowed == hour - Horizon
      behind == lastEnd = NoTime \/ Resume < oldestAllowed
  IN  enabled /\ StartRun(r, IF behind THEN oldestAllowed ELSE Resume, hour, behind, FALSE)

StartRunByHand(r) ==
  \E start, end \in 0..hour : StartRun(r, start, end, TRUE, TRUE)

ListPurchases(r) ==
  /\ run[r].pc = "list"
  /\ Becomes(r, [run[r] EXCEPT !.pc = "persist",
                   !.todo = {v \in listed : voidedAt[v] \in run[r].start..run[r].end}])
  /\ UNCHANGED <<googleVars, lastEnd, leaseOwner, recordVars, troubles, voidHistory>>

(* persistVoidedPurchase: the fingerprint of a void is unique.                 *)
Persist(r) ==
  /\ run[r].pc = "persist"
  /\ \E v \in run[r].todo :
       /\ Becomes(r, [run[r] EXCEPT !.todo = @ \ {v}])
       /\ record' = [record EXCEPT ![v] = IF @ = "NONE" THEN "PENDING" ELSE @]
  /\ UNCHANGED <<googleVars, lastEnd, leaseOwner, tries, troubles, voidHistory>>

\* Mutant of IsFetched: the checkpoint moves as soon as the list is there.
IsListed(r) == run[r].pc = "persist"

IsFetched(r) == run[r].pc = "persist" /\ run[r].todo = {}

Older(r) == {v \in Voided : voidedAt[v] < run[r].start /\ record[v] = "NONE"}

MarkFetchSuccessful(r) ==
  /\ IsFetched(r)
  /\ IF leaseOwner = r
     THEN /\ lastEnd' = run[r].end
          /\ skipped' = skipped \union IF run[r].chosen THEN Older(r) ELSE {}
     ELSE UNCHANGED <<lastEnd, skipped>>
  /\ Leaves(r, "process")
  /\ UNCHANGED <<googleVars, leaseOwner, recordVars, troubles, reversed, overtaken>>

Releases(r) == leaseOwner' = IF leaseOwner = r THEN NoRun ELSE leaseOwner

(* Nothing is left to claim, or the limit is reached.                          *)
ReleaseLease(r) ==
  /\ run[r].pc = "process" /\ run[r].job = NoVoid
  /\ Releases(r) /\ Leaves(r, "idle")
  /\ UNCHANGED <<googleVars, lastEnd, recordVars, troubles, voidHistory>>

(* Google or the database fails, a page has a void without an order, or the    *)
(* pages do not end (maxPages).                                                *)
RunFails(r) ==
  /\ run[r].pc \in {"list", "persist"}
  /\ TroubleIf(TRUE)
  /\ Releases(r) /\ Leaves(r, "idle")
  /\ UNCHANGED <<googleVars, lastEnd, recordVars, voidHistory>>

RunnerDies(r) ==
  /\ run[r] # NoWork
  /\ TroubleIf(TRUE)
  /\ Becomes(r, NoWork)
  /\ UNCHANGED <<googleVars, lastEnd, leaseOwner, recordVars, voidHistory>>
-----------------------------------------------------------------------------
(* The records.                                                                *)
Working(v) == \E r \in Runners : run[r].job = v

\* Mutant of IsClaimable: a claim never goes stale.
IsClaimableOnce(v) ==
  record[v] \in {"PENDING", "FAILED", "UNMATCHED"} /\ tries[v] < VoidAttempts

(* A retry has come due, a claim of 15 minutes ago has gone stale.             *)
IsClaimable(v) ==
  /\ record[v] \in {"PENDING", "FAILED", "UNMATCHED", "PROCESSING"}
  /\ tries[v] < VoidAttempts

(* claimNextRecord, within a run or by the scheduled processor                 *)
ClaimNextRecord(r, v) ==
  /\ run[r].job = NoVoid
  /\ run[r].pc = "process" \/ (run[r].pc = "idle" /\ enabled)
  /\ IsClaimable(v)
  /\ record' = [record EXCEPT ![v] = "PROCESSING"]
  /\ tries' = [tries EXCEPT ![v] = @ + 1]
  /\ Becomes(r, [run[r] EXCEPT !.job = v, !.jobTries = tries[v] + 1])
  /\ TroubleIf(Working(v) /\ record[v] = "PROCESSING")
  /\ overtaken' = overtaken \union IF Working(v) THEN {v} ELSE {}
  /\ UNCHANGED <<googleVars, lastEnd, leaseOwner, reversed, skipped>>

(* processRecord: the purchase is reversed, is not known here, or a call       *)
(* throws. The reversals themselves are StoreRefunds, CourseOrders and         *)
(* Subscriptions, which stand being asked again.                               *)
ProcessRecord(r) ==
  LET v == run[r].job
      exhausted == run[r].jobTries >= VoidAttempts
  IN  /\ v # NoVoid /\ run[r].went = "none"
      /\ \E to \in {"THREW", IF v \in matched THEN "PROCESSED"
                             ELSE IF exhausted THEN "DEAD_LETTER" ELSE "UNMATCHED"} :
           /\ Becomes(r, [run[r] EXCEPT !.went = to])
           /\ reversed' = reversed \union IF to = "PROCESSED" THEN {v} ELSE {}
      /\ UNCHANGED <<googleVars, lastEnd, leaseOwner, recordVars, troubles, overtaken, skipped>>

JobDone(r) == [run[r] EXCEPT !.job = NoVoid, !.jobTries = 0, !.went = "none"]

(* The outcome is saved with the whole copy of the row.                        *)
SaveOutcome(r) ==
  LET v == run[r].job
  IN  /\ run[r].went \in {"PROCESSED", "UNMATCHED", "DEAD_LETTER"}
      /\ record' = [record EXCEPT ![v] = run[r].went]
      /\ tries' = [tries EXCEPT ![v] = run[r].jobTries]
      /\ Becomes(r, JobDone(r))
      /\ UNCHANGED <<googleVars, lastEnd, leaseOwner, troubles, voidHistory>>

SaveOutcomeThrows(r) ==
  /\ run[r].went \in {"PROCESSED", "UNMATCHED", "DEAD_LETTER"}
  /\ TroubleIf(TRUE)
  /\ Becomes(r, [run[r] EXCEPT !.went = "THREW"])
  /\ UNCHANGED <<googleVars, lastEnd, leaseOwner, recordVars, voidHistory>>

\* Mutant of FailedAs: an attempt too many is left.
FailedAsLate(n) == IF n > VoidAttempts THEN "DEAD_LETTER" ELSE "FAILED"

FailedAs(n) == IF n >= VoidAttempts THEN "DEAD_LETTER" ELSE "FAILED"

(* An update by identifier: attemptCount is judged by the copy and left as the *)
(* row has it.                                                                 *)
MarkRecordFailure(r) ==
  LET v == run[r].job
  IN  /\ run[r].went = "THREW"
      /\ record' = [record EXCEPT ![v] = FailedAs(run[r].jobTries)]
      /\ Becomes(r, JobDone(r))
      /\ UNCHANGED <<googleVars, lastEnd, leaseOwner, tries, troubles, voidHistory>>

(* retryRecord reads one record, retryFailedRecords selects some; the update   *)
(* does not look at their status again.                                        *)
SelectRecords(r) ==
  /\ run[r].pc = "idle" /\ TroubleIf(TRUE)
  /\ \E ids \in
          {{v} : v \in {w \in Voids : record[w] \notin {"NONE", "PROCESSED"}}}
            \union {{v \in Voids : record[v] \in statuses} :
                      statuses \in {{"FAILED", "UNMATCHED"},
                                    {"FAILED", "UNMATCHED", "DEAD_LETTER"}}} :
       /\ ids # {}
       /\ Becomes(r, [run[r] EXCEPT !.pc = "retry", !.todo = ids])
  /\ UNCHANGED <<googleVars, lastEnd, leaseOwner, recordVars, voidHistory>>

PutBack(r) ==
  LET ids == run[r].todo
  IN  /\ run[r].pc = "retry"
      /\ record' = [v \in Voids |-> IF v \in ids THEN "PENDING" ELSE record[v]]
      /\ tries' = [v \in Voids |-> IF v \in ids THEN 0 ELSE tries[v]]
      /\ overtaken' = overtaken \union {v \in ids : Working(v) \/ record[v] = "PROCESSED"}
      /\ Leaves(r, "process")
      /\ UNCHANGED <<googleVars, lastEnd, leaseOwner, troubles, reversed, skipped>>

RunStep(r) ==
  \/ ListPurchases(r) \/ Persist(r) \/ MarkFetchSuccessful(r) \/ ReleaseLease(r)
  \/ ProcessRecord(r) \/ SaveOutcome(r) \/ MarkRecordFailure(r) \/ PutBack(r)

VoidsNext ==
  \/ HourPasses
  \/ \E v \in Voids :
       \/ PurchaseVoided(v) \/ GoogleLists(v) \/ PurchaseRecorded(v)
       \/ \E r \in Runners : ClaimNextRecord(r, v)
  \/ \E r \in Runners :
       \/ StartScheduledRun(r) \/ StartRunByHand(r) \/ RunStep(r)
       \/ RunFails(r) \/ RunnerDies(r) \/ SaveOutcomeThrows(r) \/ SelectRecords(r)

(* The two crons fire on a server that is up, calls return, Google lists.      *)
VoidsFairness ==
  /\ \A r \in Runners : WF_voidVars(RunStep(r))
  /\ WF_voidVars(\E r \in Runners : StartScheduledRun(r))
  /\ \A v \in Voids :
       /\ WF_voidVars(GoogleLists(v))
       /\ SF_voidVars(\E r \in Runners : ClaimNextRecord(r, v))

VoidsSpec == VoidsInit /\ [][VoidsNext]_voidVars /\ VoidsFairness
-----------------------------------------------------------------------------
RecordStatuses ==
  {"NONE", "PENDING", "PROCESSING", "PROCESSED", "FAILED", "UNMATCHED", "DEAD_LETTER"}
(* The types of the variables.                                                 *)
VoidsTypeOK ==
  /\ hour \in 0..LastHour /\ enabled \in BOOLEAN
  /\ voidedAt \in [Voids -> NoTime..LastHour] /\ listed \subseteq Voided /\ matched \subseteq Voids
  /\ lastEnd \in NoTime..LastHour /\ leaseOwner \in Runners \union {NoRun}
  /\ record \in [Voids -> RecordStatuses] /\ tries \in [Voids -> 0..VoidAttempts]
  /\ \A r \in Runners :
       /\ run[r].pc \in {"idle", "list", "persist", "process", "retry"}
       /\ run[r].todo \subseteq Voids /\ run[r].job \in Voids \union {NoVoid}
       /\ run[r].jobTries \in 0..VoidAttempts
  /\ reversed \union overtaken \union skipped \subseteq Voids

(* Whatever was voided before the next window has its record, although runs    *)
(* fail half-way, die, overlap and are listed late: only a window that an      *)
(* administrator chose, or the end of Google's list, leaves a void out.        *)
NothingSlipsThrough ==
  \A v \in Voided :
    lastEnd # NoTime /\ voidedAt[v] < lastEnd - Overlap => record[v] # "NONE" \/ v \in skipped

(* A record that is PROCESSED had its purchase reversed, and one that waits    *)
(* has an attempt left unless it was taken from a worker: the failure that     *)
(* such a worker marks late strands it, as it does not count its own attempts. *)
RecordsAreWorkable ==
  \A v \in Voids :
    /\ record[v] = "PROCESSED" => v \in reversed
    /\ record[v] \in {"PENDING", "FAILED", "UNMATCHED"} /\ tries[v] >= VoidAttempts => v \in overtaken

VoidsConsistent == VoidsTypeOK /\ NothingSlipsThrough /\ RecordsAreWorkable

(* Every void is settled in the end: its purchase is reversed or its record is *)
(* dead, or it was left out, or its last attempt was cut off.                  *)
VoidsAreSettled ==
  \A v \in Voids :
    []<>(enabled /\ v \in Voided =>
           \/ record[v] \in {"PROCESSED", "DEAD_LETTER"} \/ v \in skipped
           \/ record[v] # "NONE" /\ tries[v] >= VoidAttempts)
=============================================================================
