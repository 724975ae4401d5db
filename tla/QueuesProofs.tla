----------------------------- MODULE QueuesProofs -----------------------------
(* What work that is left half-way and taken up again guarantees, for every    *)
(* number of events, voids, rewards, workers and administrators: the two       *)
(* queues of Google Play (RtdnQueue, VoidReconciliation) and the rewards given *)
(* to learners (Giveaways).                                                    *)
EXTENDS RtdnQueue, VoidReconciliation, Giveaways, FiniteSetTheorems, TLAPS

-----------------------------------------------------------------------------
(* The notifications.                                                          *)

\* What a worker holds: an event, from its claim to the save of its outcome, and
\* a success only when a handler ran to its end. While nothing lapsed the row
\* says so: it is PROCESSING and its lease runs.
Claimed ==
  /\ \A w \in Workers :
       /\ wpc[w] = "idle" <=> wEvent[w] = NoEvent
       /\ wpc[w] = "succeeded" => handled[wEvent[w]]
       /\ wEvent[w] # NoEvent /\ ~lapsed[wEvent[w]] =>
            event[wEvent[w]] = "processing" /\ ~stale[wEvent[w]]
  /\ \A e \in Events : event[e] = "absent" => attempts[e] = 0

RtdnInv == RtdnConsistent /\ Claimed

LEMMA RtdnInitInv == Init => RtdnInv
  BY AttemptsAssumption, NoEventAssumption, BoundsAssumption
  DEF Init, RtdnInv, RtdnConsistent, TypeOK, ProcessedWasHandled, WaitingIsClaimable,
      HandlersExclusive, Claimed, Statuses

\* Every step keeps the invariant and the outcomes that are saved.
LEMMA RtdnStep ==
  ASSUME RtdnInv, [Next]_vars
  PROVE  RtdnInv' /\ OutcomeIsFinal
<1> USE AttemptsAssumption, NoEventAssumption, BoundsAssumption
    DEF RtdnInv, RtdnConsistent, TypeOK, ProcessedWasHandled, WaitingIsClaimable,
        HandlersExclusive, Claimed, OutcomeIsFinal, Statuses, rowVars, workerVars, boundVars
<1> DEFINE Goal == RtdnInv' /\ OutcomeIsFinal
<1>1. ASSUME NEW e \in Events, Ingest(e) PROVE Goal
  BY <1>1 DEF Ingest
<1>2. ASSUME NEW e \in Events, BackoffEnds(e) PROVE Goal
  BY <1>2 DEF BackoffEnds
<1>3. ASSUME NEW e \in Events, LeaseEnds(e) PROVE Goal
  <2>1. PICK held \in BOOLEAN : held = (\E w \in Workers : wEvent[w] = e)
    OBVIOUS
  <2>2. /\ event[e] = "processing" /\ stale' = [stale EXCEPT ![e] = TRUE]
        /\ lapsed' = [lapsed EXCEPT ![e] = @ \/ held]
        /\ UNCHANGED <<event, attempts, due, handled, workerVars, asked, boundVars>>
    BY <1>3, <2>1 DEF LeaseEnds
  <2>3. \A w \in Workers : wEvent[w] = e => held
    BY <2>1
  <2> QED
    BY <2>2, <2>3
<1>4. ASSUME NEW w \in Workers, NEW e \in Events, Claim(w, e) PROVE Goal
  BY <1>4 DEF Claim, Claimable
<1>5. ASSUME NEW w \in Workers, Handle(w) PROVE Goal
  <2>1. wEvent[w] \in Events
    BY <1>5 DEF Handle
  <2>2. CASE wpc' = [wpc EXCEPT ![w] = "succeeded"] /\ handled' = [handled EXCEPT ![wEvent[w]] = TRUE]
    BY <1>5, <2>1, <2>2 DEF Handle
  <2>3. CASE wpc' = [wpc EXCEPT ![w] = "threw"] /\ UNCHANGED handled
    BY <1>5, <2>1, <2>3 DEF Handle
  <2> QED
    BY <1>5, <2>2, <2>3 DEF Handle
<1>6. ASSUME NEW w \in Workers, SaveProcessed(w) PROVE Goal
  BY <1>6 DEF SaveProcessed, SaveCopy
<1>7. ASSUME NEW w \in Workers, SaveFailure(w) PROVE Goal
  BY <1>7 DEF SaveFailure, SaveCopy
<1>8. ASSUME NEW w \in Workers, SaveThrows(w) PROVE Goal
  BY <1>8 DEF SaveThrows
<1>9. ASSUME NEW w \in Workers, Crash(w) PROVE Goal
  BY <1>9 DEF Crash
<1>10. ASSUME NEW a \in Admins, RetrySelect(a) PROVE Goal
  BY <1>10 DEF RetrySelect
<1>11. ASSUME NEW a \in Admins, RetryUpdate(a) PROVE Goal
  <2>1. /\ event' = [e \in Events |-> IF e \in asked[a] THEN "pending" ELSE event[e]]
        /\ attempts' = [e \in Events |-> IF e \in asked[a] THEN 0 ELSE attempts[e]]
        /\ asked' = [asked EXCEPT ![a] = {}]
        /\ UNCHANGED <<handled, workerVars, boundVars>>
    BY <1>11 DEF RetryUpdate
  <2>2. /\ due' \in [Events -> BOOLEAN] /\ stale' \in [Events -> BOOLEAN]
        /\ lapsed' \in [Events -> BOOLEAN]
        /\ \A e \in Events : /\ lapsed'[e] <=> e \in asked[a] \/ lapsed[e]
                             /\ stale'[e] <=> e \notin asked[a] /\ stale[e]
    BY <1>11, Zenon DEF RetryUpdate
  <2>3. TypeOK'
    BY <2>1, <2>2
  <2>4. (ProcessedWasHandled /\ WaitingIsClaimable)' /\ OutcomeIsFinal
    BY <2>1, <2>2
  <2>5. (HandlersExclusive /\ Claimed)'
    BY <2>1, <2>2
  <2> QED
    BY <2>3, <2>4, <2>5
<1>12. CASE UNCHANGED vars
  BY <1>12 DEF vars
<1> QED
  BY <1>1, <1>2, <1>3, <1>4, <1>5, <1>6, <1>7, <1>8, <1>9, <1>10, <1>11, <1>12
  DEF Next, WorkerStep

LEMMA RtdnInductive == Spec => []RtdnInv
<1>1. RtdnInv /\ [Next]_vars => RtdnInv'
  BY RtdnStep
<1> QED
  BY <1>1, RtdnInitInv, PTL DEF Spec

\* The table of notifications is a work queue, though workers outlive their
\* leases, crash and overwrite rows, and administrators reset them: what waits
\* can be claimed, what is claimed has one worker, what is PROCESSED was handled
\* (claimNextEvent, processClaimedEvent, retryFailedEvents).
THEOREM RtdnIsConsistent == Spec => []RtdnConsistent
<1>1. RtdnInv => RtdnConsistent
  BY DEF RtdnInv
<1> QED
  BY <1>1, RtdnInductive, PTL

\* And an outcome that is saved stays, unless a lease ended under a worker or the
\* event was reset.
THEOREM NotificationsWork == Spec => NotificationsDoTheirWork
<1>1. RtdnInv /\ [Next]_vars => [RtdnConsistent' /\ OutcomeIsFinal]_vars
  BY RtdnStep DEF RtdnInv
<1> QED
  BY <1>1, RtdnInductive, PTL DEF Spec, NotificationsDoTheirWork
-----------------------------------------------------------------------------
(* The voided purchases.                                                       *)

Runs ==
  [pc : {"idle", "list", "persist", "process", "retry"}, start : Int, end : Int,
   chosen : BOOLEAN, todo : SUBSET Voids, job : Voids \union {NoVoid},
   jobTries : 0..VoidAttempts,
   went : {"none", "THREW", "PROCESSED", "UNMATCHED", "DEAD_LETTER"}]

\* The types, and the shape of what a runner does.
VoidShapes ==
  /\ hour \in 0..LastHour /\ voidedAt \in [Voids -> NoTime..LastHour]
  /\ enabled \in BOOLEAN /\ listed \subseteq Voided /\ matched \subseteq Voids
  /\ lastEnd \in NoTime..LastHour /\ leaseOwner \in Runners \union {NoRun}
  /\ record \in [Voids -> RecordStatuses] /\ tries \in [Voids -> 0..VoidAttempts]
  /\ run \in [Runners -> Runs]
  /\ reversed \subseteq Voids /\ overtaken \subseteq Voids /\ skipped \subseteq Voids

\* Google lists a void before the windows of two runs no longer overlap.
ListedInTime ==
  /\ \A v \in Voided : voidedAt[v] <= hour
  /\ \A v \in Voided \ listed : hour - voidedAt[v] <= Overlap

\* A window ends by now, and what it is made for has been found: what was
\* voided before it, unless somebody chose the window, and, once it is listed,
\* what is in it.
Reaches(r) ==
  run[r].pc \in {"list", "persist"} =>
    /\ run[r].start < run[r].end /\ run[r].end \in 0..hour
    /\ ~run[r].chosen =>
         \A v \in Voided : voidedAt[v] < run[r].start => record[v] # "NONE" \/ v \in skipped
    /\ run[r].pc = "persist" =>
         \A v \in Voided :
           run[r].start <= voidedAt[v] /\ voidedAt[v] < run[r].end - Overlap =>
             record[v] # "NONE" \/ v \in run[r].todo

\* The claim of a record that was not overtaken is the only one, and its copy
\* counts the attempts of the row.
Holds(r) ==
  run[r].job # NoVoid =>
    /\ run[r].job \notin overtaken =>
         /\ record[run[r].job] = "PROCESSING" /\ tries[run[r].job] = run[r].jobTries
         /\ \A q \in Runners : run[q].job = run[r].job => q = r
    /\ run[r].went = "PROCESSED" => run[r].job \in reversed
    /\ run[r].went = "UNMATCHED" => run[r].jobTries < VoidAttempts

Windows ==
  NothingSlipsThrough /\ ListedInTime /\ lastEnd <= hour /\ \A r \in Runners : Reaches(r)

Claims ==
  /\ RecordsAreWorkable
  /\ \A r \in Runners :
       /\ Holds(r)
       /\ run[r].job = NoVoid => run[r].jobTries = 0 /\ run[r].went = "none"
  /\ \A v \in Voids : record[v] = "NONE" => tries[v] = 0

VoidsInv == VoidShapes /\ Windows /\ Claims

LEMMA VoidsInitInv == VoidsInit => VoidsInv
  BY WindowAssumption, TriesAssumption, NoVoidAssumption
  DEF VoidsInit, VoidsInv, Windows, Claims, VoidShapes, Runs, NoWork, Voided, NoTime, RecordStatuses,
      NothingSlipsThrough, RecordsAreWorkable, ListedInTime, Reaches, Holds

\* A runner that leaves a phase, and one that is done with a record.
LEMMA PhaseTyped ==
  ASSUME NEW x \in Runs, NEW pc \in {"idle", "list", "persist", "process", "retry"},
         NEW start \in Int, NEW end \in Int, NEW chosen \in BOOLEAN, NEW todo \in SUBSET Voids
  PROVE  [x EXCEPT !.pc = pc, !.start = start, !.end = end, !.chosen = chosen, !.todo = todo]
           \in Runs
  BY DEF Runs

LEMMA JobTyped ==
  ASSUME NEW x \in Runs, NEW job \in Voids \union {NoVoid}, NEW n \in 0..VoidAttempts,
         NEW went \in {"none", "THREW", "PROCESSED", "UNMATCHED", "DEAD_LETTER"}
  PROVE  [x EXCEPT !.job = job, !.jobTries = n, !.went = went] \in Runs
  BY DEF Runs

\* Whatever a runner does next has the shape of what a runner does.
LEMMA RunsStep ==
  ASSUME VoidShapes, [VoidsNext]_voidVars
  PROVE  run' \in [Runners -> Runs]
<1> DEFINE Goal == run' \in [Runners -> Runs]
<1>0. ASSUME NEW r \in Runners, NEW state \in Runs, Becomes(r, state) PROVE Goal
  BY <1>0 DEF Becomes, VoidShapes
<1>t. ASSUME NEW r \in Runners PROVE run[r] \in Runs
  BY DEF VoidShapes
<1>1. ASSUME NEW r \in Runners, NEW v \in Voids, ClaimNextRecord(r, v) PROVE Goal
  <2>1. tries[v] + 1 \in 0..VoidAttempts
    BY <1>1, TriesAssumption DEF ClaimNextRecord, IsClaimable, VoidShapes
  <2>2. [run[r] EXCEPT !.job = v, !.jobTries = tries[v] + 1] \in Runs
    BY <1>t, <2>1 DEF Runs
  <2> QED
    BY <1>0, <1>1, <2>2 DEF ClaimNextRecord
<1>2. ASSUME NEW r \in Runners, NEW start \in Int, NEW end \in Int, NEW chosen \in BOOLEAN,
             NEW byHand, StartRun(r, start, end, chosen, byHand)
      PROVE  Goal
  <2>1. [run[r] EXCEPT !.pc = "list", !.start = start, !.end = end, !.chosen = chosen] \in Runs
    BY <1>t DEF Runs
  <2> QED
    BY <1>0, <1>2, <2>1 DEF StartRun
<1>3. ASSUME NEW r \in Runners, StartScheduledRun(r) PROVE Goal
  <2> DEFINE behind == lastEnd = NoTime \/ Resume < hour - Horizon
             start == IF behind THEN hour - Horizon ELSE Resume
  <2>1. start \in Int /\ behind \in BOOLEAN /\ hour \in Int
    BY WindowAssumption, TriesAssumption DEF VoidShapes, NoTime, Resume
  <2>2. StartRun(r, start, hour, behind, FALSE)
    BY <1>3 DEF StartScheduledRun
  <2> HIDE DEF behind, start, Goal
  <2> QED
    BY <1>2, <2>1, <2>2
<1>4. ASSUME NEW r \in Runners, StartRunByHand(r) PROVE Goal
  <2>1. PICK start \in 0..hour, end \in 0..hour : StartRun(r, start, end, TRUE, TRUE)
    BY <1>4 DEF StartRunByHand
  <2>2. start \in Int /\ end \in Int
    BY DEF VoidShapes
  <2> HIDE DEF Goal
  <2> QED
    BY <1>2, <2>1, <2>2
<1>5. ASSUME NEW r \in Runners, ListPurchases(r) PROVE Goal
  <2> DEFINE found == {v \in listed : voidedAt[v] \in run[r].start..run[r].end}
  <2>1. found \in SUBSET Voids
    BY DEF VoidShapes, Voided
  <2> HIDE DEF found
  <2>2. [run[r] EXCEPT !.pc = "persist", !.todo = found] \in Runs
    BY <1>t, <2>1 DEF Runs
  <2> QED
    BY <1>0, <1>5, <2>2 DEF ListPurchases, found
<1>6. ASSUME NEW r \in Runners, Persist(r) PROVE Goal
  <2>1. PICK v \in run[r].todo : Becomes(r, [run[r] EXCEPT !.todo = @ \ {v}])
    BY <1>6 DEF Persist
  <2>2. [run[r] EXCEPT !.todo = @ \ {v}] \in Runs
    BY <1>t DEF Runs
  <2> QED
    BY <1>0, <2>1, <2>2
<1>7. ASSUME NEW r \in Runners, NEW pc \in {"idle", "process"}, Leaves(r, pc) PROVE Goal
  <2>1. 0 \in Int /\ FALSE \in BOOLEAN /\ {} \in SUBSET Voids
    OBVIOUS
  <2>2. [run[r] EXCEPT !.pc = pc, !.start = 0, !.end = 0, !.chosen = FALSE, !.todo = {}] \in Runs
    BY <1>t, <2>1, PhaseTyped
  <2> QED
    BY <1>0, <1>7, <2>2 DEF Leaves
<1>8. ASSUME NEW r \in Runners,
             MarkFetchSuccessful(r) \/ ReleaseLease(r) \/ RunFails(r) \/ PutBack(r)
      PROVE  Goal
  BY <1>7, <1>8 DEF MarkFetchSuccessful, ReleaseLease, RunFails, PutBack
<1>9. ASSUME NEW r \in Runners, ProcessRecord(r) \/ SaveOutcomeThrows(r) PROVE Goal
  <2>1. \A to \in {"THREW", "PROCESSED", "UNMATCHED", "DEAD_LETTER"} :
          [run[r] EXCEPT !.went = to] \in Runs
    BY <1>t DEF Runs
  <2> QED
    BY <1>0, <1>9, <2>1 DEF ProcessRecord, SaveOutcomeThrows
<1>10. ASSUME NEW r \in Runners, SaveOutcome(r) \/ MarkRecordFailure(r) PROVE Goal
  <2>1. NoVoid \in Voids \union {NoVoid} /\ 0 \in 0..VoidAttempts
    BY TriesAssumption
  <2>2. JobDone(r) \in Runs
    BY <1>t, <2>1, JobTyped DEF JobDone
  <2> QED
    BY <1>0, <1>10, <2>2 DEF SaveOutcome, MarkRecordFailure
<1>11. ASSUME NEW r \in Runners, RunnerDies(r) PROVE Goal
  <2>1. NoWork \in Runs
    BY TriesAssumption DEF Runs, NoWork
  <2> QED
    BY <1>0, <1>11, <2>1 DEF RunnerDies
<1>12. ASSUME NEW r \in Runners, SelectRecords(r) PROVE Goal
  <2>1. PICK ids \in SUBSET Voids : Becomes(r, [run[r] EXCEPT !.pc = "retry", !.todo = ids])
    BY <1>12 DEF SelectRecords
  <2>2. [run[r] EXCEPT !.pc = "retry", !.todo = ids] \in Runs
    BY <1>t DEF Runs
  <2> QED
    BY <1>0, <2>1, <2>2
<1>13. CASE UNCHANGED run
  BY <1>13 DEF VoidShapes
<1> QED
  BY <1>1, <1>3, <1>4, <1>5, <1>6, <1>8, <1>9, <1>10, <1>11, <1>12, <1>13
  DEF VoidsNext, RunStep, HourPasses, PurchaseVoided, GoogleLists, PurchaseRecorded, voidVars

LEMMA VoidShapesStep ==
  ASSUME VoidsInv, [VoidsNext]_voidVars
  PROVE  VoidShapes'
<1>0. VoidShapes /\ run' \in [Runners -> Runs]
  BY RunsStep DEF VoidsInv
<1> USE <1>0, WindowAssumption, TriesAssumption
    DEF VoidShapes, Voided, NoTime, RecordStatuses, googleVars, recordVars, voidHistory
<1>1. CASE HourPasses
  BY <1>1 DEF HourPasses
<1>2. ASSUME NEW v \in Voids, PurchaseVoided(v) \/ GoogleLists(v) \/ PurchaseRecorded(v)
      PROVE  VoidShapes'
  BY <1>2 DEF PurchaseVoided, GoogleLists, PurchaseRecorded
<1>3. ASSUME NEW r \in Runners, NEW v \in Voids, ClaimNextRecord(r, v) PROVE VoidShapes'
  BY <1>3 DEF ClaimNextRecord, IsClaimable
<1>4. ASSUME NEW r \in Runners, NEW start, NEW end, NEW chosen, NEW byHand,
             StartRun(r, start, end, chosen, byHand)
      PROVE  VoidShapes'
  BY <1>4 DEF StartRun
<1>5. ASSUME NEW r \in Runners, StartScheduledRun(r) \/ StartRunByHand(r) PROVE VoidShapes'
  BY <1>4, <1>5 DEF StartScheduledRun, StartRunByHand
<1>6. ASSUME NEW r \in Runners, ListPurchases(r) \/ SelectRecords(r) PROVE VoidShapes'
  BY <1>6 DEF ListPurchases, SelectRecords
<1>7. ASSUME NEW r \in Runners, Persist(r) PROVE VoidShapes'
  BY <1>7 DEF Persist
<1>8. ASSUME NEW r \in Runners, MarkFetchSuccessful(r) PROVE VoidShapes'
  <2>1. run[r].end \in 0..hour
    BY <1>8 DEF VoidsInv, Windows, Reaches, MarkFetchSuccessful, IsFetched
  <2>2. lastEnd' \in NoTime..LastHour
    BY <1>8, <2>1 DEF MarkFetchSuccessful
  <2> QED
    BY <1>8, <2>2 DEF MarkFetchSuccessful, Older
<1>9. ASSUME NEW r \in Runners, ReleaseLease(r) \/ RunFails(r) PROVE VoidShapes'
  BY <1>9 DEF ReleaseLease, RunFails, Releases
<1>10. ASSUME NEW r \in Runners, ProcessRecord(r) \/ SaveOutcomeThrows(r) PROVE VoidShapes'
  BY <1>10 DEF ProcessRecord, SaveOutcomeThrows, Runs
<1>11. ASSUME NEW r \in Runners, SaveOutcome(r) \/ MarkRecordFailure(r) PROVE VoidShapes'
  BY <1>11 DEF SaveOutcome, MarkRecordFailure, FailedAs, Runs
<1>12. ASSUME NEW r \in Runners, PutBack(r) PROVE VoidShapes'
  <2>1. /\ 0 \in 0..VoidAttempts /\ run[r].todo \subseteq Voids
    BY DEF Runs
  <2>2. record' \in [Voids -> RecordStatuses] /\ tries' \in [Voids -> 0..VoidAttempts]
    BY <1>12, <2>1 DEF PutBack
  <2> QED
    BY <1>12, <2>1, <2>2 DEF PutBack
<1>13. ASSUME NEW r \in Runners, RunnerDies(r) PROVE VoidShapes'
  BY <1>13 DEF RunnerDies
<1>14. CASE UNCHANGED voidVars
  BY <1>14 DEF voidVars
<1> QED
  BY <1>1, <1>2, <1>3, <1>5, <1>6, <1>7, <1>8, <1>9, <1>10, <1>11, <1>12, <1>13, <1>14
  DEF VoidsNext, RunStep

\* What keeps the windows right: records stay, and no window moves.
LEMMA WindowsKept ==
  ASSUME VoidsInv, UNCHANGED <<hour, voidedAt, listed, lastEnd>>,
         \A v \in Voids : record[v] # "NONE" => record'[v] # "NONE",
         skipped \subseteq skipped',
         \A q \in Runners :
           \/ run'[q].pc \notin {"list", "persist"}
           \/ /\ run'[q].pc = run[q].pc /\ run'[q].start = run[q].start
              /\ run'[q].end = run[q].end /\ run'[q].chosen = run[q].chosen
              /\ run'[q].todo = run[q].todo
  PROVE  Windows'
<1> USE DEF VoidsInv, VoidShapes, Windows, Voided, NoTime
<1>1. NothingSlipsThrough'
  BY DEF NothingSlipsThrough
<1>2. ListedInTime'
  BY DEF ListedInTime
<1>3. ASSUME NEW q \in Runners PROVE Reaches(q)'
  BY DEF Reaches
<1> QED
  BY <1>1, <1>2, <1>3

\* What keeps the claims right: no record changes but one that is made, and no
\* worker takes or ends one.
LEMMA ClaimsKept ==
  ASSUME VoidsInv, UNCHANGED <<tries, overtaken, reversed>>,
         \A v \in Voids : record'[v] = record[v] \/ (record[v] = "NONE" /\ record'[v] = "PENDING"),
         \A q \in Runners : /\ run'[q].job = run[q].job /\ run'[q].jobTries = run[q].jobTries
                            /\ run'[q].went = run[q].went
  PROVE  Claims'
<1> USE TriesAssumption DEF VoidsInv, VoidShapes, Runs, Claims
<1>1. RecordsAreWorkable'
  BY DEF RecordsAreWorkable
<1>2. ASSUME NEW q \in Runners PROVE Holds(q)'
  BY DEF Holds
<1> QED
  BY <1>1, <1>2

\* No step lets a void slip through the windows.
LEMMA WindowsStep ==
  ASSUME VoidsInv, [VoidsNext]_voidVars, VoidShapes'
  PROVE  Windows'
<1>0. /\ hour \in Int /\ lastEnd \in Int /\ hour >= 0 /\ lastEnd >= -1 /\ Overlap \in Nat
      /\ voidedAt \in [Voids -> NoTime..LastHour] /\ record \in [Voids -> RecordStatuses]
      /\ run \in [Runners -> Runs] /\ run' \in [Runners -> Runs]
      /\ \A v \in Voids : voidedAt[v] \in Int
  BY WindowAssumption, TriesAssumption DEF VoidsInv, VoidShapes, NoTime
<1>i. NothingSlipsThrough /\ ListedInTime /\ lastEnd <= hour /\ \A r \in Runners : Reaches(r)
  BY DEF VoidsInv, Windows
<1>1. CASE HourPasses
  <2>1. /\ hour' = hour + 1 /\ UNCHANGED <<voidedAt, listed, lastEnd, record, run, skipped>>
        /\ \A v \in Voided \ listed : hour - voidedAt[v] < Overlap
    BY <1>1 DEF HourPasses, recordVars, voidHistory
  <2>2. NothingSlipsThrough' /\ (lastEnd <= hour)'
    BY <2>1, <1>i, <1>0 DEF NothingSlipsThrough, Voided
  <2>3. ListedInTime'
    BY <2>1, <1>i, <1>0 DEF ListedInTime, Voided
  <2>4. ASSUME NEW r \in Runners PROVE Reaches(r)'
    BY <2>1, <1>i, <1>0 DEF Reaches, Voided, Runs
  <2> QED
    BY <2>2, <2>3, <2>4 DEF Windows
<1>2. ASSUME NEW w \in Voids, PurchaseVoided(w) PROVE Windows'
  <2>1. /\ voidedAt' = [voidedAt EXCEPT ![w] = hour] /\ voidedAt[w] = NoTime
        /\ UNCHANGED <<hour, listed, lastEnd, record, run, skipped>>
    BY <1>2 DEF PurchaseVoided, recordVars, voidHistory, Voided
  <2>2. /\ voidedAt'[w] = hour
        /\ \A v \in Voids : v # w => voidedAt'[v] = voidedAt[v]
    BY <1>0, <2>1
  <2>3. NothingSlipsThrough' /\ (lastEnd <= hour)'
    BY <2>1, <2>2, <1>i, <1>0 DEF NothingSlipsThrough, Voided
  <2>4. ListedInTime'
    BY <2>1, <2>2, <1>i, <1>0 DEF ListedInTime, Voided
  <2>5. ASSUME NEW r \in Runners PROVE Reaches(r)'
    <3>1. run[r] \in Runs
      BY <1>0
    <3> QED
      BY <2>1, <2>2, <3>1, <1>i, <1>0 DEF Reaches, Voided, Runs
  <2> QED
    BY <2>3, <2>4, <2>5 DEF Windows
<1>3. ASSUME NEW w \in Voids, GoogleLists(w) PROVE Windows'
  <2>1. /\ listed' = listed \union {w}
        /\ UNCHANGED <<hour, voidedAt, lastEnd, record, run, skipped>>
    BY <1>3 DEF GoogleLists, recordVars, voidHistory
  <2>2. NothingSlipsThrough' /\ (lastEnd <= hour)'
    BY <2>1, <1>i, <1>0 DEF NothingSlipsThrough, Voided
  <2>3. ListedInTime'
    BY <2>1, <1>i DEF ListedInTime, Voided
  <2>4. ASSUME NEW r \in Runners PROVE Reaches(r)'
    BY <2>1, <1>i DEF Reaches, Voided
  <2> QED
    BY <2>2, <2>3, <2>4 DEF Windows
<1>4. ASSUME NEW r \in Runners, NEW start \in Int, NEW end \in 0..hour, NEW chosen \in BOOLEAN,
             NEW byHand, StartRun(r, start, end, chosen, byHand),
             ~chosen => lastEnd # NoTime /\ start = lastEnd - Overlap
      PROVE  Windows'
  <2>1. /\ start < end
        /\ run' = [run EXCEPT ![r] = [run[r] EXCEPT !.pc = "list", !.start = start, !.end = end,
                                                   !.chosen = chosen]]
        /\ UNCHANGED <<hour, voidedAt, listed, lastEnd, record, skipped>>
    BY <1>4 DEF StartRun, Becomes, googleVars, recordVars, voidHistory
  <2>2. NothingSlipsThrough' /\ ListedInTime' /\ (lastEnd <= hour)'
    BY <2>1, <1>i DEF NothingSlipsThrough, ListedInTime, Voided
  <2>3. ASSUME NEW q \in Runners, q # r PROVE Reaches(q)'
    BY <2>1, <2>3, <1>i DEF Reaches, Voided
  <2>4. Reaches(r)'
    <3>1. /\ run'[r].pc = "list" /\ run'[r].start = start /\ run'[r].end = end
          /\ run'[r].chosen = chosen
      BY <2>1, <1>0 DEF Runs
    <3>2. ~chosen => \A v \in Voided : voidedAt[v] < start => record[v] # "NONE" \/ v \in skipped
      BY <1>i, <1>4 DEF NothingSlipsThrough
    <3> QED
      BY <2>1, <3>1, <3>2 DEF Reaches, Voided
  <2> QED
    BY <2>2, <2>3, <2>4 DEF Windows
<1>5. ASSUME NEW r \in Runners, StartScheduledRun(r) PROVE Windows'
  <2> DEFINE behind == lastEnd = NoTime \/ Resume < hour - Horizon
             start == IF behind THEN hour - Horizon ELSE Resume
  <2>1. /\ start \in Int /\ behind \in BOOLEAN /\ hour \in 0..hour
        /\ ~behind => lastEnd # NoTime /\ start = lastEnd - Overlap
    BY <1>0, WindowAssumption DEF NoTime, Resume
  <2>2. StartRun(r, start, hour, behind, FALSE)
    BY <1>5 DEF StartScheduledRun
  <2> HIDE DEF behind, start
  <2> QED
    BY <1>4, <2>1, <2>2
<1>6. ASSUME NEW r \in Runners, StartRunByHand(r) PROVE Windows'
  <2>1. PICK start \in 0..hour, end \in 0..hour : StartRun(r, start, end, TRUE, TRUE)
    BY <1>6 DEF StartRunByHand
  <2>2. start \in Int
    BY <1>0
  <2> QED
    BY <1>4, <2>1, <2>2
<1>7. ASSUME NEW r \in Runners, ListPurchases(r) PROVE Windows'
  <2> DEFINE found == {v \in listed : voidedAt[v] \in run[r].start..run[r].end}
  <2>1. /\ run[r].pc = "list" /\ run' = [run EXCEPT ![r] = [run[r] EXCEPT !.pc = "persist", !.todo = found]]
        /\ UNCHANGED <<hour, voidedAt, listed, lastEnd, record, skipped>>
    BY <1>7 DEF ListPurchases, Becomes, googleVars, recordVars, voidHistory
  <2>2. NothingSlipsThrough' /\ ListedInTime' /\ (lastEnd <= hour)'
    BY <2>1, <1>i DEF NothingSlipsThrough, ListedInTime, Voided
  <2>3. ASSUME NEW q \in Runners, q # r PROVE Reaches(q)'
    BY <2>1, <2>3, <1>i DEF Reaches, Voided
  <2>4. Reaches(r)'
    <3>1. /\ run'[r].pc = "persist" /\ run'[r].start = run[r].start /\ run'[r].end = run[r].end
          /\ run'[r].chosen = run[r].chosen /\ run'[r].todo = found
          /\ run[r].start \in Int /\ run[r].end \in Int
      BY <2>1, <1>0 DEF Runs
    <3>2. /\ run[r].start < run[r].end /\ run[r].end \in 0..hour
          /\ ~run[r].chosen =>
               \A v \in Voided : voidedAt[v] < run[r].start => record[v] # "NONE" \/ v \in skipped
      BY <2>1, <1>i DEF Reaches
    <3>3. ASSUME NEW v \in Voided, run[r].start <= voidedAt[v],
                 voidedAt[v] < run[r].end - Overlap
          PROVE  v \in found
      <4>1. voidedAt[v] \in Int /\ voidedAt[v] <= hour
        BY <1>0, <1>i DEF Voided, ListedInTime
      <4>2. v \in listed
        BY <3>1, <3>2, <3>3, <4>1, <1>0, <1>i DEF ListedInTime
      <4> QED
        BY <3>1, <3>2, <3>3, <4>1, <4>2, <1>0
    <3> QED
      BY <2>1, <3>1, <3>2, <3>3 DEF Reaches, Voided
  <2> QED
    BY <2>2, <2>3, <2>4 DEF Windows
<1>8. ASSUME NEW r \in Runners, Persist(r) PROVE Windows'
  <2>1. PICK w \in run[r].todo :
          /\ run' = [run EXCEPT ![r] = [run[r] EXCEPT !.todo = @ \ {w}]]
          /\ record' = [record EXCEPT ![w] = IF @ = "NONE" THEN "PENDING" ELSE @]
          /\ UNCHANGED <<hour, voidedAt, listed, lastEnd, skipped>>
    BY <1>8 DEF Persist, Becomes, googleVars, voidHistory
  <2>2. /\ w \in Voids /\ record'[w] # "NONE"
        /\ \A v \in Voids : record[v] # "NONE" => record'[v] # "NONE"
    BY <2>1, <1>0 DEF Runs
  <2>3. NothingSlipsThrough' /\ ListedInTime' /\ (lastEnd <= hour)'
    BY <2>1, <2>2, <1>i DEF NothingSlipsThrough, ListedInTime, Voided
  <2>4. ASSUME NEW q \in Runners, q # r PROVE Reaches(q)'
    BY <2>1, <2>2, <2>4, <1>i DEF Reaches, Voided
  <2>5. Reaches(r)'
    <3>1. /\ run'[r].pc = run[r].pc /\ run'[r].start = run[r].start /\ run'[r].end = run[r].end
          /\ run'[r].chosen = run[r].chosen /\ run'[r].todo = run[r].todo \ {w}
      BY <2>1, <1>0 DEF Runs
    <3> QED
      BY <2>1, <2>2, <3>1, <1>i DEF Reaches, Voided
  <2> QED
    BY <2>3, <2>4, <2>5 DEF Windows
<1>9. ASSUME NEW r \in Runners, MarkFetchSuccessful(r) PROVE Windows'
  <2>1. /\ run[r].pc = "persist" /\ run[r].todo = {}
        /\ UNCHANGED <<hour, voidedAt, listed, record>>
        /\ IF leaseOwner = r
           THEN /\ lastEnd' = run[r].end
                /\ skipped' = skipped \union IF run[r].chosen THEN Older(r) ELSE {}
           ELSE UNCHANGED <<lastEnd, skipped>>
    BY <1>9 DEF MarkFetchSuccessful, IsFetched, googleVars, recordVars
  <2>2. run'[r].pc = "process" /\ \A q \in Runners : q # r => run'[q] = run[q]
    BY <1>9, <1>0 DEF MarkFetchSuccessful, Leaves, Becomes, Runs
  <2>3. /\ run[r].start \in Int /\ run[r].end \in 0..hour /\ Reaches(r)
    BY <2>1, <1>0, <1>i DEF Reaches, Runs
  <2>4. ListedInTime' /\ (lastEnd <= hour)'
    BY <2>1, <2>3, <1>0, <1>i DEF ListedInTime, Voided
  <2>5. ASSUME NEW q \in Runners PROVE Reaches(q)'
    <3>1. CASE q = r
      BY <2>2, <3>1 DEF Reaches
    <3>2. CASE q # r
      BY <2>1, <2>2, <3>2, <1>i DEF Reaches, Voided
    <3> QED
      BY <3>1, <3>2
  <2>6. NothingSlipsThrough'
    <3>1. CASE leaseOwner = r
      <4> SUFFICES ASSUME NEW v \in Voided, voidedAt[v] < run[r].end - Overlap
                   PROVE  record[v] # "NONE" \/ v \in skipped'
        BY <2>1, <3>1 DEF NothingSlipsThrough, Voided
      <4>1. voidedAt[v] \in Int
        BY <1>0 DEF Voided
      <4>2. CASE run[r].start <= voidedAt[v]
        BY <2>1, <2>3, <4>2 DEF Reaches
      <4>3. CASE voidedAt[v] < run[r].start
        BY <2>1, <2>3, <3>1, <4>3 DEF Reaches, Older
      <4> QED
        BY <2>3, <4>1, <4>2, <4>3
    <3>2. CASE leaseOwner # r
      BY <2>1, <3>2, <1>i DEF NothingSlipsThrough, Voided
    <3> QED
      BY <3>1, <3>2
  <2> QED
    BY <2>4, <2>5, <2>6 DEF Windows
\* The other steps move no window.
<1> USE DEF googleVars, recordVars, voidHistory
<1>10. ASSUME NEW w \in Voids, PurchaseRecorded(w) PROVE Windows'
  BY <1>10, WindowsKept DEF PurchaseRecorded
<1>11. ASSUME NEW r \in Runners, RunFails(r) \/ ReleaseLease(r) \/ SelectRecords(r) PROVE Windows'
  <2> DEFINE Gone == run'[r].pc \in {"idle", "retry"} /\ \A q \in Runners : q # r => run'[q] = run[q]
  <2>a. ASSUME Leaves(r, "idle") PROVE Gone
    BY <2>a, <1>0 DEF Leaves, Becomes, Runs
  <2>b. ASSUME SelectRecords(r) PROVE Gone
    <3>1. PICK ids : Becomes(r, [run[r] EXCEPT !.pc = "retry", !.todo = ids])
      BY <2>b DEF SelectRecords
    <3> QED
      BY <3>1, <1>0 DEF Becomes, Runs
  <2>1. Gone
    BY <1>11, <2>a, <2>b DEF RunFails, ReleaseLease
  <2>2. UNCHANGED <<hour, voidedAt, listed, lastEnd, record, skipped>>
    BY <1>11 DEF RunFails, ReleaseLease, SelectRecords
  <2> QED
    BY <2>1, <2>2, WindowsKept
<1>12. ASSUME NEW r \in Runners, RunnerDies(r) PROVE Windows'
  BY <1>12, <1>0, WindowsKept DEF RunnerDies, Becomes, NoWork
<1>13. ASSUME NEW r \in Runners, NEW v \in Voids, ClaimNextRecord(r, v) PROVE Windows'
  <2>1. \A q \in Runners :
          /\ run'[q].pc = run[q].pc /\ run'[q].start = run[q].start /\ run'[q].end = run[q].end
          /\ run'[q].chosen = run[q].chosen /\ run'[q].todo = run[q].todo
    BY <1>13, <1>0 DEF ClaimNextRecord, Becomes, Runs
  <2>2. /\ UNCHANGED <<hour, voidedAt, listed, lastEnd, skipped>>
        /\ record' = [record EXCEPT ![v] = "PROCESSING"]
    BY <1>13 DEF ClaimNextRecord
  <2> QED
    BY <2>1, <2>2, <1>0, WindowsKept
<1>14. ASSUME NEW r \in Runners, ProcessRecord(r) \/ SaveOutcomeThrows(r) PROVE Windows'
  <2>1. \A q \in Runners :
          /\ run'[q].pc = run[q].pc /\ run'[q].start = run[q].start /\ run'[q].end = run[q].end
          /\ run'[q].chosen = run[q].chosen /\ run'[q].todo = run[q].todo
    <3>1. PICK to : Becomes(r, [run[r] EXCEPT !.went = to])
      BY <1>14 DEF ProcessRecord, SaveOutcomeThrows
    <3> QED
      BY <3>1, <1>0 DEF Becomes, Runs
  <2>2. UNCHANGED <<hour, voidedAt, listed, lastEnd, record, skipped>>
    BY <1>14 DEF ProcessRecord, SaveOutcomeThrows
  <2> QED
    BY <2>1, <2>2, WindowsKept
<1>15. ASSUME NEW r \in Runners, SaveOutcome(r) \/ MarkRecordFailure(r) PROVE Windows'
  <2>1. \A q \in Runners :
          /\ run'[q].pc = run[q].pc /\ run'[q].start = run[q].start /\ run'[q].end = run[q].end
          /\ run'[q].chosen = run[q].chosen /\ run'[q].todo = run[q].todo
    <3>1. Becomes(r, JobDone(r))
      BY <1>15 DEF SaveOutcome, MarkRecordFailure
    <3> QED
      BY <3>1, <1>0 DEF Becomes, JobDone, Runs
  <2>2. UNCHANGED <<hour, voidedAt, listed, lastEnd, skipped>>
    BY <1>15 DEF SaveOutcome, MarkRecordFailure
  <2>3. \A v \in Voids : record[v] # "NONE" => record'[v] # "NONE"
    BY <1>15, <1>0 DEF SaveOutcome, MarkRecordFailure, FailedAs
  <2> QED
    BY <2>1, <2>2, <2>3, WindowsKept
<1>16. ASSUME NEW r \in Runners, PutBack(r) PROVE Windows'
  <2>1. run'[r].pc = "process" /\ \A q \in Runners : q # r => run'[q] = run[q]
    BY <1>16, <1>0 DEF PutBack, Leaves, Becomes, Runs
  <2>2. /\ UNCHANGED <<hour, voidedAt, listed, lastEnd, skipped>>
        /\ \A v \in Voids : record[v] # "NONE" => record'[v] # "NONE"
    BY <1>16 DEF PutBack
  <2> QED
    BY <2>1, <2>2, WindowsKept
<1>17. CASE UNCHANGED voidVars
  BY <1>17, WindowsKept DEF voidVars
<1> QED
  BY <1>1, <1>2, <1>3, <1>5, <1>6, <1>7, <1>8, <1>9, <1>10, <1>11, <1>12, <1>13, <1>14, <1>15,
     <1>16, <1>17
  DEF VoidsNext, RunStep
\* No step breaks a claim that nobody overtook.
LEMMA ClaimsStep ==
  ASSUME VoidsInv, [VoidsNext]_voidVars, VoidShapes'
  PROVE  Claims'
<1> USE TriesAssumption, NoVoidAssumption
<1>0. /\ record \in [Voids -> RecordStatuses] /\ tries \in [Voids -> 0..VoidAttempts]
      /\ run \in [Runners -> Runs] /\ run' \in [Runners -> Runs]
      /\ \A v \in Voids : tries[v] \in 0..VoidAttempts
      /\ \A q \in Runners : /\ run[q] \in Runs /\ run[q].jobTries \in 0..VoidAttempts
                            /\ run[q].job \in Voids \union {NoVoid}
                            /\ run[q].went \in {"none", "THREW", "PROCESSED", "UNMATCHED", "DEAD_LETTER"}
  BY DEF VoidsInv, VoidShapes, Runs
<1>i. /\ RecordsAreWorkable
      /\ \A r \in Runners :
           /\ Holds(r)
           /\ run[r].job = NoVoid => run[r].jobTries = 0 /\ run[r].went = "none"
      /\ \A v \in Voids : record[v] = "NONE" => tries[v] = 0
  BY DEF VoidsInv, Claims
<1>1. ASSUME NEW r \in Runners, NEW v \in Voids, ClaimNextRecord(r, v) PROVE Claims'
  <2>1. /\ record' = [record EXCEPT ![v] = "PROCESSING"] /\ tries' = [tries EXCEPT ![v] = tries[v] + 1]
        /\ run[r].job = NoVoid
        /\ overtaken' = overtaken \union IF Working(v) THEN {v} ELSE {}
        /\ UNCHANGED <<reversed, voidedAt>>
    BY <1>1 DEF ClaimNextRecord, googleVars
  <2>2. /\ run'[r].job = v /\ run'[r].jobTries = tries[v] + 1 /\ run'[r].went = "none"
        /\ \A q \in Runners : q # r => run'[q] = run[q]
    BY <1>1, <1>0, <1>i DEF ClaimNextRecord, Becomes, Runs
  <2>3. RecordsAreWorkable'
    BY <2>1, <1>0, <1>i DEF RecordsAreWorkable, Voided
  <2>4. ASSUME NEW q \in Runners PROVE Holds(q)'
    <3>1. CASE q = r
      BY <2>1, <2>2, <3>1, <1>0, <1>i DEF Holds, Working
    <3>2. CASE q # r
      BY <2>1, <2>2, <3>2, <1>0, <1>i DEF Holds, Working
    <3> QED
      BY <3>1, <3>2
  <2> QED
    BY <2>1, <2>2, <2>3, <2>4, <1>0, <1>i DEF Claims
<1>2. ASSUME NEW r \in Runners, ProcessRecord(r) PROVE Claims'
  <2>1. PICK to \in {"THREW", "PROCESSED", "UNMATCHED", "DEAD_LETTER"} :
          /\ run' = [run EXCEPT ![r] = [run[r] EXCEPT !.went = to]]
          /\ to = "PROCESSED" => run[r].job \in reversed'
          /\ to = "UNMATCHED" => run[r].jobTries < VoidAttempts
          /\ run[r].job # NoVoid /\ reversed \subseteq reversed'
          /\ UNCHANGED <<record, tries, overtaken, voidedAt>>
    <3>1. PICK to \in {"THREW", IF run[r].job \in matched THEN "PROCESSED"
                               ELSE IF run[r].jobTries >= VoidAttempts THEN "DEAD_LETTER"
                                    ELSE "UNMATCHED"} :
            /\ Becomes(r, [run[r] EXCEPT !.went = to])
            /\ reversed' = reversed \union IF to = "PROCESSED" THEN {run[r].job} ELSE {}
      BY <1>2 DEF ProcessRecord
    <3>2. run[r].job # NoVoid /\ UNCHANGED <<record, tries, overtaken, voidedAt>>
      BY <1>2 DEF ProcessRecord, googleVars, recordVars
    <3>3. /\ to \in {"THREW", "PROCESSED", "UNMATCHED", "DEAD_LETTER"}
          /\ to = "UNMATCHED" => ~(run[r].jobTries >= VoidAttempts)
      BY <3>1
    <3>4. to = "UNMATCHED" => run[r].jobTries < VoidAttempts
      BY <3>3, <1>0
    <3> QED
      BY <3>1, <3>2, <3>3, <3>4 DEF Becomes
  <2>2. /\ run'[r].job = run[r].job /\ run'[r].jobTries = run[r].jobTries /\ run'[r].went = to
        /\ \A q \in Runners : q # r => run'[q] = run[q]
    BY <2>1, <1>0 DEF Runs
  <2>3. RecordsAreWorkable'
    BY <2>1, <1>i DEF RecordsAreWorkable, Voided
  <2>4. ASSUME NEW q \in Runners PROVE Holds(q)'
    BY <2>1, <2>2, <1>i DEF Holds
  <2> QED
    BY <2>1, <2>2, <2>3, <2>4, <1>i DEF Claims
<1>3. ASSUME NEW r \in Runners, SaveOutcomeThrows(r) PROVE Claims'
  <2>1. /\ run' = [run EXCEPT ![r] = [run[r] EXCEPT !.went = "THREW"]]
        /\ run[r].went # "none"
        /\ UNCHANGED <<record, tries, overtaken, voidedAt, reversed>>
    BY <1>3 DEF SaveOutcomeThrows, Becomes, googleVars, recordVars, voidHistory
  <2>2. /\ run'[r].job = run[r].job /\ run'[r].jobTries = run[r].jobTries /\ run'[r].went = "THREW"
        /\ \A q \in Runners : q # r => run'[q] = run[q]
    BY <2>1, <1>0 DEF Runs
  <2>3. RecordsAreWorkable'
    BY <2>1, <1>i DEF RecordsAreWorkable, Voided
  <2>4. ASSUME NEW q \in Runners PROVE Holds(q)'
    BY <2>1, <2>2, <1>i DEF Holds
  <2> QED
    BY <2>1, <2>2, <2>3, <2>4, <1>i DEF Claims
\* A worker is done with its record.
<1>4. ASSUME NEW r \in Runners, NEW v \in Voids, NEW to \in RecordStatuses \ {"NONE"},
             NEW n \in 0..VoidAttempts,
             run[r].job = v, Becomes(r, JobDone(r)),
             record' = [record EXCEPT ![v] = to], tries' = [tries EXCEPT ![v] = n],
             UNCHANGED <<overtaken, reversed, voidedAt>>,
             to = "PROCESSED" => v \in reversed,
             to \in {"PENDING", "FAILED", "UNMATCHED"} /\ n >= VoidAttempts => v \in overtaken
      PROVE  Claims'
  <2>1. /\ run'[r].job = NoVoid /\ run'[r].jobTries = 0 /\ run'[r].went = "none"
        /\ \A q \in Runners : q # r => run'[q] = run[q]
    BY <1>4, <1>0 DEF Becomes, JobDone, Runs
  <2>2. RecordsAreWorkable'
    BY <1>4, <1>0, <1>i DEF RecordsAreWorkable, Voided
  <2>3. ASSUME NEW q \in Runners PROVE Holds(q)'
    <3>1. CASE q = r
      BY <2>1, <3>1 DEF Holds
    <3>2. CASE q # r
      BY <1>4, <2>1, <3>2, <1>0, <1>i DEF Holds
    <3> QED
      BY <3>1, <3>2
  <2> QED
    BY <1>4, <2>1, <2>2, <2>3, <1>0, <1>i DEF Claims
<1>5. ASSUME NEW r \in Runners, SaveOutcome(r) PROVE Claims'
  <2> DEFINE v == run[r].job
  <2>1. /\ v \in Voids /\ Holds(r) /\ run[r].went \in {"PROCESSED", "UNMATCHED", "DEAD_LETTER"}
    BY <1>5, <1>0, <1>i DEF SaveOutcome
  <2>2. /\ run[r].went = "PROCESSED" => v \in reversed
        /\ run[r].went = "UNMATCHED" => run[r].jobTries < VoidAttempts
        /\ run[r].went \in RecordStatuses \ {"NONE"} /\ run[r].jobTries \in 0..VoidAttempts
    BY <2>1, <1>0 DEF Holds, RecordStatuses
  <2>3. /\ record' = [record EXCEPT ![v] = run[r].went]
        /\ tries' = [tries EXCEPT ![v] = run[r].jobTries]
        /\ Becomes(r, JobDone(r)) /\ UNCHANGED <<overtaken, reversed, voidedAt>>
    BY <1>5 DEF SaveOutcome, voidHistory, googleVars
  <2>4. run[r].went \in {"PENDING", "FAILED", "UNMATCHED"} /\ run[r].jobTries >= VoidAttempts
          => v \in overtaken
    BY <2>1, <2>2, <1>0
  <2> HIDE DEF v
  <2>5. run[r].job = v
    BY DEF v
  <2> QED
    BY <1>4, <2>1, <2>2, <2>3, <2>4, <2>5
<1>6. ASSUME NEW r \in Runners, MarkRecordFailure(r) PROVE Claims'
  <2> DEFINE v == run[r].job
  <2>1. /\ v \in Voids /\ Holds(r) /\ tries' = [tries EXCEPT ![v] = tries[v]]
    BY <1>6, <1>0, <1>i DEF MarkRecordFailure
  <2>2. /\ FailedAs(run[r].jobTries) \in RecordStatuses \ {"NONE", "PROCESSED"}
        /\ FailedAs(run[r].jobTries) = "FAILED" => run[r].jobTries < VoidAttempts
        /\ FailedAs(run[r].jobTries) \in {"FAILED", "DEAD_LETTER"}
    BY <1>0 DEF FailedAs, RecordStatuses
  <2>3. v \notin overtaken => tries[v] = run[r].jobTries
    BY <2>1 DEF Holds
  <2>4. /\ record' = [record EXCEPT ![v] = FailedAs(run[r].jobTries)]
        /\ Becomes(r, JobDone(r)) /\ UNCHANGED <<overtaken, reversed, voidedAt>>
    BY <1>6 DEF MarkRecordFailure, voidHistory, googleVars
  <2> DEFINE to == FailedAs(run[r].jobTries)
  <2>5. to \in {"PENDING", "FAILED", "UNMATCHED"} /\ tries[v] >= VoidAttempts => v \in overtaken
    BY <2>1, <2>2, <2>3, <1>0
  <2>6. run[r].job = v /\ tries[v] \in 0..VoidAttempts /\ to \in RecordStatuses \ {"NONE"}
        /\ to # "PROCESSED"
    BY <2>1, <2>2, <1>0
  <2> HIDE DEF v, to
  <2> QED
    BY <1>4, <2>1, <2>4, <2>5, <2>6 DEF to
<1>7. ASSUME NEW r \in Runners, PutBack(r) PROVE Claims'
  <2> DEFINE ids == run[r].todo
  <2>1. /\ record' = [v \in Voids |-> IF v \in ids THEN "PENDING" ELSE record[v]]
        /\ tries' = [v \in Voids |-> IF v \in ids THEN 0 ELSE tries[v]]
        /\ overtaken' = overtaken \union {v \in ids : Working(v) \/ record[v] = "PROCESSED"}
        /\ UNCHANGED <<reversed, voidedAt>>
    BY <1>7 DEF PutBack, googleVars
  <2>2. /\ \A q \in Runners : /\ run'[q].job = run[q].job /\ run'[q].jobTries = run[q].jobTries
                              /\ run'[q].went = run[q].went
        /\ ids \subseteq Voids
    BY <1>7, <1>0 DEF PutBack, Leaves, Becomes, Runs
  <2> HIDE DEF ids
  <2>3. RecordsAreWorkable'
    BY <2>1, <2>2, <1>0, <1>i DEF RecordsAreWorkable, Voided
  <2>4. ASSUME NEW q \in Runners PROVE Holds(q)'
    BY <2>1, <2>2, <1>0, <1>i DEF Holds, Working
  <2> QED
    BY <2>1, <2>2, <2>3, <2>4, <1>0, <1>i DEF Claims
<1>8. ASSUME NEW r \in Runners, RunnerDies(r) PROVE Claims'
  <2>1. /\ run'[r].job = NoVoid /\ run'[r].jobTries = 0 /\ run'[r].went = "none"
        /\ \A q \in Runners : q # r => run'[q] = run[q]
        /\ UNCHANGED <<record, tries, overtaken, reversed, voidedAt>>
    BY <1>8, <1>0 DEF RunnerDies, Becomes, NoWork, recordVars, voidHistory, googleVars
  <2>2. RecordsAreWorkable'
    BY <2>1, <1>i DEF RecordsAreWorkable, Voided
  <2>3. ASSUME NEW q \in Runners PROVE Holds(q)'
    BY <2>1, <1>i DEF Holds
  <2> QED
    BY <2>1, <2>2, <2>3, <1>i DEF Claims
<1>9. ASSUME NEW v \in Voids, PurchaseVoided(v) PROVE Claims'
  <2>1. /\ UNCHANGED <<record, tries, run, overtaken, reversed>>
    BY <1>9 DEF PurchaseVoided, recordVars, voidHistory
  <2> QED
    BY <2>1, ClaimsKept
\* The other steps take and end no claim.
<1>10. CASE HourPasses
  BY <1>10, ClaimsKept DEF HourPasses, recordVars, voidHistory
<1>11. ASSUME NEW v \in Voids, GoogleLists(v) \/ PurchaseRecorded(v) PROVE Claims'
  BY <1>11, ClaimsKept DEF GoogleLists, PurchaseRecorded, recordVars, voidHistory
<1>12. ASSUME NEW r \in Runners, NEW state,
              Becomes(r, state), state.job = run[r].job, state.jobTries = run[r].jobTries,
              state.went = run[r].went,
              UNCHANGED <<record, tries, overtaken, reversed>>
       PROVE  Claims'
  BY <1>12, <1>0, ClaimsKept DEF Becomes
<1>13. ASSUME NEW r \in Runners, NEW start, NEW end, NEW chosen, NEW byHand,
              StartRun(r, start, end, chosen, byHand)
       PROVE  Claims'
  BY <1>12, <1>13, <1>0 DEF StartRun, Runs, recordVars, voidHistory
<1>14. ASSUME NEW r \in Runners, StartScheduledRun(r) \/ StartRunByHand(r) PROVE Claims'
  BY <1>13, <1>14 DEF StartScheduledRun, StartRunByHand
<1>15. ASSUME NEW r \in Runners, ListPurchases(r) PROVE Claims'
  BY <1>12, <1>15, <1>0 DEF ListPurchases, Runs, recordVars, voidHistory
<1>16. ASSUME NEW r \in Runners, SelectRecords(r) PROVE Claims'
  <2>1. PICK ids : Becomes(r, [run[r] EXCEPT !.pc = "retry", !.todo = ids])
    BY <1>16 DEF SelectRecords
  <2> QED
    BY <1>12, <1>16, <2>1, <1>0 DEF SelectRecords, Runs, recordVars, voidHistory
<1>17. ASSUME NEW r \in Runners,
              MarkFetchSuccessful(r) \/ ReleaseLease(r) \/ RunFails(r)
       PROVE  Claims'
  <2>1. /\ Leaves(r, "idle") \/ Leaves(r, "process")
        /\ UNCHANGED <<record, tries, overtaken, reversed>>
    BY <1>17 DEF MarkFetchSuccessful, ReleaseLease, RunFails, recordVars, voidHistory
  <2> QED
    BY <1>12, <2>1, <1>0 DEF Leaves, Runs
<1>18. ASSUME NEW r \in Runners, Persist(r) PROVE Claims'
  <2>1. PICK w \in run[r].todo :
          /\ Becomes(r, [run[r] EXCEPT !.todo = @ \ {w}])
          /\ record' = [record EXCEPT ![w] = IF @ = "NONE" THEN "PENDING" ELSE @]
    BY <1>18 DEF Persist
  <2>2. UNCHANGED <<tries, overtaken, reversed>>
    BY <1>18 DEF Persist, voidHistory
  <2>3. \A q \in Runners : /\ run'[q].job = run[q].job /\ run'[q].jobTries = run[q].jobTries
                          /\ run'[q].went = run[q].went
    BY <2>1, <1>0 DEF Becomes, Runs
  <2> QED
    BY <2>1, <2>2, <2>3, <1>0, ClaimsKept
<1>19. CASE UNCHANGED voidVars
  BY <1>19, ClaimsKept DEF voidVars, recordVars, voidHistory
<1> QED
  BY <1>1, <1>2, <1>3, <1>5, <1>6, <1>7, <1>8, <1>9, <1>10, <1>11, <1>14, <1>15, <1>16, <1>17,
     <1>18, <1>19
  DEF VoidsNext, RunStep

LEMMA VoidsInductive == VoidsSpec => []VoidsInv
<1>1. VoidsInv /\ [VoidsNext]_voidVars => VoidsInv'
  BY VoidShapesStep, WindowsStep, ClaimsStep DEF VoidsInv
<1> QED
  BY <1>1, VoidsInitInv, PTL DEF VoidsSpec

\* Of the voids that Google lists none is lost between two runs, although they
\* fail half-way, die and overlap, and a record that is PROCESSED had its purchase
\* reversed, while one that waits has an attempt left, unless it was taken from a
\* worker (acquireLease, calculateStartTime, persistVoidedPurchase,
\* claimNextRecord, processRecord, markRecordFailure).
THEOREM VoidsAreConsistent == VoidsSpec => []VoidsConsistent
<1>1. VoidsInv => VoidsConsistent
  BY DEF VoidsInv, VoidsConsistent, VoidsTypeOK, VoidShapes, Windows, Claims, Runs
<1> QED
  BY <1>1, VoidsInductive, PTL
-----------------------------------------------------------------------------
(* The rewards.                                                                *)

\* The calls a request may have left.
NoCalls == <<>>
ToR == <<"reward">>
ToA == <<"address">>
ToF == <<"fulfilment">>
ToAp == <<"apply">>
ToRAp == <<"reward", "apply">>
ToRF == <<"reward", "fulfilment">>
ToRFA == <<"reward", "fulfilment", "address">>
ToFA == <<"fulfilment", "address">>
ToFR == <<"fulfilment", "reward">>
ToAR == <<"address", "reward">>
ToFAR == <<"fulfilment", "address", "reward">>
ToAFR == <<"address", "fulfilment", "reward">>
ToVR == <<"value", "reward">>
ToGVR == <<"grant", "value", "reward">>
Todos == {NoCalls, ToR, ToA, ToF, ToAp, ToRAp, ToRF, ToRFA, ToFA, ToFR, ToAR, ToFAR, ToAFR, ToVR, ToGVR}

RewardTodos == {ToR, ToRAp, ToRF, ToRFA, ToFR, ToAR, ToFAR, ToAFR, ToVR, ToGVR}
AddressTodos == {ToA, ToRFA, ToFA, ToAR, ToFAR, ToAFR}
FulfilmentTodos == {ToF, ToRF, ToRFA, ToFA, ToFR, ToFAR, ToAFR}
GrantTodos == {ToAp, ToRAp, ToGVR}

CallNames == {"reward", "address", "fulfilment", "apply", "grant", "value"}

\* Every list is told from the others by its calls.
LEMMA TodoCalls ==
  /\ Head(ToR) = "reward" /\ Tail(ToR) = NoCalls
  /\ Head(ToA) = "address" /\ Tail(ToA) = NoCalls
  /\ Head(ToF) = "fulfilment" /\ Tail(ToF) = NoCalls
  /\ Head(ToAp) = "apply" /\ Tail(ToAp) = NoCalls
  /\ Head(ToRAp) = "reward" /\ Tail(ToRAp) = ToAp
  /\ Head(ToRF) = "reward" /\ Tail(ToRF) = ToF
  /\ Head(ToRFA) = "reward" /\ Tail(ToRFA) = ToFA
  /\ Head(ToFA) = "fulfilment" /\ Tail(ToFA) = ToA
  /\ Head(ToFR) = "fulfilment" /\ Tail(ToFR) = ToR
  /\ Head(ToAR) = "address" /\ Tail(ToAR) = ToR
  /\ Head(ToFAR) = "fulfilment" /\ Tail(ToFAR) = ToAR
  /\ Head(ToAFR) = "address" /\ Tail(ToAFR) = ToFR
  /\ Head(ToVR) = "value" /\ Tail(ToVR) = ToR
  /\ Head(ToGVR) = "grant" /\ Tail(ToGVR) = ToVR
  /\ NoCalls \notin {ToR, ToA, ToF, ToAp, ToRAp, ToRF, ToRFA, ToFA, ToFR, ToAR, ToFAR, ToAFR, ToVR, ToGVR}
<1>1. /\ Head(ToR) = "reward" /\ Tail(ToR) = NoCalls /\ NoCalls # ToR
      /\ Head(ToA) = "address" /\ Tail(ToA) = NoCalls /\ NoCalls # ToA
      /\ Head(ToF) = "fulfilment" /\ Tail(ToF) = NoCalls /\ NoCalls # ToF
      /\ Head(ToAp) = "apply" /\ Tail(ToAp) = NoCalls /\ NoCalls # ToAp
  BY DEF NoCalls, ToR, ToA, ToF, ToAp
<1>2. /\ Head(ToRAp) = "reward" /\ Tail(ToRAp) = ToAp /\ NoCalls # ToRAp
      /\ Head(ToRF) = "reward" /\ Tail(ToRF) = ToF /\ NoCalls # ToRF
      /\ Head(ToFA) = "fulfilment" /\ Tail(ToFA) = ToA /\ NoCalls # ToFA
  BY DEF NoCalls, ToA, ToF, ToAp, ToRAp, ToRF, ToFA
<1>3. /\ Head(ToFR) = "fulfilment" /\ Tail(ToFR) = ToR /\ NoCalls # ToFR
      /\ Head(ToAR) = "address" /\ Tail(ToAR) = ToR /\ NoCalls # ToAR
      /\ Head(ToVR) = "value" /\ Tail(ToVR) = ToR /\ NoCalls # ToVR
  BY DEF NoCalls, ToR, ToFR, ToAR, ToVR
<1>4. /\ Head(ToRFA) = "reward" /\ Tail(ToRFA) = ToFA /\ NoCalls # ToRFA
      /\ Head(ToFAR) = "fulfilment" /\ Tail(ToFAR) = ToAR /\ NoCalls # ToFAR
  BY DEF NoCalls, ToFA, ToAR, ToRFA, ToFAR
<1>5. /\ Head(ToAFR) = "address" /\ Tail(ToAFR) = ToFR /\ NoCalls # ToAFR
      /\ Head(ToGVR) = "grant" /\ Tail(ToGVR) = ToVR /\ NoCalls # ToGVR
  BY DEF NoCalls, ToFR, ToVR, ToAFR, ToGVR
<1> QED
  BY <1>1, <1>2, <1>3, <1>4, <1>5

\* No two of the lists are the same.
LEMMA TodosDiffer ==
  /\ NoCalls \notin {ToR, ToA, ToF, ToAp, ToRAp, ToRF, ToFA, ToFR, ToAR, ToVR, ToRFA, ToFAR, ToAFR, ToGVR}
  /\ ToR \notin {ToA, ToF, ToAp, ToRAp, ToRF, ToFA, ToFR, ToAR, ToVR, ToRFA, ToFAR, ToAFR, ToGVR}
  /\ ToA \notin {ToF, ToAp, ToRAp, ToRF, ToFA, ToFR, ToAR, ToVR, ToRFA, ToFAR, ToAFR, ToGVR}
  /\ ToF \notin {ToAp, ToRAp, ToRF, ToFA, ToFR, ToAR, ToVR, ToRFA, ToFAR, ToAFR, ToGVR}
  /\ ToAp \notin {ToRAp, ToRF, ToFA, ToFR, ToAR, ToVR, ToRFA, ToFAR, ToAFR, ToGVR}
  /\ ToRAp \notin {ToRF, ToFA, ToFR, ToAR, ToVR, ToRFA, ToFAR, ToAFR, ToGVR}
  /\ ToRF \notin {ToFA, ToFR, ToAR, ToVR, ToRFA, ToFAR, ToAFR, ToGVR}
  /\ ToFA \notin {ToFR, ToAR, ToVR, ToRFA, ToFAR, ToAFR, ToGVR}
  /\ ToFR \notin {ToAR, ToVR, ToRFA, ToFAR, ToAFR, ToGVR}
  /\ ToAR \notin {ToVR, ToRFA, ToFAR, ToAFR, ToGVR}
  /\ ToVR \notin {ToRFA, ToFAR, ToAFR, ToGVR}
  /\ ToRFA \notin {ToFAR, ToAFR, ToGVR}
  /\ ToFAR \notin {ToAFR, ToGVR}
  /\ ToAFR \notin {ToGVR}
<1>1. /\ Len(NoCalls) = 0 /\ Len(ToR) = 1 /\ Len(ToA) = 1 /\ Len(ToF) = 1 /\ Len(ToAp) = 1
      /\ Len(ToRAp) = 2 /\ Len(ToRF) = 2 /\ Len(ToFA) = 2 /\ Len(ToFR) = 2 /\ Len(ToAR) = 2 /\ Len(ToVR) = 2
      /\ Len(ToRFA) = 3 /\ Len(ToFAR) = 3 /\ Len(ToAFR) = 3 /\ Len(ToGVR) = 3
  BY DEF NoCalls, ToR, ToA, ToF, ToAp, ToRAp, ToRF, ToFA, ToFR, ToAR, ToVR, ToRFA, ToFAR, ToAFR, ToGVR
<1>2. /\ ToR \notin {ToA, ToF, ToAp}
      /\ ToA \notin {ToF, ToAp}
      /\ ToF \notin {ToAp}
  BY DEF ToR, ToA, ToF, ToAp
<1>3. /\ ToRAp \notin {ToRF, ToFA, ToFR, ToAR, ToVR}
      /\ ToRF \notin {ToFA, ToFR, ToAR, ToVR}
      /\ ToFA \notin {ToFR, ToAR, ToVR}
      /\ ToFR \notin {ToAR, ToVR}
      /\ ToAR \notin {ToVR}
  BY DEF ToRAp, ToRF, ToFA, ToFR, ToAR, ToVR
<1>4. /\ ToRFA \notin {ToFAR, ToAFR, ToGVR}
      /\ ToFAR \notin {ToAFR, ToGVR}
      /\ ToAFR \notin {ToGVR}
  BY DEF ToRFA, ToFAR, ToAFR, ToGVR
<1>l. /\ \A x \in {ToR, ToA, ToF, ToAp} : Len(x) = 1
      /\ \A x \in {ToRAp, ToRF, ToFA, ToFR, ToAR, ToVR} : Len(x) = 2
      /\ \A x \in {ToRFA, ToFAR, ToAFR, ToGVR} : Len(x) = 3
  BY <1>1
<1>5. NoCalls \notin {ToR, ToA, ToF, ToAp, ToRAp, ToRF, ToFA, ToFR, ToAR, ToVR, ToRFA, ToFAR, ToAFR, ToGVR}
  BY <1>1
<1>6. \A x \in {ToR, ToA, ToF, ToAp} : x \notin {ToRAp, ToRF, ToFA, ToFR, ToAR, ToVR} /\ x \notin {ToRFA, ToFAR, ToAFR, ToGVR}
  BY <1>l
<1>7. \A x \in {ToRAp, ToRF, ToFA, ToFR, ToAR, ToVR} : x \notin {ToRFA, ToFAR, ToAFR, ToGVR}
  BY <1>l
<1>8. ToR \notin {ToA, ToF, ToAp, ToRAp, ToRF, ToFA, ToFR, ToAR, ToVR, ToRFA, ToFAR, ToAFR, ToGVR}
  BY <1>2, <1>3, <1>4, <1>6, <1>7
<1>9. ToA \notin {ToF, ToAp, ToRAp, ToRF, ToFA, ToFR, ToAR, ToVR, ToRFA, ToFAR, ToAFR, ToGVR}
  BY <1>2, <1>3, <1>4, <1>6, <1>7
<1>10. ToF \notin {ToAp, ToRAp, ToRF, ToFA, ToFR, ToAR, ToVR, ToRFA, ToFAR, ToAFR, ToGVR}
  BY <1>2, <1>3, <1>4, <1>6, <1>7
<1>11. ToAp \notin {ToRAp, ToRF, ToFA, ToFR, ToAR, ToVR, ToRFA, ToFAR, ToAFR, ToGVR}
  BY <1>2, <1>3, <1>4, <1>6, <1>7
<1>12. ToRAp \notin {ToRF, ToFA, ToFR, ToAR, ToVR, ToRFA, ToFAR, ToAFR, ToGVR}
  BY <1>2, <1>3, <1>4, <1>6, <1>7
<1>13. ToRF \notin {ToFA, ToFR, ToAR, ToVR, ToRFA, ToFAR, ToAFR, ToGVR}
  BY <1>2, <1>3, <1>4, <1>6, <1>7
<1>14. ToFA \notin {ToFR, ToAR, ToVR, ToRFA, ToFAR, ToAFR, ToGVR}
  BY <1>2, <1>3, <1>4, <1>6, <1>7
<1>15. ToFR \notin {ToAR, ToVR, ToRFA, ToFAR, ToAFR, ToGVR}
  BY <1>2, <1>3, <1>4, <1>6, <1>7
<1>16. ToAR \notin {ToVR, ToRFA, ToFAR, ToAFR, ToGVR}
  BY <1>2, <1>3, <1>4, <1>6, <1>7
<1>17. ToVR \notin {ToRFA, ToFAR, ToAFR, ToGVR}
  BY <1>2, <1>3, <1>4, <1>6, <1>7
<1>18. ToRFA \notin {ToFAR, ToAFR, ToGVR}
  BY <1>2, <1>3, <1>4, <1>6, <1>7
<1>19. ToFAR \notin {ToAFR, ToGVR}
  BY <1>2, <1>3, <1>4, <1>6, <1>7
<1>20. ToAFR \notin {ToGVR}
  BY <1>2, <1>3, <1>4, <1>6, <1>7
<1> QED
  BY <1>5, <1>8, <1>9, <1>10, <1>11, <1>12, <1>13, <1>14, <1>15, <1>16, <1>17, <1>18, <1>19, <1>20

\* What a list is after its first call.
LEMMA TodoTails ==
  ASSUME NEW todo \in Todos, todo # NoCalls
  PROVE  /\ Tail(todo) \in Todos
         /\ Head(todo) = "reward" => todo \in {ToR, ToRAp, ToRF, ToRFA}
         /\ Head(todo) = "address" => todo \in {ToA, ToAR, ToAFR}
         /\ Head(todo) = "fulfilment" => todo \in {ToF, ToFA, ToFR, ToFAR}
         /\ Head(todo) = "apply" => todo = ToAp
         /\ Head(todo) = "value" => todo = ToVR
         /\ Head(todo) = "grant" => todo = ToGVR
BY TodoCalls DEF Todos

LEMMA TodoRange == \A todo \in Todos : Range(todo) \subseteq CallNames
<1>1. /\ Range(NoCalls) \subseteq CallNames /\ Range(ToR) \subseteq CallNames /\ Range(ToA) \subseteq CallNames
      /\ Range(ToF) \subseteq CallNames /\ Range(ToAp) \subseteq CallNames
  BY DEF Range, NoCalls, ToR, ToA, ToF, ToAp, CallNames
<1>2. /\ Range(ToRAp) \subseteq CallNames /\ Range(ToRF) \subseteq CallNames /\ Range(ToFA) \subseteq CallNames
      /\ Range(ToFR) \subseteq CallNames /\ Range(ToAR) \subseteq CallNames /\ Range(ToVR) \subseteq CallNames
  BY DEF Range, ToRAp, ToRF, ToFA, ToFR, ToAR, ToVR, CallNames
<1>3. /\ Range(ToRFA) \subseteq CallNames /\ Range(ToFAR) \subseteq CallNames /\ Range(ToAFR) \subseteq CallNames
      /\ Range(ToGVR) \subseteq CallNames
  BY DEF Range, ToRFA, ToFAR, ToAFR, ToGVR, CallNames
<1> QED
  BY <1>1, <1>2, <1>3 DEF Todos

Given == {"CLAIMED", "ISSUED"}
ClerkRecords == [todo : Todos, read : RowSets, save : RowSets]

GiftTyped ==
  /\ kind \in Kinds \union {"NONE"}
  /\ reward \in [status : RewardStatuses, opened : BOOLEAN, seen : BOOLEAN]
  /\ address \in [text : AddressTexts \union {NoText}, locked : BOOLEAN]
  /\ fulfilment \in [dispatched : BOOLEAN, delivered : BOOLEAN]
  /\ applied \in BOOLEAN /\ credited \in Nat
  /\ clerk \in [Clerks -> ClerkRecords]
  /\ clerkWork \in 0..MaxClerkWork /\ clerkFaults \in 0..MaxClerkFaults
  /\ parcel \in AddressTexts \union {NoText}
  /\ staleRows \subseteq {"reward", "address", "fulfilment"}
  /\ together \in BOOLEAN /\ revoked \in BOOLEAN /\ readdressed \in BOOLEAN

\* Every request credits once at most.
Granters == {r \in Clerks : clerk[r].todo \in GrantTodos}
CreditsCounted == IsFiniteSet(Granters) /\ credited + Cardinality(Granters) <= clerkWork

\* Whatever becomes of the rows: how what a request saves follows from what it read.
Follows(c) ==
  LET from == c.read.reward
      to == c.save.reward
  IN /\ c.todo \in RewardTodos =>
          /\ kind # "PHYSICAL" /\ from.opened =>
               to.opened /\ (from.status \in Given => to.status \in Given)
          /\ from.status = "REVOKED" => to.status \in {"REVOKED", "ADDRESS_RECEIVED"}
          /\ to.status = "DISPATCHED" => from.status = "DISPATCHED" \/ c.save.fulfilment.dispatched
          /\ to.status = "DELIVERED" =>
               \/ from.status = "DELIVERED"
               \/ from.status = "DISPATCHED" /\ c.todo \in {ToRF, ToRFA} /\ c.save.fulfilment.delivered
     /\ c.todo \in {ToGVR, ToVR} => to.status \in Given
     /\ c.todo = ToRAp => to.opened
     /\ c.todo \in AddressTodos =>
          /\ c.read.address.locked => c.save.address = c.read.address
          /\ to.status = "DISPATCHED" => c.save.address.locked
     /\ c.todo \in FulfilmentTodos =>
          /\ c.read.fulfilment.dispatched => c.save.fulfilment.dispatched
          /\ c.read.fulfilment.delivered => c.save.fulfilment.delivered
     /\ c.todo = ToAFR => c.save.fulfilment = c.read.fulfilment
     /\ c.todo \in {ToAp, ToRAp, ToGVR, ToVR} => kind # "PHYSICAL"
     /\ kind = "NONE" => c.todo = NoCalls

\* What it may still rely on.
Relies(c) ==
  LET from == c.read.reward
      to == c.save.reward
  IN /\ c.todo \in {ToAp, ToGVR, ToVR} => reward.opened \/ "reward" \in staleRows
     /\ c.todo = ToVR /\ kind \in {"WALLET", "XP"} => credited > 0
     /\ c.todo \in RewardTodos /\ from.status = "REVOKED" /\ to.status = "ADDRESS_RECEIVED" =>
          c.todo = ToAFR \/ readdressed
     /\ c.todo \in RewardTodos /\ to.status = "DISPATCHED" /\ from.status # "DISPATCHED" =>
          c.todo \in FulfilmentTodos \/ fulfilment.dispatched \/ "fulfilment" \in staleRows
     /\ c.todo \in FulfilmentTodos /\ "fulfilment" \notin staleRows =>
          /\ c.read.fulfilment.dispatched => fulfilment.dispatched
          /\ c.read.fulfilment.delivered => fulfilment.delivered
ClerksSound == \A r \in Clerks : Follows(clerk[r]) /\ Relies(clerk[r])

GiftAppliedOnce ==
  /\ applied /\ kind \in {"WALLET", "XP"} => credited > 0
  /\ kind = "XP" => credited <= 1
  /\ kind \in {"NONE", "PHYSICAL", "FILE"} => credited = 0
  /\ kind = "NONE" => ~applied
  /\ ~together /\ clerkFaults = 0 =>
       /\ \A p, q \in Clerks : clerk[p].todo \in {ToGVR, ToVR} /\ clerk[q].todo \in {ToGVR, ToVR} => p = q
       /\ credited > 0 => credited = 1 /\ (applied \/ \E q \in Clerks : clerk[q].todo = ToVR)
       /\ \A q \in Clerks : clerk[q].todo = ToGVR => ~applied /\ credited = 0

\* About to say that the reward was given.
Finishing(c) == c.todo \in {ToVR, ToR} /\ c.save.reward.status \in Given
GiftWithheld ==
  /\ "reward" \notin staleRows /\ credited > 0 =>
       /\ reward.opened
       /\ clerkFaults = 0 => reward.status \in Given \/ \E q \in Clerks : Finishing(clerk[q])
  /\ "reward" \notin staleRows /\ ~readdressed /\ revoked => reward.status = "REVOKED"
  /\ kind = "NONE" => ~revoked

\* About to say that it was sent, or delivered, for the first time.
SavesDispatch(c) ==
  c.todo \in FulfilmentTodos /\ c.save.fulfilment.dispatched /\ ~c.read.fulfilment.dispatched
SavesDelivery(c) ==
  c.todo \in FulfilmentTodos /\ c.save.fulfilment.delivered /\ ~c.read.fulfilment.delivered
GiftTraced ==
  /\ "address" \notin staleRows /\ parcel # NoText => address.text = parcel /\ address.locked
  /\ clerkFaults = 0 /\ "fulfilment" \notin staleRows /\ "reward" \notin staleRows =>
       /\ reward.status \in {"DISPATCHED", "DELIVERED"} =>
            fulfilment.dispatched \/ \E q \in Clerks : SavesDispatch(clerk[q])
       /\ reward.status = "DELIVERED" => fulfilment.delivered \/ \E q \in Clerks : SavesDelivery(clerk[q])

GiftInv ==
  GiftTyped /\ CreditsCounted /\ ClerksSound /\ GiftAppliedOnce /\ GiftWithheld /\ GiftTraced

\* Of what a list leaves after its first call.
LEMMA TailKinds ==
  ASSUME NEW todo \in Todos, todo # NoCalls
  PROVE  /\ Tail(todo) \in RewardTodos => todo \in RewardTodos \ {ToRF, ToRFA}
         /\ Tail(todo) \in AddressTodos => todo \in AddressTodos
         /\ Tail(todo) \in FulfilmentTodos => todo \in FulfilmentTodos
         /\ Tail(todo) \notin {ToAFR, ToRAp, ToGVR, ToRF, ToRFA}
         /\ Tail(todo) = ToVR => todo = ToGVR
         /\ Tail(todo) = ToAp => todo = ToRAp
<1>1. \/ todo \in {ToR, ToA, ToF, ToAp} /\ Tail(todo) = NoCalls
      \/ todo = ToRAp /\ Tail(todo) = ToAp
      \/ todo = ToRF /\ Tail(todo) = ToF
      \/ todo = ToRFA /\ Tail(todo) = ToFA
      \/ todo = ToFA /\ Tail(todo) = ToA
      \/ todo \in {ToFR, ToAR, ToVR} /\ Tail(todo) = ToR
      \/ todo = ToFAR /\ Tail(todo) = ToAR
      \/ todo = ToAFR /\ Tail(todo) = ToFR
      \/ todo = ToGVR /\ Tail(todo) = ToVR
  BY TodoCalls DEF Todos
<1>2. Tail(todo) \notin {ToAFR, ToRAp, ToGVR, ToRF, ToRFA}
  BY <1>1, TodosDiffer
<1>3. Tail(todo) \in RewardTodos => todo \in RewardTodos \ {ToRF, ToRFA}
  <2>1. Tail(todo) \in RewardTodos => Tail(todo) \in {ToR, ToAR, ToFR, ToVR}
    BY <1>1, TodosDiffer DEF RewardTodos
  <2>2. Tail(todo) \in {ToR, ToAR, ToFR, ToVR} => todo \in {ToFR, ToAR, ToVR, ToFAR, ToAFR, ToGVR}
    BY <1>1, TodosDiffer
  <2>3. {ToFR, ToAR, ToVR, ToFAR, ToAFR, ToGVR} \subseteq RewardTodos \ {ToRF, ToRFA}
    BY TodosDiffer DEF RewardTodos
  <2> QED
    BY <2>1, <2>2, <2>3
<1>4. Tail(todo) \in AddressTodos => todo \in AddressTodos
  <2>1. Tail(todo) \in AddressTodos => Tail(todo) \in {ToFA, ToA, ToAR}
    BY <1>1, TodosDiffer DEF AddressTodos
  <2>2. Tail(todo) \in {ToFA, ToA, ToAR} => todo \in {ToRFA, ToFA, ToFAR}
    BY <1>1, TodosDiffer
  <2> QED
    BY <2>1, <2>2 DEF AddressTodos
<1>5. Tail(todo) \in FulfilmentTodos => todo \in FulfilmentTodos
  <2>1. Tail(todo) \in FulfilmentTodos => Tail(todo) \in {ToF, ToFA, ToFR}
    BY <1>1, TodosDiffer DEF FulfilmentTodos
  <2>2. Tail(todo) \in {ToF, ToFA, ToFR} => todo \in {ToRF, ToRFA, ToAFR}
    BY <1>1, TodosDiffer
  <2> QED
    BY <2>1, <2>2 DEF FulfilmentTodos
<1>6. (Tail(todo) = ToVR => todo = ToGVR) /\ (Tail(todo) = ToAp => todo = ToRAp)
  BY <1>1, TodosDiffer
<1> QED
  BY <1>2, <1>3, <1>4, <1>5, <1>6

LEMMA IdleIs ==
  /\ Idle \in ClerkRecords /\ Idle.todo = NoCalls
  /\ Follows(Idle) /\ Relies(Idle)
<1>1. /\ Row("PENDING", FALSE) \in [status : RewardStatuses, opened : BOOLEAN, seen : BOOLEAN]
      /\ NoAddress \in [text : AddressTexts \union {NoText}, locked : BOOLEAN]
      /\ Done(FALSE, FALSE) \in [dispatched : BOOLEAN, delivered : BOOLEAN]
  BY DEF Row, NoAddress, Done, RewardStatuses
<1>2. Forgotten \in RowSets
  BY <1>1 DEF Forgotten, RowSets
<1>3. Idle \in ClerkRecords /\ Idle.todo = NoCalls
  BY <1>2 DEF Idle, ClerkRecords, NoCalls, Todos
<1>4. NoCalls \notin RewardTodos \union AddressTodos \union FulfilmentTodos \union {ToAp, ToRAp, ToGVR, ToVR, ToAFR}
  BY TodoCalls DEF RewardTodos, AddressTodos, FulfilmentTodos
<1> QED
  BY <1>3, <1>4 DEF Follows, Relies

\* A request goes on.
LEMMA ClerkMoves ==
  ASSUME GiftTyped, NEW r \in Clerks, NEW c \in ClerkRecords, clerk' = [clerk EXCEPT ![r] = c]
  PROVE  /\ clerk' \in [Clerks -> ClerkRecords] /\ clerk'[r] = c
         /\ \A q \in Clerks \ {r} : clerk'[q] = clerk[q]
         /\ (\E q \in Clerks : clerk[q].todo = ToVR) =>
              clerk[r].todo = ToVR \/ \E q \in Clerks : clerk'[q].todo = ToVR
         /\ (\E q \in Clerks : Finishing(clerk[q])) =>
              Finishing(clerk[r]) \/ \E q \in Clerks : Finishing(clerk'[q])
         /\ (\E q \in Clerks : SavesDispatch(clerk[q])) =>
              SavesDispatch(clerk[r]) \/ \E q \in Clerks : SavesDispatch(clerk'[q])
         /\ (\E q \in Clerks : SavesDelivery(clerk[q])) =>
              SavesDelivery(clerk[r]) \/ \E q \in Clerks : SavesDelivery(clerk'[q])
<1>1. /\ clerk' \in [Clerks -> ClerkRecords] /\ clerk'[r] = c
      /\ \A q \in Clerks \ {r} : clerk'[q] = clerk[q]
  BY DEF GiftTyped
<1> QED
  BY <1>1

\* The requests that may credit.
LEMMA CreditsStayCounted ==
  ASSUME GiftTyped, CreditsCounted, NEW r \in Clerks, NEW c \in ClerkRecords, clerk' = [clerk EXCEPT ![r] = c],
         credited' \in Nat, clerkWork' \in Nat,
         \/ c.todo \notin GrantTodos /\ credited' = credited /\ clerkWork' >= clerkWork
         \/ r \in Granters /\ credited' = credited /\ clerkWork' >= clerkWork
         \/ credited' = credited /\ clerkWork' = clerkWork + 1
         \/ r \in Granters /\ c.todo \notin GrantTodos /\ credited' <= credited + 1 /\ clerkWork' = clerkWork
  PROVE  CreditsCounted'
<1>1. /\ clerk'[r] = c /\ \A q \in Clerks \ {r} : clerk'[q] = clerk[q]
      /\ credited \in Nat /\ clerkWork \in Nat
  BY ClerkMoves, GiveawaysAssumption DEF GiftTyped
<1>2. IsFiniteSet(Granters) /\ credited + Cardinality(Granters) <= clerkWork /\ Cardinality(Granters) \in Nat
  BY FS_CardinalityType DEF CreditsCounted
<1>3. Granters' = IF c.todo \in GrantTodos THEN Granters \union {r} ELSE Granters \ {r}
  BY <1>1 DEF Granters
<1>4. /\ IsFiniteSet(Granters \union {r})
      /\ Cardinality(Granters \union {r}) = IF r \in Granters THEN Cardinality(Granters) ELSE Cardinality(Granters) + 1
  BY <1>2, FS_AddElement
<1>5. /\ IsFiniteSet(Granters \ {r})
      /\ Cardinality(Granters \ {r}) = IF r \in Granters THEN Cardinality(Granters) - 1 ELSE Cardinality(Granters)
  BY <1>2, FS_RemoveElement
<1>6. IsFiniteSet(Granters')
  BY <1>3, <1>4, <1>5
<1>7. credited' + Cardinality(Granters') <= clerkWork'
  <2>1. CASE c.todo \in GrantTodos
    BY <1>1, <1>2, <1>3, <1>4, <2>1
  <2>2. CASE c.todo \notin GrantTodos
    BY <1>1, <1>2, <1>3, <1>5, <2>2
  <2> QED
    BY <2>1, <2>2
<1> QED
  BY <1>6, <1>7 DEF CreditsCounted

\* The others still know what they did.
LEMMA ClerksStaySound ==
  ASSUME GiftTyped, ClerksSound, NEW r \in Clerks, NEW c \in ClerkRecords, clerk' = [clerk EXCEPT ![r] = c],
         kind' = kind, staleRows \subseteq staleRows', readdressed => readdressed',
         credited > 0 => credited' > 0,
         kind # "PHYSICAL" /\ "reward" \notin staleRows' /\ reward.opened => reward'.opened,
         "fulfilment" \notin staleRows' =>
           /\ fulfilment.dispatched => fulfilment'.dispatched
           /\ fulfilment.delivered => fulfilment'.delivered,
         Follows(c), Relies(c)'
  PROVE  ClerksSound'
<1>1. clerk'[r] = c /\ \A q \in Clerks \ {r} : clerk'[q] = clerk[q]
  BY ClerkMoves
<1>2. \A d : Follows(d)' <=> Follows(d)
  BY DEF Follows
<1>3. ASSUME NEW d \in ClerkRecords, Follows(d), Relies(d), "fulfilment" \in staleRows => "fulfilment" \in staleRows'
      PROVE  Relies(d)'
  <2>1. d.todo \in {ToAp, ToGVR, ToVR} => reward'.opened \/ "reward" \in staleRows'
    <3>1. d.todo \in {ToAp, ToGVR, ToVR} => kind # "PHYSICAL" /\ (reward.opened \/ "reward" \in staleRows)
      BY <1>3 DEF Follows, Relies
    <3> QED
      BY <3>1
  <2>2. d.todo = ToVR /\ kind' \in {"WALLET", "XP"} => credited' > 0
    BY <1>3 DEF Relies
  <2>3. d.todo \in RewardTodos /\ d.read.reward.status = "REVOKED" /\ d.save.reward.status = "ADDRESS_RECEIVED" =>
          d.todo = ToAFR \/ readdressed'
    BY <1>3 DEF Relies
  <2>4. d.todo \in RewardTodos /\ d.save.reward.status = "DISPATCHED" /\ d.read.reward.status # "DISPATCHED" =>
          d.todo \in FulfilmentTodos \/ fulfilment'.dispatched \/ "fulfilment" \in staleRows'
    BY <1>3 DEF Relies
  <2>5. d.todo \in FulfilmentTodos /\ "fulfilment" \notin staleRows' =>
          /\ d.read.fulfilment.dispatched => fulfilment'.dispatched
          /\ d.read.fulfilment.delivered => fulfilment'.delivered
    BY <1>3 DEF Relies
  <2> QED
    BY <2>1, <2>2, <2>3, <2>4, <2>5 DEF Relies
<1>4. ASSUME NEW q \in Clerks PROVE Follows(clerk[q])' /\ Relies(clerk[q])'
  <2>1. CASE q = r
    <3>1. Follows(c)' /\ Relies(c)'
      BY <1>2
    <3> QED
      BY <1>1, <2>1, <3>1 DEF Follows, Relies
  <2>2. CASE q # r
    <3>1. PICK d \in ClerkRecords : d = clerk[q]
      BY DEF GiftTyped
    <3>2. Follows(d) /\ Relies(d) /\ clerk'[q] = d
      BY <1>1, <2>2, <3>1 DEF ClerksSound
    <3>3. Follows(d)' /\ Relies(d)'
      BY <1>2, <1>3, <3>2
    <3> QED
      BY <3>2, <3>3 DEF Follows, Relies
  <2> QED
    BY <2>1, <2>2
<1> QED
  BY <1>4 DEF ClerksSound

LEMMA FollowsTail ==
  ASSUME NEW c \in ClerkRecords, NEW d \in ClerkRecords, Follows(d), d.todo # NoCalls, c.todo = Tail(d.todo),
         c.todo # NoCalls => c.read = d.read /\ c.save = d.save
  PROVE  Follows(c)
<1>1. /\ c.todo \in RewardTodos => d.todo \in RewardTodos \ {ToRF, ToRFA}
      /\ c.todo \in AddressTodos => d.todo \in AddressTodos
      /\ c.todo \in FulfilmentTodos => d.todo \in FulfilmentTodos
      /\ c.todo \notin {ToAFR, ToRAp, ToGVR, ToRF, ToRFA}
      /\ c.todo = ToVR => d.todo = ToGVR
      /\ c.todo = ToAp => d.todo = ToRAp
  BY TailKinds DEF ClerkRecords
<1>2. NoCalls \notin RewardTodos \union AddressTodos \union FulfilmentTodos \union {ToAp, ToRAp, ToGVR, ToVR, ToAFR}
  BY TodoCalls DEF RewardTodos, AddressTodos, FulfilmentTodos
<1>3. CASE c.todo = NoCalls
  BY <1>2, <1>3 DEF Follows
<1>4. CASE c.todo # NoCalls
  <2>1. c.read = d.read /\ c.save = d.save
    BY <1>4
  <2>2. c.todo \in RewardTodos =>
          /\ kind # "PHYSICAL" /\ c.read.reward.opened =>
               c.save.reward.opened /\ (c.read.reward.status \in Given => c.save.reward.status \in Given)
          /\ c.read.reward.status = "REVOKED" => c.save.reward.status \in {"REVOKED", "ADDRESS_RECEIVED"}
          /\ c.save.reward.status = "DISPATCHED" => c.read.reward.status = "DISPATCHED" \/ c.save.fulfilment.dispatched
          /\ c.save.reward.status = "DELIVERED" => c.read.reward.status = "DELIVERED"
    BY <1>1, <2>1 DEF Follows
  <2>3. /\ c.todo \in {ToGVR, ToVR} => c.save.reward.status \in Given
        /\ c.todo \in AddressTodos =>
             /\ c.read.address.locked => c.save.address = c.read.address
             /\ c.save.reward.status = "DISPATCHED" => c.save.address.locked
        /\ c.todo \in FulfilmentTodos =>
             /\ c.read.fulfilment.dispatched => c.save.fulfilment.dispatched
             /\ c.read.fulfilment.delivered => c.save.fulfilment.delivered
    BY <1>1, <2>1 DEF Follows
  <2>4. /\ c.todo \in {ToAp, ToRAp, ToGVR, ToVR} => kind # "PHYSICAL"
        /\ kind # "NONE"
    BY <1>1 DEF Follows
  <2> QED
    BY <1>1, <2>2, <2>3, <2>4 DEF Follows
<1> QED
  BY <1>3, <1>4

\* A request makes a call.
LEMMA MakesIs ==
  ASSUME GiftInv, NEW r \in Clerks, NEW call, Makes(r, call)
  PROVE  \E c, d \in ClerkRecords :
           /\ d = clerk[r] /\ Follows(d) /\ Relies(d) /\ d.todo # NoCalls /\ Head(d.todo) = call
           /\ c.todo = Tail(d.todo) /\ Follows(c) /\ (c.todo # NoCalls => c.read = d.read /\ c.save = d.save)
           /\ clerk' = [clerk EXCEPT ![r] = c]
           /\ UNCHANGED <<kind, clerkWork, clerkFaults>>
<1>1. PICK d \in ClerkRecords : d = clerk[r] /\ Follows(d) /\ Relies(d)
  BY DEF GiftInv, GiftTyped, ClerksSound
<1>2. /\ d.todo # NoCalls /\ Head(d.todo) = call
      /\ clerk' = [clerk EXCEPT ![r] = Left(r, Tail(d.todo))]
      /\ UNCHANGED <<kind, clerkWork, clerkFaults>>
  BY <1>1 DEF Makes, NextCall, NoCalls
<1>3. Tail(d.todo) \in Todos
  BY <1>2, TodoTails DEF ClerkRecords
<1>4. PICK c \in ClerkRecords : /\ c = Left(r, Tail(d.todo)) /\ c.todo = Tail(d.todo)
                                /\ c.todo # NoCalls => c.read = d.read /\ c.save = d.save
  <2>1. CASE Tail(d.todo) = NoCalls
    BY <2>1, IdleIs DEF Left, NoCalls
  <2>2. CASE Tail(d.todo) # NoCalls
    <3> DEFINE e == [d EXCEPT !.todo = Tail(d.todo)]
    <3>1. e \in ClerkRecords /\ e.todo = Tail(d.todo) /\ e.read = d.read /\ e.save = d.save
      BY <1>3 DEF ClerkRecords
    <3>2. e = Left(r, Tail(d.todo))
      BY <1>1, <2>2 DEF Left, NoCalls
    <3> HIDE DEF e
    <3> QED
      BY <3>1, <3>2
  <2> QED
    BY <2>1, <2>2
<1>5. Follows(c)
  BY <1>1, <1>2, <1>4, FollowsTail
<1> QED
  BY <1>1, <1>2, <1>4, <1>5

\* A request loads the rows.
LoadsRows(r, c) ==
  /\ kind # "NONE" /\ clerk[r].todo = NoCalls /\ clerkWork < MaxClerkWork
  /\ c.read.reward = reward /\ c.read.address = address /\ c.read.fulfilment = fulfilment
  /\ c.todo \notin {NoCalls, ToAp, ToVR, ToGVR}
  /\ clerkWork' = clerkWork + 1 /\ clerk' = [clerk EXCEPT ![r] = c]
  /\ UNCHANGED <<kind, rewardRows, clerkFaults, rewardHistory>>

LEMMA LoadsInv ==
  ASSUME GiftInv, NEW r \in Clerks, NEW c \in ClerkRecords, LoadsRows(r, c), Follows(c),
         c.save.reward.status = "ADDRESS_RECEIVED" /\ c.read.reward.status = "REVOKED" => c.todo = ToAFR,
         c.save.reward.status = "DISPATCHED" /\ c.read.reward.status # "DISPATCHED" => c.todo \in FulfilmentTodos
  PROVE  GiftInv'
<1>1. /\ GiftTyped /\ CreditsCounted /\ ClerksSound /\ GiftAppliedOnce /\ GiftWithheld /\ GiftTraced
  BY DEF GiftInv
<1>2. /\ clerk' = [clerk EXCEPT ![r] = c] /\ clerk[r].todo = NoCalls /\ c.todo \notin {NoCalls, ToAp, ToVR, ToGVR}
      /\ clerkWork' = clerkWork + 1 /\ clerkWork < MaxClerkWork
      /\ UNCHANGED <<kind, reward, address, fulfilment, applied, credited, clerkFaults, parcel, staleRows,
                     together, revoked, readdressed>>
      /\ c.read.reward = reward /\ c.read.address = address /\ c.read.fulfilment = fulfilment
  BY DEF LoadsRows, rewardRows, rewardHistory
<1>3. GiftTyped'
  <2>1. clerk' \in [Clerks -> ClerkRecords]
    BY <1>1, <1>2, ClerkMoves
  <2>2. clerkWork' \in 0..MaxClerkWork
    BY <1>1, <1>2, GiveawaysAssumption DEF GiftTyped
  <2> QED
    BY <1>1, <1>2, <2>1, <2>2 DEF GiftTyped
<1>4. CreditsCounted'
  <2>1. credited' \in Nat /\ clerkWork' \in Nat
    BY <1>1, <1>2, GiveawaysAssumption DEF GiftTyped
  <2> QED
    BY <1>1, <1>2, <2>1, CreditsStayCounted
<1>5. ClerksSound'
  <2>1. Relies(c)'
    BY <1>2 DEF Relies
  <2> QED
    BY <1>1, <1>2, <2>1, ClerksStaySound
<1>6. /\ clerk'[r] = c /\ \A q \in Clerks \ {r} : clerk'[q] = clerk[q]
      /\ (\E q \in Clerks : clerk[q].todo = ToVR) => \E q \in Clerks : clerk'[q].todo = ToVR
      /\ (\E q \in Clerks : Finishing(clerk[q])) => \E q \in Clerks : Finishing(clerk'[q])
      /\ (\E q \in Clerks : SavesDispatch(clerk[q])) => \E q \in Clerks : SavesDispatch(clerk'[q])
      /\ (\E q \in Clerks : SavesDelivery(clerk[q])) => \E q \in Clerks : SavesDelivery(clerk'[q])
  <2>1. NoCalls \notin FulfilmentTodos \union {ToVR, ToR}
    BY TodoCalls DEF FulfilmentTodos
  <2>2. clerk[r].todo # ToVR /\ ~Finishing(clerk[r]) /\ ~SavesDispatch(clerk[r]) /\ ~SavesDelivery(clerk[r])
    BY <1>2, <2>1 DEF Finishing, SavesDispatch, SavesDelivery
  <2> QED
    BY <1>1, <1>2, <2>2, ClerkMoves
<1>7. GiftAppliedOnce'
  <2>1. \A q \in Clerks : clerk'[q].todo \in {ToGVR, ToVR} => clerk'[q].todo = clerk[q].todo
    BY <1>2, <1>6
  <2> QED
    BY <1>1, <1>2, <1>6, <2>1 DEF GiftAppliedOnce
<1>8. GiftWithheld'
  BY <1>1, <1>2, <1>6 DEF GiftWithheld
<1>9. GiftTraced'
  BY <1>1, <1>2, <1>6 DEF GiftTraced
<1> QED
  BY <1>3, <1>4, <1>5, <1>7, <1>8, <1>9 DEF GiftInv

\* What it loads and what it means to save.
LEMMA LoadIs ==
  ASSUME GiftTyped, NEW r \in Clerks, NEW save \in RowSets, NEW todo \in Todos \ {NoCalls, ToAp, ToVR, ToGVR},
         LoadsReward(r, save, todo)
  PROVE  \E c \in ClerkRecords : c.save = save /\ c.todo = todo /\ LoadsRows(r, c)
<1> DEFINE c == [todo |-> todo, read |-> Rows, save |-> save]
<1>1. Rows \in RowSets /\ Rows.reward = reward /\ Rows.address = address /\ Rows.fulfilment = fulfilment
  BY DEF Rows, RowSets, GiftTyped
<1>2. c \in ClerkRecords /\ c.todo = todo /\ c.save = save
      /\ c.read.reward = reward /\ c.read.address = address /\ c.read.fulfilment = fulfilment
  BY <1>1 DEF ClerkRecords
<1>3. /\ kind # "NONE" /\ clerk[r].todo = NoCalls /\ clerkWork < MaxClerkWork
      /\ clerkWork' = clerkWork + 1 /\ clerk' = [clerk EXCEPT ![r] = c]
      /\ UNCHANGED <<kind, rewardRows, clerkFaults, rewardHistory>>
  BY DEF LoadsReward, NoCalls
<1> HIDE DEF c
<1>4. LoadsRows(r, c)
  BY <1>2, <1>3 DEF LoadsRows
<1> QED
  BY <1>2, <1>4

RewardRow == [status : RewardStatuses, opened : BOOLEAN, seen : BOOLEAN]
AddressRow == [text : AddressTexts \union {NoText}, locked : BOOLEAN]
FulfilmentRow == [dispatched : BOOLEAN, delivered : BOOLEAN]

\* Rows w, a and f are to be saved, as what was loaded allows.
LEMMA LoadsWhole ==
  ASSUME GiftInv, NEW r \in Clerks, NEW w \in RewardRow, NEW a \in AddressRow, NEW f \in FulfilmentRow,
         NEW todo \in {ToR, ToRAp, ToAFR, ToRF, ToRFA, ToFAR, ToF},
         LoadsReward(r, [reward |-> w, address |-> a, fulfilment |-> f], todo),
         kind # "PHYSICAL" /\ reward.opened => w.opened /\ (reward.status \in Given => w.status \in Given),
         reward.status = "REVOKED" => w.status = "REVOKED" \/ (w.status = "ADDRESS_RECEIVED" /\ todo = ToAFR),
         w.status = "DISPATCHED" => reward.status = "DISPATCHED" \/ (todo \in {ToRF, ToRFA, ToFAR} /\ f.dispatched),
         w.status = "DELIVERED" =>
           reward.status = "DELIVERED" \/ (reward.status = "DISPATCHED" /\ todo \in {ToRF, ToRFA} /\ f.delivered),
         todo = ToRAp => w.opened /\ kind # "PHYSICAL",
         todo \in {ToAFR, ToRFA, ToFAR} => (address.locked => a = address) /\ (w.status = "DISPATCHED" => a.locked),
         fulfilment.dispatched => f.dispatched,
         fulfilment.delivered => f.delivered,
         todo = ToAFR => f = fulfilment
  PROVE  GiftInv'
<1>1. todo \in Todos \ {NoCalls, ToAp, ToVR, ToGVR}
  BY TodosDiffer DEF Todos
<1>2. PICK save \in RowSets : /\ save = [reward |-> w, address |-> a, fulfilment |-> f]
                              /\ save.reward = w /\ save.address = a /\ save.fulfilment = f
  BY DEF RowSets, RewardRow, AddressRow, FulfilmentRow
<1>3. LoadsReward(r, save, todo)
  BY <1>2
<1>4. PICK c \in ClerkRecords : c.save = save /\ c.todo = todo /\ LoadsRows(r, c)
  BY <1>1, <1>3, LoadIs DEF GiftInv
<1>5. /\ kind # "NONE" /\ c.save.reward = w /\ c.save.address = a /\ c.save.fulfilment = f
      /\ c.read.reward = reward /\ c.read.address = address /\ c.read.fulfilment = fulfilment
  BY <1>2, <1>4 DEF LoadsRows
<1>6. /\ todo \in AddressTodos => todo \in {ToAFR, ToRFA, ToFAR}
      /\ todo \notin {ToAp, ToGVR, ToVR}
      /\ todo \in {ToRF, ToRFA, ToFAR} => todo \in FulfilmentTodos
  BY TodosDiffer DEF AddressTodos, FulfilmentTodos
<1>7. Follows(c)
  BY <1>4, <1>5, <1>6 DEF Follows
<1>8. /\ c.save.reward.status = "ADDRESS_RECEIVED" /\ c.read.reward.status = "REVOKED" => c.todo = ToAFR
      /\ c.save.reward.status = "DISPATCHED" /\ c.read.reward.status # "DISPATCHED" => c.todo \in FulfilmentTodos
  BY <1>4, <1>5, <1>6
<1> QED
  BY <1>4, <1>7, <1>8, LoadsInv

LEMMA RowsTyped == GiftInv => reward \in RewardRow /\ address \in AddressRow /\ fulfilment \in FulfilmentRow
  BY DEF GiftInv, GiftTyped, RewardRow, AddressRow, FulfilmentRow

\* Rows that are copied and changed.
LEMMA RowsChanged ==
  ASSUME NEW w
  PROVE  [Rows EXCEPT !.reward = w] = [reward |-> w, address |-> address, fulfilment |-> fulfilment]
BY DEF Rows

\* Requests that only change the row of the reward.
LEMMA RewardLoadsInv ==
  ASSUME GiftInv, NEW r \in Clerks, View(r) \/ OpenReward(r) \/ Revoke(r) \/ RequestAddress(r) \/ SendUpdate(r)
  PROVE  GiftInv'
<1>1. reward \in RewardRow /\ address \in AddressRow /\ fulfilment \in FulfilmentRow
  BY RowsTyped
<1>d. ToR # ToAFR /\ ToR # ToRAp /\ ToRAp # ToAFR /\ ToRF # ToAFR /\ ToRF # ToRAp /\ ToF # ToAFR /\ ToF # ToRAp
      /\ ToR \notin {ToAFR, ToRFA, ToFAR} /\ ToRAp \notin {ToAFR, ToRFA, ToFAR} /\ ToRF \notin {ToAFR, ToRFA, ToFAR} /\ ToF \notin {ToAFR, ToRFA, ToFAR}
  BY TodosDiffer
<1>2. CASE View(r)
  <2>1. PICK w \in RewardRow : /\ w.status = reward.status /\ w.opened = reward.opened
                               /\ LoadsReward(r, [reward |-> w, address |-> address, fulfilment |-> fulfilment], ToR)
    <3> DEFINE w == [reward EXCEPT !.seen = TRUE]
    <3>1. w \in RewardRow /\ w.status = reward.status /\ w.opened = reward.opened
      BY <1>1 DEF RewardRow
    <3>2. [Rows EXCEPT !.reward.seen = TRUE] = [reward |-> w, address |-> address, fulfilment |-> fulfilment]
      <4>1. [Rows EXCEPT !.reward.seen = TRUE] = [Rows EXCEPT !.reward = w]
        BY DEF Rows
      <4> QED
        BY <4>1, RowsChanged
    <3>3. LoadsReward(r, [reward |-> w, address |-> address, fulfilment |-> fulfilment], ToR)
      BY <1>2, <3>2 DEF View, ToR
    <3> HIDE DEF w
    <3> QED
      BY <3>1, <3>3
  <2> QED
    BY <1>1, <1>d, <2>1, LoadsWhole
<1>3. CASE OpenReward(r)
  <2>1. PICK w \in RewardRow, todo \in {ToR, ToRAp} :
          /\ w.opened /\ w.status \in {reward.status, "ADDRESS_PENDING", "PROCESSING", "OPENED"}
          /\ reward.opened => w.status = reward.status
          /\ reward.status # "REVOKED" /\ (todo = ToRAp => kind # "PHYSICAL")
          /\ LoadsReward(r, [reward |-> w, address |-> address, fulfilment |-> fulfilment], todo)
    <3>1. PICK s \in RewardStatuses :
            /\ s \in {reward.status, "ADDRESS_PENDING", "PROCESSING", "OPENED"}
            /\ reward.opened => s = reward.status
            /\ LoadsReward(r, [Rows EXCEPT !.reward = [status |-> s, opened |-> TRUE, seen |-> TRUE]],
                           IF Physical THEN <<"reward">> ELSE <<"reward", "apply">>)
      BY <1>1, <1>3 DEF OpenReward, RewardRow, RewardStatuses
    <3> DEFINE w == [status |-> s, opened |-> TRUE, seen |-> TRUE]
    <3>2. w \in RewardRow /\ w.status = s /\ w.opened
      BY DEF RewardRow
    <3>3. [Rows EXCEPT !.reward = w] = [reward |-> w, address |-> address, fulfilment |-> fulfilment]
      BY RowsChanged
    <3>4. PICK todo \in {ToR, ToRAp} : todo = IF Physical THEN ToR ELSE ToRAp
      OBVIOUS
    <3>5. LoadsReward(r, [reward |-> w, address |-> address, fulfilment |-> fulfilment], todo)
      BY <3>1, <3>3, <3>4 DEF ToR, ToRAp
    <3>6. reward.status # "REVOKED" /\ (todo = ToRAp => kind # "PHYSICAL")
      BY <1>3, <1>d, <3>4 DEF OpenReward, Physical
    <3> HIDE DEF w
    <3> QED
      BY <3>1, <3>2, <3>5, <3>6
  <2> QED
    BY <1>1, <1>d, <2>1, LoadsWhole
<1>4. CASE Revoke(r)
  <2>1. PICK w \in RewardRow : /\ w.status = "REVOKED" /\ w.opened = reward.opened /\ reward.status \notin Given
                               /\ LoadsReward(r, [reward |-> w, address |-> address, fulfilment |-> fulfilment], ToR)
    <3> DEFINE w == [reward EXCEPT !.status = "REVOKED"]
    <3>1. w \in RewardRow /\ w.status = "REVOKED" /\ w.opened = reward.opened
      BY <1>1 DEF RewardRow, RewardStatuses
    <3>2. [Rows EXCEPT !.reward.status = "REVOKED"] = [reward |-> w, address |-> address, fulfilment |-> fulfilment]
      BY DEF Rows
    <3>3. LoadsReward(r, [reward |-> w, address |-> address, fulfilment |-> fulfilment], ToR) /\ reward.status \notin Given
      BY <1>4, <3>2 DEF Revoke, MayRevoke, Given, ToR
    <3> HIDE DEF w
    <3> QED
      BY <3>1, <3>3
  <2> QED
    BY <1>1, <1>d, <2>1, LoadsWhole
<1>5. CASE RequestAddress(r)
  <2>1. PICK w \in RewardRow : /\ w.status \in {"ADDRESS_PENDING", "NOTIFIED"} /\ kind = "PHYSICAL"
                               /\ reward.status # "REVOKED"
                               /\ LoadsReward(r, [reward |-> w, address |-> address, fulfilment |-> fulfilment], ToRF)
    <3>1. PICK s \in {"ADDRESS_PENDING", "NOTIFIED"} :
            /\ LoadsReward(r, [Rows EXCEPT !.reward.status = s], ToRF) /\ kind = "PHYSICAL" /\ reward.status # "REVOKED"
      BY <1>5 DEF RequestAddress, Physical, ToRF
    <3> DEFINE w == [reward EXCEPT !.status = s]
    <3>2. w \in RewardRow /\ w.status = s
      BY <1>1 DEF RewardRow, RewardStatuses
    <3>3. [Rows EXCEPT !.reward.status = s] = [reward |-> w, address |-> address, fulfilment |-> fulfilment]
      BY DEF Rows
    <3>4. LoadsReward(r, [reward |-> w, address |-> address, fulfilment |-> fulfilment], ToRF)
      BY <3>1, <3>3
    <3> HIDE DEF w
    <3> QED
      BY <3>1, <3>2, <3>4
  <2> QED
    BY <1>1, <1>d, <2>1, LoadsWhole
<1>6. CASE SendUpdate(r)
  <2>1. LoadsReward(r, [reward |-> reward, address |-> address, fulfilment |-> fulfilment], ToF)
    BY <1>6 DEF SendUpdate, Rows, ToF
  <2>2. PICK w \in RewardRow, a \in AddressRow, f \in FulfilmentRow : w = reward /\ a = address /\ f = fulfilment
    BY <1>1
  <2>3. LoadsReward(r, [reward |-> w, address |-> a, fulfilment |-> f], ToF)
    BY <2>1, <2>2
  <2> QED
    BY <1>d, <2>2, <2>3, LoadsWhole
<1> QED
  BY <1>2, <1>3, <1>4, <1>5, <1>6

LEMMA AllowedIs ==
  ASSUME NEW from \in RewardStatuses, NEW to \in AllowedFrom(from)
  PROVE  /\ to \in RewardStatuses /\ from \notin Given /\ from # "REVOKED"
         /\ to = "DELIVERED" => from = "DISPATCHED"
BY DEF AllowedFrom, RewardStatuses, Given

\* All rows of a request together.
Whole(w, a, f) == [reward |-> w, address |-> a, fulfilment |-> f]
\* A row is put in its place.
WithReward(x, w) == [x EXCEPT !.reward = w]
WithAddress(x, a) == [x EXCEPT !.address = a]
WithFulfilment(x, f) == [x EXCEPT !.fulfilment = f]

LEMMA WholeChanged ==
  ASSUME NEW w, NEW a, NEW f, NEW x
  PROVE  /\ WithReward(Whole(w, a, f), x) = Whole(x, a, f)
         /\ WithAddress(Whole(w, a, f), x) = Whole(w, x, f)
         /\ WithFulfilment(Whole(w, a, f), x) = Whole(w, a, x)
BY DEF Whole, WithReward, WithAddress, WithFulfilment

LEMMA RowsWhole == Rows = Whole(reward, address, fulfilment)
BY DEF Rows, Whole

LEMMA EnteredIs ==
  ASSUME NEW text
  PROVE  [Rows EXCEPT !.address.text = text, !.reward.status = "ADDRESS_RECEIVED"]
           = Whole([reward EXCEPT !.status = "ADDRESS_RECEIVED"], [address EXCEPT !.text = text], fulfilment)
<1>1. [Rows EXCEPT !.address.text = text, !.reward.status = "ADDRESS_RECEIVED"]
        = WithReward(WithAddress(Rows, [address EXCEPT !.text = text]), [reward EXCEPT !.status = "ADDRESS_RECEIVED"])
  BY DEF Rows, WithReward, WithAddress
<1> QED
  BY <1>1, RowsWhole, WholeChanged

LEMMA DispatchedIs ==
  Dispatched = Whole([reward EXCEPT !.status = "DISPATCHED"], [address EXCEPT !.locked = TRUE],
                     [fulfilment EXCEPT !.dispatched = TRUE])
<1>1. Dispatched
        = WithReward(WithAddress(WithFulfilment(Rows, [fulfilment EXCEPT !.dispatched = TRUE]),
                                 [address EXCEPT !.locked = TRUE]),
                     [reward EXCEPT !.status = "DISPATCHED"])
  BY DEF Dispatched, Rows, WithReward, WithAddress, WithFulfilment
<1> QED
  BY <1>1, RowsWhole, WholeChanged

LEMMA DeliveredIs ==
  [Rows EXCEPT !.reward.status = "DELIVERED", !.fulfilment.delivered = TRUE, !.address.locked = address # NoAddress]
    = Whole([reward EXCEPT !.status = "DELIVERED"], [address EXCEPT !.locked = address # NoAddress],
            [fulfilment EXCEPT !.delivered = TRUE])
<1>1. [Rows EXCEPT !.reward.status = "DELIVERED", !.fulfilment.delivered = TRUE, !.address.locked = address # NoAddress]
        = WithAddress(WithFulfilment(WithReward(Rows, [reward EXCEPT !.status = "DELIVERED"]),
                                     [fulfilment EXCEPT !.delivered = TRUE]),
                      [address EXCEPT !.locked = address # NoAddress])
  BY DEF Rows, WithReward, WithAddress, WithFulfilment
<1> QED
  BY <1>1, RowsWhole, WholeChanged

LEMMA UpdatedIs ==
  ASSUME NEW next
  PROVE  [Rows EXCEPT !.reward.status = next, !.fulfilment.dispatched = @ \/ next = "DISPATCHED",
                      !.fulfilment.delivered = @ \/ next = "DELIVERED"]
           = Whole([reward EXCEPT !.status = next], address,
                   [fulfilment EXCEPT !.dispatched = @ \/ next = "DISPATCHED", !.delivered = @ \/ next = "DELIVERED"])
<1>1. [Rows EXCEPT !.reward.status = next, !.fulfilment.dispatched = @ \/ next = "DISPATCHED",
                   !.fulfilment.delivered = @ \/ next = "DELIVERED"]
        = WithFulfilment(WithReward(Rows, [reward EXCEPT !.status = next]),
                         [fulfilment EXCEPT !.dispatched = @ \/ next = "DISPATCHED",
                                            !.delivered = @ \/ next = "DELIVERED"])
  BY DEF Rows, WithReward, WithAddress, WithFulfilment
<1> QED
  BY <1>1, RowsWhole, WholeChanged

LEMMA StatusChanged ==
  ASSUME reward \in RewardRow, NEW s \in RewardStatuses
  PROVE  \E w \in RewardRow : w = [reward EXCEPT !.status = s] /\ w.status = s /\ w.opened = reward.opened
<1> DEFINE w == [reward EXCEPT !.status = s]
<1>1. w \in RewardRow /\ w.status = s /\ w.opened = reward.opened
  BY DEF RewardRow
<1> QED
  BY <1>1

LEMMA FulfilmentChanged ==
  ASSUME fulfilment \in FulfilmentRow, NEW x \in BOOLEAN, NEW y \in BOOLEAN
  PROVE  \E f \in FulfilmentRow :
           /\ f = [fulfilment EXCEPT !.dispatched = @ \/ x, !.delivered = @ \/ y]
           /\ f.dispatched = (fulfilment.dispatched \/ x) /\ f.delivered = (fulfilment.delivered \/ y)
           /\ x = FALSE /\ y = TRUE => f = [fulfilment EXCEPT !.delivered = TRUE]
           /\ x = TRUE /\ y = FALSE => f = [fulfilment EXCEPT !.dispatched = TRUE]
<1> DEFINE f == [fulfilment EXCEPT !.dispatched = @ \/ x, !.delivered = @ \/ y]
<1>1. /\ f \in FulfilmentRow
      /\ f.dispatched = (fulfilment.dispatched \/ x) /\ f.delivered = (fulfilment.delivered \/ y)
  BY DEF FulfilmentRow
<1>2. x = FALSE /\ y = TRUE => f = [fulfilment EXCEPT !.delivered = TRUE]
  BY DEF FulfilmentRow
<1>3. x = TRUE /\ y = FALSE => f = [fulfilment EXCEPT !.dispatched = TRUE]
  BY DEF FulfilmentRow
<1> QED
  BY <1>1, <1>2, <1>3

\* Requests that change the other rows as well.
LEMMA ParcelLoadsInv ==
  ASSUME GiftInv, NEW r \in Clerks, EnterAddress(r) \/ Dispatch(r) \/ Deliver(r) \/ UpdateStatus(r)
  PROVE  GiftInv'
<1>1. reward \in RewardRow /\ address \in AddressRow /\ fulfilment \in FulfilmentRow
  BY RowsTyped
<1>d. /\ ToAFR \notin {ToRAp, ToRF, ToRFA, ToFAR} /\ ToFAR \notin {ToRAp, ToRF, ToRFA, ToAFR}
      /\ ToRF \notin {ToAFR, ToRAp, ToRFA, ToFAR} /\ ToRFA \notin {ToAFR, ToRAp}
  BY TodosDiffer
<1>2. CASE EnterAddress(r)
  <2>1. PICK text \in AddressTexts :
          LoadsReward(r, [Rows EXCEPT !.address.text = text, !.reward.status = "ADDRESS_RECEIVED"], ToAFR)
    BY <1>2 DEF EnterAddress, ToAFR
  <2>2. kind = "PHYSICAL" /\ ~address.locked
    BY <1>2 DEF EnterAddress, Physical
  <2>3. PICK w \in RewardRow : w = [reward EXCEPT !.status = "ADDRESS_RECEIVED"] /\ w.status = "ADDRESS_RECEIVED"
    <3>1. "ADDRESS_RECEIVED" \in RewardStatuses
      BY DEF RewardStatuses
    <3> QED
      BY <1>1, <3>1, StatusChanged
  <2>4. PICK a \in AddressRow : a = [address EXCEPT !.text = text]
    BY <1>1 DEF AddressRow
  <2>5. [Rows EXCEPT !.address.text = text, !.reward.status = "ADDRESS_RECEIVED"] = Whole(w, a, fulfilment)
    BY <2>3, <2>4, EnteredIs
  <2>6. PICK f \in FulfilmentRow : f = fulfilment
    BY <1>1
  <2>7. LoadsReward(r, [reward |-> w, address |-> a, fulfilment |-> f], ToAFR)
    BY <2>1, <2>5, <2>6 DEF Whole
  <2> QED
    BY <1>d, <2>2, <2>3, <2>6, <2>7, LoadsWhole
<1>3. CASE Dispatch(r)
  <2>1. LoadsReward(r, Dispatched, ToFAR) /\ kind = "PHYSICAL" /\ reward.status # "REVOKED"
    BY <1>3 DEF Dispatch, Physical, MayDispatch, ToFAR
  <2>2. PICK w \in RewardRow : w = [reward EXCEPT !.status = "DISPATCHED"] /\ w.status = "DISPATCHED"
    <3>1. "DISPATCHED" \in RewardStatuses
      BY DEF RewardStatuses
    <3> QED
      BY <1>1, <3>1, StatusChanged
  <2>3. PICK a \in AddressRow : /\ a = [address EXCEPT !.locked = TRUE] /\ a.locked
                                /\ address.locked => a = address
    <3> DEFINE a == [address EXCEPT !.locked = TRUE]
    <3>1. a \in AddressRow /\ a.locked /\ (address.locked => a = address)
      BY <1>1 DEF AddressRow
    <3> QED
      BY <3>1
  <2>4. PICK f \in FulfilmentRow : /\ f = [fulfilment EXCEPT !.dispatched = TRUE] /\ f.dispatched
                                   /\ f.delivered = fulfilment.delivered
    <3>1. PICK x \in BOOLEAN, y \in BOOLEAN : x = TRUE /\ y = FALSE
      OBVIOUS
    <3> QED
      BY <1>1, <3>1, FulfilmentChanged DEF FulfilmentRow
  <2>5. Dispatched = Whole(w, a, f)
    BY <2>2, <2>3, <2>4, DispatchedIs
  <2>6. LoadsReward(r, [reward |-> w, address |-> a, fulfilment |-> f], ToFAR)
    BY <2>1, <2>5 DEF Whole
  <2> QED
    BY <1>d, <2>1, <2>2, <2>3, <2>4, <2>6, LoadsWhole
<1>4. CASE Deliver(r)
  <2>1. /\ LoadsReward(r, [Rows EXCEPT !.reward.status = "DELIVERED", !.fulfilment.delivered = TRUE,
                                       !.address.locked = address # NoAddress],
                       IF address = NoAddress THEN ToRF ELSE ToRFA)
        /\ kind = "PHYSICAL" /\ reward.status = "DISPATCHED"
    BY <1>4 DEF Deliver, Physical, ToRF, ToRFA
  <2>2. PICK w \in RewardRow : w = [reward EXCEPT !.status = "DELIVERED"] /\ w.status = "DELIVERED"
    <3>1. "DELIVERED" \in RewardStatuses
      BY DEF RewardStatuses
    <3> QED
      BY <1>1, <3>1, StatusChanged
  <2>3. PICK a \in AddressRow : /\ a = [address EXCEPT !.locked = address # NoAddress]
                                /\ address.locked => a = address
    <3> DEFINE a == [address EXCEPT !.locked = address # NoAddress]
    <3>1. address.locked => address # NoAddress
      BY DEF NoAddress
    <3>2. a \in AddressRow /\ (address.locked => a = address)
      BY <1>1, <3>1 DEF AddressRow
    <3> QED
      BY <3>2
  <2>4. PICK f \in FulfilmentRow : /\ f = [fulfilment EXCEPT !.delivered = TRUE] /\ f.delivered
                                   /\ f.dispatched = fulfilment.dispatched
    <3>1. PICK x \in BOOLEAN, y \in BOOLEAN : x = FALSE /\ y = TRUE
      OBVIOUS
    <3> QED
      BY <1>1, <3>1, FulfilmentChanged DEF FulfilmentRow
  <2>5. [Rows EXCEPT !.reward.status = "DELIVERED", !.fulfilment.delivered = TRUE, !.address.locked = address # NoAddress] = Whole(w, a, f)
    BY <2>2, <2>3, <2>4, DeliveredIs
  <2>6. PICK todo \in {ToRF, ToRFA} : todo = IF address = NoAddress THEN ToRF ELSE ToRFA
    OBVIOUS
  <2>7. LoadsReward(r, [reward |-> w, address |-> a, fulfilment |-> f], todo)
    BY <2>1, <2>5, <2>6 DEF Whole
  <2>8. todo # ToRAp /\ todo # ToAFR /\ todo \in {ToR, ToRAp, ToAFR, ToRF, ToRFA, ToFAR, ToF}
    BY <1>d, <2>6
  <2>9. /\ kind = "PHYSICAL" /\ reward.status = "DISPATCHED" /\ w.status = "DELIVERED" /\ f.delivered
        /\ (address.locked => a = address) /\ (fulfilment.dispatched => f.dispatched) /\ todo \in {ToRF, ToRFA}
    BY <2>1, <2>2, <2>3, <2>4, <2>6
  <2> QED
    BY <2>7, <2>8, <2>9, LoadsWhole
<1>5. CASE UpdateStatus(r)
  <2>1. PICK next \in AllowedFrom(reward.status) :
          LoadsReward(r, [Rows EXCEPT !.reward.status = next,
                                      !.fulfilment.dispatched = @ \/ next = "DISPATCHED",
                                      !.fulfilment.delivered = @ \/ next = "DELIVERED"], ToRF)
    BY <1>5 DEF UpdateStatus, ToRF
  <2>2. /\ next \in RewardStatuses /\ reward.status \notin Given /\ reward.status # "REVOKED"
        /\ next = "DELIVERED" => reward.status = "DISPATCHED"
    BY <1>1, AllowedIs DEF RewardRow
  <2>3. PICK w \in RewardRow : w = [reward EXCEPT !.status = next] /\ w.status = next /\ w.opened = reward.opened
    BY <1>1, <2>2, StatusChanged
  <2>4. PICK f \in FulfilmentRow :
          /\ f = [fulfilment EXCEPT !.dispatched = @ \/ next = "DISPATCHED", !.delivered = @ \/ next = "DELIVERED"]
          /\ f.dispatched = (fulfilment.dispatched \/ next = "DISPATCHED")
          /\ f.delivered = (fulfilment.delivered \/ next = "DELIVERED")
    <3>1. PICK x \in BOOLEAN, y \in BOOLEAN : x = (next = "DISPATCHED") /\ y = (next = "DELIVERED")
      OBVIOUS
    <3> QED
      BY <1>1, <3>1, FulfilmentChanged
  <2>5. [Rows EXCEPT !.reward.status = next, !.fulfilment.dispatched = @ \/ next = "DISPATCHED",
                     !.fulfilment.delivered = @ \/ next = "DELIVERED"] = Whole(w, address, f)
    BY <2>3, <2>4, UpdatedIs
  <2>6. PICK a \in AddressRow : a = address
    BY <1>1
  <2>7. LoadsReward(r, [reward |-> w, address |-> a, fulfilment |-> f], ToRF)
    BY <2>1, <2>5, <2>6 DEF Whole
  <2>8. /\ fulfilment.dispatched => f.dispatched
        /\ fulfilment.delivered => f.delivered
        /\ next = "DISPATCHED" => f.dispatched
        /\ next = "DELIVERED" => f.delivered
    BY <2>4
  <2> QED
    BY <1>d, <2>2, <2>3, <2>7, <2>8, LoadsWhole
<1> QED
  BY <1>2, <1>3, <1>4, <1>5

\* The row of the reward is saved.
LEMMA SaveRewardInv == ASSUME GiftInv, NEW r \in Clerks, SaveReward(r) PROVE GiftInv'
<1>t. GiftTyped /\ CreditsCounted /\ ClerksSound /\ GiftAppliedOnce /\ GiftWithheld /\ GiftTraced
  BY DEF GiftInv
<1>1. PICK c \in ClerkRecords, d \in ClerkRecords :
        /\ d = clerk[r] /\ Follows(d) /\ Relies(d) /\ d.todo # NoCalls /\ Head(d.todo) = "reward"
        /\ c.todo = Tail(d.todo) /\ Follows(c) /\ (c.todo # NoCalls => c.read = d.read /\ c.save = d.save)
        /\ clerk' = [clerk EXCEPT ![r] = c]
        /\ UNCHANGED <<kind, clerkWork, clerkFaults>>
  BY MakesIs DEF SaveReward
<1>2. /\ reward' = d.save.reward
      /\ staleRows' = staleRows \union IF d.read.reward = reward THEN {} ELSE {"reward"}
      /\ revoked' = (revoked \/ reward'.status = "REVOKED")
      /\ UNCHANGED <<address, fulfilment, applied, credited, parcel, together, readdressed>>
  BY <1>1 DEF SaveReward, StaleIf
<1>3. /\ \/ d.todo \in {ToR, ToRF, ToRFA} /\ c.todo \in {NoCalls, ToF, ToFA}
         \/ d.todo = ToRAp /\ c.todo = ToAp
      /\ d.todo \in {ToR, ToRAp, ToRF, ToRFA}
  <2>1. d.todo \in Todos
    BY DEF ClerkRecords
  <2>2. d.todo \in {ToR, ToRAp, ToRF, ToRFA}
    BY <1>1, <2>1, TodoTails
  <2> QED
    BY <1>1, <2>2, TodoCalls
<1>4. /\ c.todo \notin RewardTodos \union {ToGVR, ToVR, ToR} /\ d.todo \in RewardTodos /\ d.todo \notin {ToAFR, ToVR, ToGVR}
      /\ c.todo \notin GrantTodos \/ d.todo \in GrantTodos
      /\ c.todo \in FulfilmentTodos => c.todo \in {ToF, ToFA} /\ d.todo \in FulfilmentTodos
      /\ d.todo \in FulfilmentTodos => c.todo \in FulfilmentTodos
      /\ c.todo \in {ToAp, ToGVR, ToVR} => d.todo = ToRAp
      /\ c.todo \in FulfilmentTodos => c.todo # NoCalls
  <2>1. CASE d.todo = ToRAp /\ c.todo = ToAp
    BY <2>1, TodosDiffer DEF RewardTodos, GrantTodos, FulfilmentTodos
  <2>2. CASE d.todo \in {ToR, ToRF, ToRFA} /\ c.todo \in {NoCalls, ToF, ToFA}
    <3>1. c.todo \notin RewardTodos \union GrantTodos \union {ToGVR, ToVR, ToR, ToAp}
      BY <2>2, TodosDiffer DEF RewardTodos, GrantTodos
    <3>2. d.todo \in RewardTodos /\ d.todo \notin {ToAFR, ToVR, ToGVR}
      BY <2>2, TodosDiffer DEF RewardTodos
    <3>3. \/ d.todo = ToR /\ c.todo = NoCalls
          \/ d.todo = ToRF /\ c.todo = ToF
          \/ d.todo = ToRFA /\ c.todo = ToFA
      BY <1>1, <2>2, TodoCalls
    <3>4. NoCalls \notin FulfilmentTodos /\ ToR \notin FulfilmentTodos /\ {ToF, ToFA, ToRF, ToRFA} \subseteq FulfilmentTodos
      BY TodosDiffer DEF FulfilmentTodos
    <3>5. c.todo \in FulfilmentTodos => c.todo \in {ToF, ToFA} /\ d.todo \in FulfilmentTodos
      BY <3>3, <3>4
    <3>6. d.todo \in FulfilmentTodos => c.todo \in FulfilmentTodos
      BY <3>3, <3>4
    <3>7. c.todo \in FulfilmentTodos => c.todo # NoCalls
      BY <3>4
    <3> QED
      BY <3>1, <3>2, <3>5, <3>6, <3>7
  <2> QED
    BY <1>3, <2>1, <2>2
<1>5. GiftTyped'
  <2>1. clerk' \in [Clerks -> ClerkRecords]
    BY <1>t, <1>1, ClerkMoves
  <2>2. reward' \in [status : RewardStatuses, opened : BOOLEAN, seen : BOOLEAN]
    BY <1>1, <1>2 DEF ClerkRecords, RowSets
  <2>3. revoked' \in BOOLEAN /\ staleRows' \subseteq {"reward", "address", "fulfilment"}
    BY <1>t, <1>2 DEF GiftTyped
  <2> QED
    BY <1>t, <1>1, <1>2, <2>1, <2>2, <2>3 DEF GiftTyped
<1>6. CreditsCounted'
  <2>1. credited' \in Nat /\ clerkWork' \in Nat /\ clerkWork' >= clerkWork /\ credited' = credited
    BY <1>t, <1>1, <1>2, GiveawaysAssumption DEF GiftTyped
  <2>2. c.todo \notin GrantTodos \/ r \in Granters
    BY <1>1, <1>4 DEF Granters
  <2> QED
    BY <1>t, <1>1, <2>1, <2>2, CreditsStayCounted
\* A row that was not stale is what was read.
<1>7. "reward" \notin staleRows' => "reward" \notin staleRows /\ d.read.reward = reward
  BY <1>2
<1>8. /\ kind # "PHYSICAL" /\ d.read.reward.opened =>
           reward'.opened /\ (d.read.reward.status \in Given => reward'.status \in Given)
      /\ d.read.reward.status = "REVOKED" => reward'.status = "REVOKED" \/ readdressed
      /\ d.todo = ToRAp => reward'.opened
  BY <1>1, <1>2, <1>4 DEF Follows, Relies
<1>9. ClerksSound'
  <2>1. Relies(c)'
    <3>1. c.todo \in {ToAp, ToGVR, ToVR} => reward'.opened
      BY <1>4, <1>8
    <3>2. c.todo \in FulfilmentTodos /\ "fulfilment" \notin staleRows' =>
            /\ c.read.fulfilment.dispatched => fulfilment'.dispatched
            /\ c.read.fulfilment.delivered => fulfilment'.delivered
      BY <1>1, <1>2, <1>4 DEF Relies
    <3>3. c.todo \notin RewardTodos /\ c.todo # ToVR
      BY <1>4
    <3> QED
      BY <3>1, <3>2, <3>3 DEF Relies
  <2> QED
    BY <1>t, <1>1, <1>2, <1>7, <1>8, <2>1, ClerksStaySound
<1>10. /\ clerk'[r] = c /\ \A q \in Clerks \ {r} : clerk'[q] = clerk[q]
       /\ (\E q \in Clerks : clerk[q].todo = ToVR) => \E q \in Clerks : clerk'[q].todo = ToVR
       /\ (\E q \in Clerks : Finishing(clerk[q])) =>
            Finishing(d) \/ \E q \in Clerks : Finishing(clerk'[q])
       /\ (\E q \in Clerks : SavesDispatch(clerk[q])) => \E q \in Clerks : SavesDispatch(clerk'[q])
       /\ (\E q \in Clerks : SavesDelivery(clerk[q])) => \E q \in Clerks : SavesDelivery(clerk'[q])
  <2>1. d.todo # ToVR
    BY <1>4
  <2>2. /\ SavesDispatch(d) => SavesDispatch(c)
        /\ SavesDelivery(d) => SavesDelivery(c)
    BY <1>1, <1>4 DEF SavesDispatch, SavesDelivery
  <2>3. /\ clerk'[r] = c /\ \A q \in Clerks \ {r} : clerk'[q] = clerk[q]
        /\ (\E q \in Clerks : clerk[q].todo = ToVR) =>
             clerk[r].todo = ToVR \/ \E q \in Clerks : clerk'[q].todo = ToVR
        /\ (\E q \in Clerks : Finishing(clerk[q])) =>
             Finishing(clerk[r]) \/ \E q \in Clerks : Finishing(clerk'[q])
        /\ (\E q \in Clerks : SavesDispatch(clerk[q])) =>
             SavesDispatch(clerk[r]) \/ \E q \in Clerks : SavesDispatch(clerk'[q])
        /\ (\E q \in Clerks : SavesDelivery(clerk[q])) =>
             SavesDelivery(clerk[r]) \/ \E q \in Clerks : SavesDelivery(clerk'[q])
    BY <1>t, <1>1, ClerkMoves
  <2> QED
    BY <1>1, <2>1, <2>2, <2>3
<1>11. GiftAppliedOnce'
  <2>1. \A q \in Clerks : clerk'[q].todo \in {ToGVR, ToVR} => clerk'[q].todo = clerk[q].todo
    BY <1>4, <1>10
  <2> QED
    BY <1>t, <1>1, <1>2, <1>10, <2>1 DEF GiftAppliedOnce
<1>12. GiftWithheld'
  <2>1. ASSUME "reward" \notin staleRows', credited' > 0
        PROVE  /\ reward'.opened
               /\ clerkFaults' = 0 => reward'.status \in Given \/ \E q \in Clerks : Finishing(clerk'[q])
    <3>1. /\ credited > 0 /\ "reward" \notin staleRows /\ d.read.reward = reward /\ kind # "PHYSICAL"
      BY <1>t, <1>2, <1>7, <2>1 DEF GiftAppliedOnce
    <3>2. reward.opened /\ (clerkFaults = 0 => reward.status \in Given \/ \E q \in Clerks : Finishing(clerk[q]))
      BY <1>t, <3>1 DEF GiftWithheld
    <3>3. Finishing(d) => reward'.status \in Given
      BY <1>2 DEF Finishing
    <3> QED
      BY <1>1, <1>8, <1>10, <3>1, <3>2, <3>3
  <2>2. ASSUME "reward" \notin staleRows', ~readdressed', revoked' PROVE reward'.status = "REVOKED"
    BY <1>t, <1>2, <1>7, <1>8, <2>2 DEF GiftWithheld
  <2>3. kind' # "NONE"
    BY <1>1 DEF Follows
  <2> QED
    BY <2>1, <2>2, <2>3 DEF GiftWithheld
<1>13. GiftTraced'
  <2>1. ASSUME clerkFaults' = 0, "fulfilment" \notin staleRows', "reward" \notin staleRows'
        PROVE  /\ reward'.status \in {"DISPATCHED", "DELIVERED"} =>
                    fulfilment.dispatched \/ \E q \in Clerks : SavesDispatch(clerk'[q])
               /\ reward'.status = "DELIVERED" => fulfilment.delivered \/ \E q \in Clerks : SavesDelivery(clerk'[q])
    <3>1. /\ clerkFaults = 0 /\ "fulfilment" \notin staleRows /\ "reward" \notin staleRows /\ d.read.reward = reward
      BY <1>1, <1>2, <1>7, <2>1
    <3>2. /\ reward.status \in {"DISPATCHED", "DELIVERED"} =>
               fulfilment.dispatched \/ \E q \in Clerks : SavesDispatch(clerk'[q])
          /\ reward.status = "DELIVERED" => fulfilment.delivered \/ \E q \in Clerks : SavesDelivery(clerk'[q])
      BY <1>t, <1>10, <3>1 DEF GiftTraced
    <3>3. /\ d.todo \in FulfilmentTodos /\ d.save.fulfilment.dispatched =>
               fulfilment.dispatched \/ SavesDispatch(c)
          /\ d.todo \in FulfilmentTodos /\ d.save.fulfilment.delivered =>
               fulfilment.delivered \/ SavesDelivery(c)
      BY <1>1, <1>4, <3>1 DEF Relies, SavesDispatch, SavesDelivery
    <3>4. CASE reward'.status = "DISPATCHED" /\ reward.status # "DISPATCHED"
      <4>1. d.save.fulfilment.dispatched
        BY <1>1, <1>2, <1>4, <3>1, <3>4 DEF Follows
      <4>2. d.todo \in FulfilmentTodos \/ fulfilment.dispatched
        BY <1>1, <1>2, <1>4, <3>1, <3>4 DEF Relies
      <4> QED
        BY <1>10, <3>3, <3>4, <4>1, <4>2
    <3>5. CASE reward'.status = "DELIVERED" /\ reward.status # "DELIVERED"
      <4>1. reward.status = "DISPATCHED" /\ d.todo \in {ToRF, ToRFA} /\ d.save.fulfilment.delivered
        BY <1>1, <1>2, <1>4, <3>1, <3>5 DEF Follows
      <4>2. d.todo \in FulfilmentTodos
        BY <4>1 DEF FulfilmentTodos
      <4> QED
        BY <1>10, <3>2, <3>3, <3>5, <4>1, <4>2
    <3> QED
      BY <3>2, <3>4, <3>5
  <2> QED
    BY <1>t, <1>2, <2>1 DEF GiftTraced
<1> QED
  BY <1>5, <1>6, <1>9, <1>11, <1>12, <1>13 DEF GiftInv

\* The row of the address is saved.
LEMMA SaveAddressInv == ASSUME GiftInv, NEW r \in Clerks, SaveAddress(r) PROVE GiftInv'
<1>t. GiftTyped /\ CreditsCounted /\ ClerksSound /\ GiftAppliedOnce /\ GiftWithheld /\ GiftTraced
  BY DEF GiftInv
<1>1. PICK c \in ClerkRecords, d \in ClerkRecords :
        /\ d = clerk[r] /\ Follows(d) /\ Relies(d) /\ d.todo # NoCalls /\ Head(d.todo) = "address"
        /\ c.todo = Tail(d.todo) /\ Follows(c) /\ (c.todo # NoCalls => c.read = d.read /\ c.save = d.save)
        /\ clerk' = [clerk EXCEPT ![r] = c]
        /\ UNCHANGED <<kind, clerkWork, clerkFaults>>
  BY MakesIs DEF SaveAddress
<1>2. /\ address' = d.save.address
      /\ staleRows' = staleRows \union IF d.read.address = address THEN {} ELSE {"address"}
      /\ parcel' = IF d.save.reward.status = "DISPATCHED" THEN address'.text ELSE parcel
      /\ readdressed' = (readdressed \/ (d.read.reward.status = "REVOKED"
                                           /\ d.save.reward.status = "ADDRESS_RECEIVED"))
      /\ UNCHANGED <<reward, fulfilment, applied, credited, together, revoked>>
  BY <1>1 DEF SaveAddress, StaleIf
<1>3. \/ d.todo = ToA /\ c.todo = NoCalls
      \/ d.todo = ToAR /\ c.todo = ToR
      \/ d.todo = ToAFR /\ c.todo = ToFR
  <2>1. d.todo \in Todos
    BY DEF ClerkRecords
  <2>2. d.todo \in {ToA, ToAR, ToAFR}
    BY <1>1, <2>1, TodoTails
  <2> QED
    BY <1>1, <2>2, TodoCalls
<1>4. /\ d.todo \in AddressTodos /\ d.todo \notin {ToVR, ToR} /\ c.todo \notin {ToGVR, ToVR, ToAp}
      /\ c.todo \notin GrantTodos
      /\ c.todo \in RewardTodos => d.todo \in RewardTodos /\ c.todo # NoCalls
      /\ c.todo \in FulfilmentTodos <=> d.todo \in FulfilmentTodos
      /\ d.todo \in FulfilmentTodos => d.todo = ToAFR
      /\ c.todo \in FulfilmentTodos => c.todo # NoCalls
  <2>1. {ToA, ToAR, ToAFR} \subseteq AddressTodos /\ d.todo \notin {ToVR, ToR}
    BY <1>3, TodosDiffer DEF AddressTodos
  <2>2. c.todo \notin {ToGVR, ToVR, ToAp, ToRAp}
    BY <1>3, TodosDiffer
  <2>3. NoCalls \notin RewardTodos /\ NoCalls \notin FulfilmentTodos /\ {ToAR, ToAFR} \subseteq RewardTodos
    BY TodosDiffer DEF RewardTodos, FulfilmentTodos
  <2>4. {ToA, ToAR, ToR} \cap FulfilmentTodos = {} /\ {ToAFR, ToFR} \subseteq FulfilmentTodos
    BY TodosDiffer DEF FulfilmentTodos
  <2>5. c.todo \notin GrantTodos
    BY <2>2 DEF GrantTodos
  <2> QED
    BY <1>3, <2>1, <2>2, <2>3, <2>4, <2>5
<1>5. GiftTyped'
  <2>1. clerk' \in [Clerks -> ClerkRecords]
    BY <1>t, <1>1, ClerkMoves
  <2>2. address' \in [text : AddressTexts \union {NoText}, locked : BOOLEAN]
    BY <1>1, <1>2 DEF ClerkRecords, RowSets
  <2>3. readdressed' \in BOOLEAN /\ staleRows' \subseteq {"reward", "address", "fulfilment"}
    BY <1>t, <1>2 DEF GiftTyped
  <2>4. parcel' \in AddressTexts \union {NoText}
    BY <1>t, <1>2, <2>2 DEF GiftTyped
  <2> QED
    BY <1>t, <1>1, <1>2, <2>1, <2>2, <2>3, <2>4 DEF GiftTyped
<1>6. CreditsCounted'
  <2>1. credited' \in Nat /\ clerkWork' \in Nat /\ clerkWork' >= clerkWork /\ credited' = credited
    BY <1>t, <1>1, <1>2, GiveawaysAssumption DEF GiftTyped
  <2> QED
    BY <1>t, <1>1, <1>4, <2>1, CreditsStayCounted
<1>7. /\ "address" \notin staleRows' => "address" \notin staleRows /\ d.read.address = address
      /\ "reward" \in staleRows' <=> "reward" \in staleRows
      /\ "fulfilment" \in staleRows' <=> "fulfilment" \in staleRows
  BY <1>2
<1>8. ClerksSound'
  <2>1. Relies(c)'
    <3>1. c.todo \in RewardTodos /\ c.read.reward.status = "REVOKED" /\ c.save.reward.status = "ADDRESS_RECEIVED" =>
            readdressed'
      BY <1>1, <1>2, <1>4
    <3>2. c.todo \in RewardTodos /\ c.save.reward.status = "DISPATCHED" /\ c.read.reward.status # "DISPATCHED" =>
            c.todo \in FulfilmentTodos \/ fulfilment'.dispatched \/ "fulfilment" \in staleRows'
      BY <1>1, <1>2, <1>4, <1>7 DEF Relies
    <3>3. c.todo \in FulfilmentTodos /\ "fulfilment" \notin staleRows' =>
            /\ c.read.fulfilment.dispatched => fulfilment'.dispatched
            /\ c.read.fulfilment.delivered => fulfilment'.delivered
      BY <1>1, <1>2, <1>4, <1>7 DEF Relies
    <3> QED
      BY <1>4, <3>1, <3>2, <3>3 DEF Relies
  <2> QED
    BY <1>t, <1>1, <1>2, <1>7, <2>1, ClerksStaySound
<1>9. /\ clerk'[r] = c /\ \A q \in Clerks \ {r} : clerk'[q] = clerk[q]
      /\ (\E q \in Clerks : clerk[q].todo = ToVR) => \E q \in Clerks : clerk'[q].todo = ToVR
      /\ (\E q \in Clerks : Finishing(clerk[q])) => \E q \in Clerks : Finishing(clerk'[q])
      /\ (\E q \in Clerks : SavesDispatch(clerk[q])) => \E q \in Clerks : SavesDispatch(clerk'[q])
      /\ (\E q \in Clerks : SavesDelivery(clerk[q])) => \E q \in Clerks : SavesDelivery(clerk'[q])
  <2>1. d.todo # ToVR /\ ~Finishing(d)
    BY <1>4 DEF Finishing
  <2>2. d.todo \in FulfilmentTodos => d.save.fulfilment = d.read.fulfilment
    BY <1>1, <1>4 DEF Follows
  <2>3. ~SavesDispatch(d) /\ ~SavesDelivery(d)
    BY <2>2 DEF SavesDispatch, SavesDelivery
  <2>4. clerk[r].todo # ToVR /\ ~Finishing(clerk[r]) /\ ~SavesDispatch(clerk[r]) /\ ~SavesDelivery(clerk[r])
    BY <1>1, <2>1, <2>3
  <2> QED
    BY <1>t, <1>1, <2>4, ClerkMoves
<1>10. GiftAppliedOnce'
  <2>1. \A q \in Clerks : clerk'[q].todo \in {ToGVR, ToVR} => clerk'[q].todo = clerk[q].todo
    BY <1>4, <1>9
  <2> QED
    BY <1>t, <1>1, <1>2, <1>9, <2>1 DEF GiftAppliedOnce
<1>11. GiftWithheld'
  BY <1>t, <1>1, <1>2, <1>7, <1>9 DEF GiftWithheld
<1>12. GiftTraced'
  <2>1. "address" \notin staleRows' /\ parcel' # NoText => address'.text = parcel' /\ address'.locked
    <3>1. CASE d.save.reward.status = "DISPATCHED"
      BY <1>1, <1>2, <1>4, <3>1 DEF Follows
    <3>2. CASE d.save.reward.status # "DISPATCHED"
      <4>1. parcel' = parcel
        BY <1>2, <3>2
      <4>2. "address" \notin staleRows' /\ parcel # NoText => address' = address
        BY <1>t, <1>1, <1>2, <1>4, <1>7 DEF GiftTraced, Follows
      <4> QED
        BY <1>t, <1>7, <4>1, <4>2 DEF GiftTraced
    <3> QED
      BY <3>1, <3>2
  <2> QED
    BY <1>t, <1>1, <1>2, <1>7, <1>9, <2>1 DEF GiftTraced
<1> QED
  BY <1>5, <1>6, <1>8, <1>10, <1>11, <1>12 DEF GiftInv

\* The row of the fulfilment is saved.
LEMMA SaveFulfilmentInv == ASSUME GiftInv, NEW r \in Clerks, SaveFulfilment(r) PROVE GiftInv'
<1>t. GiftTyped /\ CreditsCounted /\ ClerksSound /\ GiftAppliedOnce /\ GiftWithheld /\ GiftTraced
  BY DEF GiftInv
<1>1. PICK c \in ClerkRecords, d \in ClerkRecords :
        /\ d = clerk[r] /\ Follows(d) /\ Relies(d) /\ d.todo # NoCalls /\ Head(d.todo) = "fulfilment"
        /\ c.todo = Tail(d.todo) /\ Follows(c) /\ (c.todo # NoCalls => c.read = d.read /\ c.save = d.save)
        /\ clerk' = [clerk EXCEPT ![r] = c]
        /\ UNCHANGED <<kind, clerkWork, clerkFaults>>
  BY MakesIs DEF SaveFulfilment
<1>2. /\ fulfilment' = d.save.fulfilment
      /\ staleRows' = staleRows \union IF d.read.fulfilment = fulfilment THEN {} ELSE {"fulfilment"}
      /\ UNCHANGED <<reward, address, applied, credited, parcel, together, revoked, readdressed>>
  BY <1>1 DEF SaveFulfilment, StaleIf
<1>3. \/ d.todo = ToF /\ c.todo = NoCalls
      \/ d.todo = ToFA /\ c.todo = ToA
      \/ d.todo = ToFR /\ c.todo = ToR
      \/ d.todo = ToFAR /\ c.todo = ToAR
  <2>1. d.todo \in Todos
    BY DEF ClerkRecords
  <2>2. d.todo \in {ToF, ToFA, ToFR, ToFAR}
    BY <1>1, <2>1, TodoTails
  <2> QED
    BY <1>1, <2>2, TodoCalls
<1>4. /\ d.todo \in FulfilmentTodos /\ d.todo \notin {ToVR, ToR} /\ c.todo \notin {ToGVR, ToVR, ToAp}
      /\ c.todo \notin GrantTodos /\ c.todo \notin FulfilmentTodos
      /\ c.todo \in RewardTodos => d.todo \in RewardTodos /\ d.todo # ToAFR /\ c.todo # NoCalls
  <2>1. {ToF, ToFA, ToFR, ToFAR} \subseteq FulfilmentTodos /\ d.todo \notin {ToVR, ToR, ToAFR}
    BY <1>3, TodosDiffer DEF FulfilmentTodos
  <2>2. c.todo \notin {ToGVR, ToVR, ToAp, ToRAp}
    BY <1>3, TodosDiffer
  <2>3. NoCalls \notin RewardTodos /\ ToA \notin RewardTodos /\ {ToFR, ToFAR} \subseteq RewardTodos
    BY TodosDiffer DEF RewardTodos
  <2>4. {NoCalls, ToA, ToAR, ToR} \cap FulfilmentTodos = {}
    BY TodosDiffer DEF FulfilmentTodos
  <2>5. c.todo \notin GrantTodos
    BY <2>2 DEF GrantTodos
  <2> QED
    BY <1>3, <2>1, <2>2, <2>3, <2>4, <2>5
<1>5. GiftTyped'
  <2>1. clerk' \in [Clerks -> ClerkRecords]
    BY <1>t, <1>1, ClerkMoves
  <2>2. fulfilment' \in [dispatched : BOOLEAN, delivered : BOOLEAN]
    BY <1>1, <1>2 DEF ClerkRecords, RowSets
  <2>3. staleRows' \subseteq {"reward", "address", "fulfilment"}
    BY <1>t, <1>2 DEF GiftTyped
  <2> QED
    BY <1>t, <1>1, <1>2, <2>1, <2>2, <2>3 DEF GiftTyped
<1>6. CreditsCounted'
  <2>1. credited' \in Nat /\ clerkWork' \in Nat /\ clerkWork' >= clerkWork /\ credited' = credited
    BY <1>t, <1>1, <1>2, GiveawaysAssumption DEF GiftTyped
  <2> QED
    BY <1>t, <1>1, <1>4, <2>1, CreditsStayCounted
<1>7. /\ "fulfilment" \notin staleRows' => "fulfilment" \notin staleRows /\ d.read.fulfilment = fulfilment
      /\ "reward" \in staleRows' <=> "reward" \in staleRows
      /\ "address" \in staleRows' <=> "address" \in staleRows
  BY <1>2
\* The times that are set stay set.
<1>8. "fulfilment" \notin staleRows' =>
        /\ fulfilment.dispatched => fulfilment'.dispatched
        /\ fulfilment.delivered => fulfilment'.delivered
  BY <1>1, <1>2, <1>4, <1>7 DEF Follows
<1>9. ClerksSound'
  <2>1. Relies(c)'
    <3>1. c.todo \in RewardTodos /\ c.read.reward.status = "REVOKED" /\ c.save.reward.status = "ADDRESS_RECEIVED" =>
            readdressed'
      BY <1>1, <1>2, <1>4 DEF Relies
    <3>2. c.todo \in RewardTodos /\ c.save.reward.status = "DISPATCHED" /\ c.read.reward.status # "DISPATCHED" =>
            fulfilment'.dispatched
      BY <1>1, <1>2, <1>4 DEF Follows
    <3> QED
      BY <1>4, <3>1, <3>2 DEF Relies
  <2> QED
    BY <1>t, <1>1, <1>2, <1>8, <2>1, ClerksStaySound
<1>10. /\ clerk'[r] = c /\ \A q \in Clerks \ {r} : clerk'[q] = clerk[q]
       /\ (\E q \in Clerks : clerk[q].todo = ToVR) => \E q \in Clerks : clerk'[q].todo = ToVR
       /\ (\E q \in Clerks : Finishing(clerk[q])) => \E q \in Clerks : Finishing(clerk'[q])
       /\ (\E q \in Clerks : SavesDispatch(clerk[q])) =>
            fulfilment'.dispatched \/ \E q \in Clerks : SavesDispatch(clerk'[q])
       /\ (\E q \in Clerks : SavesDelivery(clerk[q])) =>
            fulfilment'.delivered \/ \E q \in Clerks : SavesDelivery(clerk'[q])
  <2>1. d.todo # ToVR /\ ~Finishing(d)
    BY <1>4 DEF Finishing
  <2>2. /\ SavesDispatch(d) => fulfilment'.dispatched
        /\ SavesDelivery(d) => fulfilment'.delivered
    BY <1>2 DEF SavesDispatch, SavesDelivery
  <2>3. /\ clerk[r].todo # ToVR /\ ~Finishing(clerk[r])
        /\ SavesDispatch(clerk[r]) => fulfilment'.dispatched
        /\ SavesDelivery(clerk[r]) => fulfilment'.delivered
    BY <1>1, <2>1, <2>2
  <2> QED
    BY <1>t, <1>1, <2>3, ClerkMoves
<1>11. GiftAppliedOnce'
  <2>1. \A q \in Clerks : clerk'[q].todo \in {ToGVR, ToVR} => clerk'[q].todo = clerk[q].todo
    BY <1>4, <1>10
  <2> QED
    BY <1>t, <1>1, <1>2, <1>10, <2>1 DEF GiftAppliedOnce
<1>12. GiftWithheld'
  BY <1>t, <1>1, <1>2, <1>7, <1>10 DEF GiftWithheld
<1>13. GiftTraced'
  BY <1>t, <1>1, <1>2, <1>7, <1>8, <1>10 DEF GiftTraced
<1> QED
  BY <1>5, <1>6, <1>9, <1>11, <1>12, <1>13 DEF GiftInv

\* What the reward is worth is credited.
LEMMA GrantInv == ASSUME GiftInv, NEW r \in Clerks, Grant(r) PROVE GiftInv'
<1>t. GiftTyped /\ CreditsCounted /\ ClerksSound /\ GiftAppliedOnce /\ GiftWithheld /\ GiftTraced
  BY DEF GiftInv
<1>1. PICK c \in ClerkRecords, d \in ClerkRecords :
        /\ d = clerk[r] /\ Follows(d) /\ Relies(d) /\ d.todo # NoCalls /\ Head(d.todo) = "grant"
        /\ c.todo = Tail(d.todo) /\ Follows(c) /\ (c.todo # NoCalls => c.read = d.read /\ c.save = d.save)
        /\ clerk' = [clerk EXCEPT ![r] = c]
        /\ UNCHANGED <<kind, clerkWork, clerkFaults>>
  BY MakesIs DEF Grant
<1>2. /\ credited' = CASE kind = "WALLET" -> credited + 1
                       [] kind = "XP" -> 1
                       [] OTHER -> credited
      /\ UNCHANGED <<reward, address, fulfilment, applied, parcel, staleRows, together, revoked, readdressed>>
  BY DEF Grant, rewardHistory
<1>3. d.todo = ToGVR /\ c.todo = ToVR
  <2>1. d.todo \in Todos
    BY DEF ClerkRecords
  <2>2. d.todo = ToGVR
    BY <1>1, <2>1, TodoTails
  <2> QED
    BY <1>1, <2>2, TodoCalls
<1>4. /\ ToGVR \in RewardTodos /\ ToGVR \in GrantTodos /\ ToGVR \notin FulfilmentTodos /\ ToGVR \notin {ToAFR, ToVR, ToR}
      /\ ToVR \in RewardTodos /\ ToVR \notin GrantTodos /\ ToVR \notin FulfilmentTodos /\ ToVR \notin {NoCalls, ToGVR}
  BY TodosDiffer DEF RewardTodos, GrantTodos, FulfilmentTodos
<1>5. /\ kind \notin {"PHYSICAL", "NONE"} /\ d.save.reward.status \in Given
      /\ reward.opened \/ "reward" \in staleRows
      /\ c.read = d.read /\ c.save = d.save
  BY <1>1, <1>3, <1>4 DEF Follows, Relies
<1>6. /\ credited \in Nat /\ credited' \in Nat /\ credited' <= credited + 1
      /\ credited > 0 => credited' > 0
      /\ kind \in {"WALLET", "XP"} => credited' > 0
      /\ kind = "XP" => credited' <= 1
      /\ kind \notin {"WALLET", "XP"} => credited' = credited
      /\ credited = 0 => credited' <= 1
  <2>1. credited \in Nat
    BY <1>t DEF GiftTyped
  <2>2. CASE kind = "WALLET"
    BY <1>2, <2>1, <2>2
  <2>3. CASE kind = "XP"
    BY <1>2, <2>1, <2>3
  <2>4. CASE kind \notin {"WALLET", "XP"}
    <3>1. credited' = credited
      BY <1>2, <2>4
    <3> QED
      BY <2>1, <2>4, <3>1
  <2> QED
    BY <2>2, <2>3, <2>4
<1>7. GiftTyped'
  <2>1. clerk' \in [Clerks -> ClerkRecords]
    BY <1>t, <1>1, ClerkMoves
  <2> QED
    BY <1>t, <1>1, <1>2, <1>6, <2>1 DEF GiftTyped
<1>8. CreditsCounted'
  <2>1. r \in Granters /\ c.todo \notin GrantTodos
    BY <1>1, <1>3, <1>4 DEF Granters
  <2>2. clerkWork' = clerkWork /\ clerkWork' \in Nat
    BY <1>t, <1>1, GiveawaysAssumption DEF GiftTyped
  <2> QED
    BY <1>t, <1>1, <1>6, <2>1, <2>2, CreditsStayCounted
<1>9. ClerksSound'
  <2>1. Relies(c)'
    BY <1>1, <1>2, <1>3, <1>4, <1>5, <1>6 DEF Relies
  <2> QED
    BY <1>t, <1>1, <1>2, <1>6, <2>1, ClerksStaySound
<1>10. /\ clerk'[r] = c /\ \A q \in Clerks \ {r} : clerk'[q] = clerk[q]
       /\ (\E q \in Clerks : SavesDispatch(clerk[q])) => \E q \in Clerks : SavesDispatch(clerk'[q])
       /\ (\E q \in Clerks : SavesDelivery(clerk[q])) => \E q \in Clerks : SavesDelivery(clerk'[q])
  <2>1. ~SavesDispatch(clerk[r]) /\ ~SavesDelivery(clerk[r])
    BY <1>1, <1>3, <1>4 DEF SavesDispatch, SavesDelivery
  <2> QED
    BY <1>t, <1>1, <2>1, ClerkMoves
<1>11. GiftAppliedOnce'
  <2>1. ASSUME ~together', clerkFaults' = 0
        PROVE  /\ \A p, q \in Clerks : clerk'[p].todo \in {ToGVR, ToVR} /\ clerk'[q].todo \in {ToGVR, ToVR} => p = q
               /\ credited' <= 1
               /\ \A q \in Clerks : clerk'[q].todo # ToGVR
    <3>1. ~together /\ clerkFaults = 0
      BY <1>1, <1>2, <2>1
    <3>2. \A p, q \in Clerks : clerk[p].todo \in {ToGVR, ToVR} /\ clerk[q].todo \in {ToGVR, ToVR} => p = q
      BY <1>t, <3>1 DEF GiftAppliedOnce
    <3>3. clerk[r].todo = ToGVR /\ credited = 0
      BY <1>t, <1>1, <1>3, <3>1 DEF GiftAppliedOnce
    <3>4. \A q \in Clerks \ {r} : clerk'[q].todo \notin {ToGVR, ToVR}
      BY <1>10, <3>2, <3>3
    <3> QED
      BY <1>3, <1>4, <1>6, <1>10, <3>3, <3>4
  <2>2. \E q \in Clerks : clerk'[q].todo = ToVR
    BY <1>3, <1>10
  <2>3. credited' > 0 /\ credited' <= 1 => credited' = 1
    BY <1>6
  <2> QED
    BY <1>t, <1>1, <1>2, <1>5, <1>6, <2>1, <2>2, <2>3 DEF GiftAppliedOnce
<1>12. GiftWithheld'
  <2>1. Finishing(clerk'[r])
    BY <1>3, <1>5, <1>10 DEF Finishing
  <2> QED
    BY <1>t, <1>1, <1>2, <1>5, <2>1 DEF GiftWithheld
<1>13. GiftTraced'
  BY <1>t, <1>1, <1>2, <1>10 DEF GiftTraced
<1> QED
  BY <1>7, <1>8, <1>9, <1>11, <1>12, <1>13 DEF GiftInv

\* It is marked as applied.
LEMMA SaveValueInv == ASSUME GiftInv, NEW r \in Clerks, SaveValue(r) PROVE GiftInv'
<1>t. GiftTyped /\ CreditsCounted /\ ClerksSound /\ GiftAppliedOnce /\ GiftWithheld /\ GiftTraced
  BY DEF GiftInv
<1>1. PICK c \in ClerkRecords, d \in ClerkRecords :
        /\ d = clerk[r] /\ Follows(d) /\ Relies(d) /\ d.todo # NoCalls /\ Head(d.todo) = "value"
        /\ c.todo = Tail(d.todo) /\ Follows(c) /\ (c.todo # NoCalls => c.read = d.read /\ c.save = d.save)
        /\ clerk' = [clerk EXCEPT ![r] = c]
        /\ UNCHANGED <<kind, clerkWork, clerkFaults>>
  BY MakesIs DEF SaveValue
<1>2. /\ applied' = TRUE
      /\ UNCHANGED <<reward, address, fulfilment, credited, parcel, staleRows, together, revoked, readdressed>>
  BY DEF SaveValue, rewardHistory
<1>3. d.todo = ToVR /\ c.todo = ToR
  <2>1. d.todo \in Todos
    BY DEF ClerkRecords
  <2>2. d.todo = ToVR
    BY <1>1, <2>1, TodoTails
  <2> QED
    BY <1>1, <2>2, TodoCalls
<1>4. /\ ToVR \in RewardTodos /\ ToVR \notin FulfilmentTodos /\ ToVR # ToAFR
      /\ ToR \in RewardTodos /\ ToR \notin GrantTodos /\ ToR \notin FulfilmentTodos /\ ToR \notin {NoCalls, ToAp, ToGVR, ToVR}
  BY TodosDiffer DEF RewardTodos, GrantTodos, FulfilmentTodos
<1>5. /\ kind # "NONE" /\ (kind \in {"WALLET", "XP"} => credited > 0)
      /\ c.read = d.read /\ c.save = d.save
  BY <1>1, <1>3, <1>4 DEF Follows, Relies
<1>6. GiftTyped'
  <2>1. clerk' \in [Clerks -> ClerkRecords]
    BY <1>t, <1>1, ClerkMoves
  <2> QED
    BY <1>t, <1>1, <1>2, <2>1 DEF GiftTyped
<1>7. CreditsCounted'
  <2>1. credited' \in Nat /\ clerkWork' \in Nat /\ clerkWork' >= clerkWork /\ credited' = credited
    BY <1>t, <1>1, <1>2, GiveawaysAssumption DEF GiftTyped
  <2> QED
    BY <1>t, <1>1, <1>3, <1>4, <2>1, CreditsStayCounted
<1>8. ClerksSound'
  <2>1. Relies(c)'
    BY <1>1, <1>2, <1>3, <1>4, <1>5 DEF Relies
  <2> QED
    BY <1>t, <1>1, <1>2, <2>1, ClerksStaySound
<1>9. /\ clerk'[r] = c /\ \A q \in Clerks \ {r} : clerk'[q] = clerk[q]
      /\ (\E q \in Clerks : Finishing(clerk[q])) => \E q \in Clerks : Finishing(clerk'[q])
      /\ (\E q \in Clerks : SavesDispatch(clerk[q])) => \E q \in Clerks : SavesDispatch(clerk'[q])
      /\ (\E q \in Clerks : SavesDelivery(clerk[q])) => \E q \in Clerks : SavesDelivery(clerk'[q])
  <2>1. ~SavesDispatch(clerk[r]) /\ ~SavesDelivery(clerk[r])
    BY <1>1, <1>3, <1>4 DEF SavesDispatch, SavesDelivery
  <2>2. Finishing(clerk[r]) => Finishing(c)
    BY <1>1, <1>3, <1>5 DEF Finishing
  <2>3. /\ clerk'[r] = c /\ \A q \in Clerks \ {r} : clerk'[q] = clerk[q]
        /\ (\E q \in Clerks : Finishing(clerk[q])) =>
             Finishing(clerk[r]) \/ \E q \in Clerks : Finishing(clerk'[q])
        /\ (\E q \in Clerks : SavesDispatch(clerk[q])) =>
             SavesDispatch(clerk[r]) \/ \E q \in Clerks : SavesDispatch(clerk'[q])
        /\ (\E q \in Clerks : SavesDelivery(clerk[q])) =>
             SavesDelivery(clerk[r]) \/ \E q \in Clerks : SavesDelivery(clerk'[q])
    BY <1>t, <1>1, ClerkMoves
  <2> QED
    BY <2>1, <2>2, <2>3
<1>10. GiftAppliedOnce'
  <2>1. ASSUME ~together', clerkFaults' = 0
        PROVE  /\ \A q \in Clerks : clerk'[q].todo \notin {ToGVR, ToVR}
               /\ credited > 0 => credited = 1
    <3>1. ~together /\ clerkFaults = 0
      BY <1>1, <1>2, <2>1
    <3>2. \A p, q \in Clerks : clerk[p].todo \in {ToGVR, ToVR} /\ clerk[q].todo \in {ToGVR, ToVR} => p = q
      BY <1>t, <3>1 DEF GiftAppliedOnce
    <3>3. clerk[r].todo = ToVR
      BY <1>1, <1>3
    <3>4. \A q \in Clerks \ {r} : clerk'[q].todo \notin {ToGVR, ToVR}
      BY <1>9, <3>2, <3>3
    <3> QED
      BY <1>t, <1>3, <1>4, <1>9, <3>1, <3>4 DEF GiftAppliedOnce
  <2> QED
    BY <1>t, <1>1, <1>2, <1>5, <2>1 DEF GiftAppliedOnce
<1>11. GiftWithheld'
  BY <1>t, <1>1, <1>2, <1>9 DEF GiftWithheld
<1>12. GiftTraced'
  BY <1>t, <1>1, <1>2, <1>9 DEF GiftTraced
<1> QED
  BY <1>6, <1>7, <1>8, <1>10, <1>11, <1>12 DEF GiftInv

\* The reward is loaded anew, to be applied.
LEMMA StartApplyInv == ASSUME GiftInv, NEW r \in Clerks, StartApply(r) PROVE GiftInv'
<1>t. GiftTyped /\ CreditsCounted /\ ClerksSound /\ GiftAppliedOnce /\ GiftWithheld /\ GiftTraced
  BY DEF GiftInv
<1>1. PICK d \in ClerkRecords : d = clerk[r] /\ Follows(d) /\ Relies(d) /\ d.todo = ToAp
  BY <1>t DEF GiftTyped, ClerksSound, StartApply, ToAp
<1>2. /\ ToAp \in GrantTodos /\ ToAp \notin FulfilmentTodos /\ ToAp \notin {NoCalls, ToVR, ToR, ToGVR}
      /\ ToGVR \in RewardTodos /\ ToGVR \notin AddressTodos /\ ToGVR \notin FulfilmentTodos
      /\ ToGVR \notin {NoCalls, ToAFR, ToAp, ToRAp, ToVR} /\ NoCalls \notin {ToGVR, ToVR}
  BY TodosDiffer DEF RewardTodos, GrantTodos, FulfilmentTodos, AddressTodos
<1>3. /\ together' = (together \/ \E p \in Clerks \ {r} : Applying(p))
      /\ UNCHANGED <<kind, reward, address, fulfilment, applied, credited, clerkWork, clerkFaults,
                     parcel, staleRows, revoked, readdressed>>
  BY DEF StartApply, rewardRows
<1>4. kind \notin {"PHYSICAL", "NONE"} /\ (reward.opened \/ "reward" \in staleRows)
  BY <1>1, <1>2 DEF Follows, Relies
<1>5. PICK c \in ClerkRecords :
        /\ clerk' = [clerk EXCEPT ![r] = c] /\ Follows(c) /\ Relies(c)'
        /\ c.todo \in {NoCalls, ToGVR}
        /\ c.todo = ToGVR => ~applied
  <2>1. CASE LeftAsItIs
    <3>1. clerk' = [clerk EXCEPT ![r] = Idle]
      BY <2>1 DEF StartApply
    <3>2. Idle \in ClerkRecords /\ Follows(Idle) /\ Idle.todo = NoCalls
      BY IdleIs
    <3>3. NoCalls \notin RewardTodos \union FulfilmentTodos \union {ToAp, ToGVR, ToVR}
      BY TodosDiffer DEF RewardTodos, FulfilmentTodos
    <3>4. Relies(Idle)'
      BY <3>2, <3>3 DEF Relies
    <3> QED
      BY <1>2, <3>1, <3>2, <3>4 DEF Idle
  <2>2. CASE ~LeftAsItIs
    <3>1. ~applied /\ reward.status # "REVOKED"
      BY <2>2 DEF LeftAsItIs
    <3> DEFINE save == [Rows EXCEPT !.reward.status = AppliedStatus]
               c == [todo |-> ToGVR, read |-> Rows, save |-> save]
    <3>2. clerk' = [clerk EXCEPT ![r] = c]
      BY <2>2 DEF StartApply, ToGVR
    <3>3. /\ Rows \in RowSets /\ Rows.reward = reward
          /\ reward \in RewardRow
      BY <1>t DEF GiftTyped, Rows, RowSets, RewardRow
    <3>4. AppliedStatus \in Given /\ AppliedStatus \in RewardStatuses
      BY DEF AppliedStatus, Given, RewardStatuses
    <3>5. PICK w \in RewardRow : w = [reward EXCEPT !.status = AppliedStatus] /\ w.status = AppliedStatus
                                 /\ w.opened = reward.opened
      BY <3>3, <3>4, StatusChanged
    <3>6. save = [Rows EXCEPT !.reward = w]
      BY <3>5 DEF Rows
    <3>7. save \in RowSets /\ save.reward = w
      BY <3>3, <3>6 DEF RowSets, RewardRow
    <3> HIDE DEF save
    <3>8. c \in ClerkRecords /\ c.todo = ToGVR /\ c.read = Rows /\ c.save = save
      BY <3>3, <3>7 DEF ClerkRecords, Todos
    <3> HIDE DEF c
    <3>9. PICK e \in ClerkRecords : /\ e.todo = ToGVR /\ e.read.reward = reward /\ e.save.reward = w
                                    /\ clerk' = [clerk EXCEPT ![r] = e]
      BY <3>2, <3>3, <3>7, <3>8
    <3>10. /\ e.read.reward.opened => e.save.reward.opened
           /\ e.save.reward.status \in Given /\ e.read.reward.status # "REVOKED"
           /\ e.save.reward.status \notin {"ADDRESS_RECEIVED", "DISPATCHED", "DELIVERED", "REVOKED"}
      BY <3>1, <3>4, <3>5, <3>9 DEF Given
    <3>11. Follows(e)
      BY <1>2, <1>4, <3>9, <3>10 DEF Follows
    <3>12. Relies(e)'
      BY <1>2, <1>3, <1>4, <3>9, <3>10 DEF Relies
    <3> QED
      BY <3>1, <3>9, <3>11, <3>12
  <2> QED
    BY <2>1, <2>2
<1>6. GiftTyped'
  <2>1. clerk' \in [Clerks -> ClerkRecords]
    BY <1>t, <1>5, ClerkMoves
  <2>2. together' \in BOOLEAN
    BY <1>t, <1>3 DEF GiftTyped
  <2> QED
    BY <1>t, <1>3, <2>1, <2>2 DEF GiftTyped
<1>7. CreditsCounted'
  <2>1. credited' \in Nat /\ clerkWork' \in Nat /\ clerkWork' >= clerkWork /\ credited' = credited
    BY <1>t, <1>3, GiveawaysAssumption DEF GiftTyped
  <2>2. r \in Granters
    BY <1>1, <1>2 DEF Granters
  <2> QED
    BY <1>t, <1>5, <2>1, <2>2, CreditsStayCounted
<1>8. ClerksSound'
  BY <1>t, <1>3, <1>5, ClerksStaySound
<1>9. /\ clerk'[r] = c /\ \A q \in Clerks \ {r} : clerk'[q] = clerk[q]
      /\ (\E q \in Clerks : clerk[q].todo = ToVR) => \E q \in Clerks : clerk'[q].todo = ToVR
      /\ (\E q \in Clerks : Finishing(clerk[q])) => \E q \in Clerks : Finishing(clerk'[q])
      /\ (\E q \in Clerks : SavesDispatch(clerk[q])) => \E q \in Clerks : SavesDispatch(clerk'[q])
      /\ (\E q \in Clerks : SavesDelivery(clerk[q])) => \E q \in Clerks : SavesDelivery(clerk'[q])
  <2>1. clerk[r].todo # ToVR /\ ~Finishing(clerk[r]) /\ ~SavesDispatch(clerk[r]) /\ ~SavesDelivery(clerk[r])
    BY <1>1, <1>2 DEF Finishing, SavesDispatch, SavesDelivery
  <2> QED
    BY <1>t, <1>5, <2>1, ClerkMoves
\* Nobody else is applying it, or there were two at once.
<1>10. ASSUME ~together', NEW q \in Clerks \ {r} PROVE clerk[q].todo \notin {ToGVR, ToVR}
  <2>1. ~Applying(q)
    BY <1>3, <1>10
  <2>2. clerk[q].todo \in {ToGVR, ToVR} => clerk[q].todo # NoCalls /\ Head(clerk[q].todo) \in {"grant", "value"}
    BY TodoCalls
  <2> QED
    BY <2>1, <2>2 DEF Applying, NextCall, NoCalls
<1>11. GiftAppliedOnce'
  <2>1. ASSUME ~together', clerkFaults' = 0
        PROVE  /\ \A p, q \in Clerks : clerk'[p].todo \in {ToGVR, ToVR} /\ clerk'[q].todo \in {ToGVR, ToVR} => p = q
               /\ credited > 0 => credited = 1 /\ applied
               /\ \A q \in Clerks : clerk'[q].todo = ToGVR => ~applied /\ credited = 0
    <3>1. \A q \in Clerks : clerk'[q].todo \in {ToGVR, ToVR} => q = r
      BY <1>9, <1>10, <2>1
    <3>2. \A q \in Clerks : clerk[q].todo # ToVR
      BY <1>1, <1>2, <1>10, <2>1
    <3>3. credited > 0 => credited = 1 /\ applied
      BY <1>t, <1>3, <2>1, <3>2 DEF GiftAppliedOnce
    <3>4. clerk'[r].todo = ToGVR => ~applied
      BY <1>5, <1>9
    <3>5. credited \in Nat
      BY <1>t DEF GiftTyped
    <3>6. ~applied => credited = 0
      BY <3>3, <3>5
    <3> QED
      BY <3>1, <3>3, <3>4, <3>6
  <2> QED
    BY <1>t, <1>3, <2>1 DEF GiftAppliedOnce
<1>12. GiftWithheld'
  BY <1>t, <1>3, <1>9 DEF GiftWithheld
<1>13. GiftTraced'
  BY <1>t, <1>3, <1>9 DEF GiftTraced
<1> QED
  BY <1>6, <1>7, <1>8, <1>11, <1>12, <1>13 DEF GiftInv

\* A request is cut off, or its insert of a second address is refused.
LEMMA ClerkDiesInv == ASSUME GiftInv, NEW r \in Clerks, ClerkDies(r) PROVE GiftInv'
<1>t. GiftTyped /\ CreditsCounted /\ ClerksSound /\ GiftAppliedOnce /\ GiftWithheld /\ GiftTraced
  BY DEF GiftInv
<1>1. PICK c \in ClerkRecords : c = Idle /\ c.todo = NoCalls /\ Follows(c)
  BY IdleIs
<1>2. /\ clerk' = [clerk EXCEPT ![r] = c] /\ clerk[r].todo # NoCalls
      /\ UNCHANGED <<kind, reward, address, fulfilment, applied, credited, clerkWork,
                     parcel, staleRows, together, revoked, readdressed>>
  BY <1>1 DEF ClerkDies, rewardRows, rewardHistory, NoCalls
<1>3. \/ clerkFaults < MaxClerkFaults /\ clerkFaults' = clerkFaults + 1
      \/ Head(clerk[r].todo) = "address" /\ clerkFaults' = clerkFaults
  BY DEF ClerkDies, NextCall
<1>4. NoCalls \notin RewardTodos \union FulfilmentTodos \union GrantTodos \union {ToAp, ToGVR, ToVR}
  BY TodosDiffer DEF RewardTodos, FulfilmentTodos, GrantTodos
<1>5. GiftTyped'
  <2>1. clerk' \in [Clerks -> ClerkRecords]
    BY <1>t, <1>2, ClerkMoves
  <2>2. clerkFaults' \in 0..MaxClerkFaults
    BY <1>t, <1>3, GiveawaysAssumption DEF GiftTyped
  <2> QED
    BY <1>t, <1>2, <2>1, <2>2 DEF GiftTyped
<1>6. CreditsCounted'
  <2>1. credited' \in Nat /\ clerkWork' \in Nat /\ clerkWork' >= clerkWork /\ credited' = credited
    BY <1>t, <1>2, GiveawaysAssumption DEF GiftTyped
  <2> QED
    BY <1>t, <1>1, <1>2, <1>4, <2>1, CreditsStayCounted
<1>7. ClerksSound'
  <2>1. Relies(c)'
    BY <1>1, <1>4 DEF Relies
  <2> QED
    BY <1>t, <1>1, <1>2, <2>1, ClerksStaySound
\* A refused insert is the first call of its request or the last one that matters.
<1>8. ASSUME clerkFaults' = 0
      PROVE  /\ clerkFaults = 0
             /\ (\E q \in Clerks : clerk[q].todo = ToVR) => \E q \in Clerks : clerk'[q].todo = ToVR
             /\ (\E q \in Clerks : Finishing(clerk[q])) => \E q \in Clerks : Finishing(clerk'[q])
             /\ (\E q \in Clerks : SavesDispatch(clerk[q])) => \E q \in Clerks : SavesDispatch(clerk'[q])
             /\ (\E q \in Clerks : SavesDelivery(clerk[q])) => \E q \in Clerks : SavesDelivery(clerk'[q])
  <2>1. clerkFaults = 0 /\ Head(clerk[r].todo) = "address"
    BY <1>t, <1>3, <1>8, GiveawaysAssumption DEF GiftTyped
  <2>2. PICK d \in ClerkRecords : d = clerk[r] /\ Follows(d)
    BY <1>t DEF GiftTyped, ClerksSound
  <2>3. d.todo \in Todos
    BY DEF ClerkRecords
  <2>4. d.todo \in {ToA, ToAR, ToAFR}
    BY <1>2, <2>1, <2>2, <2>3, TodoTails
  <2>5. d.todo \notin {ToVR, ToR} /\ (d.todo \in FulfilmentTodos => d.todo = ToAFR)
    BY <2>4, TodosDiffer DEF FulfilmentTodos
  <2>6. d.todo \in FulfilmentTodos => d.save.fulfilment = d.read.fulfilment
    BY <2>2, <2>5 DEF Follows
  <2>7. d.todo # ToVR /\ ~Finishing(d) /\ ~SavesDispatch(d) /\ ~SavesDelivery(d)
    BY <2>5, <2>6 DEF Finishing, SavesDispatch, SavesDelivery
  <2>8. clerk[r].todo # ToVR /\ ~Finishing(clerk[r]) /\ ~SavesDispatch(clerk[r]) /\ ~SavesDelivery(clerk[r])
    BY <2>2, <2>7
  <2> QED
    BY <1>t, <1>2, <2>1, <2>8, ClerkMoves
<1>9. \A q \in Clerks : clerk'[q].todo \in {ToGVR, ToVR} => clerk'[q].todo = clerk[q].todo
  <2>1. clerk'[r] = c /\ \A q \in Clerks \ {r} : clerk'[q] = clerk[q]
    BY <1>t, <1>2, ClerkMoves
  <2> QED
    BY <1>1, <1>4, <2>1
<1>10. GiftAppliedOnce'
  BY <1>t, <1>2, <1>8, <1>9 DEF GiftAppliedOnce
<1>11. GiftWithheld'
  BY <1>t, <1>2, <1>8 DEF GiftWithheld
<1>12. GiftTraced'
  BY <1>t, <1>2, <1>8 DEF GiftTraced
<1> QED
  BY <1>5, <1>6, <1>7, <1>10, <1>11, <1>12 DEF GiftInv

\* A reward is created: until then nobody holds anything.
LEMMA CreateRewardInv == ASSUME GiftInv, NEW r \in Clerks, CreateReward(r) PROVE GiftInv'
<1>t. GiftTyped /\ CreditsCounted /\ ClerksSound /\ GiftAppliedOnce /\ GiftWithheld /\ GiftTraced
  BY DEF GiftInv
<1>1. /\ kind = "NONE" /\ clerkWork < MaxClerkWork /\ clerkWork' = clerkWork + 1
      /\ UNCHANGED <<address, fulfilment, applied, credited, clerkFaults,
                     parcel, staleRows, together, revoked, readdressed>>
  BY DEF CreateReward, rewardHistory
<1>2. /\ ~applied /\ credited = 0 /\ ~revoked
      /\ \A q \in Clerks : clerk[q].todo = NoCalls
  BY <1>t, <1>1 DEF GiftAppliedOnce, GiftWithheld, ClerksSound, Follows
<1>3. /\ kind' \in Kinds
      /\ reward' \in RewardRow /\ reward'.opened
      /\ reward'.status \in {"OPENED", "ADDRESS_PENDING", "PROCESSING"}
  <2>1. PICK k \in Kinds, askAddress \in BOOLEAN :
          /\ kind' = k
          /\ reward' = Row(IF k # "PHYSICAL" THEN "OPENED"
                           ELSE IF askAddress THEN "ADDRESS_PENDING" ELSE "PROCESSING", TRUE)
    BY DEF CreateReward
  <2> QED
    BY <2>1 DEF Row, RewardRow, RewardStatuses
<1>4. PICK c \in ClerkRecords : /\ clerk' = [clerk EXCEPT ![r] = c]
                                /\ c.todo = IF kind' = "PHYSICAL" THEN NoCalls ELSE ToAp
  <2>1. PICK todo \in {NoCalls, ToAp} : /\ clerk' = [clerk EXCEPT ![r].todo = todo]
                                      /\ todo = IF kind' = "PHYSICAL" THEN NoCalls ELSE ToAp
    BY DEF CreateReward, NoCalls, ToAp
  <2>2. PICK d \in ClerkRecords : d = clerk[r]
    BY <1>t DEF GiftTyped
  <2> DEFINE c == [d EXCEPT !.todo = todo]
  <2>3. c \in ClerkRecords /\ c.todo = todo
    BY DEF ClerkRecords, Todos
  <2>4. clerk' = [clerk EXCEPT ![r] = c]
    BY <2>1, <2>2
  <2> HIDE DEF c
  <2> QED
    BY <2>1, <2>3, <2>4
<1>5. /\ clerk' \in [Clerks -> ClerkRecords] /\ clerk'[r] = c
      /\ \A q \in Clerks \ {r} : clerk'[q] = clerk[q]
  BY <1>t, <1>4, ClerkMoves
<1>6. /\ NoCalls \notin RewardTodos \union AddressTodos \union FulfilmentTodos \union {ToAp, ToRAp, ToGVR, ToVR, ToAFR}
      /\ ToAp \notin RewardTodos \union AddressTodos \union FulfilmentTodos \union {ToRAp, ToGVR, ToVR, ToAFR}
  BY TodosDiffer DEF RewardTodos, AddressTodos, FulfilmentTodos
<1>7. \A q \in Clerks : /\ clerk'[q].todo \in {NoCalls, ToAp}
                        /\ clerk'[q].todo = ToAp => kind' \notin {"PHYSICAL", "NONE"}
  BY <1>2, <1>3, <1>4, <1>5, <1>6 DEF Kinds
<1>8. GiftTyped'
  <2>1. clerkWork' \in 0..MaxClerkWork
    BY <1>t, <1>1, GiveawaysAssumption DEF GiftTyped
  <2> QED
    BY <1>t, <1>1, <1>3, <1>5, <2>1 DEF GiftTyped, RewardRow
<1>9. CreditsCounted'
  <2>1. credited' = credited /\ credited' \in Nat /\ clerkWork' \in Nat
    BY <1>t, <1>1, GiveawaysAssumption DEF GiftTyped
  <2> QED
    BY <1>t, <1>1, <1>4, <2>1, CreditsStayCounted
<1>10. ClerksSound'
  <2>1. ASSUME NEW d \in ClerkRecords, d.todo \in {NoCalls, ToAp}, d.todo = ToAp => kind' \notin {"PHYSICAL", "NONE"}
        PROVE  Follows(d)' /\ Relies(d)'
    <3>1. Follows(d)'
      BY <1>3, <1>6, <2>1 DEF Follows, Kinds
    <3>2. Relies(d)'
      BY <1>3, <1>6, <2>1 DEF Relies
    <3> QED
      BY <3>1, <3>2
  <2>2. ASSUME NEW q \in Clerks PROVE Follows(clerk[q])' /\ Relies(clerk[q])'
    <3>1. PICK d \in ClerkRecords : d = clerk'[q]
      BY <1>5
    <3>2. Follows(d)' /\ Relies(d)'
      BY <1>7, <2>1, <3>1
    <3> QED
      BY <3>1, <3>2 DEF Follows, Relies
  <2> QED
    BY <2>2 DEF ClerksSound
<1>11. GiftAppliedOnce'
  BY <1>1, <1>2, <1>6, <1>7 DEF GiftAppliedOnce
<1>12. GiftWithheld'
  BY <1>1, <1>2, <1>3 DEF GiftWithheld
<1>13. GiftTraced'
  BY <1>t, <1>1, <1>3 DEF GiftTraced
<1> QED
  BY <1>8, <1>9, <1>10, <1>11, <1>12, <1>13 DEF GiftInv

LEMMA GiveawaysStart == GiveawaysInit => GiftInv
<1> SUFFICES ASSUME GiveawaysInit PROVE GiftInv
  OBVIOUS
<1>1. PICK c \in ClerkRecords : c = Idle /\ c.todo = NoCalls /\ Follows(c) /\ Relies(c)
  BY IdleIs
<1>2. clerk = [q \in Clerks |-> c]
  BY <1>1 DEF GiveawaysInit
<1>3. NoCalls \notin GrantTodos \union {ToGVR, ToVR}
  BY TodosDiffer DEF GrantTodos
<1>4. GiftTyped
  <2>1. clerk \in [Clerks -> ClerkRecords]
    BY <1>2
  <2>2. /\ reward \in [status : RewardStatuses, opened : BOOLEAN, seen : BOOLEAN]
        /\ address \in [text : AddressTexts \union {NoText}, locked : BOOLEAN]
        /\ fulfilment \in [dispatched : BOOLEAN, delivered : BOOLEAN]
    BY DEF GiveawaysInit, Row, NoAddress, Done, RewardStatuses
  <2>3. credited \in Nat /\ clerkWork \in 0..MaxClerkWork /\ clerkFaults \in 0..MaxClerkFaults
    <3>1. credited = 0 /\ clerkWork = 0 /\ clerkFaults = 0
      BY DEF GiveawaysInit
    <3> QED
      BY <3>1, GiveawaysAssumption
  <2>4. /\ together \in BOOLEAN /\ revoked \in BOOLEAN /\ readdressed \in BOOLEAN
        /\ applied \in BOOLEAN /\ staleRows \subseteq {"reward", "address", "fulfilment"}
    BY DEF GiveawaysInit
  <2>5. parcel \in AddressTexts \union {NoText} /\ kind \in Kinds \union {"NONE"}
    BY DEF GiveawaysInit
  <2> QED
    BY <2>1, <2>2, <2>3, <2>4, <2>5 DEF GiftTyped
<1>5. CreditsCounted
  <2>1. Granters = {}
    BY <1>1, <1>2, <1>3 DEF Granters
  <2>2. credited = 0 /\ clerkWork = 0
    BY DEF GiveawaysInit
  <2> QED
    BY <2>1, <2>2, FS_EmptySet DEF CreditsCounted
<1>6. ClerksSound
  BY <1>1, <1>2 DEF ClerksSound
<1>7. GiftAppliedOnce
  BY <1>1, <1>2, <1>3 DEF GiveawaysInit, GiftAppliedOnce
<1>8. GiftWithheld
  <2>1. credited = 0 /\ ~revoked
    BY DEF GiveawaysInit
  <2> QED
    BY <2>1 DEF GiftWithheld
<1>9. GiftTraced
  BY DEF GiveawaysInit, GiftTraced, Row
<1> QED
  BY <1>4, <1>5, <1>6, <1>7, <1>8, <1>9 DEF GiftInv

LEMMA GiveawaysStep == GiftInv /\ [GiveawaysNext]_rewardVars => GiftInv'
<1> SUFFICES ASSUME GiftInv, [GiveawaysNext]_rewardVars PROVE GiftInv'
  OBVIOUS
<1>1. CASE GiveawaysNext
  <2>1. PICK r \in Clerks :
          \/ CreateReward(r) \/ View(r) \/ OpenReward(r) \/ EnterAddress(r) \/ RequestAddress(r)
          \/ Dispatch(r) \/ Deliver(r) \/ UpdateStatus(r) \/ SendUpdate(r) \/ Revoke(r)
          \/ SaveReward(r) \/ SaveAddress(r) \/ SaveFulfilment(r)
          \/ StartApply(r) \/ Grant(r) \/ SaveValue(r) \/ ClerkDies(r)
    BY <1>1 DEF GiveawaysNext
  <2>2. CASE View(r) \/ OpenReward(r) \/ Revoke(r) \/ RequestAddress(r) \/ SendUpdate(r)
    BY <2>2, RewardLoadsInv
  <2>3. CASE EnterAddress(r) \/ Dispatch(r) \/ Deliver(r) \/ UpdateStatus(r)
    BY <2>3, ParcelLoadsInv
  <2>4. CASE CreateReward(r) \/ SaveReward(r) \/ SaveAddress(r) \/ SaveFulfilment(r)
    BY <2>4, CreateRewardInv, SaveRewardInv, SaveAddressInv, SaveFulfilmentInv
  <2>5. CASE StartApply(r) \/ Grant(r) \/ SaveValue(r) \/ ClerkDies(r)
    BY <2>5, StartApplyInv, GrantInv, SaveValueInv, ClerkDiesInv
  <2> QED
    BY <2>1, <2>2, <2>3, <2>4, <2>5
<1>2. CASE UNCHANGED rewardVars
  <2>1. /\ UNCHANGED <<kind, reward, address, fulfilment, applied, credited, clerk, clerkWork, clerkFaults>>
        /\ UNCHANGED <<parcel, staleRows, together, revoked, readdressed>>
    BY <1>2 DEF rewardVars, rewardRows, rewardHistory
  <2>2. GiftTyped' /\ CreditsCounted'
    BY <2>1 DEF GiftInv, GiftTyped, CreditsCounted, Granters
  <2>3. ClerksSound'
    BY <2>1 DEF GiftInv, ClerksSound, Follows, Relies
  <2>4. GiftAppliedOnce' /\ GiftWithheld' /\ GiftTraced'
    BY <2>1 DEF GiftInv, GiftAppliedOnce, GiftWithheld, GiftTraced
  <2> QED
    BY <2>2, <2>3, <2>4 DEF GiftInv
<1> QED
  BY <1>1, <1>2

LEMMA GiftImplies == GiftInv => GiveawaysConsistent
<1> SUFFICES ASSUME GiftInv PROVE GiveawaysConsistent
  OBVIOUS
<1>t. GiftTyped /\ CreditsCounted /\ GiftAppliedOnce /\ GiftWithheld /\ GiftTraced
  BY DEF GiftInv
<1>1. GiveawaysTypeOK
  <2>1. credited \in 0..MaxClerkWork
    <3>1. Cardinality(Granters) \in Nat /\ credited + Cardinality(Granters) <= clerkWork
      BY <1>t, FS_CardinalityType DEF CreditsCounted
    <3> QED
      BY <1>t, <3>1, GiveawaysAssumption DEF GiftTyped
  <2>2. Rows \in RowSets
    BY <1>t DEF GiftTyped, Rows, RowSets
  <2>3. ASSUME NEW r \in Clerks
        PROVE  /\ clerk[r].read \in RowSets /\ clerk[r].save \in RowSets
               /\ Range(clerk[r].todo) \subseteq CallNames
    <3>1. PICK d \in ClerkRecords : d = clerk[r]
      BY <1>t DEF GiftTyped
    <3>2. d.todo \in Todos /\ d.read \in RowSets /\ d.save \in RowSets
      BY DEF ClerkRecords
    <3>3. Range(d.todo) \subseteq CallNames
      BY <3>2, TodoRange
    <3> QED
      BY <3>1, <3>2, <3>3
  <2> QED
    BY <1>t, <2>1, <2>2, <2>3 DEF GiveawaysTypeOK, GiftTyped, CallNames
<1>2. GrantedOnce
  <2>1. credited \in Nat /\ clerkFaults \in Nat
    BY <1>t, GiveawaysAssumption DEF GiftTyped
  <2>2. credited > 1 => together \/ clerkFaults > 0
    BY <1>t, <2>1 DEF GiftAppliedOnce
  <2> QED
    BY <1>t, <2>2 DEF GiftAppliedOnce, GrantedOnce
\* Requests that rest are about to say nothing.
<1>3. AllRest => \A q \in Clerks :
        ~Finishing(clerk[q]) /\ ~SavesDispatch(clerk[q]) /\ ~SavesDelivery(clerk[q])
  <2>1. NoCalls \notin FulfilmentTodos \union {ToVR, ToR}
    BY TodosDiffer DEF FulfilmentTodos
  <2>2. AllRest => \A q \in Clerks : clerk[q].todo = NoCalls
    BY DEF AllRest, NoCalls
  <2> QED
    BY <2>1, <2>2 DEF Finishing, SavesDispatch, SavesDelivery
<1>4. clerkFaults > 0 \/ clerkFaults = 0
  BY <1>t, GiveawaysAssumption DEF GiftTyped
<1>5. RevokedIsWithheld
  BY <1>t, <1>3, <1>4 DEF RevokedIsWithheld, GiftWithheld, Given
<1>6. ParcelIsTraced
  <2>1. address.locked /\ address.text = parcel => address = [text |-> parcel, locked |-> TRUE]
    BY <1>t DEF GiftTyped
  <2> QED
    BY <1>t, <1>3, <1>4, <2>1 DEF ParcelIsTraced, GiftTraced
<1> QED
  BY <1>1, <1>2, <1>5, <1>6 DEF GiveawaysConsistent

\* A reward that is marked as applied was credited, and once unless two requests
\* applied it together or one died; a revoked one is withheld; what was
\* dispatched is traced by its locked address and its timestamps, for any number
\* of requests, addresses and faults.
THEOREM GiveawaysStayConsistent == GiveawaysSpec => []GiveawaysConsistent
<1>1. GiveawaysInit => GiftInv
  BY GiveawaysStart
<1>2. GiftInv /\ [GiveawaysNext]_rewardVars => GiftInv'
  BY GiveawaysStep
<1>3. GiftInv => GiveawaysConsistent
  BY GiftImplies
<1> QED
  BY <1>1, <1>2, <1>3, PTL DEF GiveawaysSpec
=============================================================================
