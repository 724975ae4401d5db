------------------------------- MODULE VideoJobs -------------------------------
(***************************************************************************)
(* Transcoding of uploaded videos:                                          *)
(* src/video-processing/video-transcode-worker.service.ts, with the         *)
(* creation and the requeueing of jobs in files.service.ts.                 *)
(*                                                                         *)
(* A job belongs to one media asset.  Workers claim a job with SKIP LOCKED,  *)
(* transcode for minutes or hours, and publish or mark a failure with        *)
(* UPDATEs by id: neither looks at lockedBy or at the status, so that a      *)
(* worker whose lock was taken for stale writes over its successor.          *)
(***************************************************************************)
EXTENDS Naturals

CONSTANTS
  Assets,       \* media assets of type video, one job each
  Workers,
  NoAsset,
  MaxAttempts,  \* the job's maxAttempts
  MaxVideoFaults,    \* bound on crashes, failed transactions and expired locks
  MaxRequeues   \* bound on requeues by playback checks

ASSUME VideoAssumption ==
  /\ NoAsset \notin Assets
  /\ MaxAttempts \in Nat \ {0}
  /\ MaxVideoFaults \in Nat
  /\ MaxRequeues \in Nat

VARIABLES
  job,       \* video_transcode_jobs.status, "none" before the row exists
  attempts,  \* its attempts
  due,       \* availableAt <= now
  stale,     \* lockedAt is older than the lock timeout
  media,     \* media_assets.transcodeStatus
  master,    \* the generation hlsMasterKey points to, 0 for NULL
  archived,  \* the file is archived
  stored,    \* generations whose HLS files are in object storage
  last,      \* the last generation id given out
  wpc, wAsset, wAttempts,
  wMaster,   \* hlsMasterKey of the asset a worker has loaded
  wGen,      \* the generation it makes
  lapsed,    \* history: a lock went stale while a worker was on the job
  videoFaults, requeues

jobVars == <<job, attempts, due, stale>>
mediaVars == <<media, master, archived>>
storageVars == <<stored, last>>
workerVars == <<wpc, wAsset, wAttempts, wMaster, wGen>>
boundVars == <<lapsed, videoFaults, requeues>>
videoVars == <<jobVars, mediaVars, storageVars, workerVars, boundVars>>

-----------------------------------------------------------------------------
JobStatuses == {"none", "pending", "processing", "completed", "failed"}
MediaStatuses == {"none", "pending", "processing", "ready", "failed"}
WorkerSteps == {"idle", "claimed", "loaded", "transcoding", "uploaded", "threw", "unavailable"}

\* The ids of generations, in the order they are drawn (UUIDs in the code).
Generations == Nat \ {0}

VideoTypeOK ==
  /\ job \in [Assets -> JobStatuses]
  /\ attempts \in [Assets -> 0..MaxAttempts]
  /\ due \in [Assets -> BOOLEAN]
  /\ stale \in [Assets -> BOOLEAN]
  /\ media \in [Assets -> MediaStatuses]
  /\ master \in [Assets -> {0} \union Generations]
  /\ archived \in [Assets -> BOOLEAN]
  /\ stored \subseteq Generations
  /\ last \in {0} \union Generations
  /\ wpc \in [Workers -> WorkerSteps]
  /\ wAsset \in [Workers -> Assets \union {NoAsset}]
  /\ wAttempts \in [Workers -> 0..MaxAttempts]
  /\ wMaster \in [Workers -> {0} \union Generations]
  /\ wGen \in [Workers -> {0} \union Generations]
  /\ lapsed \in [Assets -> BOOLEAN]
  /\ videoFaults \in 0..MaxVideoFaults
  /\ requeues \in 0..MaxRequeues

VideoInit ==
  /\ job = [a \in Assets |-> "none"]
  /\ attempts = [a \in Assets |-> 0]
  /\ due = [a \in Assets |-> FALSE]
  /\ stale = [a \in Assets |-> FALSE]
  /\ media = [a \in Assets |-> "none"]
  /\ master = [a \in Assets |-> 0]
  /\ archived = [a \in Assets |-> FALSE]
  /\ stored = {}
  /\ last = 0
  /\ wpc = [w \in Workers |-> "idle"]
  /\ wAsset = [w \in Workers |-> NoAsset]
  /\ wAttempts = [w \in Workers |-> 0]
  /\ wMaster = [w \in Workers |-> 0]
  /\ wGen = [w \in Workers |-> 0]
  /\ lapsed = [a \in Assets |-> FALSE]
  /\ videoFaults = 0
  /\ requeues = 0

LeaveJob(w) ==
  /\ wpc' = [wpc EXCEPT ![w] = "idle"]
  /\ wAsset' = [wAsset EXCEPT ![w] = NoAsset]
  /\ wAttempts' = [wAttempts EXCEPT ![w] = 0]
  /\ wMaster' = [wMaster EXCEPT ![w] = 0]
  /\ wGen' = [wGen EXCEPT ![w] = 0]

Proceed(w, step) ==
  /\ wpc' = [wpc EXCEPT ![w] = step]
  /\ UNCHANGED <<wAsset, wAttempts>>

-----------------------------------------------------------------------------
(* Uploads, playback checks and time.                                       *)

\* The video is uploaded: its asset and its job are created.
Enqueue(a) ==
  /\ job[a] = "none"
  /\ job' = [job EXCEPT ![a] = "pending"]
  /\ due' = [due EXCEPT ![a] = TRUE]
  /\ media' = [media EXCEPT ![a] = "pending"]
  /\ UNCHANGED <<attempts, stale, master, archived, storageVars, workerVars, boundVars>>

Archive(a) ==
  /\ job[a] # "none" /\ ~archived[a]
  /\ archived' = [archived EXCEPT ![a] = TRUE]
  /\ UNCHANGED <<jobVars, media, master, storageVars, workerVars, boundVars>>

\* requeueFailedVideoTranscode, one transaction under the asset's row lock.
Requeue(a) ==
  /\ ~archived[a]
  /\ media[a] = "failed"
  /\ job[a] = "failed"
  /\ requeues < MaxRequeues
  /\ requeues' = requeues + 1
  /\ job' = [job EXCEPT ![a] = "pending"]
  /\ attempts' = [attempts EXCEPT ![a] = 0]
  /\ due' = [due EXCEPT ![a] = TRUE]
  /\ media' = [media EXCEPT ![a] = "pending"]
  /\ UNCHANGED <<stale, master, archived, storageVars, workerVars, lapsed, videoFaults>>

RetryComesDue(a) ==
  /\ job[a] = "pending" /\ ~due[a]
  /\ due' = [due EXCEPT ![a] = TRUE]
  /\ UNCHANGED <<job, attempts, stale, mediaVars, storageVars, workerVars, boundVars>>

\* The lock timeout goes by: after a crash, or while its worker still works
\* (a fault, as the timeout is six hours by default).
LockGoesStale(a) ==
  /\ job[a] = "processing" /\ ~stale[a]
  /\ stale' = [stale EXCEPT ![a] = TRUE]
  /\ IF \E w \in Workers : wAsset[w] = a
     THEN /\ videoFaults < MaxVideoFaults
          /\ videoFaults' = videoFaults + 1
          /\ lapsed' = [lapsed EXCEPT ![a] = TRUE]
     ELSE UNCHANGED <<videoFaults, lapsed>>
  /\ UNCHANGED <<job, attempts, due, mediaVars, storageVars, workerVars, requeues>>

\* (Mutant: every job in processing is taken for stale.)
RecoverAll(a) ==
  /\ job[a] = "processing"
  /\ job' = [job EXCEPT ![a] = "pending"]
  /\ due' = [due EXCEPT ![a] = TRUE]
  /\ stale' = [stale EXCEPT ![a] = FALSE]
  /\ UNCHANGED <<attempts, mediaVars, storageVars, workerVars, boundVars>>

\* recoverStaleJobs.
Recover(a) ==
  /\ job[a] = "processing" /\ stale[a]
  /\ job' = [job EXCEPT ![a] = "pending"]
  /\ due' = [due EXCEPT ![a] = TRUE]
  /\ stale' = [stale EXCEPT ![a] = FALSE]
  /\ UNCHANGED <<attempts, mediaVars, storageVars, workerVars, boundVars>>

-----------------------------------------------------------------------------
(* A worker.                                                                *)

ClaimableJob(a) == job[a] = "pending" /\ due[a] /\ attempts[a] < MaxAttempts

\* claimNextJob, one statement.
Claim(w, a) ==
  /\ wpc[w] = "idle"
  /\ ClaimableJob(a)
  /\ job' = [job EXCEPT ![a] = "processing"]
  /\ attempts' = [attempts EXCEPT ![a] = @ + 1]
  /\ stale' = [stale EXCEPT ![a] = FALSE]
  /\ wpc' = [wpc EXCEPT ![w] = "claimed"]
  /\ wAsset' = [wAsset EXCEPT ![w] = a]
  /\ wAttempts' = [wAttempts EXCEPT ![w] = attempts[a] + 1]
  /\ UNCHANGED <<due, mediaVars, storageVars, wMaster, wGen, boundVars>>

\* processJob: the asset and the file are read.
Load(w) ==
  LET a == wAsset[w]
  IN /\ wpc[w] = "claimed"
     /\ IF archived[a]
        THEN Proceed(w, "unavailable") /\ UNCHANGED wMaster
        ELSE Proceed(w, "loaded") /\ wMaster' = [wMaster EXCEPT ![w] = master[a]]
     /\ UNCHANGED <<jobVars, mediaVars, storageVars, wGen, boundVars>>

\* The asset is saved as PROCESSING, its other columns as they were loaded, and
\* a new generation id is drawn.
Begin(w) ==
  LET a == wAsset[w]
  IN /\ wpc[w] = "loaded"
     /\ media' = [media EXCEPT ![a] = "processing"]
     /\ master' = [master EXCEPT ![a] = wMaster[w]]
     /\ last' = last + 1
     /\ wGen' = [wGen EXCEPT ![w] = last + 1]
     /\ Proceed(w, "transcoding")
     /\ UNCHANGED <<jobVars, archived, stored, wMaster, boundVars>>

\* Download, probe, ffmpeg and upload succeed, or one of them throws.
Transcode(w) ==
  /\ wpc[w] = "transcoding"
  /\ \/ Proceed(w, "uploaded") /\ stored' = stored \union {wGen[w]}
     \/ Proceed(w, "threw") /\ UNCHANGED stored
  /\ UNCHANGED <<jobVars, mediaVars, last, wMaster, wGen, boundVars>>

\* The transaction that publishes the generation and completes the job.
Publish(w) ==
  LET a == wAsset[w]
  IN /\ wpc[w] = "uploaded"
     /\ media' = [media EXCEPT ![a] = "ready"]
     /\ master' = [master EXCEPT ![a] = wGen[w]]
     /\ job' = [job EXCEPT ![a] = "completed"]
     /\ stale' = [stale EXCEPT ![a] = FALSE]
     /\ LeaveJob(w)
     /\ UNCHANGED <<attempts, due, archived, storageVars, boundVars>>

\* (Mutant: a transaction for each table; the first is not rolled back.)
PublishRolledBackHalfway(w) ==
  /\ wpc[w] = "uploaded"
  /\ videoFaults < MaxVideoFaults
  /\ videoFaults' = videoFaults + 1
  /\ stored' = stored \ {wGen[w]}
  /\ media' = [media EXCEPT ![wAsset[w]] = "ready"]
  /\ master' = [master EXCEPT ![wAsset[w]] = wGen[w]]
  /\ Proceed(w, "threw")
  /\ UNCHANGED <<jobVars, archived, last, wMaster, wGen, lapsed, requeues>>

\* It rolls back: the catch block deletes the files of this generation.
PublishRollsBack(w) ==
  /\ wpc[w] = "uploaded"
  /\ videoFaults < MaxVideoFaults
  /\ videoFaults' = videoFaults + 1
  /\ stored' = stored \ {wGen[w]}
  /\ Proceed(w, "threw")
  /\ UNCHANGED <<jobVars, mediaVars, last, wMaster, wGen, lapsed, requeues>>

\* (Mutant: the asset is left as it is.)
MarkFailedJobOnly(w) ==
  LET a == wAsset[w]
      retry == wpc[w] = "threw" /\ wAttempts[w] < MaxAttempts
  IN /\ wpc[w] \in {"threw", "unavailable"}
     /\ job' = [job EXCEPT ![a] = IF retry THEN "pending" ELSE "failed"]
     /\ due' = [due EXCEPT ![a] = IF retry THEN FALSE ELSE @]
     /\ stale' = [stale EXCEPT ![a] = FALSE]
     /\ LeaveJob(w)
     /\ UNCHANGED <<attempts, mediaVars, storageVars, boundVars>>

\* markJobFailed: one transaction over both rows, with the attempts as claimed.
MarkFailed(w) ==
  LET a == wAsset[w]
      retry == wpc[w] = "threw" /\ wAttempts[w] < MaxAttempts
  IN /\ wpc[w] \in {"threw", "unavailable"}
     /\ job' = [job EXCEPT ![a] = IF retry THEN "pending" ELSE "failed"]
     /\ due' = [due EXCEPT ![a] = IF retry THEN FALSE ELSE @]
     /\ stale' = [stale EXCEPT ![a] = FALSE]
     /\ media' = [media EXCEPT ![a] = IF retry THEN "pending" ELSE "failed"]
     /\ LeaveJob(w)
     /\ UNCHANGED <<attempts, master, archived, storageVars, boundVars>>

\* The worker stops, or a statement outside its try block throws.
WorkerCrash(w) ==
  /\ wpc[w] # "idle"
  /\ videoFaults < MaxVideoFaults
  /\ videoFaults' = videoFaults + 1
  /\ LeaveJob(w)
  /\ UNCHANGED <<jobVars, mediaVars, storageVars, lapsed, requeues>>

-----------------------------------------------------------------------------
WorkerStep(w) == Load(w) \/ Begin(w) \/ Transcode(w) \/ Publish(w) \/ MarkFailed(w)

VideoNext ==
  \/ \E a \in Assets :
       Enqueue(a) \/ Archive(a) \/ Requeue(a) \/ RetryComesDue(a)
         \/ LockGoesStale(a) \/ Recover(a)
  \/ \E w \in Workers :
       \/ \E a \in Assets : Claim(w, a)
       \/ WorkerStep(w)
       \/ PublishRollsBack(w)
       \/ WorkerCrash(w)

VideoSpec == VideoInit /\ [][VideoNext]_videoVars

\* Workers poll and go on, processes end, and time goes by.
VideoFairness ==
  /\ \A w \in Workers : WF_videoVars(WorkerStep(w))
  /\ \A a \in Assets :
       /\ SF_videoVars(\E w \in Workers : Claim(w, a))
       /\ WF_videoVars(RetryComesDue(a))
       /\ WF_videoVars(LockGoesStale(a))
       /\ WF_videoVars(Recover(a))

FairVideoSpec == VideoSpec /\ VideoFairness

-----------------------------------------------------------------------------
(* Properties.                                                              *)

\* A READY video points at a generation that is in storage, whoever failed,
\* cleaned up or saved a stale copy of the asset meanwhile.
ReadyIsPlayable == \A a \in Assets : media[a] = "ready" => master[a] \in stored

\* Job and asset agree, so that a failed video can be requeued and a completed
\* one plays, unless a lock went stale under a worker.
StatusesAgree ==
  \A a \in Assets :
    ~lapsed[a] =>
      /\ job[a] = "completed" <=> media[a] = "ready"
      /\ job[a] = "failed" <=> media[a] = "failed"

\* What the tables of jobs and assets say together is a state of one video, and
\* what they call ready plays (publish, markFailed, recoverStaleJobs).
VideoConsistent == VideoTypeOK /\ ReadyIsPlayable /\ StatusesAgree

\* A published video stays published, unless a lock went stale under a worker:
\* then the late worker can put a READY video back to PROCESSING or FAILED.
PublishedStays ==
  [][\A a \in Assets :
       media[a] = "ready" /\ ~lapsed'[a] => media'[a] = "ready"]_videoVars

\* Every uploaded video is published or marked failed, except after a crash in
\* the last attempt (Recover makes the job PENDING without an attempt left, and
\* Requeue wants FAILED) or when a lock went stale under a worker.
UploadIsSettled ==
  \A a \in Assets :
    job[a] # "none" ~>
      \/ media[a] \in {"ready", "failed"}
      \/ job[a] = "pending" /\ attempts[a] = MaxAttempts
      \/ lapsed[a]
=============================================================================
