----------------------------- MODULE MediaProofs ------------------------------
(* Videos and the workers that transcode them: what a worker still knows of    *)
(* its job and of the generation it makes. Files, their uploads and the jobs   *)
(* that erase them: what rows say of storage. For each the inductive invariant,*)
(* that it implies what the component promises, and that every step preserves  *)
(* it.                                                                         *)
EXTENDS VideoJobs, Uploads, TLAPS

-----------------------------------------------------------------------------
(* Videos *)

\* The generation that a worker makes is its own: nobody has published it, and
\* its files are stored once they are uploaded.
GenerationsApart ==
  /\ \A w, v \in Workers : wGen[w] = wGen[v] => w = v \/ wGen[w] = 0
  /\ \A w \in Workers :
       /\ wGen[w] <= last
       /\ wpc[w] = "uploaded" => wGen[w] \in stored
       /\ wGen[w] # 0 => wpc[w] \in {"transcoding", "uploaded", "threw"}
       /\ wpc[w] \in {"transcoding", "uploaded"} => wGen[w] # 0
       /\ wMaster[w] <= last
  /\ \A a \in Assets :
       /\ master[a] <= last
       /\ media[a] = "ready" => \A w \in Workers : wGen[w] # master[a]

\* A worker has a job, and while its lock did not lapse it is the only one, and
\* the job is in processing under a fresh lock.
HoldsJob(a) ==
  /\ \A w, v \in Workers : wAsset[w] = a /\ wAsset[v] = a => w = v
  /\ \A w \in Workers : wAsset[w] = a => job[a] = "processing" /\ ~stale[a]

JobsHeld ==
  /\ \A w \in Workers : wAsset[w] = NoAsset <=> wpc[w] = "idle"
  /\ \A a \in Assets : job[a] = "none" => media[a] = "none" /\ \A w \in Workers : wAsset[w] # a
  /\ \A a \in Assets : ~lapsed[a] =>
       /\ HoldsJob(a)
       /\ job[a] \in {"pending", "processing"} => media[a] \in {"pending", "processing"}

VideoInv == VideoConsistent /\ GenerationsApart /\ JobsHeld

\* It holds before the first upload.
LEMMA VideoInitInv == VideoInit => VideoInv
  BY VideoAssumption DEF VideoInit, VideoInv, VideoConsistent, VideoTypeOK, ReadyIsPlayable, StatusesAgree,
     GenerationsApart, JobsHeld, HoldsJob, JobStatuses, MediaStatuses, WorkerSteps, Generations

\* The rows of one video are saved.
LEMMA VideoRowsSaved ==
  ASSUME VideoInv, NEW a \in Assets, NEW j \in JobStatuses, NEW m \in MediaStatuses,
         NEW n \in 0..MaxAttempts, NEW t \in BOOLEAN,
         job' = [job EXCEPT ![a] = j], attempts' = [attempts EXCEPT ![a] = n],
         stale' = [stale EXCEPT ![a] = t], media' = [media EXCEPT ![a] = m],
         due' \in [Assets -> BOOLEAN], archived' \in [Assets -> BOOLEAN], requeues' \in 0..MaxRequeues,
         UNCHANGED <<master, storageVars, workerVars, lapsed, videoFaults>>,
         j # "none", m = "ready" => media[a] = "ready",
         ~lapsed[a] => /\ \A w \in Workers : wAsset[w] = a => j = "processing" /\ ~t
                       /\ j \in {"pending", "processing"} => m \in {"pending", "processing"}
                       /\ (j = "completed" <=> m = "ready") /\ (j = "failed" <=> m = "failed")
  PROVE  VideoInv'
<1> USE DEF storageVars, workerVars
<1>t. VideoTypeOK /\ UNCHANGED <<master, stored, last, wpc, wAsset, wAttempts, wMaster, wGen, lapsed, videoFaults>>
  BY DEF VideoInv, VideoConsistent
<1>1. /\ job'[a] = j /\ media'[a] = m /\ stale'[a] = t
      /\ \A b \in Assets \ {a} : job'[b] = job[b] /\ media'[b] = media[b] /\ stale'[b] = stale[b]
      /\ job' \in [Assets -> JobStatuses] /\ media' \in [Assets -> MediaStatuses]
      /\ stale' \in [Assets -> BOOLEAN] /\ attempts' \in [Assets -> 0..MaxAttempts]
  BY <1>t DEF VideoTypeOK
<1>2. VideoTypeOK'
  BY <1>t, <1>1 DEF VideoTypeOK
<1>3. ReadyIsPlayable'
  BY <1>t, <1>1 DEF VideoInv, VideoConsistent, ReadyIsPlayable
<1>4. StatusesAgree'
  BY <1>t, <1>1 DEF VideoInv, VideoConsistent, StatusesAgree
<1>5. GenerationsApart'
  BY <1>t, <1>1 DEF VideoInv, GenerationsApart
<1>6. JobsHeld'
  BY <1>t, <1>1 DEF VideoInv, JobsHeld, HoldsJob
<1> QED
  BY <1>2, <1>3, <1>4, <1>5, <1>6 DEF VideoInv, VideoConsistent

\* Uploads, playback checks and the recovery of stale jobs save the rows of one
\* video.
LEMMA VideoDeskInv ==
  ASSUME VideoInv, NEW a \in Assets,
         Enqueue(a) \/ Archive(a) \/ Requeue(a) \/ RetryComesDue(a) \/ Recover(a)
  PROVE  VideoInv'
<1> DEFINE Saved(j, m, n, t) ==
      /\ job' = [job EXCEPT ![a] = j] /\ attempts' = [attempts EXCEPT ![a] = n]
      /\ stale' = [stale EXCEPT ![a] = t] /\ media' = [media EXCEPT ![a] = m]
      /\ due' \in [Assets -> BOOLEAN] /\ archived' \in [Assets -> BOOLEAN] /\ requeues' \in 0..MaxRequeues
      /\ UNCHANGED <<master, storageVars, workerVars, lapsed, videoFaults>>
      /\ j \in JobStatuses /\ m \in MediaStatuses /\ n \in 0..MaxAttempts /\ t \in BOOLEAN
      /\ j # "none" /\ (m = "ready" => media[a] = "ready")
      /\ ~lapsed[a] => /\ \A w \in Workers : wAsset[w] = a => j = "processing" /\ ~t
                       /\ j \in {"pending", "processing"} => m \in {"pending", "processing"}
                       /\ (j = "completed" <=> m = "ready") /\ (j = "failed" <=> m = "failed")
<1>t. VideoTypeOK
  BY DEF VideoInv, VideoConsistent
<1>1. job[a] \in JobStatuses /\ media[a] \in MediaStatuses /\ attempts[a] \in 0..MaxAttempts
      /\ stale[a] \in BOOLEAN
      /\ job = [job EXCEPT ![a] = job[a]] /\ attempts = [attempts EXCEPT ![a] = attempts[a]]
      /\ stale = [stale EXCEPT ![a] = stale[a]] /\ media = [media EXCEPT ![a] = media[a]]
  BY <1>t DEF VideoTypeOK
<1>2. job[a] = "none" => \A w \in Workers : wAsset[w] # a
  BY DEF VideoInv, JobsHeld
<1>3. ~lapsed[a] =>
        /\ \A w \in Workers : wAsset[w] = a => job[a] = "processing" /\ ~stale[a]
        /\ job[a] \in {"pending", "processing"} => media[a] \in {"pending", "processing"}
        /\ (job[a] = "completed" <=> media[a] = "ready") /\ (job[a] = "failed" <=> media[a] = "failed")
  BY DEF VideoInv, VideoConsistent, JobsHeld, HoldsJob, StatusesAgree
<1>4. CASE Enqueue(a)
  <2>1. Saved("pending", "pending", attempts[a], stale[a])
    BY <1>t, <1>1, <1>2, <1>4 DEF Enqueue, VideoTypeOK, mediaVars, boundVars, JobStatuses, MediaStatuses
  <2> QED
    BY <2>1, VideoRowsSaved
<1>5. CASE Archive(a)
  <2>1. Saved(job[a], media[a], attempts[a], stale[a])
    BY <1>t, <1>1, <1>3, <1>5 DEF Archive, VideoTypeOK, jobVars, boundVars
  <2> QED
    BY <2>1, VideoRowsSaved
<1>6. CASE Requeue(a)
  <2>1. Saved("pending", "pending", 0, stale[a])
    BY <1>t, <1>1, <1>3, <1>6, VideoAssumption DEF Requeue, VideoTypeOK, JobStatuses, MediaStatuses
  <2> QED
    BY <2>1, VideoRowsSaved
<1>7. CASE RetryComesDue(a)
  <2>1. Saved(job[a], media[a], attempts[a], stale[a])
    BY <1>t, <1>1, <1>3, <1>7 DEF RetryComesDue, VideoTypeOK, mediaVars, boundVars
  <2> QED
    BY <2>1, VideoRowsSaved
<1>8. CASE Recover(a)
  <2>1. Saved("pending", media[a], attempts[a], FALSE)
    BY <1>t, <1>1, <1>3, <1>8 DEF Recover, VideoTypeOK, mediaVars, boundVars, JobStatuses
  <2> QED
    BY <2>1, VideoRowsSaved
<1> QED
  BY <1>4, <1>5, <1>6, <1>7, <1>8

\* The lock timeout goes by: a worker that is still on the job has lapsed.
LEMMA LockGoesStaleInv ==
  ASSUME VideoInv, NEW a \in Assets, LockGoesStale(a)
  PROVE  VideoInv'
<1> USE DEF mediaVars, storageVars, workerVars
<1>t. VideoTypeOK
      /\ UNCHANGED <<job, attempts, due, media, master, archived, stored, last, requeues>>
      /\ UNCHANGED <<wpc, wAsset, wAttempts, wMaster, wGen>>
  BY DEF VideoInv, VideoConsistent, LockGoesStale
<1>1. /\ job[a] = "processing" /\ stale' \in [Assets -> BOOLEAN]
      /\ \A b \in Assets \ {a} : stale'[b] = stale[b] /\ lapsed'[b] = lapsed[b]
      /\ lapsed' \in [Assets -> BOOLEAN] /\ videoFaults' \in 0..MaxVideoFaults
      /\ lapsed'[a] \/ (lapsed'[a] = lapsed[a] /\ \A w \in Workers : wAsset[w] # a)
  <2>1. CASE \E w \in Workers : wAsset[w] = a
    <3>1. /\ job[a] = "processing" /\ stale' = [stale EXCEPT ![a] = TRUE]
          /\ videoFaults < MaxVideoFaults /\ videoFaults' = videoFaults + 1
          /\ lapsed' = [lapsed EXCEPT ![a] = TRUE]
      BY <2>1 DEF LockGoesStale
    <3>2. videoFaults' \in 0..MaxVideoFaults
      BY <1>t, <3>1, VideoAssumption DEF VideoTypeOK
    <3> QED
      BY <1>t, <3>1, <3>2 DEF VideoTypeOK
  <2>2. CASE \A w \in Workers : wAsset[w] # a
    BY <1>t, <2>2 DEF LockGoesStale, VideoTypeOK
  <2> QED
    BY <2>1, <2>2
<1>2. VideoTypeOK'
  BY <1>t, <1>1 DEF VideoTypeOK
<1>3. ReadyIsPlayable'
  BY <1>t DEF VideoInv, VideoConsistent, ReadyIsPlayable
<1>4. StatusesAgree'
  BY <1>t, <1>1 DEF VideoInv, VideoConsistent, StatusesAgree
<1>5. GenerationsApart'
  BY <1>t DEF VideoInv, GenerationsApart
<1>6. JobsHeld'
  BY <1>t, <1>1 DEF VideoInv, JobsHeld, HoldsJob
<1> QED
  BY <1>2, <1>3, <1>4, <1>5, <1>6 DEF VideoInv, VideoConsistent

\* A worker claims a job that is pending: nobody else is on it.
LEMMA ClaimInv ==
  ASSUME VideoInv, NEW w \in Workers, NEW a \in Assets, Claim(w, a)
  PROVE  VideoInv'
<1> USE DEF mediaVars, storageVars, boundVars
<1>t. VideoTypeOK
      /\ UNCHANGED <<due, media, master, archived, stored, last, wMaster, wGen, lapsed, videoFaults, requeues>>
  BY DEF VideoInv, VideoConsistent, Claim
<1>1. /\ wpc[w] = "idle" /\ job[a] = "pending" /\ attempts[a] + 1 \in 0..MaxAttempts
      /\ job' = [job EXCEPT ![a] = "processing"] /\ stale' = [stale EXCEPT ![a] = FALSE]
      /\ attempts' = [attempts EXCEPT ![a] = attempts[a] + 1]
      /\ wpc' = [wpc EXCEPT ![w] = "claimed"] /\ wAsset' = [wAsset EXCEPT ![w] = a]
      /\ wAttempts' = [wAttempts EXCEPT ![w] = attempts[a] + 1]
  BY <1>t, VideoAssumption DEF Claim, ClaimableJob, VideoTypeOK
<1>2. VideoTypeOK'
  BY <1>t, <1>1 DEF VideoTypeOK, JobStatuses, WorkerSteps
<1>3. ReadyIsPlayable'
  BY <1>t DEF VideoInv, VideoConsistent, ReadyIsPlayable
<1>r. /\ job'[a] = "processing" /\ stale'[a] = FALSE
      /\ \A b \in Assets \ {a} : job'[b] = job[b] /\ stale'[b] = stale[b]
      /\ wpc'[w] = "claimed" /\ wAsset'[w] = a
      /\ \A v \in Workers \ {w} : wpc'[v] = wpc[v] /\ wAsset'[v] = wAsset[v]
  BY <1>t, <1>1 DEF VideoTypeOK
<1>4. StatusesAgree'
  BY <1>t, <1>1, <1>r DEF VideoInv, VideoConsistent, StatusesAgree
<1>5. GenerationsApart'
  <2>1. wGen[w] = 0
    BY <1>1 DEF VideoInv, GenerationsApart
  <2> QED
    BY <1>t, <1>r, <2>1 DEF VideoInv, GenerationsApart
<1>6. JobsHeld'
  <2>1. \A v \in Workers : (wAsset[v] = NoAsset <=> wpc[v] = "idle")'
    BY <1>r, VideoAssumption DEF VideoInv, JobsHeld
  <2>2. ~lapsed[a] => \A v \in Workers : wAsset[v] # a
    BY <1>1 DEF VideoInv, JobsHeld, HoldsJob
  <2>3. \A b \in Assets : ~lapsed[b] => HoldsJob(b)'
    BY <1>t, <1>r, <2>2 DEF VideoInv, JobsHeld, HoldsJob
  <2>4. \A b \in Assets : (job[b] = "none" => media[b] = "none" /\ \A v \in Workers : wAsset[v] # b)'
    BY <1>t, <1>r DEF VideoInv, JobsHeld
  <2>5. \A b \in Assets : ~lapsed[b] /\ job'[b] \in {"pending", "processing"} => media[b] \in {"pending", "processing"}
    BY <1>t, <1>1, <1>r DEF VideoInv, JobsHeld
  <2> QED
    BY <1>t, <2>1, <2>3, <2>4, <2>5 DEF JobsHeld
<1> QED
  BY <1>2, <1>3, <1>4, <1>5, <1>6 DEF VideoInv, VideoConsistent

\* A worker leaves its job, whose rows are saved (or not) before.
LEMMA WorkerLeavesInv ==
  ASSUME VideoInv, NEW w \in Workers, NEW a \in Assets, wAsset[w] = a,
         LeaveJob(w),
         NEW j \in JobStatuses, NEW m \in MediaStatuses, NEW g \in {0} \union Generations,
         NEW t \in BOOLEAN,
         job' = [job EXCEPT ![a] = j], media' = [media EXCEPT ![a] = m],
         master' = [master EXCEPT ![a] = g], stale' = [stale EXCEPT ![a] = t],
         due' \in [Assets -> BOOLEAN], videoFaults' \in 0..MaxVideoFaults,
         UNCHANGED <<attempts, archived, storageVars, lapsed, requeues>>,
         j # "none", g <= last,
         m = "ready" => g \in stored /\ \A v \in Workers \ {w} : wGen[v] # g,
         ~lapsed[a] => /\ j \in {"pending", "processing"} => m \in {"pending", "processing"}
                       /\ (j = "completed" <=> m = "ready") /\ (j = "failed" <=> m = "failed")
  PROVE  VideoInv'
<1>t. VideoTypeOK /\ UNCHANGED <<attempts, archived, stored, last, lapsed, requeues>>
  BY DEF VideoInv, VideoConsistent, storageVars
<1>r. /\ job'[a] = j /\ media'[a] = m /\ master'[a] = g /\ stale'[a] = t
      /\ \A b \in Assets \ {a} : job'[b] = job[b] /\ media'[b] = media[b] /\ master'[b] = master[b]
                               /\ stale'[b] = stale[b]
      /\ job' \in [Assets -> JobStatuses] /\ media' \in [Assets -> MediaStatuses]
      /\ master' \in [Assets -> {0} \union Generations] /\ stale' \in [Assets -> BOOLEAN]
  BY <1>t DEF VideoTypeOK
<1>w. /\ wpc'[w] = "idle" /\ wAsset'[w] = NoAsset /\ wMaster'[w] = 0 /\ wGen'[w] = 0
      /\ \A v \in Workers \ {w} : /\ wpc'[v] = wpc[v] /\ wAsset'[v] = wAsset[v]
                                /\ wMaster'[v] = wMaster[v] /\ wGen'[v] = wGen[v]
      /\ wpc' \in [Workers -> WorkerSteps] /\ wAsset' \in [Workers -> Assets \union {NoAsset}]
      /\ wAttempts' \in [Workers -> 0..MaxAttempts]
      /\ wMaster' \in [Workers -> {0} \union Generations] /\ wGen' \in [Workers -> {0} \union Generations]
  BY <1>t, VideoAssumption DEF VideoTypeOK, LeaveJob, WorkerSteps
<1>2. VideoTypeOK'
  BY <1>t, <1>r, <1>w DEF VideoTypeOK
<1>3. ReadyIsPlayable'
  BY <1>t, <1>r DEF VideoInv, VideoConsistent, ReadyIsPlayable
<1>4. StatusesAgree'
  BY <1>t, <1>r DEF VideoInv, VideoConsistent, StatusesAgree
<1>5. GenerationsApart'
  <2>1. \A v, u \in Workers : (wGen[v] = wGen[u] => v = u \/ wGen[v] = 0)'
    BY <1>w DEF VideoInv, GenerationsApart
  <2>2. \A v \in Workers :
          (/\ wGen[v] <= last /\ wMaster[v] <= last
           /\ wpc[v] = "uploaded" => wGen[v] \in stored
           /\ wGen[v] # 0 => wpc[v] \in {"transcoding", "uploaded", "threw"}
           /\ wpc[v] \in {"transcoding", "uploaded"} => wGen[v] # 0)'
    BY <1>t, <1>w DEF VideoInv, GenerationsApart, VideoTypeOK, Generations
  <2>3. \A b \in Assets : master'[b] <= last
    BY <1>r DEF VideoInv, GenerationsApart
  <2>4. ASSUME NEW b \in Assets, media'[b] = "ready", NEW v \in Workers
        PROVE  wGen'[v] # master'[b]
    <3>1. master'[b] # 0
      BY <1>t, <1>r, <2>4 DEF VideoInv, VideoConsistent, ReadyIsPlayable, VideoTypeOK, Generations
    <3>2. v # w => wGen[v] # master'[b]
      BY <1>r, <2>4 DEF VideoInv, GenerationsApart
    <3> QED
      BY <1>w, <3>1, <3>2
  <2> QED
    BY <1>t, <2>1, <2>2, <2>3, <2>4 DEF GenerationsApart
<1>6. JobsHeld'
  <2>1. \A v \in Workers : (wAsset[v] = NoAsset <=> wpc[v] = "idle")'
    BY <1>w DEF VideoInv, JobsHeld
  <2>2. ~lapsed[a] => \A v \in Workers \ {w} : wAsset[v] # a
    BY DEF VideoInv, JobsHeld, HoldsJob
  <2>n. NoAsset # a
    BY VideoAssumption
  <2>3. ASSUME NEW b \in Assets, ~lapsed[b] PROVE HoldsJob(b)'
    <3>1. HoldsJob(b) /\ NoAsset # b
      BY <2>3, VideoAssumption DEF VideoInv, JobsHeld
    <3>2. CASE b = a
      BY <1>w, <2>2, <2>3, <2>n, <3>2 DEF HoldsJob
    <3>3. CASE b # a
      BY <1>r, <1>w, <3>1, <3>3 DEF HoldsJob
    <3> QED
      BY <3>2, <3>3
  <2>4. \A b \in Assets : (job[b] = "none" => media[b] = "none" /\ \A v \in Workers : wAsset[v] # b)'
    BY <1>r, <1>w, VideoAssumption DEF VideoInv, JobsHeld
  <2>5. \A b \in Assets : ~lapsed[b] /\ job'[b] \in {"pending", "processing"} => media'[b] \in {"pending", "processing"}
    BY <1>r DEF VideoInv, JobsHeld
  <2> QED
    BY <1>t, <2>1, <2>3, <2>4, <2>5 DEF JobsHeld
<1> QED
  BY <1>2, <1>3, <1>4, <1>5, <1>6 DEF VideoInv, VideoConsistent

\* The last steps of a worker: it publishes, it marks the failure, or it stops.
LEMMA WorkerEndsInv ==
  ASSUME VideoInv, NEW w \in Workers, Publish(w) \/ MarkFailed(w) \/ WorkerCrash(w)
  PROVE  VideoInv'
<1> DEFINE Left(a, j, m, g, t) ==
      /\ LeaveJob(w)
      /\ job' = [job EXCEPT ![a] = j] /\ media' = [media EXCEPT ![a] = m]
      /\ master' = [master EXCEPT ![a] = g] /\ stale' = [stale EXCEPT ![a] = t]
      /\ due' \in [Assets -> BOOLEAN] /\ videoFaults' \in 0..MaxVideoFaults
      /\ UNCHANGED <<attempts, archived, storageVars, lapsed, requeues>>
      /\ j \in JobStatuses /\ m \in MediaStatuses /\ g \in {0} \union Generations /\ t \in BOOLEAN
      /\ j # "none" /\ g <= last
      /\ m = "ready" => g \in stored /\ \A v \in Workers \ {w} : wGen[v] # g
      /\ ~lapsed[a] => /\ j \in {"pending", "processing"} => m \in {"pending", "processing"}
                       /\ (j = "completed" <=> m = "ready") /\ (j = "failed" <=> m = "failed")
<1>t. VideoTypeOK
  BY DEF VideoInv, VideoConsistent
<1>p. PICK a \in Assets : wAsset[w] = a
  <2>1. wpc[w] # "idle"
    BY DEF Publish, MarkFailed, WorkerCrash
  <2> QED
    BY <1>t, <2>1 DEF VideoInv, JobsHeld, VideoTypeOK
<1>1. /\ job[a] \in JobStatuses /\ media[a] \in MediaStatuses /\ stale[a] \in BOOLEAN
      /\ master[a] \in {0} \union Generations /\ master[a] <= last
      /\ job = [job EXCEPT ![a] = job[a]] /\ master = [master EXCEPT ![a] = master[a]]
      /\ stale = [stale EXCEPT ![a] = stale[a]] /\ media = [media EXCEPT ![a] = media[a]]
      /\ job[a] # "none"
  BY <1>t, <1>p DEF VideoTypeOK, VideoInv, GenerationsApart, JobsHeld
<1>2. CASE Publish(w)
  <2>1. wGen[w] \in {0} \union Generations /\ wGen[w] <= last /\ wGen[w] \in stored
        /\ \A v \in Workers \ {w} : wGen[v] # wGen[w]
    BY <1>t, <1>2 DEF Publish, VideoInv, GenerationsApart, VideoTypeOK
  <2>2. Left(a, "completed", "ready", wGen[w], FALSE)
    BY <1>t, <1>p, <1>2, <2>1 DEF Publish, boundVars, VideoTypeOK, JobStatuses, MediaStatuses
  <2> QED
    BY <1>p, <2>1, <2>2, WorkerLeavesInv
<1>3. CASE MarkFailed(w)
  <2>1. PICK retry \in BOOLEAN : retry = (wpc[w] = "threw" /\ wAttempts[w] < MaxAttempts)
    OBVIOUS
  <2>2. /\ job' = [job EXCEPT ![a] = IF retry THEN "pending" ELSE "failed"]
        /\ due' = [due EXCEPT ![a] = IF retry THEN FALSE ELSE @]
        /\ media' = [media EXCEPT ![a] = IF retry THEN "pending" ELSE "failed"]
        /\ stale' = [stale EXCEPT ![a] = FALSE] /\ LeaveJob(w)
        /\ UNCHANGED <<attempts, master, archived, storageVars, lapsed, videoFaults, requeues>>
    BY <1>3, <1>p, <2>1 DEF MarkFailed, boundVars
  <2>3. due' \in [Assets -> BOOLEAN]
    BY <1>t, <2>2 DEF VideoTypeOK
  <2>4. CASE retry
    <3>1. Left(a, "pending", "pending", master[a], FALSE)
      BY <1>t, <1>1, <2>2, <2>3, <2>4 DEF VideoTypeOK, JobStatuses, MediaStatuses
    <3> QED
      BY <1>p, <1>1, <3>1, WorkerLeavesInv
  <2>5. CASE ~retry
    <3>1. Left(a, "failed", "failed", master[a], FALSE)
      BY <1>t, <1>1, <2>2, <2>3, <2>5 DEF VideoTypeOK, JobStatuses, MediaStatuses
    <3> QED
      BY <1>p, <1>1, <3>1, WorkerLeavesInv
  <2> QED
    BY <2>4, <2>5
<1>4. CASE WorkerCrash(w)
  <2>1. media[a] = "ready" => master[a] \in stored /\ \A v \in Workers \ {w} : wGen[v] # master[a]
    BY DEF VideoInv, VideoConsistent, ReadyIsPlayable, GenerationsApart
  <2>2. ~lapsed[a] => /\ job[a] \in {"pending", "processing"} => media[a] \in {"pending", "processing"}
                     /\ (job[a] = "completed" <=> media[a] = "ready") /\ (job[a] = "failed" <=> media[a] = "failed")
    BY DEF VideoInv, VideoConsistent, JobsHeld, StatusesAgree
  <2>3. Left(a, job[a], media[a], master[a], stale[a])
    BY <1>t, <1>1, <1>4, <2>1, <2>2, VideoAssumption DEF WorkerCrash, jobVars, mediaVars, VideoTypeOK
  <2> QED
    BY <1>p, <1>1, <2>3, WorkerLeavesInv
<1> QED
  BY <1>2, <1>3, <1>4

\* A worker goes on with its job: it has loaded the asset, it has begun a
\* generation, it has transcoded, or its files are deleted again.
LEMMA WorkerGoesOnInv ==
  ASSUME VideoInv, NEW w \in Workers, NEW a \in Assets, wAsset[w] = a, wpc[w] # "idle",
         NEW step \in WorkerSteps, NEW g \in {0} \union Generations, NEW k \in {0} \union Generations,
         NEW m \in MediaStatuses, NEW n \in {0} \union Generations,
         Proceed(w, step), step # "idle",
         wMaster' = [wMaster EXCEPT ![w] = k], wGen' = [wGen EXCEPT ![w] = g],
         media' = [media EXCEPT ![a] = m], master' = [master EXCEPT ![a] = n],
         last' \in {0} \union Generations, last <= last',
         g <= last', k <= last', n <= last', g = wGen[w] \/ (g # 0 /\ last < g),
         g # 0 => step \in {"transcoding", "uploaded", "threw"},
         step \in {"transcoding", "uploaded"} => g # 0,
         step = "uploaded" => g \in stored',
         stored' \subseteq Generations, \A h \in stored : h = g \/ h \in stored',
         videoFaults' \in 0..MaxVideoFaults,
         UNCHANGED <<jobVars, archived, lapsed, requeues>>,
         (m = media[a] /\ n = master[a]) \/ m = "processing"
  PROVE  VideoInv'
<1>t. VideoTypeOK /\ UNCHANGED <<job, attempts, due, stale, archived, lapsed, requeues, wAsset, wAttempts>>
  BY DEF VideoInv, VideoConsistent, jobVars, Proceed
<1>r. /\ media'[a] = m /\ master'[a] = n
      /\ \A b \in Assets \ {a} : media'[b] = media[b] /\ master'[b] = master[b]
      /\ media' \in [Assets -> MediaStatuses] /\ master' \in [Assets -> {0} \union Generations]
  BY <1>t DEF VideoTypeOK
<1>w. /\ wpc'[w] = step /\ wMaster'[w] = k /\ wGen'[w] = g
      /\ \A v \in Workers \ {w} : wpc'[v] = wpc[v] /\ wMaster'[v] = wMaster[v] /\ wGen'[v] = wGen[v]
      /\ wpc' \in [Workers -> WorkerSteps]
      /\ wMaster' \in [Workers -> {0} \union Generations] /\ wGen' \in [Workers -> {0} \union Generations]
  BY <1>t DEF VideoTypeOK, Proceed
<1>n. /\ last \in Nat /\ last' \in Nat
      /\ \A v \in Workers : wGen[v] \in Nat /\ wMaster[v] \in Nat /\ wGen[v] <= last /\ wMaster[v] <= last
      /\ \A b \in Assets : master[b] \in Nat /\ master[b] <= last
  BY <1>t DEF VideoTypeOK, Generations, VideoInv, GenerationsApart
<1>d. \A v \in Workers \ {w} : wGen[v] = g => g = 0
  <2>1. \A v \in Workers \ {w} : wGen[v] = wGen[w] => wGen[v] = 0
    BY DEF VideoInv, GenerationsApart
  <2>2. g \in Nat
    BY DEF Generations
  <2> QED
    BY <1>n, <2>1, <2>2
<1>2. VideoTypeOK'
  BY <1>t, <1>r, <1>w DEF VideoTypeOK
<1>m. \A b \in Assets : media'[b] = "ready" =>
        /\ media[b] = "ready" /\ master'[b] = master[b] /\ master[b] \in stored /\ master[b] # 0
        /\ \A v \in Workers : wGen[v] # master[b]
  <2>1. \A b \in Assets : media'[b] = "ready" => media[b] = "ready" /\ master'[b] = master[b]
    BY <1>r
  <2> QED
    BY <1>t, <2>1 DEF VideoInv, VideoConsistent, ReadyIsPlayable, GenerationsApart, VideoTypeOK, Generations
<1>g. \A b \in Assets : media'[b] = "ready" => master[b] # g
  <2>1. g \in Nat
    BY DEF Generations
  <2> QED
    BY <1>m, <1>n, <2>1
<1>3. ReadyIsPlayable'
  BY <1>m, <1>g DEF ReadyIsPlayable
<1>4. StatusesAgree'
  <2>1. ~lapsed[a] => job[a] = "processing" /\ media[a] \in {"pending", "processing"}
    BY DEF VideoInv, JobsHeld, HoldsJob
  <2> QED
    BY <1>t, <1>r, <2>1 DEF VideoInv, VideoConsistent, StatusesAgree
<1>5. GenerationsApart'
  <2>1. \A v, u \in Workers : (wGen[v] = wGen[u] => v = u \/ wGen[v] = 0)'
    BY <1>w, <1>d DEF VideoInv, GenerationsApart
  <2>2. \A v \in Workers : wGen'[v] <= last' /\ wMaster'[v] <= last'
    BY <1>w, <1>n
  <2>3. \A v \in Workers :
          (/\ wGen[v] # 0 => wpc[v] \in {"transcoding", "uploaded", "threw"}
           /\ wpc[v] \in {"transcoding", "uploaded"} => wGen[v] # 0)'
    BY <1>w DEF VideoInv, GenerationsApart
  <2>4. ASSUME NEW v \in Workers, wpc'[v] = "uploaded" PROVE wGen'[v] \in stored'
    <3>1. CASE v = w
      BY <1>w, <2>4, <3>1
    <3>2. CASE v # w
      <4>1. wGen[v] \in stored /\ wGen[v] # 0
        BY <1>w, <2>4, <3>2 DEF VideoInv, GenerationsApart
      <4> QED
        BY <1>w, <1>d, <3>2, <4>1
    <3> QED
      BY <3>1, <3>2
  <2>5. \A b \in Assets : master'[b] <= last'
    BY <1>r, <1>n
  <2>6. \A b \in Assets : media'[b] = "ready" => \A v \in Workers : wGen'[v] # master'[b]
    BY <1>w, <1>m, <1>g
  <2> QED
    BY <2>1, <2>2, <2>3, <2>4, <2>5, <2>6 DEF GenerationsApart
<1>6. JobsHeld'
  <2>1. \A v \in Workers : (wAsset[v] = NoAsset <=> wpc[v] = "idle")'
    BY <1>t, <1>w DEF VideoInv, JobsHeld
  <2>2. \A b \in Assets : ~lapsed[b] => HoldsJob(b)'
    BY <1>t DEF VideoInv, JobsHeld, HoldsJob
  <2>3. \A b \in Assets : (job[b] = "none" => media[b] = "none" /\ \A v \in Workers : wAsset[v] # b)'
    BY <1>t, <1>r DEF VideoInv, JobsHeld
  <2>4. \A b \in Assets : ~lapsed[b] /\ job[b] \in {"pending", "processing"} => media'[b] \in {"pending", "processing"}
    BY <1>r DEF VideoInv, JobsHeld
  <2> QED
    BY <1>t, <2>1, <2>2, <2>3, <2>4 DEF JobsHeld
<1> QED
  BY <1>2, <1>3, <1>4, <1>5, <1>6 DEF VideoInv, VideoConsistent

\* The steps before the last one: load, begin, transcode, and a publication
\* that is rolled back.
LEMMA WorkerStepsInv ==
  ASSUME VideoInv, NEW w \in Workers, Load(w) \/ Begin(w) \/ Transcode(w) \/ PublishRollsBack(w)
  PROVE  VideoInv'
<1> DEFINE GoesOn(a, step, g, k, m, n) ==
      /\ step \in WorkerSteps /\ g \in {0} \union Generations /\ k \in {0} \union Generations
      /\ m \in MediaStatuses /\ n \in {0} \union Generations
      /\ Proceed(w, step) /\ step # "idle"
      /\ wMaster' = [wMaster EXCEPT ![w] = k] /\ wGen' = [wGen EXCEPT ![w] = g]
      /\ media' = [media EXCEPT ![a] = m] /\ master' = [master EXCEPT ![a] = n]
      /\ last' \in {0} \union Generations /\ last <= last'
      /\ g <= last' /\ k <= last' /\ n <= last' /\ (g = wGen[w] \/ (g # 0 /\ last < g))
      /\ g # 0 => step \in {"transcoding", "uploaded", "threw"}
      /\ step \in {"transcoding", "uploaded"} => g # 0
      /\ step = "uploaded" => g \in stored'
      /\ stored' \subseteq Generations /\ \A h \in stored : h = g \/ h \in stored'
      /\ videoFaults' \in 0..MaxVideoFaults
      /\ UNCHANGED <<jobVars, archived, lapsed, requeues>>
      /\ (m = media[a] /\ n = master[a]) \/ m = "processing"
<1>t. VideoTypeOK
  BY DEF VideoInv, VideoConsistent
<1>p. PICK a \in Assets : wAsset[w] = a /\ wpc[w] # "idle"
  <2>1. wpc[w] # "idle"
    BY DEF Load, Begin, Transcode, PublishRollsBack
  <2> QED
    BY <1>t, <2>1 DEF VideoInv, JobsHeld, VideoTypeOK
<1>1. /\ media[a] \in MediaStatuses /\ master[a] \in {0} \union Generations
      /\ wGen[w] \in {0} \union Generations /\ wMaster[w] \in {0} \union Generations
      /\ master = [master EXCEPT ![a] = master[a]] /\ media = [media EXCEPT ![a] = media[a]]
      /\ wMaster = [wMaster EXCEPT ![w] = wMaster[w]] /\ wGen = [wGen EXCEPT ![w] = wGen[w]]
      /\ last \in {0} \union Generations /\ last <= last
      /\ stored \subseteq Generations /\ videoFaults \in 0..MaxVideoFaults
  BY <1>t, <1>p DEF VideoTypeOK, Generations
<1>2. /\ wGen[w] <= last /\ wMaster[w] <= last /\ master[a] <= last
      /\ wGen[w] # 0 => wpc[w] \in {"transcoding", "uploaded", "threw"}
      /\ wpc[w] \in {"transcoding", "uploaded"} => wGen[w] # 0
  BY DEF VideoInv, GenerationsApart
<1>3. CASE Load(w)
  <2>1. CASE archived[a]
    <3>1. GoesOn(a, "unavailable", wGen[w], wMaster[w], media[a], master[a])
      BY <1>p, <1>1, <1>2, <1>3, <2>1 DEF Load, WorkerSteps, mediaVars, storageVars, boundVars
    <3> QED
      BY <1>p, <1>1, <3>1, WorkerGoesOnInv
  <2>2. CASE ~archived[a]
    <3>1. GoesOn(a, "loaded", wGen[w], master[a], media[a], master[a])
      BY <1>p, <1>1, <1>2, <1>3, <2>2 DEF Load, WorkerSteps, mediaVars, storageVars, boundVars
    <3> QED
      BY <1>p, <1>1, <3>1, WorkerGoesOnInv
  <2> QED
    BY <2>1, <2>2
<1>4. CASE Begin(w)
  <2>1. PICK g \in Generations : g = last + 1
    BY <1>1 DEF Generations
  <2>2. last < g /\ last <= g /\ wMaster[w] <= g /\ g <= g /\ g # 0
    BY <1>1, <1>2, <2>1 DEF Generations
  <2>3. /\ media' = [media EXCEPT ![a] = "processing"] /\ master' = [master EXCEPT ![a] = wMaster[w]]
        /\ last' = g /\ wGen' = [wGen EXCEPT ![w] = g] /\ Proceed(w, "transcoding")
        /\ UNCHANGED <<jobVars, archived, stored, wMaster, lapsed, videoFaults, requeues>>
    BY <1>p, <1>4, <2>1 DEF Begin, boundVars
  <2>4. GoesOn(a, "transcoding", g, wMaster[w], "processing", wMaster[w])
    BY <1>1, <2>2, <2>3 DEF WorkerSteps, MediaStatuses
  <2> QED
    BY <1>p, <1>1, <2>4, WorkerGoesOnInv
<1>5. CASE Transcode(w)
  <2>1. PICK step \in {"uploaded", "threw"} :
          /\ Proceed(w, step)
          /\ IF step = "uploaded" THEN stored' = stored \union {wGen[w]} ELSE stored' = stored
    BY <1>5 DEF Transcode
  <2>2. wGen[w] # 0 /\ stored' \subseteq Generations /\ (step = "uploaded" => wGen[w] \in stored')
        /\ \A h \in stored : h \in stored'
    BY <1>1, <1>2, <1>5, <2>1 DEF Transcode
  <2>3. GoesOn(a, step, wGen[w], wMaster[w], media[a], master[a])
    BY <1>p, <1>1, <1>2, <1>5, <2>1, <2>2 DEF Transcode, WorkerSteps, mediaVars, boundVars
  <2> QED
    BY <1>p, <1>1, <2>3, WorkerGoesOnInv
<1>6. CASE PublishRollsBack(w)
  <2>1. stored' \subseteq Generations /\ \A h \in stored : h = wGen[w] \/ h \in stored'
    BY <1>1, <1>6 DEF PublishRollsBack
  <2>2. videoFaults' \in 0..MaxVideoFaults
    BY <1>1, <1>6, VideoAssumption DEF PublishRollsBack
  <2>3. GoesOn(a, "threw", wGen[w], wMaster[w], media[a], master[a])
    BY <1>p, <1>1, <1>2, <1>6, <2>1, <2>2 DEF PublishRollsBack, WorkerSteps, mediaVars
  <2> QED
    BY <1>p, <1>1, <2>3, WorkerGoesOnInv
<1> QED
  BY <1>3, <1>4, <1>5, <1>6

\* Every step of uploads, playback checks, workers and time preserves it.
THEOREM VideoStepInv == VideoInv /\ [VideoNext]_videoVars => VideoInv'
<1> SUFFICES ASSUME VideoInv, [VideoNext]_videoVars PROVE VideoInv'
  OBVIOUS
<1>1. ASSUME NEW a \in Assets, Enqueue(a) \/ Archive(a) \/ Requeue(a) \/ RetryComesDue(a) \/ Recover(a)
      PROVE  VideoInv'
  BY <1>1, VideoDeskInv
<1>2. ASSUME NEW a \in Assets, LockGoesStale(a) PROVE VideoInv'
  BY <1>2, LockGoesStaleInv
<1>3. ASSUME NEW w \in Workers, NEW a \in Assets, Claim(w, a) PROVE VideoInv'
  BY <1>3, ClaimInv
<1>4. ASSUME NEW w \in Workers, WorkerStep(w) \/ PublishRollsBack(w) \/ WorkerCrash(w) PROVE VideoInv'
  BY <1>4, WorkerStepsInv, WorkerEndsInv DEF WorkerStep
<1>5. CASE UNCHANGED videoVars
  BY <1>5 DEF VideoInv, VideoConsistent, VideoTypeOK, ReadyIsPlayable, StatusesAgree, GenerationsApart,
     JobsHeld, HoldsJob, videoVars, jobVars, mediaVars, storageVars, workerVars, boundVars
<1> QED
  BY <1>1, <1>2, <1>3, <1>4, <1>5 DEF VideoNext

\* What jobs and assets say together is a state of one video, and what is READY
\* plays, whatever workers crash, lose their locks or fail to publish.
THEOREM VideosStayConsistent == VideoSpec => []VideoConsistent
<1>1. VideoInv => VideoConsistent
  BY DEF VideoInv
<1> QED
  BY <1>1, VideoInitInv, VideoStepInv, PTL DEF VideoSpec

\* A worker that is on a job whose lock did not lapse finds it in processing.
LEMMA ReadyIsLeftAlone ==
  ASSUME VideoInv, [VideoNext]_videoVars, NEW a \in Assets, media[a] = "ready", ~lapsed'[a]
  PROVE  media'[a] = "ready"
<1>t. VideoTypeOK
  BY DEF VideoInv, VideoConsistent
<1>1. lapsed[a] => lapsed'[a]
  BY <1>t, ZenonT(60) DEF VideoTypeOK, VideoNext, Enqueue, Archive, Requeue, RetryComesDue, LockGoesStale, Recover, Claim, WorkerStep,
     Load, Begin, Transcode, Publish, PublishRollsBack, MarkFailed, WorkerCrash, videoVars, boundVars
<1>2. ~lapsed[a] /\ job[a] = "completed" /\ \A w \in Workers : wAsset[w] # a
  BY <1>1 DEF VideoInv, VideoConsistent, JobsHeld, HoldsJob, StatusesAgree
<1>3. ASSUME NEW b \in Assets,
             Enqueue(b) \/ Archive(b) \/ Requeue(b) \/ RetryComesDue(b) \/ LockGoesStale(b) \/ Recover(b)
      PROVE  media'[a] = media[a]
  BY <1>t, <1>2, <1>3 DEF VideoTypeOK, Enqueue, Archive, Requeue, RetryComesDue, LockGoesStale, Recover, mediaVars
<1>4. ASSUME NEW w \in Workers, NEW b \in Assets, Claim(w, b)
      PROVE  media'[a] = media[a]
  BY <1>4 DEF Claim, mediaVars
<1>5. ASSUME NEW w \in Workers, WorkerStep(w) \/ PublishRollsBack(w) \/ WorkerCrash(w)
      PROVE  media'[a] = media[a]
  BY <1>t, <1>2, <1>5 DEF VideoTypeOK, WorkerStep, Load, Begin, Transcode, Publish, PublishRollsBack, MarkFailed,
     WorkerCrash, mediaVars
<1>6. CASE UNCHANGED videoVars
  BY <1>6 DEF videoVars, mediaVars
<1> QED
  BY <1>3, <1>4, <1>5, <1>6 DEF VideoNext

\* A published video stays published while no lock lapses under a worker.
THEOREM PublishedVideosStay == VideoSpec => PublishedStays
<1>1. VideoInv /\ [VideoNext]_videoVars =>
        [\A a \in Assets : media[a] = "ready" /\ ~lapsed'[a] => media'[a] = "ready"]_videoVars
  BY ReadyIsLeftAlone
<1> QED
  BY <1>1, VideoInitInv, VideoStepInv, PTL DEF VideoSpec, PublishedStays

-----------------------------------------------------------------------------
(* Files *)

\* What a row of multipart_upload_sessions says.
SessionStatuses == {"NONE", "INITIATED", "COMPLETED", "ABORTED", "EXPIRED"}
\* Where a request has a copy of a file, and where it uses its key otherwise.
CopySteps == {"finalizing", "reading", "linearizing", "pdfdone", "pdffailed", "archiving"}
Steps == CopySteps \union {"idle", "putting", "persisting", "initiated", "completing", "aborting", "closing"}
RequestRows ==
  [pc : Steps, key : Keys \union {NoKey}, confirms : BOOLEAN, file : FileRows, session : SessionStatuses]
FilesTyped ==
  /\ FilesTypeOK /\ fileRequest \in [FileRequests -> RequestRows]
  /\ deleting \in [job : ({"OBJECT", "MULTIPART"} \X Keys) \union {NoJob}, done : BOOLEAN]
  /\ s3Faults \in 0..MaxS3Faults

\* The user's rows know the key.
Accounted(k) == k \in pendingUploads \/ HasFile(k) \/ partSessions[k] # "NONE"
\* The object will be removed, or somebody else refers to it, or its file was
\* saved over a later change.
Condemned(k) == <<"OBJECT", k>> \in deletionJobs \/ k \in retained \/ k \in overwritten
Initiated(k) == \E r \in FileRequests : fileRequest[r].pc = "initiated" /\ KeyOf(r) = k

RequestSound(q) ==
  /\ q.pc = "idle" <=> q.key = NoKey
  /\ q.pc \in {"initiated", "completing", "aborting", "closing"} => q.key \in large
  /\ q.pc = "persisting" /\ ~q.confirms => q.key \in large
  /\ q.pc = "closing" => q.session \in {"EXPIRED", "ABORTED"}
  /\ q.pc \in CopySteps => HasFile(q.key) /\ q.file.status # "NONE"
  /\ q.pc \in CopySteps /\ ~q.file.owned => ~owner /\ q.file.status # "ARCHIVED"
  /\ q.pc = "persisting" /\ owner => q.key \in bucket
  /\ q.pc = "initiated" /\ owner => ~Accounted(q.key) /\ q.key \notin bucket
  /\ q.pc \notin {"idle", "initiated"} => IF owner THEN Accounted(q.key) ELSE Condemned(q.key)
RequestsSound == \A r \in FileRequests : RequestSound(fileRequest[r])

InitiatedOnce ==
  owner => \A r, s \in FileRequests :
    fileRequest[r].pc = "initiated" /\ fileRequest[s].pc = "initiated" /\ KeyOf(s) = KeyOf(r) => s = r

KeySound(k) ==
  /\ k \in pendingUploads \union urls => k \notin large
  /\ partSessions[k] # "NONE" => k \in large
  /\ k \in retained => HasFile(k)
  /\ owner /\ HasFile(k) => file[k].owned /\ k \in bucket
  /\ k \in bucket \union urls => IF owner THEN Accounted(k) ELSE Condemned(k)
  /\ k \in openParts =>
       \/ IF owner THEN partSessions[k] # "NONE" ELSE <<"MULTIPART", k>> \in deletionJobs
       \/ k \in strayed \/ Initiated(k)
  /\ ~owner /\ file[k].status \notin {"NONE", "ARCHIVED"} => k \in retained \union overwritten
KeysSound == \A k \in Keys : KeySound(k)

JobSound(k) ==
  /\ <<"OBJECT", k>> \in deletionJobs /\ k \notin large =>
       k \notin retained /\ (file[k].status = "UPLOADED" => k \in overwritten)
  /\ deleting.job = <<"OBJECT", k>> /\ k \notin retained \union overwritten =>
       k \notin urls /\ ~Concerns(k) /\ (deleting.done => k \notin bucket)
  /\ deleting.job = <<"MULTIPART", k>> /\ deleting.done => k \notin openParts
JobsSound == (deletionJobs # {} \/ deleting # Idling => ~owner) /\ \A k \in Keys : JobSound(k)

UploadsInv ==
  FilesTyped /\ ReadableIsStored /\ UploadsAccounted /\ RequestsSound /\ InitiatedOnce /\ KeysSound /\ JobsSound

\* The parts of the properties that are about one key.
StoredAt(k) ==
  k \in retained \/ file[k].status = "UPLOADED" =>
    k \in bucket \/ (~owner /\ k \in large) \/ k \in overwritten \ retained
AccountedAt(k) ==
  /\ ~ (k \in pendingUploads /\ HasFile(k))
  /\ partSessions[k] = "COMPLETED" => HasFile(k)
  /\ owner /\ k \in large /\ HasFile(k) => partSessions[k] = "COMPLETED" \/ k \in strayed
  /\ ~owner /\ file[k].owned => k \in overwritten

\* What a step leaves alone of a key.
Same(x) ==
  /\ (x \in bucket' <=> x \in bucket) /\ (x \in openParts' <=> x \in openParts)
  /\ (x \in urls' <=> x \in urls) /\ (x \in pendingUploads' <=> x \in pendingUploads)
  /\ (x \in retained' <=> x \in retained) /\ (x \in overwritten' <=> x \in overwritten)
  /\ (x \in strayed' <=> x \in strayed)
  /\ partSessions'[x] = partSessions[x] /\ file'[x] = file[x]

\* Before the first upload there is nothing to account for.
LEMMA FilesInitInv == FilesInit => UploadsInv
<1> SUFFICES ASSUME FilesInit PROVE UploadsInv
  OBVIOUS
<1> USE DEF FilesInit
<1>1. FilesTyped
  BY UploadsAssumption DEF FilesTyped, FilesTypeOK, FileRows, FileStatuses, NoFile, Waiting, Idling, RequestRows, Steps,
     SessionStatuses, IsIdle, KeyOf
<1>2. ReadableIsStored /\ UploadsAccounted
  BY DEF ReadableIsStored, UploadsAccounted, NoFile, HasFile
<1>3. RequestsSound /\ InitiatedOnce
  BY DEF RequestsSound, RequestSound, InitiatedOnce, Waiting, CopySteps, KeyOf
<1>4. KeysSound
  BY DEF KeysSound, KeySound, NoFile, HasFile
<1>5. JobsSound
  BY UploadsAssumption DEF JobsSound, JobSound, Idling
<1> QED
  BY <1>1, <1>2, <1>3, <1>4, <1>5 DEF UploadsInv

\* What the run checks follows from it.
LEMMA UploadsAreConsistent == UploadsInv => UploadsConsistent
<1> SUFFICES ASSUME UploadsInv PROVE UploadsConsistent
  OBVIOUS
<1>1. NothingIsLeft
  <2> SUFFICES ASSUME ~owner
               PROVE  /\ \A k \in bucket \ (retained \union overwritten) : <<"OBJECT", k>> \in deletionJobs
                      /\ \A k \in openParts : <<"MULTIPART", k>> \in deletionJobs \/ k \in strayed \/ Concerns(k)
    BY DEF NothingIsLeft
  <2>1. bucket \subseteq Keys /\ openParts \subseteq Keys
    BY DEF UploadsInv, FilesTyped, FilesTypeOK
  <2>2. \A k \in Keys : KeySound(k)
    BY DEF UploadsInv, KeysSound
  <2> QED
    BY <2>1, <2>2 DEF KeySound, Condemned, Initiated, Concerns
<1> QED
  BY <1>1 DEF UploadsInv, FilesTyped, UploadsConsistent

\* A step about one key.
LEMMA KeyMoves ==
  ASSUME UploadsInv, NEW k \in Keys, FilesTyped', UNCHANGED <<owner, large, deletionJobs, deleting>>,
         \A x \in Keys \ {k} : Same(x),
         \A s \in FileRequests : \/ fileRequest'[s] = fileRequest[s]
                                 \/ fileRequest[s].key \in {k, NoKey} /\ fileRequest'[s].key \in {k, NoKey},
         \A s \in FileRequests : fileRequest'[s].key = k => RequestSound(fileRequest[s])',
         InitiatedOnce', KeySound(k)', JobSound(k)', StoredAt(k)', AccountedAt(k)'
  PROVE  UploadsInv'
<1>t. UNCHANGED <<owner, large, deletionJobs, deleting>> /\ NoKey \notin Keys
  BY UploadsAssumption
<1>1. RequestsSound'
  <2> SUFFICES ASSUME NEW s \in FileRequests PROVE RequestSound(fileRequest[s])'
    BY DEF RequestsSound
  <2>1. CASE fileRequest'[s].key = NoKey
    BY <2>1 DEF RequestSound, FilesTyped, FilesTypeOK, IsIdle, KeyOf, CopySteps
  <2>2. CASE fileRequest'[s].key \in Keys \ {k}
    <3>1. fileRequest'[s] = fileRequest[s]
      BY <1>t, <2>2
    <3>2. PICK q : q = fileRequest[s]
      OBVIOUS
    <3>3. RequestSound(q) /\ Same(q.key)
      BY <2>2, <3>1, <3>2 DEF UploadsInv, RequestsSound
    <3>4. (HasFile(q.key)' <=> HasFile(q.key)) /\ (Accounted(q.key)' <=> Accounted(q.key))
          /\ (Condemned(q.key)' <=> Condemned(q.key))
      BY <1>t, <3>3 DEF Same, HasFile, Accounted, Condemned
    <3>5. RequestSound(q)'
      BY <1>t, <3>3, <3>4 DEF RequestSound, Same
    <3> QED
      BY <3>1, <3>2, <3>5
  <2>3. fileRequest'[s].key \in Keys \union {NoKey}
    BY DEF FilesTyped, RequestRows
  <2> QED
    BY <2>1, <2>2, <2>3
<1>2. ASSUME NEW x \in Keys \ {k} PROVE (Concerns(x)' <=> Concerns(x)) /\ (Initiated(x)' <=> Initiated(x))
  BY <1>t DEF Concerns, Initiated, KeyOf
<1>3. ASSUME NEW x \in Keys \ {k} PROVE KeySound(x)' /\ JobSound(x)' /\ StoredAt(x)' /\ AccountedAt(x)'
  <2>1. Same(x) /\ KeySound(x) /\ JobSound(x)
    BY DEF UploadsInv, KeysSound, JobsSound
  <2>2. StoredAt(x) /\ AccountedAt(x)
    BY DEF UploadsInv, ReadableIsStored, UploadsAccounted, StoredAt, AccountedAt
  <2>3. (HasFile(x)' <=> HasFile(x)) /\ (Accounted(x)' <=> Accounted(x)) /\ (Condemned(x)' <=> Condemned(x))
    BY <1>t, <2>1 DEF Same, HasFile, Accounted, Condemned
  <2>4. KeySound(x)'
    BY <1>t, <1>2, <2>1, <2>3 DEF Same, KeySound
  <2>5. JobSound(x)'
    BY <1>t, <1>2, <2>1, <2>3 DEF Same, JobSound
  <2>6. StoredAt(x)' /\ AccountedAt(x)'
    BY <1>t, <2>1, <2>2, <2>3 DEF Same, StoredAt, AccountedAt
  <2> QED
    BY <2>4, <2>5, <2>6
<1>4. KeysSound' /\ ReadableIsStored' /\ UploadsAccounted'
  BY <1>3 DEF KeysSound, ReadableIsStored, UploadsAccounted, StoredAt, AccountedAt
<1>5. JobsSound'
  BY <1>t, <1>3 DEF UploadsInv, JobsSound
<1> QED
  BY <1>1, <1>4, <1>5 DEF UploadsInv

\* A request moves on about one key, which it knew or has just taken.
LEMMA RequestMoves ==
  ASSUME UploadsInv, NEW r \in FileRequests, NEW q \in RequestRows, NEW k \in Keys,
         fileRequest' = [fileRequest EXCEPT ![r] = q], q.key \in {k, NoKey}, KeyOf(r) \in {k, NoKey},
         q.pc = "idle" <=> q.key = NoKey,
         UNCHANGED <<owner, large, deletionJobs, deleting, s3Faults>>,
         \A x \in Keys \ {k} : Same(x),
         bucket' \subseteq Keys, openParts' \subseteq Keys, urls' = urls, pendingUploads' \subseteq Keys,
         retained' = retained, overwritten' \subseteq Keys, strayed' \subseteq Keys,
         partSessions' \in [Keys -> SessionStatuses], file' \in [Keys -> FileRows],
         HasFile(k) => HasFile(k)', Accounted(k) => Accounted(k)', Condemned(k) => Condemned(k)',
         k \in bucket => k \in bucket',
         owner => \/ \A s \in FileRequests \ {r} : ~(fileRequest[s].pc = "initiated" /\ KeyOf(s) = k)
                  \/ q.pc # "initiated" /\ (Accounted(k)' => Accounted(k)) /\ bucket' = bucket,
         RequestSound(q)',
         KeySound(k)', JobSound(k)', StoredAt(k)', AccountedAt(k)'
  PROVE  UploadsInv'
<1>t. FilesTyped /\ NoKey \notin Keys
  BY UploadsAssumption DEF UploadsInv
<1>1. /\ fileRequest'[r] = q /\ \A s \in FileRequests \ {r} : fileRequest'[s] = fileRequest[s]
      /\ fileRequest' \in [FileRequests -> RequestRows]
  BY <1>t DEF FilesTyped
<1>2. FilesTyped'
  <2>1. \A s \in FileRequests : IsIdle(s)' <=> (KeyOf(s) = NoKey)'
    BY <1>t, <1>1 DEF FilesTyped, FilesTypeOK, IsIdle, KeyOf
  <2>2. FilesTypeOK'
    BY <1>t, <2>1 DEF FilesTyped, FilesTypeOK, SessionStatuses
  <2> QED
    BY <1>t, <1>1, <2>2 DEF FilesTyped
<1>3. ASSUME NEW s \in FileRequests, fileRequest'[s].key = k PROVE RequestSound(fileRequest[s])'
  <2>1. CASE s = r
    BY <1>1, <2>1
  <2>2. CASE s # r
    <3>1. PICK p \in RequestRows : p = fileRequest[s]
      BY <1>t DEF FilesTyped
    <3>2. RequestSound(p) /\ fileRequest'[s] = p /\ p.key = k
      BY <1>1, <1>3, <2>2, <3>1 DEF UploadsInv, RequestsSound
    <3>3. p.pc = "initiated" /\ owner => (Accounted(k)' => Accounted(k)) /\ (k \in bucket' => k \in bucket)
      BY <2>2, <3>1, <3>2 DEF KeyOf
    <3>4. RequestSound(p)'
      BY <3>2, <3>3 DEF RequestSound
    <3> QED
      BY <3>2, <3>4
  <2> QED
    BY <2>1, <2>2
<1>4. InitiatedOnce'
  <2> SUFFICES ASSUME owner, NEW s \in FileRequests, NEW p \in FileRequests,
                      fileRequest'[s].pc = "initiated", fileRequest'[p].pc = "initiated",
                      fileRequest'[s].key = fileRequest'[p].key
               PROVE  p = s
    BY DEF InitiatedOnce, KeyOf
  <2>1. CASE s # r /\ p # r
    BY <1>1, <2>1 DEF UploadsInv, InitiatedOnce, KeyOf
  <2>2. CASE s = r \/ p = r
    <3>1. q.pc = "initiated" /\ q.key = k
      BY <1>1, <2>2
    <3> QED
      BY <1>1, <2>2, <3>1 DEF KeyOf
  <2> QED
    BY <2>1, <2>2
<1>5. \A s \in FileRequests : \/ fileRequest'[s] = fileRequest[s]
                              \/ fileRequest[s].key \in {k, NoKey} /\ fileRequest'[s].key \in {k, NoKey}
  BY <1>1 DEF KeyOf
<1> QED
  BY <1>2, <1>3, <1>4, <1>5, KeyMoves

\* A request that changes no row or object.
LEMMA OnlyRequestMoves ==
  ASSUME UploadsInv, NEW r \in FileRequests, NEW q \in RequestRows, NEW k \in Keys,
         fileRequest' = [fileRequest EXCEPT ![r] = q], q.key \in {k, NoKey}, KeyOf(r) \in {k, NoKey},
         q.pc = "idle" <=> q.key = NoKey,
         UNCHANGED <<owner, large, bucket, openParts, urls, pendingUploads, partSessions, file,
                     retained, deletionJobs, deleting, overwritten, strayed, s3Faults>>,
         q.pc # "initiated", fileRequest[r].pc # "initiated",
         RequestSound(q),
         q.key = k /\ KeyOf(r) # k /\ deleting.job = <<"OBJECT", k>> => k \in retained \union overwritten
  PROVE  UploadsInv'
<1>t. FilesTyped /\ NoKey \notin Keys
  BY UploadsAssumption DEF UploadsInv
<1>1. fileRequest'[r] = q /\ \A s \in FileRequests \ {r} : fileRequest'[s] = fileRequest[s]
  BY <1>t DEF FilesTyped
<1>2. /\ \A x \in Keys : Same(x) /\ (HasFile(x)' <=> HasFile(x))
      /\ (Accounted(k)' <=> Accounted(k)) /\ (Condemned(k)' <=> Condemned(k))
  BY DEF Same, HasFile, Accounted, Condemned
<1>3. RequestSound(q)'
  BY <1>t, <1>2 DEF RequestSound, RequestRows, HasFile, Accounted, Condemned
<1>4. Initiated(k) => Initiated(k)'
  BY <1>1 DEF Initiated, KeyOf
<1>5. KeySound(k)'
  BY <1>2, <1>4 DEF UploadsInv, KeysSound, KeySound, HasFile
<1>6. JobSound(k)'
  <2>1. JobSound(k)
    BY DEF UploadsInv, JobsSound
  <2>2. Concerns(k)' => Concerns(k) \/ (q.key = k /\ KeyOf(r) # k)
    BY <1>1 DEF Concerns, KeyOf
  <2> QED
    BY <2>1, <2>2 DEF JobSound
<1>7. StoredAt(k)' /\ AccountedAt(k)'
  BY DEF UploadsInv, ReadableIsStored, UploadsAccounted, StoredAt, AccountedAt, HasFile
<1>8. /\ bucket' \subseteq Keys /\ openParts' \subseteq Keys /\ pendingUploads' \subseteq Keys
      /\ overwritten' \subseteq Keys /\ strayed' \subseteq Keys
      /\ partSessions' \in [Keys -> SessionStatuses] /\ file' \in [Keys -> FileRows]
  BY <1>t DEF FilesTyped, FilesTypeOK, SessionStatuses
<1> QED
  BY <1>2, <1>3, <1>5, <1>6, <1>7, <1>8, RequestMoves

\* A request that has nothing left to do rests on nothing.
LEMMA WaitingTyped ==
  /\ Waiting \in RequestRows /\ Waiting.pc = "idle" /\ Waiting.key = NoKey
  /\ RequestSound(Waiting) /\ RequestSound(Waiting)'
  BY DEF Waiting, NoFile, RequestRows, Steps, SessionStatuses, FileRows, FileStatuses, RequestSound, CopySteps

\* What a request of an owner with an account finds.
LEMMA NoJobsYet ==
  ASSUME UploadsInv, owner
  PROVE  deletionJobs = {} /\ deleting.job = NoJob /\ \A k \in Keys : deleting.job # <<"OBJECT", k>>
<1>1. deletionJobs = {} /\ deleting = Idling /\ Idling.job = NoJob
  BY DEF UploadsInv, JobsSound, Idling
<1> QED
  BY <1>1, UploadsAssumption

\* Requests that load a row.
LEMMA LoadsInv ==
  ASSUME UploadsInv, NEW r \in FileRequests, NEW k \in Keys,
         ConfirmUpload(r, k) \/ LoadToComplete(r, k) \/ LoadToAbort(r, k) \/ ReadFile(r, k) \/ LoadToArchive(r, k)
  PROVE  UploadsInv'
<1>t. FilesTyped /\ NoKey \notin Keys /\ KeySound(k) /\ AccountedAt(k)
  BY UploadsAssumption DEF UploadsInv, KeysSound, UploadsAccounted, AccountedAt
<1>u. /\ UNCHANGED <<owner, large, bucket, openParts, urls, pendingUploads, partSessions, file,
                     retained, deletionJobs, deleting, overwritten, strayed, s3Faults>>
      /\ fileRequest[r].pc = "idle"
  BY DEF ConfirmUpload, LoadToComplete, LoadToAbort, ReadFile, LoadToArchive, Starts, IsIdle
<1>i. KeyOf(r) = NoKey
  BY <1>t, <1>u DEF FilesTyped, FilesTypeOK, IsIdle, KeyOf
<1>q. PICK q \in RequestRows :
        /\ fileRequest' = [fileRequest EXCEPT ![r] = q] /\ q.key = k
        /\ q.pc \in {"persisting", "completing", "aborting", "finalizing", "archiving"}
        /\ q.pc = "persisting" => owner /\ k \in bucket /\ q.confirms
        /\ q.pc \in {"completing", "aborting"} => owner /\ partSessions[k] # "NONE"
        /\ q.pc \in {"finalizing", "archiving"} => q.file = file[k] /\ file[k].status \notin {"NONE", "ARCHIVED"}
        /\ q.pc = "archiving" => owner /\ file[k].owned
  <2>0. /\ file[k] \in FileRows /\ partSessions[k] \in SessionStatuses /\ k \in Keys \union {NoKey}
        /\ "persisting" \in Steps /\ "completing" \in Steps /\ "aborting" \in Steps
        /\ "finalizing" \in Steps /\ "archiving" \in Steps
    BY <1>t DEF FilesTyped, FilesTypeOK, SessionStatuses, Steps, CopySteps
  <2>1. CASE ConfirmUpload(r, k)
    <3> DEFINE q == [Waiting EXCEPT !.pc = "persisting", !.key = k, !.confirms = TRUE]
    <3>1. q \in RequestRows /\ q.pc = "persisting" /\ q.key = k /\ q.confirms
      BY <2>0, WaitingTyped DEF RequestRows
    <3>2. fileRequest' = [fileRequest EXCEPT ![r] = q] /\ owner /\ k \in bucket
      BY <2>1 DEF ConfirmUpload
    <3> HIDE DEF q
    <3> QED
      BY <3>1, <3>2
  <2>2. CASE LoadToComplete(r, k)
    <3> DEFINE q == [Waiting EXCEPT !.pc = "completing", !.key = k]
    <3>1. q \in RequestRows /\ q.pc = "completing" /\ q.key = k
      BY <2>0, WaitingTyped DEF RequestRows
    <3>2. fileRequest' = [fileRequest EXCEPT ![r] = q] /\ owner /\ partSessions[k] # "NONE"
      BY <2>2 DEF LoadToComplete, Starts
    <3> HIDE DEF q
    <3> QED
      BY <3>1, <3>2
  <2>3. CASE LoadToAbort(r, k)
    <3> DEFINE q == [Waiting EXCEPT !.pc = "aborting", !.key = k, !.session = partSessions[k]]
    <3>1. q \in RequestRows /\ q.pc = "aborting" /\ q.key = k
      BY <2>0, WaitingTyped DEF RequestRows
    <3>2. fileRequest' = [fileRequest EXCEPT ![r] = q] /\ owner /\ partSessions[k] # "NONE"
      BY <2>3 DEF LoadToAbort
    <3> HIDE DEF q
    <3> QED
      BY <3>1, <3>2
  <2>4. CASE ReadFile(r, k)
    <3> DEFINE q == [Waiting EXCEPT !.pc = "finalizing", !.key = k, !.file = file[k]]
    <3>1. q \in RequestRows /\ q.pc = "finalizing" /\ q.key = k /\ q.file = file[k]
      BY <2>0, WaitingTyped DEF RequestRows
    <3>2. fileRequest' = [fileRequest EXCEPT ![r] = q] /\ file[k].status \notin {"NONE", "ARCHIVED"}
      BY <2>4 DEF ReadFile
    <3> HIDE DEF q
    <3> QED
      BY <3>1, <3>2
  <2>5. CASE LoadToArchive(r, k)
    <3> DEFINE q == [Waiting EXCEPT !.pc = "archiving", !.key = k, !.file = file[k]]
    <3>1. q \in RequestRows /\ q.pc = "archiving" /\ q.key = k /\ q.file = file[k]
      BY <2>0, WaitingTyped DEF RequestRows
    <3>2. fileRequest' = [fileRequest EXCEPT ![r] = q] /\ file[k].status \notin {"NONE", "ARCHIVED"} /\ owner /\ file[k].owned
      BY <2>5 DEF LoadToArchive
    <3> HIDE DEF q
    <3> QED
      BY <3>1, <3>2
  <2> QED
    BY <2>1, <2>2, <2>3, <2>4, <2>5
<1>1. HasFile(k) => Accounted(k)
  BY DEF Accounted
<1>2. q.pc \in {"finalizing", "archiving"} => HasFile(k) /\ (IF owner THEN Accounted(k) ELSE Condemned(k))
  BY <1>t, <1>q, <1>1 DEF HasFile, KeySound, Condemned
<1>3. q.pc \notin {"finalizing", "archiving"} => owner /\ Accounted(k)
  BY <1>t, <1>q DEF KeySound, Accounted
<1>4. RequestSound(q)
  BY <1>t, <1>q, <1>2, <1>3 DEF RequestSound, CopySteps, KeySound
<1>5. deleting.job = <<"OBJECT", k>> => k \in retained \union overwritten
  BY <1>t, <1>q, NoJobsYet DEF KeySound
<1> QED
  BY <1>t, <1>u, <1>i, <1>q, <1>4, <1>5, OnlyRequestMoves

\* A request under way knows its key, and nobody begins an upload under it.
LEMMA UnderWay ==
  ASSUME UploadsInv, NEW r \in FileRequests, fileRequest[r].pc # "idle"
  PROVE  /\ KeyOf(r) \in Keys /\ fileRequest[r] \in RequestRows /\ RequestSound(fileRequest[r])
         /\ KeySound(KeyOf(r)) /\ JobSound(KeyOf(r)) /\ StoredAt(KeyOf(r)) /\ AccountedAt(KeyOf(r))
         /\ owner => \A s \in FileRequests \ {r} : ~(fileRequest[s].pc = "initiated" /\ KeyOf(s) = KeyOf(r))
         /\ deleting.job = <<"OBJECT", KeyOf(r)>> => KeyOf(r) \in retained \union overwritten
<1>1. FilesTyped /\ RequestsSound /\ KeysSound /\ JobsSound
  BY DEF UploadsInv
<1>2. KeyOf(r) \in Keys /\ fileRequest[r] \in RequestRows /\ RequestSound(fileRequest[r])
  BY <1>1 DEF FilesTyped, RequestRows, RequestsSound, RequestSound, KeyOf
<1>3. /\ KeySound(KeyOf(r)) /\ JobSound(KeyOf(r)) /\ StoredAt(KeyOf(r)) /\ AccountedAt(KeyOf(r))
  BY <1>1, <1>2 DEF KeysSound, JobsSound, UploadsInv, ReadableIsStored, UploadsAccounted, StoredAt, AccountedAt
<1>4. Concerns(KeyOf(r))
  BY DEF Concerns
<1>5. ASSUME owner, NEW s \in FileRequests \ {r} PROVE ~(fileRequest[s].pc = "initiated" /\ KeyOf(s) = KeyOf(r))
  <2>1. CASE fileRequest[r].pc = "initiated"
    BY <1>5, <2>1 DEF UploadsInv, InitiatedOnce
  <2>2. CASE fileRequest[r].pc # "initiated"
    <3>1. Accounted(KeyOf(r))
      BY <1>2, <1>5, <2>2 DEF RequestSound, KeyOf
    <3>2. RequestSound(fileRequest[s])
      BY <1>1 DEF RequestsSound
    <3> QED
      BY <1>5, <3>1, <3>2 DEF RequestSound, KeyOf
  <2> QED
    BY <2>1, <2>2
<1> QED
  BY <1>2, <1>3, <1>4, <1>5 DEF JobSound

\* A request goes from one step to another.
LEMMA GoesOn ==
  ASSUME FilesTyped, NEW r \in FileRequests, NEW pc \in Steps, Goes(r, pc)
  PROVE  \E q \in RequestRows :
           /\ fileRequest' = [fileRequest EXCEPT ![r] = q] /\ q.pc = pc /\ q.key = KeyOf(r)
           /\ q.confirms = fileRequest[r].confirms /\ q.file = fileRequest[r].file
           /\ q.session = fileRequest[r].session
<1> DEFINE q == [fileRequest[r] EXCEPT !.pc = pc]
<1>1. fileRequest[r] \in RequestRows
  BY DEF FilesTyped
<1>2. /\ q \in RequestRows /\ q.pc = pc /\ q.key = KeyOf(r) /\ q.confirms = fileRequest[r].confirms
      /\ q.file = fileRequest[r].file /\ q.session = fileRequest[r].session
  BY <1>1 DEF RequestRows, KeyOf
<1>3. fileRequest' = [fileRequest EXCEPT ![r] = q]
  BY DEF Goes
<1> HIDE DEF q
<1> QED
  BY <1>2, <1>3

\* Requests that are refused, find nothing to do, read their object or die.
LEMMA RequestOnlyInv ==
  ASSUME UploadsInv, NEW r \in FileRequests,
         \/ PersistRefused(r) \/ FinalizeNothing(r) \/ ReadPdf(r)
         \/ RequestDies(r) /\ fileRequest[r].pc # "initiated"
  PROVE  UploadsInv'
<1>t. FilesTyped /\ fileRequest[r].pc \notin {"idle", "initiated"}
  BY DEF UploadsInv, PersistRefused, FinalizeNothing, ReadPdf, RequestDies, IsIdle
<1>u. UNCHANGED <<owner, large, bucket, openParts, urls, pendingUploads, partSessions, file,
                  retained, deletionJobs, deleting, overwritten, strayed, s3Faults>>
  BY <1>t DEF PersistRefused, FinalizeNothing, ReadPdf, RequestDies
<1>k. PICK k \in Keys : KeyOf(r) = k /\ RequestSound(fileRequest[r])
  BY <1>t, UnderWay
<1>1. CASE Leaves(r)
  <2>1. PICK q \in RequestRows : /\ q = Waiting /\ q.pc = "idle" /\ q.key = NoKey /\ RequestSound(q)
                                 /\ fileRequest' = [fileRequest EXCEPT ![r] = q]
    BY <1>1, WaitingTyped DEF Leaves
  <2>2. NoKey # k
    BY UploadsAssumption
  <2> QED
    BY <1>t, <1>u, <1>k, <2>1, <2>2, OnlyRequestMoves
<1>2. CASE ReadPdf(r)
  <2>1. PICK pc \in {"linearizing", "pdfdone", "pdffailed"} : Goes(r, pc)
    BY <1>2 DEF ReadPdf
  <2>2. PICK q \in RequestRows :
           /\ fileRequest' = [fileRequest EXCEPT ![r] = q] /\ q.pc = pc /\ q.key = KeyOf(r)
           /\ q.file = fileRequest[r].file
    BY <1>t, <2>1, GoesOn DEF Steps, CopySteps
  <2>3. RequestSound(q)
    BY <1>2, <1>k, <2>2, UploadsAssumption DEF ReadPdf, RequestSound, CopySteps, KeyOf
  <2>4. q.pc # "idle" /\ q.pc # "initiated" /\ q.key = k /\ k # NoKey
    BY <1>k, <2>2, UploadsAssumption
  <2> QED
    BY <1>t, <1>u, <1>k, <2>2, <2>3, <2>4, OnlyRequestMoves
<1> QED
  BY <1>1, <1>2 DEF PersistRefused, FinalizeNothing, RequestDies

\* createFileFromBuffer and initiateMultipartUpload take a new key.
LEMMA BeginsInv ==
  ASSUME UploadsInv, NEW r \in FileRequests, NEW k \in Keys, PrepareBuffer(r, k) \/ InitiateAtS3(r, k)
  PROVE  UploadsInv'
<1>t. FilesTyped /\ NoKey \notin Keys /\ KeySound(k) /\ AccountedAt(k) /\ StoredAt(k) /\ JobSound(k)
  BY UploadsAssumption
  DEF UploadsInv, KeysSound, UploadsAccounted, AccountedAt, ReadableIsStored, StoredAt, JobsSound
<1>u. /\ UNCHANGED <<owner, large, bucket, urls, partSessions, file,
                     retained, deletionJobs, deleting, overwritten, strayed, s3Faults>>
      /\ fileRequest[r].pc = "idle" /\ owner /\ Unused(k)
  BY DEF PrepareBuffer, InitiateAtS3, IsIdle
<1>j. deletionJobs = {} /\ deleting.job # <<"OBJECT", k>>
  BY <1>u, NoJobsYet
<1>i. KeyOf(r) = NoKey /\ \A s \in FileRequests : KeyOf(s) # k
  BY <1>t, <1>u DEF FilesTyped, FilesTypeOK, IsIdle, KeyOf, Unused, Concerns
<1>b. k \notin bucket /\ k \notin urls /\ k \notin openParts /\ ~Accounted(k)
  BY <1>t, <1>u DEF Unused, KeySound, Accounted
<1>1. CASE PrepareBuffer(r, k)
  <2>0. PICK q : q = [Waiting EXCEPT !.pc = "putting", !.key = k]
    OBVIOUS
  <2>1. q \in RequestRows /\ q.pc = "putting" /\ q.key = k
    BY <2>0, WaitingTyped DEF RequestRows, Steps
  <2>2. fileRequest' = [fileRequest EXCEPT ![r] = q] /\ k \notin large
        /\ pendingUploads' = pendingUploads \union {k} /\ UNCHANGED openParts
    BY <1>1, <2>0 DEF PrepareBuffer, Starts
  <2>3. \A x \in Keys \ {k} : Same(x)
    BY <1>u, <2>2 DEF Same
  <2>4. (HasFile(k)' <=> HasFile(k)) /\ Accounted(k)' /\ (Condemned(k)' <=> Condemned(k))
    BY <1>u, <2>2 DEF HasFile, Accounted, Condemned
  <2>5. RequestSound(q)'
    BY <1>t, <1>u, <2>1, <2>4 DEF RequestSound, CopySteps
  <2>6. KeySound(k)' /\ JobSound(k)' /\ StoredAt(k)' /\ AccountedAt(k)'
    <3>1. Unused(k) => ~HasFile(k)
      BY DEF Unused
    <3>2. KeySound(k)' /\ StoredAt(k)' /\ AccountedAt(k)'
      BY <1>t, <1>u, <1>b, <2>2, <2>4, <3>1 DEF KeySound, StoredAt, AccountedAt
    <3>3. JobSound(k)'
      BY <1>t, <1>u, <1>j, <1>b, <2>2 DEF JobSound
    <3> QED
      BY <3>2, <3>3
  <2>7. /\ bucket' \subseteq Keys /\ openParts' \subseteq Keys /\ pendingUploads' \subseteq Keys
        /\ overwritten' \subseteq Keys /\ strayed' \subseteq Keys
        /\ partSessions' \in [Keys -> SessionStatuses] /\ file' \in [Keys -> FileRows]
    BY <1>t, <1>u, <2>2 DEF FilesTyped, FilesTypeOK, SessionStatuses
  <2>8. \A s \in FileRequests \ {r} : ~(fileRequest[s].pc = "initiated" /\ KeyOf(s) = k)
    BY <1>i
  <2>9. Accounted(k) => Accounted(k)'
    BY <2>4
  <2>10. k \in bucket => k \in bucket'
    BY <1>u
  <2> QED
    BY <1>t, <1>u, <1>i, <2>1, <2>2, <2>3, <2>4, <2>5, <2>6, <2>7, <2>8, <2>9, <2>10, RequestMoves
<1>2. CASE InitiateAtS3(r, k)
  <2>0. PICK q : q = [Waiting EXCEPT !.pc = "initiated", !.key = k]
    OBVIOUS
  <2>1. q \in RequestRows /\ q.pc = "initiated" /\ q.key = k
    BY <2>0, WaitingTyped DEF RequestRows, Steps
  <2>2. fileRequest' = [fileRequest EXCEPT ![r] = q] /\ k \in large
        /\ openParts' = openParts \union {k} /\ UNCHANGED pendingUploads
    BY <1>2, <2>0 DEF InitiateAtS3, Starts
  <2>3. \A x \in Keys \ {k} : Same(x)
    BY <1>u, <2>2 DEF Same
  <2>4. (HasFile(k)' <=> HasFile(k)) /\ (Accounted(k)' <=> Accounted(k)) /\ (Condemned(k)' <=> Condemned(k))
    BY <1>u, <2>2 DEF HasFile, Accounted, Condemned
  <2>5. RequestSound(q)'
    BY <1>t, <1>u, <1>b, <2>1, <2>2, <2>4 DEF RequestSound, CopySteps
  <2>6. KeySound(k)' /\ JobSound(k)' /\ StoredAt(k)' /\ AccountedAt(k)'
    <3>1. Initiated(k)'
      BY <1>t, <2>1, <2>2 DEF Initiated, KeyOf, FilesTyped
    <3>2. KeySound(k)' /\ StoredAt(k)' /\ AccountedAt(k)'
      BY <1>t, <1>u, <1>b, <2>2, <2>4, <3>1 DEF KeySound, StoredAt, AccountedAt
    <3>3. JobSound(k)'
      <4>1. deletionJobs = {} /\ deleting.job # <<"OBJECT", k>> /\ deleting.job # <<"MULTIPART", k>>
        BY <1>u, NoJobsYet, UploadsAssumption
      <4> QED
        BY <1>u, <4>1 DEF JobSound
    <3> QED
      BY <3>2, <3>3
  <2>7. /\ bucket' \subseteq Keys /\ openParts' \subseteq Keys /\ pendingUploads' \subseteq Keys
        /\ overwritten' \subseteq Keys /\ strayed' \subseteq Keys
        /\ partSessions' \in [Keys -> SessionStatuses] /\ file' \in [Keys -> FileRows]
    BY <1>t, <1>u, <2>2 DEF FilesTyped, FilesTypeOK, SessionStatuses
  <2>8. \A s \in FileRequests \ {r} : ~(fileRequest[s].pc = "initiated" /\ KeyOf(s) = k)
    BY <1>i
  <2>10. k \in bucket => k \in bucket'
    BY <1>u
  <2> QED
    BY <1>t, <1>u, <1>i, <2>1, <2>2, <2>3, <2>4, <2>5, <2>6, <2>7, <2>8, <2>10, RequestMoves
<1> QED
  BY <1>1, <1>2

\* The object of a buffer, the parts put together or a linearized PDF is stored.
LEMMA ObjectStoredInv ==
  ASSUME UploadsInv, NEW r \in FileRequests, UploadBuffer(r) \/ CompleteAtS3(r) \/ ReplacePdf(r)
  PROVE  UploadsInv'
<1>t. FilesTyped /\ fileRequest[r].pc \notin {"idle", "initiated"} /\ NoKey \notin Keys
  BY UploadsAssumption DEF UploadsInv, UploadBuffer, CompleteAtS3, ReplacePdf
<1>u. UNCHANGED <<owner, large, urls, pendingUploads, partSessions, file,
                  retained, deletionJobs, deleting, overwritten, strayed, s3Faults>>
  BY DEF UploadBuffer, CompleteAtS3, ReplacePdf
<1>k. PICK k \in Keys :
        /\ KeyOf(r) = k /\ RequestSound(fileRequest[r])
        /\ KeySound(k) /\ JobSound(k) /\ StoredAt(k) /\ AccountedAt(k)
        /\ owner => \A s \in FileRequests \ {r} : ~(fileRequest[s].pc = "initiated" /\ KeyOf(s) = k)
        /\ deleting.job = <<"OBJECT", k>> => k \in retained \union overwritten
  BY <1>t, UnderWay
<1>1. bucket' = bucket \union {k} /\ openParts' \in {openParts, openParts \ {k}}
  BY <1>k DEF UploadBuffer, CompleteAtS3, ReplacePdf
<1>2. IF owner THEN Accounted(k) ELSE Condemned(k)
  BY <1>t, <1>k DEF RequestSound, KeyOf
<1>3. \A x \in Keys \ {k} : Same(x)
  BY <1>u, <1>1 DEF Same
<1>4. (HasFile(k)' <=> HasFile(k)) /\ (Accounted(k)' <=> Accounted(k)) /\ (Condemned(k)' <=> Condemned(k))
  BY <1>u DEF HasFile, Accounted, Condemned
<1>q. PICK q \in RequestRows :
        /\ fileRequest' = [fileRequest EXCEPT ![r] = q] /\ q.key = k
        /\ q.pc \in {"persisting", "pdfdone"}
        /\ q.pc = "pdfdone" => fileRequest[r].pc = "linearizing" /\ q.file = fileRequest[r].file
        /\ q.pc = "persisting" => q.confirms \/ k \in large
  <2>1. CASE UploadBuffer(r)
    <3> DEFINE q == [fileRequest[r] EXCEPT !.pc = "persisting", !.confirms = TRUE]
    <3>1. q \in RequestRows /\ q.pc = "persisting" /\ q.key = k /\ q.confirms
      BY <1>t, <1>k DEF FilesTyped, RequestRows, Steps, KeyOf
    <3>2. fileRequest' = [fileRequest EXCEPT ![r] = q]
      BY <2>1 DEF UploadBuffer
    <3> HIDE DEF q
    <3> QED
      BY <3>1, <3>2
  <2>2. CASE CompleteAtS3(r)
    <3>1. Goes(r, "persisting") /\ "persisting" \in Steps /\ k \in large
      BY <1>k, <2>2 DEF CompleteAtS3, Steps, RequestSound, KeyOf
    <3> QED
      BY <1>t, <1>k, <3>1, GoesOn
  <2>3. CASE ReplacePdf(r)
    <3>1. Goes(r, "pdfdone") /\ "pdfdone" \in Steps /\ fileRequest[r].pc = "linearizing"
      BY <2>3 DEF ReplacePdf, Steps, CopySteps
    <3> QED
      BY <1>t, <1>k, <3>1, GoesOn
  <2> QED
    BY <2>1, <2>2, <2>3
<1>5. RequestSound(q)'
  BY <1>t, <1>u, <1>k, <1>1, <1>2, <1>4, <1>q DEF RequestSound, CopySteps, KeyOf
<1>6. Initiated(k) => Initiated(k)'
  BY <1>t, <1>q DEF FilesTyped, Initiated, KeyOf
<1>7. KeySound(k)'
  BY <1>u, <1>k, <1>1, <1>2, <1>4, <1>6 DEF KeySound
<1>8. JobSound(k)'
  BY <1>u, <1>k, <1>1 DEF JobSound
<1>9. StoredAt(k)' /\ AccountedAt(k)'
  BY <1>u, <1>k, <1>1, <1>4 DEF StoredAt, AccountedAt
<1>10. /\ bucket' \subseteq Keys /\ openParts' \subseteq Keys /\ pendingUploads' \subseteq Keys
       /\ overwritten' \subseteq Keys /\ strayed' \subseteq Keys
       /\ partSessions' \in [Keys -> SessionStatuses] /\ file' \in [Keys -> FileRows]
  BY <1>t, <1>u, <1>1 DEF FilesTyped, FilesTypeOK, SessionStatuses
<1>11. (k \in bucket => k \in bucket') /\ (q.pc = "idle" <=> q.key = NoKey)
  BY <1>t, <1>1, <1>q
<1> QED
  BY <1>u, <1>k, <1>q, <1>3, <1>4, <1>5, <1>7, <1>8, <1>9, <1>10, <1>11, RequestMoves

\* Upload sessions are saved, given up or closed.
LEMMA SessionsInv ==
  ASSUME UploadsInv, NEW r \in FileRequests,
         \/ SaveSession(r) \/ SaveSessionFails(r) \/ SessionExpired(r) \/ AbortAtS3(r) \/ CloseSession(r)
         \/ RequestDies(r) /\ fileRequest[r].pc = "initiated"
  PROVE  UploadsInv'
<1>t. FilesTyped /\ fileRequest[r].pc \in {"initiated", "completing", "aborting", "closing"} /\ NoKey \notin Keys
  BY UploadsAssumption
  DEF UploadsInv, SaveSession, SaveSessionFails, SessionExpired, AbortAtS3, CloseSession, RequestDies
<1>u. UNCHANGED <<owner, large, bucket, urls, pendingUploads, file,
                  retained, deletionJobs, deleting, overwritten, s3Faults>>
  BY DEF SaveSession, SaveSessionFails, SessionExpired, AbortAtS3, CloseSession, RequestDies
<1>k. PICK k \in Keys :
        /\ KeyOf(r) = k /\ RequestSound(fileRequest[r])
        /\ KeySound(k) /\ JobSound(k) /\ StoredAt(k) /\ AccountedAt(k)
        /\ owner => \A s \in FileRequests \ {r} : ~(fileRequest[s].pc = "initiated" /\ KeyOf(s) = k)
        /\ deleting.job = <<"OBJECT", k>> => k \in retained \union overwritten
  BY <1>t, UnderWay
<1>l. k \in large
  BY <1>t, <1>k DEF RequestSound, KeyOf
\* What becomes of the row and of the upload.
<1>p. PICK status \in SessionStatuses :
        /\ partSessions' = [partSessions EXCEPT ![k] = status]
        /\ openParts' \in {openParts, openParts \ {k}} /\ strayed' \in {strayed, strayed \union {k}}
        /\ status \in {"INITIATED", "EXPIRED", "ABORTED"} \/ status = partSessions[k]
        /\ status # partSessions[k] =>
             \/ status = "INITIATED" /\ fileRequest[r].pc = "initiated"
             \/ status # "INITIATED" /\ (partSessions[k] \in {"NONE", "COMPLETED"} => k \in strayed')
        /\ fileRequest[r].pc = "initiated" /\ k \in openParts' =>
             k \in strayed' \/ (owner /\ status # "NONE")
  <2>0. partSessions[k] \in SessionStatuses /\ partSessions = [partSessions EXCEPT ![k] = partSessions[k]]
    BY <1>t DEF FilesTyped, FilesTypeOK, SessionStatuses
  <2>1. CASE SaveSession(r)
    <3>1. PICK status \in SessionStatuses : status = "INITIATED"
      BY DEF SessionStatuses
    <3>2. /\ partSessions' = [partSessions EXCEPT ![k] = status] /\ openParts' = openParts
          /\ strayed' = (IF owner THEN strayed ELSE strayed \union {k}) /\ fileRequest[r].pc = "initiated"
      BY <1>k, <2>1, <3>1 DEF SaveSession
    <3> QED
      BY <3>1, <3>2
  <2>2. CASE SaveSessionFails(r)
    <3>1. partSessions' = partSessions /\ openParts' = openParts \ {k} /\ strayed' = strayed
      BY <1>k, <2>2 DEF SaveSessionFails
    <3> QED
      BY <2>0, <3>1
  <2>3. CASE SessionExpired(r) \/ AbortAtS3(r)
    <3>1. /\ partSessions' = partSessions /\ strayed' = strayed /\ openParts' \in {openParts, openParts \ {k}}
          /\ fileRequest[r].pc # "initiated"
      BY <1>k, <2>3 DEF SessionExpired, AbortAtS3
    <3> QED
      BY <2>0, <3>1
  <2>4. CASE CloseSession(r)
    <3>1. PICK status \in SessionStatuses : status = fileRequest[r].session /\ status \in {"EXPIRED", "ABORTED"}
      BY <1>t, <1>k, <2>4 DEF FilesTyped, RequestRows, RequestSound, CloseSession
    <3>2. /\ partSessions' = [partSessions EXCEPT ![k] = status] /\ openParts' = openParts
          /\ strayed' = (IF partSessions[k] \in {"NONE", "COMPLETED"} THEN strayed \union {k} ELSE strayed)
          /\ fileRequest[r].pc # "initiated"
      BY <1>k, <2>4, <3>1 DEF CloseSession
    <3> QED
      BY <3>1, <3>2
  <2>5. CASE RequestDies(r) /\ fileRequest[r].pc = "initiated"
    <3>1. partSessions' = partSessions /\ openParts' = openParts /\ strayed' = strayed \union {k}
      BY <1>k, <2>5 DEF RequestDies
    <3> QED
      BY <2>0, <3>1
  <2> QED
    BY <2>1, <2>2, <2>3, <2>4, <2>5
<1>q. PICK q \in RequestRows :
        /\ fileRequest' = [fileRequest EXCEPT ![r] = q] /\ q.key \in {k, NoKey}
        /\ \/ q.pc = "idle" /\ q.key = NoKey
           \/ /\ q.pc = "closing" /\ q.key = k /\ q.session \in {"EXPIRED", "ABORTED"}
              /\ fileRequest[r].pc # "initiated"
  <2>1. CASE Leaves(r)
    <3>1. PICK q : q = Waiting
      OBVIOUS
    <3>2. q \in RequestRows /\ q.pc = "idle" /\ q.key = NoKey /\ fileRequest' = [fileRequest EXCEPT ![r] = q]
      BY <2>1, <3>1, WaitingTyped DEF Leaves
    <3> QED
      BY <3>2
  <2>2. CASE SessionExpired(r) \/ AbortAtS3(r)
    <3>1. PICK end \in {"EXPIRED", "ABORTED"} :
            fileRequest' = [fileRequest EXCEPT ![r].pc = "closing", ![r].session = end]
      BY <2>2 DEF SessionExpired, AbortAtS3
    <3> DEFINE q == [fileRequest[r] EXCEPT !.pc = "closing", !.session = end]
    <3>2. q \in RequestRows /\ q.pc = "closing" /\ q.key = k /\ q.session = end
      BY <1>t, <1>k, ZenonT(60) DEF FilesTyped, RequestRows, Steps, SessionStatuses, KeyOf
    <3>3. fileRequest' = [fileRequest EXCEPT ![r] = q] /\ fileRequest[r].pc # "initiated"
      BY <2>2, <3>1 DEF SessionExpired, AbortAtS3
    <3> HIDE DEF q
    <3> QED
      BY <3>2, <3>3
  <2> QED
    BY <2>1, <2>2 DEF SaveSession, SaveSessionFails, CloseSession, RequestDies
<1>1. /\ partSessions'[k] = status /\ partSessions' \in [Keys -> SessionStatuses]
      /\ \A x \in Keys \ {k} : partSessions'[x] = partSessions[x]
  BY <1>t, <1>p DEF FilesTyped, FilesTypeOK, SessionStatuses
<1>2. \A x \in Keys \ {k} : Same(x)
  BY <1>u, <1>p, <1>1 DEF Same
<1>3. (HasFile(k)' <=> HasFile(k)) /\ (Accounted(k) => Accounted(k)') /\ (Condemned(k)' <=> Condemned(k))
  BY <1>u, <1>p, <1>1 DEF HasFile, Accounted, Condemned
<1>4. q.pc = "closing" => IF owner THEN Accounted(k) ELSE Condemned(k)
  BY <1>t, <1>k, <1>q DEF RequestSound, KeyOf
<1>5. RequestSound(q)'
  BY <1>t, <1>u, <1>l, <1>q, <1>3, <1>4 DEF RequestSound, CopySteps
<1>6. fileRequest[r].pc # "initiated" => (Initiated(k) => Initiated(k)')
  BY <1>t, <1>q DEF FilesTyped, Initiated, KeyOf
<1>7. KeySound(k)'
  BY <1>u, <1>k, <1>l, <1>p, <1>1, <1>3, <1>6 DEF KeySound
<1>8. JobSound(k)'
  BY <1>u, <1>k, <1>p DEF JobSound
<1>9. StoredAt(k)' /\ AccountedAt(k)'
  <2>1. fileRequest[r].pc = "initiated" /\ owner => ~HasFile(k)
    BY <1>k DEF RequestSound, KeyOf, Accounted
  <2> QED
    BY <1>u, <1>k, <1>p, <1>1, <1>3, <2>1 DEF StoredAt, AccountedAt
<1>10. /\ bucket' \subseteq Keys /\ openParts' \subseteq Keys /\ pendingUploads' \subseteq Keys
       /\ overwritten' \subseteq Keys /\ strayed' \subseteq Keys /\ file' \in [Keys -> FileRows]
  BY <1>t, <1>u, <1>p DEF FilesTyped, FilesTypeOK
<1>11. (k \in bucket => k \in bucket') /\ (q.pc = "idle" <=> q.key = NoKey)
  BY <1>t, <1>u, <1>q
<1> QED
  BY <1>u, <1>k, <1>q, <1>1, <1>2, <1>3, <1>5, <1>7, <1>8, <1>9, <1>10, <1>11, RequestMoves

\* persistUploadedFile under the lock of an owner who still has an account.
LEMMA PersistInv ==
  ASSUME UploadsInv, NEW r \in FileRequests, PersistUploadedFile(r)
  PROVE  UploadsInv'
<1>t. FilesTyped /\ fileRequest[r].pc = "persisting" /\ NoKey \notin Keys /\ owner
  BY UploadsAssumption DEF UploadsInv, PersistUploadedFile, MayPersist
<1>u. UNCHANGED <<owner, large, bucket, openParts, urls, retained, deletionJobs, deleting, overwritten, s3Faults>>
  BY DEF PersistUploadedFile
<1>k. PICK k \in Keys :
        /\ KeyOf(r) = k /\ RequestSound(fileRequest[r])
        /\ KeySound(k) /\ JobSound(k) /\ StoredAt(k) /\ AccountedAt(k)
        /\ owner => \A s \in FileRequests \ {r} : ~(fileRequest[s].pc = "initiated" /\ KeyOf(s) = k)
  BY <1>t, UnderWay
<1>b. k \in bucket /\ (fileRequest[r].confirms \/ k \in large)
  BY <1>t, <1>k DEF RequestSound, KeyOf
<1>j. deletionJobs = {} /\ deleting.job # <<"OBJECT", k>> /\ deleting.job # <<"MULTIPART", k>>
  BY <1>t, NoJobsYet, UploadsAssumption
\* The rows of the file and of its session.
<1>p. PICK row \in FileRows, status \in SessionStatuses :
        /\ file' = [file EXCEPT ![k] = row] /\ partSessions' = [partSessions EXCEPT ![k] = status]
        /\ pendingUploads' = pendingUploads \ {k} /\ strayed' \in {strayed, strayed \union {k}}
        /\ row.status # "NONE" /\ row.owned
        /\ status # "NONE" => k \in large
        /\ partSessions[k] # "NONE" => status # "NONE"
        /\ k \in large => status = "COMPLETED" \/ k \in strayed'
  <2>0. /\ partSessions[k] \in SessionStatuses /\ partSessions = [partSessions EXCEPT ![k] = partSessions[k]]
        /\ file[k] \in FileRows /\ file = [file EXCEPT ![k] = file[k]]
        /\ pendingUploads' = pendingUploads \ {k}
    BY <1>t, <1>k DEF FilesTyped, FilesTypeOK, SessionStatuses, PersistUploadedFile
  <2>1. CASE HasFile(k)
    <3>1. UNCHANGED <<file, partSessions, strayed>>
      BY <1>k, <2>1 DEF PersistUploadedFile
    <3>2. file[k].status # "NONE" /\ file[k].owned
      BY <1>t, <1>k, <2>1 DEF KeySound, HasFile
    <3>3. /\ partSessions[k] # "NONE" => k \in large
          /\ k \in large => partSessions[k] = "COMPLETED" \/ k \in strayed
      BY <1>t, <1>k, <2>1 DEF KeySound, AccountedAt
    <3> QED
      BY <2>0, <3>1, <3>2, <3>3
  <2>2. CASE ~HasFile(k) /\ fileRequest[r].confirms
    <3>1. PICK pdf \in {"DONE", "PENDING"} :
            /\ file' = [file EXCEPT ![k] = [[status |-> "UPLOADED", owned |-> TRUE, pdf |-> "DONE"] EXCEPT !.pdf = pdf]]
            /\ strayed' = strayed \union ({k} \intersect large) /\ UNCHANGED partSessions
      BY <1>k, <2>2 DEF PersistUploadedFile
    <3> DEFINE row == [[status |-> "UPLOADED", owned |-> TRUE, pdf |-> "DONE"] EXCEPT !.pdf = pdf]
    <3>2. row \in FileRows /\ row.status = "UPLOADED" /\ row.owned
      BY DEF FileRows, FileStatuses
    <3>3. file' = [file EXCEPT ![k] = row]
      BY <3>1
    <3> HIDE DEF row
    <3>4. strayed' \in {strayed, strayed \union {k}} /\ (k \in large => k \in strayed')
      BY <3>1
    <3>5. partSessions[k] # "NONE" => k \in large
      BY <1>k DEF KeySound
    <3> QED
      BY <2>0, <3>1, <3>2, <3>3, <3>4, <3>5
  <2>3. CASE ~HasFile(k) /\ ~fileRequest[r].confirms
    <3>1. PICK row : row = [status |-> "UPLOADED", owned |-> TRUE, pdf |-> "DONE"]
      OBVIOUS
    <3>2. row \in FileRows /\ row.status = "UPLOADED" /\ row.owned
      BY <3>1 DEF FileRows, FileStatuses
    <3>3. PICK status \in SessionStatuses : status = "COMPLETED"
      BY DEF SessionStatuses
    <3>4. /\ file' = [file EXCEPT ![k] = row] /\ partSessions' = [partSessions EXCEPT ![k] = status]
          /\ strayed' = strayed
      BY <1>k, <2>3, <3>1, <3>3 DEF PersistUploadedFile
    <3>5. k \in large
      BY <1>b, <2>3
    <3> QED
      BY <2>0, <3>2, <3>3, <3>4, <3>5
  <2> QED
    BY <2>1, <2>2, <2>3
<1>1. /\ partSessions'[k] = status /\ partSessions' \in [Keys -> SessionStatuses]
      /\ \A x \in Keys \ {k} : partSessions'[x] = partSessions[x] /\ file'[x] = file[x]
      /\ file'[k] = row /\ file' \in [Keys -> FileRows]
  BY <1>t, <1>p DEF FilesTyped, FilesTypeOK, SessionStatuses
<1>q. PICK q \in RequestRows :
        /\ fileRequest' = [fileRequest EXCEPT ![r] = q] /\ q.key \in {k, NoKey}
        /\ \/ q.pc = "idle" /\ q.key = NoKey
           \/ q.pc = "finalizing" /\ q.key = k /\ q.file = row
  <2>1. CASE Leaves(r)
    <3>1. PICK q : q = Waiting
      OBVIOUS
    <3>2. q \in RequestRows /\ q.pc = "idle" /\ q.key = NoKey /\ fileRequest' = [fileRequest EXCEPT ![r] = q]
      BY <2>1, <3>1, WaitingTyped DEF Leaves
    <3> QED
      BY <3>2
  <2>2. CASE fileRequest' = [fileRequest EXCEPT ![r].pc = "finalizing", ![r].file = file'[k]]
    <3> DEFINE q == [fileRequest[r] EXCEPT !.pc = "finalizing", !.file = row]
    <3>1. q \in RequestRows /\ q.pc = "finalizing" /\ q.key = k /\ q.file = row
      BY <1>t, <1>k DEF FilesTyped, RequestRows, Steps, CopySteps, KeyOf
    <3>2. fileRequest' = [fileRequest EXCEPT ![r] = q]
      BY <1>1, <2>2
    <3> HIDE DEF q
    <3> QED
      BY <3>1, <3>2
  <2> QED
    BY <1>k, <2>1, <2>2 DEF PersistUploadedFile
<1>2. \A x \in Keys \ {k} : Same(x)
  BY <1>u, <1>p, <1>1 DEF Same
<1>3. HasFile(k)' /\ Accounted(k)' /\ (Condemned(k)' <=> Condemned(k))
  BY <1>u, <1>p, <1>1 DEF HasFile, Accounted, Condemned
<1>5. RequestSound(q)'
  BY <1>t, <1>u, <1>p, <1>q, <1>3 DEF RequestSound, CopySteps
<1>6. Initiated(k) => Initiated(k)'
  BY <1>t, <1>q DEF FilesTyped, Initiated, KeyOf
<1>7. KeySound(k)'
  BY <1>t, <1>u, <1>k, <1>b, <1>p, <1>1, <1>3, <1>6 DEF KeySound
<1>8. JobSound(k)'
  BY <1>u, <1>j DEF JobSound
<1>9. StoredAt(k)' /\ AccountedAt(k)'
  BY <1>t, <1>u, <1>k, <1>b, <1>p, <1>1, <1>3 DEF StoredAt, AccountedAt
<1>10. /\ bucket' \subseteq Keys /\ openParts' \subseteq Keys /\ pendingUploads' \subseteq Keys
       /\ overwritten' \subseteq Keys /\ strayed' \subseteq Keys
  BY <1>t, <1>u, <1>p DEF FilesTyped, FilesTypeOK
<1>11. (k \in bucket => k \in bucket') /\ (q.pc = "idle" <=> q.key = NoKey)
  BY <1>t, <1>u, <1>q
<1> QED
  BY <1>u, <1>k, <1>q, <1>1, <1>2, <1>3, <1>5, <1>7, <1>8, <1>9, <1>10, <1>11, RequestMoves

\* A file saved from a request's copy: overwritten, unless nothing had changed.
LEMMA FileSavedInv ==
  ASSUME UploadsInv, NEW r \in FileRequests, BeginProcessing(r) \/ SavePdf(r) \/ ArchiveFile(r)
  PROVE  UploadsInv'
<1>t. FilesTyped /\ fileRequest[r].pc \in {"finalizing", "pdfdone", "pdffailed", "archiving"} /\ NoKey \notin Keys
  BY UploadsAssumption DEF UploadsInv, BeginProcessing, SavePdf, ArchiveFile
<1>u. UNCHANGED <<owner, large, bucket, openParts, urls, pendingUploads, partSessions,
                  retained, deletionJobs, deleting, strayed, s3Faults>>
  BY DEF BeginProcessing, SavePdf, ArchiveFile
<1>k. PICK k \in Keys :
        /\ KeyOf(r) = k /\ RequestSound(fileRequest[r])
        /\ KeySound(k) /\ JobSound(k) /\ StoredAt(k) /\ AccountedAt(k)
        /\ owner => \A s \in FileRequests \ {r} : ~(fileRequest[s].pc = "initiated" /\ KeyOf(s) = k)
        /\ deleting.job = <<"OBJECT", k>> => k \in retained \union overwritten
  BY <1>t, UnderWay
<1>c. PICK copy \in FileRows :
        /\ copy = fileRequest[r].file /\ HasFile(k) /\ copy.status # "NONE"
        /\ ~copy.owned => ~owner /\ copy.status # "ARCHIVED"
        /\ IF owner THEN Accounted(k) ELSE Condemned(k)
  BY <1>t, <1>k DEF FilesTyped, RequestRows, RequestSound, CopySteps, KeyOf
\* The row that is saved, and the request afterwards.
<1>p. PICK row \in FileRows, q \in RequestRows :
        /\ FileSaved(r, row) /\ row.owned = copy.owned /\ row.status # "NONE"
        /\ row.status \in {copy.status, "FAILED", "ARCHIVED"}
        /\ fileRequest' = [fileRequest EXCEPT ![r] = q]
        /\ \/ q.pc = "idle" /\ q.key = NoKey
           \/ q.pc = "reading" /\ q.key = k /\ q.file = row /\ row.status = copy.status
  <2>0. PICK waiting \in RequestRows : waiting = Waiting /\ waiting.pc = "idle" /\ waiting.key = NoKey
    BY WaitingTyped
  <2>1. CASE BeginProcessing(r)
    <3> DEFINE row == [copy EXCEPT !.pdf = "PROCESSING"]
               q == [fileRequest[r] EXCEPT !.pc = "reading", !.file = row]
    <3>1. row \in FileRows /\ row.owned = copy.owned /\ row.status = copy.status
      BY DEF FileRows
    <3>2. q \in RequestRows /\ q.pc = "reading" /\ q.key = k /\ q.file = row
      BY <1>t, <1>k, <3>1 DEF FilesTyped, RequestRows, Steps, CopySteps, KeyOf
    <3>3. FileSaved(r, row) /\ fileRequest' = [fileRequest EXCEPT ![r] = q]
      BY <1>c, <2>1 DEF BeginProcessing
    <3> HIDE DEF row, q
    <3> QED
      BY <1>c, <3>1, <3>2, <3>3
  <2>2. CASE SavePdf(r) /\ FileSaved(r, [copy EXCEPT !.pdf = "DONE"])
    <3> DEFINE row == [copy EXCEPT !.pdf = "DONE"]
    <3>1. row \in FileRows /\ row.owned = copy.owned /\ row.status = copy.status
      BY DEF FileRows
    <3>2. FileSaved(r, row) /\ fileRequest' = [fileRequest EXCEPT ![r] = waiting]
      BY <2>0, <2>2 DEF SavePdf, Leaves
    <3> HIDE DEF row
    <3> QED
      BY <1>c, <2>0, <3>1, <3>2
  <2>3. CASE SavePdf(r) /\ fileRequest[r].pc = "pdffailed"
    <3> DEFINE row == [copy EXCEPT !.pdf = "FAILED",
                                   !.status = IF fileRequest[r].confirms THEN "FAILED" ELSE @]
    <3>1. /\ row \in FileRows /\ row.owned = copy.owned /\ row.status # "NONE"
          /\ row.status \in {copy.status, "FAILED", "ARCHIVED"}
      BY <1>c DEF FileRows, FileStatuses
    <3>2. FileSaved(r, row) /\ fileRequest' = [fileRequest EXCEPT ![r] = waiting]
      BY <1>c, <2>0, <2>3 DEF SavePdf, Leaves
    <3> HIDE DEF row
    <3> QED
      BY <2>0, <3>1, <3>2
  <2>4. CASE ArchiveFile(r)
    <3> DEFINE row == [copy EXCEPT !.status = "ARCHIVED"]
    <3>1. row \in FileRows /\ row.owned = copy.owned /\ row.status = "ARCHIVED"
      BY DEF FileRows, FileStatuses
    <3>2. FileSaved(r, row) /\ fileRequest' = [fileRequest EXCEPT ![r] = waiting]
      BY <1>c, <2>0, <2>4 DEF ArchiveFile, Leaves
    <3> HIDE DEF row
    <3> QED
      BY <2>0, <3>1, <3>2
  <2> QED
    BY <1>c, <2>1, <2>2, <2>3, <2>4 DEF SavePdf
<1>1. /\ file'[k] = row /\ file' \in [Keys -> FileRows] /\ \A x \in Keys \ {k} : file'[x] = file[x]
      /\ overwritten' \in {overwritten, overwritten \union {k}}
      /\ k \notin overwritten' => file[k].status = copy.status /\ file[k].owned = copy.owned
  BY <1>t, <1>k, <1>c, <1>p DEF FileSaved, FilesTyped, FilesTypeOK
<1>2. \A x \in Keys \ {k} : Same(x)
  BY <1>u, <1>1 DEF Same
<1>3. HasFile(k)' /\ Accounted(k)' /\ (Condemned(k) => Condemned(k)')
  BY <1>u, <1>p, <1>1 DEF HasFile, Accounted, Condemned
<1>4. IF owner THEN Accounted(k)' ELSE Condemned(k)'
  BY <1>c, <1>3
<1>5. RequestSound(q)'
  BY <1>t, <1>u, <1>c, <1>p, <1>3, <1>4 DEF RequestSound, CopySteps
<1>6. Initiated(k) => Initiated(k)'
  BY <1>t, <1>p DEF FilesTyped, Initiated, KeyOf
<1>7. KeySound(k)'
  <2>1. ~owner /\ row.status \notin {"NONE", "ARCHIVED"} => k \in retained \union overwritten'
    BY <1>k, <1>c, <1>p, <1>1 DEF KeySound, AccountedAt
  <2> QED
    BY <1>u, <1>k, <1>c, <1>p, <1>1, <1>3, <1>4, <1>6, <2>1 DEF KeySound
<1>8. JobSound(k)'
  <2>1. <<"OBJECT", k>> \in deletionJobs /\ k \notin large =>
          k \notin retained /\ (row.status = "UPLOADED" => k \in overwritten')
    BY <1>k, <1>p, <1>1 DEF JobSound
  <2>2. deleting.job = <<"OBJECT", k>> => k \in retained \union overwritten'
    BY <1>k, <1>1
  <2> QED
    BY <1>u, <1>k, <1>1, <2>1, <2>2 DEF JobSound
<1>9. StoredAt(k)' /\ AccountedAt(k)'
  <2>1. StoredAt(k)'
    BY <1>u, <1>k, <1>p, <1>1 DEF StoredAt
  <2>2. AccountedAt(k)'
    BY <1>u, <1>k, <1>c, <1>p, <1>1, <1>3 DEF AccountedAt
  <2> QED
    BY <2>1, <2>2
<1>10. /\ bucket' \subseteq Keys /\ openParts' \subseteq Keys /\ pendingUploads' \subseteq Keys
       /\ overwritten' \subseteq Keys /\ strayed' \subseteq Keys
       /\ partSessions' \in [Keys -> SessionStatuses]
  BY <1>t, <1>u, <1>1 DEF FilesTyped, FilesTypeOK, SessionStatuses
<1>11. /\ (k \in bucket => k \in bucket') /\ (q.pc = "idle" <=> q.key = NoKey) /\ q.key \in {k, NoKey}
  BY <1>t, <1>u, <1>p
<1> QED
  BY <1>u, <1>k, <1>p, <1>1, <1>2, <1>3, <1>5, <1>7, <1>8, <1>9, <1>10, <1>11, RequestMoves

\* Uploads with a signed URL, and what comes to refer to a file.
LEMMA KeyStepInv ==
  ASSUME UploadsInv, NEW k \in Keys,
         CreateSignedUploadUrl(k) \/ ClientPuts(k) \/ UrlExpires(k) \/ ReferToFile(k)
  PROVE  UploadsInv'
<1>t. FilesTyped /\ KeySound(k) /\ JobSound(k) /\ StoredAt(k) /\ AccountedAt(k)
  BY DEF UploadsInv, KeysSound, JobsSound, ReadableIsStored, StoredAt, UploadsAccounted, AccountedAt
<1>u. UNCHANGED <<owner, large, openParts, partSessions, file, deletionJobs, deleting, fileRequest,
                  overwritten, strayed, s3Faults>>
  BY DEF CreateSignedUploadUrl, ClientPuts, UrlExpires, ReferToFile
<1>1. \A x \in Keys \ {k} : Same(x)
  BY <1>u DEF Same, CreateSignedUploadUrl, ClientPuts, UrlExpires, ReferToFile
<1>2. /\ bucket' \subseteq Keys /\ urls' \subseteq Keys /\ pendingUploads' \subseteq Keys /\ retained' \subseteq Keys
  BY <1>t DEF FilesTyped, FilesTypeOK, CreateSignedUploadUrl, ClientPuts, UrlExpires, ReferToFile
<1>3. FilesTyped' /\ InitiatedOnce'
  BY <1>t, <1>u, <1>2 DEF UploadsInv, FilesTyped, FilesTypeOK, InitiatedOnce, IsIdle, KeyOf
<1>4. (HasFile(k)' <=> HasFile(k)) /\ (Accounted(k) => Accounted(k)') /\ (Condemned(k) => Condemned(k)')
  BY <1>u DEF HasFile, Accounted, Condemned, CreateSignedUploadUrl, ClientPuts, UrlExpires, ReferToFile
<1>5. ASSUME NEW s \in FileRequests, fileRequest'[s].key = k PROVE RequestSound(fileRequest[s])'
  <2>1. PICK q \in RequestRows : q = fileRequest[s] /\ RequestSound(q) /\ q.key = k
    BY <1>t, <1>u, <1>5 DEF FilesTyped, UploadsInv, RequestsSound
  <2>2. Accounted(k)' /\ q.pc = "initiated" => Accounted(k)
    BY <1>u, <1>5, <2>1
    DEF Accounted, HasFile, Unused, Concerns, KeyOf, CreateSignedUploadUrl, ClientPuts, UrlExpires, ReferToFile
  <2>3. k \in bucket => k \in bucket'
    BY DEF CreateSignedUploadUrl, ClientPuts, UrlExpires, ReferToFile
  <2>4. k \in bucket' /\ k \in large => k \in bucket
    BY <1>t DEF KeySound, CreateSignedUploadUrl, ClientPuts, UrlExpires, ReferToFile
  <2>5. RequestSound(q)'
    BY <1>u, <1>4, <2>1, <2>2, <2>3, <2>4 DEF RequestSound
  <2> QED
    BY <1>u, <2>1, <2>5
<1>6. Initiated(k)' <=> Initiated(k)
  BY <1>u DEF Initiated, KeyOf
<1>7. Concerns(k)' <=> Concerns(k)
  BY <1>u DEF Concerns, KeyOf
<1>8. CASE CreateSignedUploadUrl(k)
  <2>1. /\ owner /\ k \notin large /\ ~HasFile(k) /\ k \notin urls /\ pendingUploads' = pendingUploads \union {k}
        /\ urls' = urls \union {k} /\ bucket' = bucket /\ retained' = retained
    BY <1>8 DEF CreateSignedUploadUrl, Unused
  <2>2. deleting.job # <<"OBJECT", k>> /\ deletionJobs = {}
    BY <2>1, NoJobsYet
  <2>3. Accounted(k)'
    BY <2>1 DEF Accounted
  <2>4. KeySound(k)' /\ JobSound(k)'
    BY <1>t, <1>u, <1>4, <1>6, <2>1, <2>2, <2>3 DEF KeySound, JobSound
  <2>5. StoredAt(k)' /\ AccountedAt(k)'
    BY <1>t, <1>u, <1>4, <2>1 DEF StoredAt, AccountedAt
  <2> QED
    BY <1>u, <1>1, <1>3, <1>5, <2>4, <2>5, KeyMoves
<1>9. CASE ClientPuts(k) \/ UrlExpires(k)
  <2>1. /\ k \in urls /\ bucket' \in {bucket, bucket \union {k}} /\ urls' \in {urls, urls \ {k}}
        /\ pendingUploads' = pendingUploads /\ retained' = retained
        /\ urls' = urls \/ bucket' = bucket
    BY <1>9 DEF ClientPuts, UrlExpires
  <2>2. KeySound(k)'
    BY <1>t, <1>u, <1>4, <1>6, <2>1 DEF KeySound
  <2>3. JobSound(k)'
    BY <1>t, <1>u, <1>7, <2>1 DEF JobSound
  <2>4. StoredAt(k)' /\ AccountedAt(k)'
    BY <1>t, <1>u, <1>4, <2>1 DEF StoredAt, AccountedAt
  <2> QED
    BY <1>u, <1>1, <1>3, <1>5, <2>2, <2>3, <2>4, KeyMoves
<1>10. CASE ReferToFile(k)
  <2>1. /\ owner /\ HasFile(k) /\ retained' = retained \union {k}
        /\ bucket' = bucket /\ urls' = urls /\ pendingUploads' = pendingUploads
    BY <1>10 DEF ReferToFile, HasFile
  <2>2. deleting.job # <<"OBJECT", k>> /\ deletionJobs = {}
    BY <2>1, NoJobsYet
  <2>3. KeySound(k)' /\ JobSound(k)'
    BY <1>t, <1>u, <1>4, <1>6, <2>1, <2>2 DEF KeySound, JobSound
  <2>4. StoredAt(k)' /\ AccountedAt(k)'
    BY <1>t, <1>u, <1>4, <2>1 DEF KeySound, StoredAt, AccountedAt
  <2> QED
    BY <1>u, <1>1, <1>3, <1>5, <2>3, <2>4, KeyMoves
<1> QED
  BY <1>8, <1>9, <1>10

\* The account goes: what it stores is condemned or somebody else's.
LEMMA DeleteAccountInv ==
  ASSUME UploadsInv, DeleteAccount
  PROVE  UploadsInv'
<1>t. FilesTyped /\ KeysSound /\ RequestsSound
  BY DEF UploadsInv
<1>u. /\ owner /\ owner' = FALSE /\ pendingUploads' = {} /\ partSessions' = [k \in Keys |-> "NONE"]
      /\ UNCHANGED <<large, bucket, openParts, urls, retained, deleting, fileRequest,
                     overwritten, strayed, s3Faults>>
  BY <1>t DEF DeleteAccount
<1>j. deleting.job = NoJob /\ deletionJobs = {}
  BY <1>u, NoJobsYet
<1>f. ASSUME NEW k \in Keys
      PROVE  /\ file'[k] \in FileRows /\ ~file'[k].owned
             /\ file'[k].status = IF k \in Deletable THEN "ARCHIVED" ELSE file[k].status
  <2>1. file[k] \in FileRows
    BY <1>t DEF FilesTyped, FilesTypeOK
  <2>2. file'[k] = IF k \in Deletable THEN [file[k] EXCEPT !.status = "ARCHIVED", !.owned = FALSE]
                   ELSE [file[k] EXCEPT !.owned = FALSE]
    BY DEF DeleteAccount
  <2> QED
    BY <2>1, <2>2 DEF FileRows, FileStatuses
<1>d. ASSUME NEW k \in Keys
      PROVE  /\ <<"OBJECT", k>> \in deletionJobs' <=>
                  k \in Deletable \/ partSessions[k] # "NONE" \/ k \in pendingUploads
             /\ <<"MULTIPART", k>> \in deletionJobs' <=> partSessions[k] # "NONE"
  BY <1>j DEF DeleteAccount, PlannedJobs, Uploading
<1>1. FilesTyped'
  <2>1. file' \in [Keys -> FileRows]
    BY <1>f DEF DeleteAccount
  <2>2. deletionJobs' \subseteq {"OBJECT", "MULTIPART"} \X Keys
    BY <1>t, <1>j DEF DeleteAccount, PlannedJobs, Uploading, Deletable, Owned, FilesTyped, FilesTypeOK
  <2>3. deleting'.job \in deletionJobs' \union {NoJob}
    BY <1>u, <1>j
  <2>4. partSessions' \in [Keys -> {"NONE", "INITIATED", "COMPLETED", "ABORTED", "EXPIRED"}]
    BY <1>u
  <2>5. \A r \in FileRequests : IsIdle(r)' <=> (KeyOf(r) = NoKey)'
    BY <1>t, <1>u DEF FilesTyped, FilesTypeOK, IsIdle, KeyOf
  <2>6. FilesTypeOK'
    BY <1>t, <1>u, <2>1, <2>2, <2>3, <2>4, <2>5 DEF FilesTyped, FilesTypeOK
  <2> QED
    BY <1>t, <1>u, <2>6 DEF FilesTyped
<1>2. ASSUME NEW k \in Keys
      PROVE  /\ KeySound(k) /\ StoredAt(k) /\ AccountedAt(k)
             /\ (HasFile(k) => HasFile(k)') /\ (Accounted(k) => Condemned(k)')
             /\ (k \in retained => HasFile(k)')
  <2>1. KeySound(k) /\ StoredAt(k) /\ AccountedAt(k)
    BY <1>t DEF UploadsInv, KeysSound, ReadableIsStored, StoredAt, UploadsAccounted, AccountedAt
  <2>2. HasFile(k) => HasFile(k)'
    BY <1>f DEF HasFile
  <2>3. HasFile(k) => k \in Deletable \/ k \in retained
    BY <1>u, <2>1 DEF KeySound, Deletable, Owned
  <2>4. Accounted(k) => Condemned(k)'
    BY <1>u, <1>d, <2>3 DEF Accounted, Condemned
  <2> QED
    BY <2>1, <2>2, <2>4 DEF KeySound
<1>3. RequestsSound'
  <2> SUFFICES ASSUME NEW r \in FileRequests PROVE RequestSound(fileRequest[r])'
    BY DEF RequestsSound
  <2>1. PICK q \in RequestRows : q = fileRequest[r] /\ RequestSound(q)
    BY <1>t DEF FilesTyped, RequestsSound
  <2>2. CASE q.key \in Keys
    <3>1. (HasFile(q.key) => HasFile(q.key)') /\ (Accounted(q.key) => Condemned(q.key)')
      BY <1>2, <2>2
    <3>2. RequestSound(q)'
      BY <1>u, <2>1, <3>1 DEF RequestSound
    <3> QED
      BY <1>u, <2>1, <3>2
  <2>3. CASE q.key = NoKey
    <3>1. RequestSound(q)'
      BY <2>1, <2>3 DEF RequestSound, CopySteps
    <3> QED
      BY <1>u, <2>1, <3>1
  <2> QED
    BY <2>1, <2>2, <2>3 DEF RequestRows
<1>4. ASSUME NEW k \in Keys PROVE KeySound(k)' /\ JobSound(k)' /\ StoredAt(k)' /\ AccountedAt(k)'
  <2>1. Initiated(k)' <=> Initiated(k)
    BY <1>u DEF Initiated, KeyOf
  <2>2. file'[k].status \notin {"NONE", "ARCHIVED"} => k \in retained
    BY <1>u, <1>f, <1>2 DEF KeySound, HasFile, Deletable, Owned
  <2>3. KeySound(k)'
    BY <1>u, <1>f, <1>d, <1>2, <2>1, <2>2 DEF KeySound
  <2>4. <<"OBJECT", k>> \in deletionJobs' /\ k \notin large => k \notin retained /\ file'[k].status # "UPLOADED"
    <3>1. CASE k \in Deletable
      BY <1>f, <3>1 DEF Deletable
    <3>2. CASE k \in pendingUploads
      BY <1>f, <1>2, <3>2 DEF AccountedAt, KeySound, HasFile
    <3>3. partSessions[k] # "NONE" => k \in large
      BY <1>2 DEF KeySound
    <3> QED
      BY <1>d, <3>1, <3>2, <3>3
  <2>5. deleting.job # <<"OBJECT", k>> /\ deleting.job # <<"MULTIPART", k>>
    BY <1>j, UploadsAssumption
  <2>6. JobSound(k)'
    BY <1>u, <2>4, <2>5 DEF JobSound
  <2>7. StoredAt(k)' /\ AccountedAt(k)'
    BY <1>u, <1>f, <1>2 DEF StoredAt, AccountedAt
  <2> QED
    BY <2>3, <2>6, <2>7
<1>5. KeysSound' /\ JobsSound' /\ ReadableIsStored' /\ UploadsAccounted'
  BY <1>u, <1>4 DEF KeysSound, JobsSound, ReadableIsStored, StoredAt, UploadsAccounted, AccountedAt
<1>6. InitiatedOnce'
  BY <1>u DEF InitiatedOnce
<1> QED
  BY <1>1, <1>3, <1>5, <1>6 DEF UploadsInv

\* The queue, once there is no account: it takes objects and jobs away.
LEMMA QueueMoves ==
  ASSUME UploadsInv, ~owner, FilesTyped',
         UNCHANGED <<owner, large, urls, pendingUploads, partSessions, file, retained, fileRequest,
                     overwritten, strayed>>,
         bucket' \subseteq bucket, openParts' \subseteq openParts, deletionJobs' \subseteq deletionJobs,
         \A k \in Keys : Concerns(k) /\ Condemned(k) => Condemned(k)',
         \A k \in Keys : k \in bucket' \union urls /\ Condemned(k) => Condemned(k)',
         \A k \in Keys : k \in openParts' /\ <<"MULTIPART", k>> \in deletionJobs => <<"MULTIPART", k>> \in deletionJobs',
         \A k \in Keys : JobSound(k)' /\ StoredAt(k)'
  PROVE  UploadsInv'
<1>t. FilesTyped /\ KeysSound /\ RequestsSound
  BY DEF UploadsInv
<1>1. RequestsSound'
  <2> SUFFICES ASSUME NEW r \in FileRequests PROVE RequestSound(fileRequest[r])'
    BY DEF RequestsSound
  <2>1. PICK q \in RequestRows : q = fileRequest[r] /\ RequestSound(q)
    BY <1>t DEF FilesTyped, RequestsSound
  <2>2. CASE q.key \in Keys
    <3>1. Concerns(q.key)
      BY <2>1 DEF Concerns, KeyOf
    <3>2. Condemned(q.key) => Condemned(q.key)'
      BY <2>2, <3>1
    <3>3. HasFile(q.key)' <=> HasFile(q.key)
      BY DEF HasFile
    <3>4. RequestSound(q)'
      BY <2>1, <3>2, <3>3 DEF RequestSound
    <3> QED
      BY <2>1, <3>4
  <2>3. CASE q.key = NoKey
    <3>1. RequestSound(q)'
      BY <2>1, <2>3 DEF RequestSound, CopySteps
    <3> QED
      BY <2>1, <3>1
  <2> QED
    BY <2>1, <2>2, <2>3 DEF RequestRows
<1>2. ASSUME NEW k \in Keys PROVE KeySound(k)'
  <2>1. KeySound(k)
    BY <1>t DEF KeysSound
  <2>2. (HasFile(k)' <=> HasFile(k)) /\ (Initiated(k)' <=> Initiated(k))
    BY DEF HasFile, Initiated, KeyOf
  <2>3. k \in bucket' \union urls => Condemned(k)'
    BY <2>1 DEF KeySound
  <2> QED
    BY <2>1, <2>2, <2>3 DEF KeySound
<1>3. UploadsAccounted'
  BY DEF UploadsInv, UploadsAccounted, HasFile
<1>4. KeysSound' /\ JobsSound' /\ ReadableIsStored'
  BY <1>2 DEF KeysSound, JobsSound, ReadableIsStored, StoredAt
<1>5. InitiatedOnce'
  BY DEF InitiatedOnce
<1> QED
  BY <1>1, <1>3, <1>4, <1>5 DEF UploadsInv

\* The queue of deletion jobs.
LEMMA QueueInv ==
  ASSUME UploadsInv, (\E task \in deletionJobs : ClaimJob(task)) \/ DeleteAtS3 \/ FinishJob \/ JobFails
  PROVE  UploadsInv'
<1>t. FilesTyped /\ (deletionJobs # {} => ~owner)
  BY DEF UploadsInv, JobsSound
<1>u. UNCHANGED <<owner, large, urls, pendingUploads, partSessions, file, retained, fileRequest,
                  overwritten, strayed>>
  BY DEF ClaimJob, DeleteAtS3, FinishJob, JobFails
<1>k. \A k \in Keys : JobSound(k) /\ StoredAt(k) /\ (Concerns(k)' <=> Concerns(k))
  BY <1>u DEF UploadsInv, JobsSound, ReadableIsStored, StoredAt, Concerns, KeyOf
<1>n. \A k \in Keys : NoJob # <<"OBJECT", k>> /\ NoJob # <<"MULTIPART", k>>
  BY UploadsAssumption
<1>i. Idling.job = NoJob /\ Idling.done = FALSE
  BY DEF Idling
<1>1. CASE ~owner
  <2>1. ASSUME NEW task \in deletionJobs, ClaimJob(task) PROVE UploadsInv'
    <3>1. /\ UNCHANGED <<bucket, openParts, deletionJobs, s3Faults>> /\ IsDue(task)
          /\ deleting' = [job |-> task, done |-> FALSE]
      BY <2>1 DEF ClaimJob
    <3>2. FilesTyped'
      <4>1. deleting'.job = task /\ deleting'.done = FALSE
        BY <3>1
      <4>2. deleting' \in [job : ({"OBJECT", "MULTIPART"} \X Keys) \union {NoJob}, done : BOOLEAN]
        BY <1>t, <3>1 DEF FilesTyped, FilesTypeOK
      <4> QED
        BY <1>t, <1>u, <3>1, <4>1, <4>2 DEF FilesTyped, FilesTypeOK, IsIdle, KeyOf
    <3>3. ASSUME NEW k \in Keys PROVE JobSound(k)' /\ StoredAt(k)'
      <4>1. deleting'.job = <<"OBJECT", k>> => k \notin urls /\ ~Concerns(k)
        BY <3>1 DEF IsDue
      <4>2. JobSound(k)'
        BY <1>u, <1>k, <3>1, <4>1 DEF JobSound
      <4>3. StoredAt(k)'
        BY <1>u, <1>k, <3>1 DEF StoredAt
      <4> QED
        BY <4>2, <4>3
    <3>4. \A k \in Keys : Condemned(k) => Condemned(k)'
      BY <1>u, <3>1 DEF Condemned
    <3> QED
      BY <1>u, <1>1, <3>1, <3>2, <3>3, <3>4, QueueMoves
  <2>2. CASE DeleteAtS3
    <3>1. PICK kind \in {"OBJECT", "MULTIPART"}, x \in Keys :
            deleting.job = <<kind, x>> /\ <<kind, x>> \in deletionJobs
      <4>1. deleting.job \in deletionJobs /\ deletionJobs \subseteq {"OBJECT", "MULTIPART"} \X Keys
        BY <1>t, <2>2 DEF DeleteAtS3, FilesTyped, FilesTypeOK
      <4> QED
        BY <4>1
    <3>2. /\ UNCHANGED <<deletionJobs, s3Faults>> /\ deleting' = [deleting EXCEPT !.done = TRUE]
          /\ bucket' = IF kind = "OBJECT" THEN bucket \ {x} ELSE bucket
          /\ openParts' = IF kind = "MULTIPART" THEN openParts \ {x} ELSE openParts
      BY <2>2, <3>1 DEF DeleteAtS3
    <3>3. deleting'.job = <<kind, x>> /\ deleting'.done = TRUE
          /\ deleting' \in [job : ({"OBJECT", "MULTIPART"} \X Keys) \union {NoJob}, done : BOOLEAN]
      BY <1>t, <3>1, <3>2 DEF FilesTyped
    <3>4. FilesTyped'
      BY <1>t, <1>u, <3>1, <3>2, <3>3 DEF FilesTyped, FilesTypeOK, IsIdle, KeyOf
    <3>5. ASSUME NEW k \in Keys PROVE JobSound(k)' /\ StoredAt(k)'
      <4>1. JobSound(k)'
        BY <1>u, <1>k, <3>1, <3>2, <3>3 DEF JobSound
      <4>2. StoredAt(k)'
        <5>1. CASE k \in bucket' <=> k \in bucket
          BY <1>u, <1>k, <5>1 DEF StoredAt
        <5>2. CASE kind = "OBJECT" /\ k = x
          BY <1>u, <1>k, <1>1, <3>1, <5>2 DEF StoredAt, JobSound
        <5> QED
          BY <3>2, <5>1, <5>2
      <4> QED
        BY <4>1, <4>2
    <3>6. \A k \in Keys : Condemned(k) => Condemned(k)'
      BY <1>u, <3>2 DEF Condemned
    <3>7. bucket' \subseteq bucket /\ openParts' \subseteq openParts
      BY <3>2
    <3> QED
      BY <1>u, <1>1, <3>2, <3>4, <3>5, <3>6, <3>7, QueueMoves
  <2>3. CASE FinishJob
    <3>1. /\ UNCHANGED <<bucket, openParts, s3Faults>> /\ deleting' = Idling /\ deleting.done
          /\ deletionJobs' = deletionJobs \ {deleting.job}
      BY <2>3 DEF FinishJob
    <3>2. FilesTyped'
      <4>1. deleting' \in [job : ({"OBJECT", "MULTIPART"} \X Keys) \union {NoJob}, done : BOOLEAN]
        BY <3>1 DEF Idling
      <4> QED
        BY <1>t, <1>u, <1>i, <3>1, <4>1 DEF FilesTyped, FilesTypeOK, IsIdle, KeyOf
    <3>3. ASSUME NEW k \in Keys PROVE JobSound(k)' /\ StoredAt(k)'
      BY <1>u, <1>k, <1>n, <1>i, <3>1 DEF JobSound, StoredAt
    <3>4. ASSUME NEW k \in Keys, Concerns(k) \/ k \in bucket \union urls, Condemned(k) PROVE Condemned(k)'
      BY <1>u, <1>k, <3>1, <3>4 DEF Condemned, JobSound
    <3>5. ASSUME NEW k \in Keys, k \in openParts, <<"MULTIPART", k>> \in deletionJobs
          PROVE  <<"MULTIPART", k>> \in deletionJobs'
      BY <1>k, <3>1, <3>5 DEF JobSound
    <3> QED
      BY <1>u, <1>1, <3>1, <3>2, <3>3, <3>4, <3>5, QueueMoves
  <2>4. CASE JobFails
    <3>1. UNCHANGED <<bucket, openParts, deletionJobs>> /\ deleting' = Idling /\ s3Faults' \in 0..MaxS3Faults
      BY <1>t, <2>4, UploadsAssumption DEF JobFails, FilesTyped
    <3>2. FilesTyped'
      <4>1. deleting' \in [job : ({"OBJECT", "MULTIPART"} \X Keys) \union {NoJob}, done : BOOLEAN]
        BY <3>1 DEF Idling
      <4> QED
        BY <1>t, <1>u, <1>i, <3>1, <4>1 DEF FilesTyped, FilesTypeOK, IsIdle, KeyOf
    <3>3. ASSUME NEW k \in Keys PROVE JobSound(k)' /\ StoredAt(k)'
      BY <1>u, <1>k, <1>n, <1>i, <3>1 DEF JobSound, StoredAt
    <3>4. \A k \in Keys : Condemned(k) => Condemned(k)'
      BY <1>u, <3>1 DEF Condemned
    <3> QED
      BY <1>u, <1>1, <3>1, <3>2, <3>3, <3>4, QueueMoves
  <2> QED
    BY <2>1, <2>2, <2>3, <2>4
\* Before that the queue has nothing to do.
<1>2. CASE owner
  <2>1. deletionJobs = {} /\ deleting = Idling /\ Idling.job = NoJob /\ ~Idling.done
    BY <1>2, <1>i DEF UploadsInv, JobsSound
  <2> QED
    BY <2>1 DEF ClaimJob, DeleteAtS3, FinishJob, JobFails
<1> QED
  BY <1>1, <1>2, <1>t DEF FilesTyped, FilesTypeOK

\* Every step keeps the invariant.
LEMMA UploadsStep == UploadsInv /\ [FilesNext]_fileVars => UploadsInv'
<1> SUFFICES ASSUME UploadsInv, [FilesNext]_fileVars PROVE UploadsInv'
  OBVIOUS
<1>1. ASSUME NEW r \in FileRequests, RequestGoesOn(r) PROVE UploadsInv'
  BY <1>1, RequestOnlyInv, ObjectStoredInv, SessionsInv, PersistInv, FileSavedInv DEF RequestGoesOn
<1>2. ASSUME NEW r \in FileRequests, NEW k \in Keys,
             PrepareBuffer(r, k) \/ ConfirmUpload(r, k) \/ InitiateAtS3(r, k) \/ LoadToComplete(r, k)
               \/ LoadToAbort(r, k) \/ ReadFile(r, k) \/ LoadToArchive(r, k)
      PROVE  UploadsInv'
  BY <1>2, BeginsInv, LoadsInv
<1>3. ASSUME NEW k \in Keys, CreateSignedUploadUrl(k) \/ ClientPuts(k) \/ UrlExpires(k) \/ ReferToFile(k)
      PROVE  UploadsInv'
  BY <1>3, KeyStepInv
<1>4. CASE UNCHANGED fileVars
  <2> USE <1>4 DEF fileVars
  <2>1. FilesTyped' /\ ReadableIsStored' /\ UploadsAccounted'
    BY DEF UploadsInv, FilesTyped, FilesTypeOK, ReadableIsStored, UploadsAccounted, HasFile, IsIdle, KeyOf
  <2>2. \A k \in Keys : /\ HasFile(k)' <=> HasFile(k)
                        /\ Accounted(k)' <=> Accounted(k)
                        /\ Condemned(k)' <=> Condemned(k)
                        /\ Initiated(k)' <=> Initiated(k)
                        /\ Concerns(k)' <=> Concerns(k)
    BY DEF HasFile, Accounted, Condemned, Initiated, Concerns, KeyOf
  <2>3. RequestsSound' /\ InitiatedOnce'
    BY DEF UploadsInv, RequestsSound, RequestSound, InitiatedOnce, HasFile, Accounted, Condemned, KeyOf
  <2>4. KeysSound'
    BY <2>2 DEF UploadsInv, KeysSound, KeySound
  <2>5. JobsSound'
    BY <2>2 DEF UploadsInv, JobsSound, JobSound
  <2> QED
    BY <2>1, <2>3, <2>4, <2>5 DEF UploadsInv
<1> QED
  BY <1>1, <1>2, <1>3, <1>4, DeleteAccountInv, QueueInv DEF FilesNext

\* The user's files and their objects stay in step (files.service.ts): a file
\* that can be read has its object, no upload is counted twice, and the deletion
\* of the account leaves nothing that no job removes.
THEOREM UploadsStayConsistent == FilesSpec => []UploadsConsistent
<1>1. FilesSpec => []UploadsInv
  BY FilesInitInv, UploadsStep, PTL DEF FilesSpec
<1> QED
  BY <1>1, UploadsAreConsistent, PTL
=============================================================================
