------------------------------- MODULE Uploads --------------------------------
(* One user's files: uploaded with a signed URL, from a buffer or in parts,    *)
(* confirmed, finalized, archived (files/services/files.service.ts), and taken *)
(* away with the account (users/user-account-deletion.service.ts) by a queue   *)
(* of deletion jobs (files/services/s3-deletion-queue.service.ts). Rows and    *)
(* objects live apart: the object may be there before its row and stays until  *)
(* a job has removed it.                                                       *)
EXTENDS Naturals

CONSTANTS
  Keys,              \* storage keys; each is made for one upload
  FileRequests,      \* requests about the files in flight
  MaxS3Faults,       \* bound: jobs that fail or are cut off
  NoKey,
  NoJob

ASSUME UploadsAssumption ==
  NoKey \notin Keys /\ NoJob \notin {"OBJECT", "MULTIPART"} \X Keys /\ MaxS3Faults \in Nat

VARIABLES
  owner,             \* the user's row exists
  large,             \* keys of videos above the threshold, uploaded in parts
  bucket,            \* keys whose object is stored
  openParts,         \* keys whose multipart upload S3 holds open
  urls,              \* keys whose signed PUT URL is still valid
  pendingUploads,    \* pending_single_uploads
  partSessions,      \* multipart_upload_sessions: the status of each key's row
  file,              \* files: uploadStatus, whether the user owns it, and pdf
  retained,          \* files that a message or a record of another refers to
  deletionJobs,      \* s3_deletion_jobs
  deleting,          \* the job the queue has claimed, and whether S3 has done it
  fileRequest,       \* where a request is, and the copies it holds
  s3Faults,
  overwritten,       \* history: keys of files saved over a later change
  strayed            \* history: keys whose session was saved late, never, over a later
                     \* change, or passed by

fileVars == <<owner, large, bucket, openParts, urls, pendingUploads, partSessions, file,
              retained, deletionJobs, deleting, fileRequest, s3Faults, overwritten, strayed>>

NoFile == [status |-> "NONE", owned |-> FALSE, pdf |-> "NONE"]
Waiting == [pc |-> "idle", key |-> NoKey, confirms |-> FALSE, file |-> NoFile, session |-> "NONE"]
Idling == [job |-> NoJob, done |-> FALSE]

FilesInit ==
  /\ owner = TRUE /\ large \in SUBSET Keys
  /\ bucket = {} /\ openParts = {} /\ urls = {}
  /\ pendingUploads = {} /\ partSessions = [k \in Keys |-> "NONE"]
  /\ file = [k \in Keys |-> NoFile]
  /\ retained = {} /\ deletionJobs = {} /\ deleting = Idling
  /\ fileRequest = [r \in FileRequests |-> Waiting]
  /\ s3Faults = 0 /\ overwritten = {} /\ strayed = {}

HasFile(k) == file[k].status # "NONE"
IsIdle(r) == fileRequest[r].pc = "idle"
KeyOf(r) == fileRequest[r].key
Concerns(k) == \E r \in FileRequests : KeyOf(r) = k

Goes(r, pc) == fileRequest' = [fileRequest EXCEPT ![r].pc = pc]
Leaves(r) == fileRequest' = [fileRequest EXCEPT ![r] = Waiting]
Starts(r, k, pc) == fileRequest' = [fileRequest EXCEPT ![r] = [Waiting EXCEPT !.pc = pc, !.key = k]]

\* createStorageKey makes a new key.
Unused(k) == ~ (HasFile(k) \/ Concerns(k)) /\ k \notin pendingUploads \union urls \union openParts
             /\ partSessions[k] = "NONE"

-----------------------------------------------------------------------------
(* Uploads with one PUT *)

(* createSignedUploadUrl: the owner's row is locked while the row is made.     *)
CreateSignedUploadUrl(k) ==
  /\ owner /\ k \notin large /\ Unused(k)
  /\ pendingUploads' = pendingUploads \union {k}
  /\ urls' = urls \union {k}
  /\ UNCHANGED <<owner, large, bucket, openParts, partSessions, file, retained,
                 deletionJobs, deleting, fileRequest, overwritten, strayed, s3Faults>>

(* The client puts the object, perhaps again, while the URL is valid.          *)
ClientPuts(k) ==
  /\ k \in urls /\ bucket' = bucket \union {k}
  /\ UNCHANGED <<owner, large, openParts, urls, pendingUploads, partSessions, file,
                 retained, deletionJobs, deleting, fileRequest, overwritten, strayed,
                 s3Faults>>

UrlExpires(k) ==
  /\ k \in urls /\ urls' = urls \ {k}
  /\ UNCHANGED <<owner, large, bucket, openParts, pendingUploads, partSessions, file,
                 retained, deletionJobs, deleting, fileRequest, overwritten, strayed,
                 s3Faults>>

(* createFileFromBuffer: the pending row comes first ...                       *)
PrepareBuffer(r, k) ==
  /\ owner /\ IsIdle(r) /\ k \notin large /\ Unused(k)
  /\ pendingUploads' = pendingUploads \union {k}
  /\ Starts(r, k, "putting")
  /\ UNCHANGED <<owner, large, bucket, openParts, urls, partSessions, file, retained,
                 deletionJobs, deleting, overwritten, strayed, s3Faults>>

(* ... then the object, then its file.                                         *)
UploadBuffer(r) ==
  /\ fileRequest[r].pc = "putting"
  /\ bucket' = bucket \union {KeyOf(r)}
  /\ fileRequest' = [fileRequest EXCEPT ![r].pc = "persisting", ![r].confirms = TRUE]
  /\ UNCHANGED <<owner, large, openParts, urls, pendingUploads, partSessions, file,
                 retained, deletionJobs, deleting, overwritten, strayed, s3Faults>>

(* confirmUpload: no file has the key yet, and the object is there; nobody     *)
(* asks whether it was uploaded in parts.                                      *)
ConfirmUpload(r, k) ==
  /\ owner /\ IsIdle(r) /\ ~HasFile(k) /\ k \in bucket
  /\ fileRequest' = [fileRequest EXCEPT ![r] =
       [Waiting EXCEPT !.pc = "persisting", !.key = k, !.confirms = TRUE]]
  /\ UNCHANGED <<owner, large, bucket, openParts, urls, pendingUploads, partSessions,
                 file, retained, deletionJobs, deleting, overwritten, strayed, s3Faults>>

-----------------------------------------------------------------------------
(* Uploads in parts *)

(* initiateMultipartUpload: S3 first, then the row; nothing locks the owner.   *)
InitiateAtS3(r, k) ==
  /\ owner /\ IsIdle(r) /\ k \in large /\ Unused(k)
  /\ openParts' = openParts \union {k}
  /\ Starts(r, k, "initiated")
  /\ UNCHANGED <<owner, large, bucket, urls, pendingUploads, partSessions, file, retained,
                 deletionJobs, deleting, overwritten, strayed, s3Faults>>

SaveSession(r) ==
  LET k == KeyOf(r)
  IN /\ fileRequest[r].pc = "initiated"
     /\ partSessions' = [partSessions EXCEPT ![k] = "INITIATED"]
     /\ strayed' = IF owner THEN strayed ELSE strayed \union {k}
     /\ Leaves(r)
     /\ UNCHANGED <<owner, large, bucket, openParts, urls, pendingUploads, file, retained,
                    deletionJobs, deleting, overwritten, s3Faults>>

(* The row cannot be saved: the upload is aborted, its failure swallowed.      *)
SaveSessionFails(r) ==
  /\ fileRequest[r].pc = "initiated"
  /\ openParts' = openParts \ {KeyOf(r)}
  /\ Leaves(r)
  /\ UNCHANGED <<owner, large, bucket, urls, pendingUploads, partSessions, file, retained,
                 deletionJobs, deleting, overwritten, strayed, s3Faults>>

(* completeMultipartUpload and abortMultipartUpload load the session's row;    *)
(* completing goes on with an INITIATED one without a file.                    *)
LoadToComplete(r, k) ==
  /\ owner /\ IsIdle(r) /\ partSessions[k] = "INITIATED" /\ ~HasFile(k)
  /\ Starts(r, k, "completing")
  /\ UNCHANGED <<owner, large, bucket, openParts, urls, pendingUploads, partSessions,
                 file, retained, deletionJobs, deleting, overwritten, strayed, s3Faults>>

LoadToAbort(r, k) ==
  /\ owner /\ IsIdle(r) /\ partSessions[k] \notin {"NONE", "COMPLETED"}
  /\ fileRequest' = [fileRequest EXCEPT ![r] = [Waiting EXCEPT !.pc = "aborting", !.key = k,
                                                              !.session = partSessions[k]]]
  /\ UNCHANGED <<owner, large, bucket, openParts, urls, pendingUploads, partSessions,
                 file, retained, deletionJobs, deleting, overwritten, strayed, s3Faults>>

(* assertMultipartSessionUsable finds the session expired: it is aborted too.  *)
SessionExpired(r) ==
  /\ fileRequest[r].pc = "completing"
  /\ openParts' = openParts \ {KeyOf(r)}
  /\ fileRequest' = [fileRequest EXCEPT ![r].pc = "closing", ![r].session = "EXPIRED"]
  /\ UNCHANGED <<owner, large, bucket, urls, pendingUploads, partSessions, file, retained,
                 deletionJobs, deleting, overwritten, strayed, s3Faults>>

(* The parts are put together unless an earlier request has done it.           *)
CompleteAtS3(r) ==
  LET k == KeyOf(r)
  IN /\ fileRequest[r].pc = "completing"
     /\ k \in bucket \union openParts
     /\ bucket' = bucket \union {k}
     /\ openParts' = IF k \in bucket THEN openParts ELSE openParts \ {k}
     /\ Goes(r, "persisting")
     /\ UNCHANGED <<owner, large, urls, pendingUploads, partSessions, file, retained,
                    deletionJobs, deleting, overwritten, strayed, s3Faults>>

(* abortMultipartUpload: S3's failure is swallowed; a closed session is not    *)
(* aborted again.                                                              *)
AbortAtS3(r) ==
  LET k == KeyOf(r)
  IN /\ fileRequest[r].pc = "aborting"
     /\ openParts' \in IF fileRequest[r].session = "INITIATED" THEN {openParts, openParts \ {k}}
                       ELSE {openParts}
     /\ fileRequest' = [fileRequest EXCEPT ![r].pc = "closing", ![r].session = "ABORTED"]
     /\ UNCHANGED <<owner, large, bucket, urls, pendingUploads, partSessions, file,
                    retained, deletionJobs, deleting, overwritten, strayed, s3Faults>>

(* The session is saved from the copy: over a completion, or again after the   *)
(* account has been deleted with its sessions.                                 *)
CloseSession(r) ==
  LET k == KeyOf(r)
  IN /\ fileRequest[r].pc = "closing"
     /\ partSessions' = [partSessions EXCEPT ![k] = fileRequest[r].session]
     /\ strayed' = IF partSessions[k] \in {"NONE", "COMPLETED"} THEN strayed \union {k}
                   ELSE strayed
     /\ Leaves(r)
     /\ UNCHANGED <<owner, large, bucket, openParts, urls, pendingUploads, file, retained,
                    deletionJobs, deleting, overwritten, s3Faults>>

-----------------------------------------------------------------------------
(* The file's row *)

(* persistUploadedFile, one transaction under the owner's read lock: a key has *)
(* one file, whoever comes first; the pending row goes with it.                *)
\* Mutant of MayPersist: the owner is not looked at.
MayPersistAlways == TRUE

MayPersist == owner

PersistUploadedFile(r) ==
  LET k == KeyOf(r)
      new == [status |-> "UPLOADED", owned |-> TRUE, pdf |-> "DONE"]
  IN /\ fileRequest[r].pc = "persisting" /\ MayPersist
     /\ \/ HasFile(k) /\ UNCHANGED <<file, partSessions, strayed>>
        \/ /\ ~HasFile(k) /\ fileRequest[r].confirms
           /\ \E pdf \in IF k \in large THEN {"DONE"} ELSE {"DONE", "PENDING"} :
                file' = [file EXCEPT ![k] = [new EXCEPT !.pdf = pdf]]
           /\ strayed' = strayed \union ({k} \intersect large)
           /\ UNCHANGED partSessions
        \/ /\ ~HasFile(k) /\ ~fileRequest[r].confirms
           /\ file' = [file EXCEPT ![k] = new]
           /\ partSessions' = [partSessions EXCEPT ![k] = "COMPLETED"]
           /\ UNCHANGED strayed
     /\ pendingUploads' = pendingUploads \ {k}
     /\ IF fileRequest[r].confirms
        THEN fileRequest' = [fileRequest EXCEPT ![r].pc = "finalizing", ![r].file = file'[k]]
        ELSE Leaves(r)
     /\ UNCHANGED <<owner, large, bucket, openParts, urls, retained, deletionJobs,
                    deleting, overwritten, s3Faults>>

PersistRefused(r) ==
  /\ fileRequest[r].pc = "persisting" /\ ~MayPersist
  /\ Leaves(r)
  /\ UNCHANGED <<owner, large, bucket, openParts, urls, pendingUploads, partSessions,
                 file, retained, deletionJobs, deleting, overwritten, strayed, s3Faults>>

(* createSignedReadUrl, by anyone: a PDF that is not done is finalized.        *)
ReadFile(r, k) ==
  /\ IsIdle(r) /\ file[k].status \notin {"NONE", "ARCHIVED"}
  /\ file[k].pdf # "DONE"
  /\ fileRequest' = [fileRequest EXCEPT ![r] = [Waiting EXCEPT !.pc = "finalizing", !.key = k,
                                                              !.file = file[k]]]
  /\ UNCHANGED <<owner, large, bucket, openParts, urls, pendingUploads, partSessions,
                 file, retained, deletionJobs, deleting, overwritten, strayed, s3Faults>>

(* A file is saved from the copy a request holds, owner and status included.   *)
FileSaved(r, row) ==
  LET k == KeyOf(r)
  IN /\ file' = [file EXCEPT ![k] = row]
     /\ overwritten' = IF file[k].status # fileRequest[r].file.status
                            \/ file[k].owned # fileRequest[r].file.owned
                       THEN overwritten \union {k} ELSE overwritten

Processes(r, k) == KeyOf(r) = k /\ fileRequest[r].pc \in {"reading", "linearizing", "pdfdone", "pdffailed"}

(* finalizePdfFile: what is done, or was being done less than five minutes     *)
(* before, is left alone; processing takes less than that.                     *)
LeftAlone(r) ==
  \/ fileRequest[r].file.pdf = "DONE"
  \/ fileRequest[r].file.pdf = "PROCESSING" /\ \E s \in FileRequests : Processes(s, KeyOf(r))

FinalizeNothing(r) ==
  /\ fileRequest[r].pc = "finalizing" /\ LeftAlone(r)
  /\ Leaves(r)
  /\ UNCHANGED <<owner, large, bucket, openParts, urls, pendingUploads, partSessions,
                 file, retained, deletionJobs, deleting, overwritten, strayed, s3Faults>>

BeginProcessing(r) ==
  LET row == [fileRequest[r].file EXCEPT !.pdf = "PROCESSING"]
  IN /\ fileRequest[r].pc = "finalizing" /\ ~LeftAlone(r)
     /\ FileSaved(r, row)
     /\ fileRequest' = [fileRequest EXCEPT ![r].pc = "reading", ![r].file = row]
     /\ UNCHANGED <<owner, large, bucket, openParts, urls, pendingUploads, partSessions,
                    retained, deletionJobs, deleting, strayed, s3Faults>>

(* processUploadedPdf: the object is read; linearized, it replaces itself.     *)
ReadPdf(r) ==
  /\ fileRequest[r].pc = "reading"
  /\ \/ KeyOf(r) \in bucket /\ (Goes(r, "linearizing") \/ Goes(r, "pdfdone"))
     \/ Goes(r, "pdffailed")
  /\ UNCHANGED <<owner, large, bucket, openParts, urls, pendingUploads, partSessions,
                 file, retained, deletionJobs, deleting, overwritten, strayed, s3Faults>>

ReplacePdf(r) ==
  /\ fileRequest[r].pc = "linearizing"
  /\ bucket' = bucket \union {KeyOf(r)}
  /\ Goes(r, "pdfdone")
  /\ UNCHANGED <<owner, large, openParts, urls, pendingUploads, partSessions, file,
                 retained, deletionJobs, deleting, overwritten, strayed, s3Faults>>

SavePdf(r) ==
  LET copy == fileRequest[r].file
  IN /\ \/ fileRequest[r].pc = "pdfdone" /\ FileSaved(r, [copy EXCEPT !.pdf = "DONE"])
        \/ /\ fileRequest[r].pc = "pdffailed"
           /\ FileSaved(r, [copy EXCEPT !.pdf = "FAILED",
                              !.status = IF fileRequest[r].confirms THEN "FAILED" ELSE @])
     /\ Leaves(r)
     /\ UNCHANGED <<owner, large, bucket, openParts, urls, pendingUploads, partSessions,
                    retained, deletionJobs, deleting, strayed, s3Faults>>

(* archiveFile, by the owner: loaded, then saved.                              *)
LoadToArchive(r, k) ==
  /\ owner /\ IsIdle(r) /\ file[k].owned /\ file[k].status \notin {"NONE", "ARCHIVED"}
  /\ fileRequest' = [fileRequest EXCEPT ![r] = [Waiting EXCEPT !.pc = "archiving", !.key = k,
                                                              !.file = file[k]]]
  /\ UNCHANGED <<owner, large, bucket, openParts, urls, pendingUploads, partSessions,
                 file, retained, deletionJobs, deleting, overwritten, strayed, s3Faults>>

ArchiveFile(r) ==
  /\ fileRequest[r].pc = "archiving"
  /\ FileSaved(r, [fileRequest[r].file EXCEPT !.status = "ARCHIVED"])
  /\ Leaves(r)
  /\ UNCHANGED <<owner, large, bucket, openParts, urls, pendingUploads, partSessions,
                 retained, deletionJobs, deleting, strayed, s3Faults>>

(* A message, a report, a lesson or an exam answer refers to the file.         *)
ReferToFile(k) ==
  /\ owner /\ file[k].status = "UPLOADED" /\ k \notin retained
  /\ retained' = retained \union {k}
  /\ UNCHANGED <<owner, large, bucket, openParts, urls, pendingUploads, partSessions,
                 file, deletionJobs, deleting, fileRequest, overwritten, strayed,
                 s3Faults>>

(* The request dies, or what it calls throws.                                  *)
RequestDies(r) ==
  /\ ~IsIdle(r) /\ Leaves(r)
  /\ strayed' = IF fileRequest[r].pc = "initiated" THEN strayed \union {KeyOf(r)}
                   ELSE strayed
  /\ UNCHANGED <<owner, large, bucket, openParts, urls, pendingUploads, partSessions,
                 file, retained, deletionJobs, deleting, overwritten, s3Faults>>

-----------------------------------------------------------------------------
(* The account's deletion and the queue *)

(* collectUserStorageDeletionPlan and queueUserStorageDeletion, in the         *)
(* transaction that deletes the user: every object and open upload of the user *)
(* gets a job, but for the files others refer to; the rows of uploads go.      *)
Owned == {k \in Keys : file[k].owned}

\* Mutant of Deletable: files of others' messages and records go as well.
DeletableAll == Owned

Deletable == Owned \ retained
Uploading == {k \in Keys : partSessions[k] # "NONE"}

\* Mutant of PlannedJobs: what is still being uploaded is forgotten.
PlansFilesOnly == {"OBJECT"} \X Deletable

PlannedJobs ==
  ({"OBJECT"} \X (Deletable \union Uploading \union pendingUploads)) \union ({"MULTIPART"} \X Uploading)

DeleteAccount ==
  /\ owner /\ owner' = FALSE
  /\ deletionJobs' = deletionJobs \union PlannedJobs
  /\ partSessions' = [k \in Keys |-> "NONE"]
  /\ pendingUploads' = {}
  /\ file' = [k \in Keys |->
       IF k \in Deletable THEN [file[k] EXCEPT !.status = "ARCHIVED", !.owned = FALSE]
       ELSE [file[k] EXCEPT !.owned = FALSE]]
  /\ UNCHANGED <<large, bucket, openParts, urls, retained, deleting, fileRequest,
                 overwritten, strayed, s3Faults>>

\* Mutant of IsDue: an object is deleted at once, while its URL is still valid.
DueAtOnce(job) == job[1] \in {"MULTIPART", "OBJECT"}

\* Mutant of IsDue: the delayed jobs are never due.
ObjectsNeverDue(job) == job[1] = "MULTIPART"

(* A multipart upload is aborted at once; an object waits for an hour, or for  *)
(* the end of its URL: by then the requests the user had in flight are over.   *)
IsDue(job) ==
  \/ job[1] = "MULTIPART"
  \/ job[1] = "OBJECT" /\ job[2] \notin urls /\ ~Concerns(job[2])

(* claimNextJob: one pass at a time; a lock older than ten minutes is void.    *)
ClaimJob(job) ==
  /\ deleting = Idling /\ job \in deletionJobs /\ IsDue(job)
  /\ deleting' = [job |-> job, done |-> FALSE]
  /\ UNCHANGED <<owner, large, bucket, openParts, urls, pendingUploads, partSessions,
                 file, retained, deletionJobs, fileRequest, overwritten, strayed,
                 s3Faults>>

(* processJob: first S3, then the job's row.                                   *)
DeleteAtS3 ==
  LET job == deleting.job
  IN /\ job # NoJob /\ ~deleting.done
     /\ bucket' = IF job[1] = "OBJECT" THEN bucket \ {job[2]} ELSE bucket
     /\ openParts' = IF job[1] = "MULTIPART" THEN openParts \ {job[2]} ELSE openParts
     /\ deleting' = [deleting EXCEPT !.done = TRUE]
     /\ UNCHANGED <<owner, large, urls, pendingUploads, partSessions, file, retained,
                    deletionJobs, fileRequest, overwritten, strayed, s3Faults>>

FinishJob ==
  /\ deleting.done
  /\ deletionJobs' = deletionJobs \ {deleting.job}
  /\ deleting' = Idling
  /\ UNCHANGED <<owner, large, bucket, openParts, urls, pendingUploads, partSessions,
                 file, retained, fileRequest, overwritten, strayed, s3Faults>>

(* S3 throws, or the server stops: the job is tried again later.               *)
JobFails ==
  /\ deleting # Idling /\ deleting' = Idling
  /\ s3Faults < MaxS3Faults /\ s3Faults' = s3Faults + 1
  /\ UNCHANGED <<owner, large, bucket, openParts, urls, pendingUploads, partSessions,
                 file, retained, deletionJobs, fileRequest, overwritten, strayed>>

RequestGoesOn(r) ==
  \/ UploadBuffer(r) \/ SaveSession(r) \/ SaveSessionFails(r) \/ SessionExpired(r)
  \/ CompleteAtS3(r) \/ AbortAtS3(r) \/ CloseSession(r) \/ PersistUploadedFile(r)
  \/ PersistRefused(r) \/ FinalizeNothing(r) \/ BeginProcessing(r) \/ ReadPdf(r)
  \/ ReplacePdf(r) \/ SavePdf(r) \/ ArchiveFile(r) \/ RequestDies(r)

FilesNext ==
  \/ \E k \in Keys : CreateSignedUploadUrl(k) \/ ClientPuts(k) \/ UrlExpires(k) \/ ReferToFile(k)
  \/ \E r \in FileRequests, k \in Keys :
       PrepareBuffer(r, k) \/ ConfirmUpload(r, k) \/ InitiateAtS3(r, k) \/ LoadToComplete(r, k)
         \/ LoadToAbort(r, k) \/ ReadFile(r, k) \/ LoadToArchive(r, k)
  \/ \E r \in FileRequests : RequestGoesOn(r)
  \/ DeleteAccount
  \/ \E job \in deletionJobs : ClaimJob(job)
  \/ DeleteAtS3 \/ FinishJob \/ JobFails

FilesSpec == FilesInit /\ [][FilesNext]_fileVars

(* Requests end and URLs expire, and the cron job comes by twice a minute.     *)
FilesFairness ==
  /\ \A r \in FileRequests : WF_fileVars(RequestGoesOn(r))
  /\ \A k \in Keys : WF_fileVars(UrlExpires(k))
  /\ WF_fileVars(\E job \in deletionJobs : ClaimJob(job))
  /\ WF_fileVars(DeleteAtS3) /\ WF_fileVars(FinishJob)

FairFilesSpec == FilesSpec /\ FilesFairness

-----------------------------------------------------------------------------
(* Correctness *)

FileStatuses == {"NONE", "UPLOADED", "FAILED", "ARCHIVED"}
FileRows == [status : FileStatuses, owned : BOOLEAN,
             pdf : {"NONE", "PENDING", "PROCESSING", "DONE", "FAILED"}]

FilesTypeOK ==
  /\ owner \in BOOLEAN /\ large \subseteq Keys
  /\ bucket \union openParts \union urls \union pendingUploads \union retained \subseteq Keys
  /\ partSessions \in [Keys -> {"NONE", "INITIATED", "COMPLETED", "ABORTED", "EXPIRED"}]
  /\ file \in [Keys -> FileRows]
  /\ deletionJobs \subseteq {"OBJECT", "MULTIPART"} \X Keys
  /\ deleting.job \in deletionJobs \union {NoJob} /\ deleting.done \in BOOLEAN
  /\ \A r \in FileRequests : IsIdle(r) <=> KeyOf(r) = NoKey
  /\ overwritten \union strayed \subseteq Keys

(* What the deletion of the account leaves: an object that nobody else refers  *)
(* to goes, or a job is there to remove it, whatever was being uploaded at the *)
(* time; and so with an upload S3 holds open. A session row saved from a stale *)
(* copy, or for a user deleted meanwhile, has no job.                          *)
NothingIsLeft ==
  ~owner =>
    /\ \A k \in bucket \ (retained \union overwritten) : <<"OBJECT", k>> \in deletionJobs
    /\ \A k \in openParts :
         \/ <<"MULTIPART", k>> \in deletionJobs
         \/ k \in strayed
         \/ Concerns(k)

(* A file that can be read has its object, and so has one that others refer    *)
(* to, whatever becomes of the account - unless it was uploaded in parts,      *)
(* whose objects are all condemned, or a stale copy was saved over its         *)
(* archival.                                                                   *)
ReadableIsStored ==
  \A k \in Keys : k \in retained \/ file[k].status = "UPLOADED" =>
    k \in bucket \/ (~owner /\ k \in large) \/ k \in overwritten \ retained

(* Every upload is accounted for once: a pending row or a file, not both; a    *)
(* completed session has its file, and a file uploaded in parts a completed    *)
(* session as long as the account exists and no abort was saved over it.       *)
UploadsAccounted ==
  \A k \in Keys :
    /\ ~ (k \in pendingUploads /\ HasFile(k))
    /\ partSessions[k] = "COMPLETED" => HasFile(k)
    /\ owner /\ k \in large /\ HasFile(k) => partSessions[k] = "COMPLETED" \/ k \in strayed
    /\ ~owner /\ file[k].owned => k \in overwritten

(* The user's files and their objects stay in step.                            *)
UploadsConsistent == FilesTypeOK /\ NothingIsLeft /\ ReadableIsStored /\ UploadsAccounted

(* Once the account is deleted, what is stored for it and nobody else refers   *)
(* to goes in the end, however often S3 fails or the server stops, and what a  *)
(* late request or a valid URL adds goes as well.                              *)
ErasedFor(k) ==
  (k \in bucket => k \in retained \union overwritten) /\ (k \in openParts => k \in strayed)

StorageIsErased == []<>(owner \/ \A k \in Keys : ErasedFor(k))
=============================================================================
