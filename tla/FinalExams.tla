------------------------------ MODULE FinalExams ------------------------------
(* The final examination of one learner in one course and what follows from    *)
(* it: attempts, answers, the verdicts of administrators, and certificates     *)
(* (module-2/final-exam, module-2/certificates). No operation holds a          *)
(* transaction or a lock: each reads rows, checks them, and later saves whole  *)
(* copies; only unique indexes stand between two requests. Every database call *)
(* that reads what another request may change, and every save, is a step.      *)
EXTENDS Integers

CONSTANTS
  MaxExamAttempts,    \* bound: attempts the learner makes
  ExamQuestions,      \* automatically graded questions
  Examiners,          \* requests in flight, the learner's and the administrators'
  MaxExamRequests,    \* bound: requests made
  MaxExamFaults       \* bound: requests that die half-way

ASSUME ExamsAssumption ==
  MaxExamAttempts \in Nat /\ MaxExamRequests \in Nat /\ MaxExamFaults \in Nat

ExamAttempts == 1..MaxExamAttempts     \* in the order of createdAt
NoAttempt == 0
Verdicts == {"PASSED", "RETAKE_REQUIRED"}

VARIABLES
  attempt,            \* exam_attempts.status, "NONE" before the row exists
  answerRows,         \* rows of exam_answers per attempt and question
  review,             \* exam_reviews.verdict, "NONE" before the row exists
  certificate,        \* certificates.status, "NONE" without a row
  manualReview,       \* the examination has sections a teacher reviews
  examiner,           \* what a request holds between two calls
  examRequests,       \* requests made
  examFaults,         \* requests that died
  disturbed,          \* history: attempts on which two requests overlapped or one died
  approved,           \* history: attempts after which a retake was allowed
  issuedDirectly      \* history: certificates issued past the evaluation

examVars == <<attempt, answerRows, review, certificate, manualReview, examiner,
              examRequests, examFaults, disturbed, approved, issuedDirectly>>
examRows == <<attempt, answerRows, review, certificate>>
examHistory == <<examFaults, disturbed, approved, issuedDirectly>>

Off == [pc |-> "idle", on |-> NoAttempt, about |-> "none", issue |-> FALSE]

ActiveStatuses == {"IN_PROGRESS", "SUBMITTED", "UNDER_REVIEW"}
Latest == CHOOSE n \in 0..MaxExamAttempts :
            /\ n = 0 \/ attempt[n] # "NONE"
            /\ \A a \in ExamAttempts : attempt[a] # "NONE" => a <= n

ExamInit ==
  /\ attempt = [a \in ExamAttempts |-> "NONE"]
  /\ answerRows = [a \in ExamAttempts |-> [q \in ExamQuestions |-> 0]]
  /\ review = [a \in ExamAttempts |-> "NONE"]
  /\ certificate = [a \in ExamAttempts |-> "NONE"]
  /\ manualReview \in BOOLEAN
  /\ examiner = [r \in Examiners |-> Off]
  /\ examRequests = 0 /\ examFaults = 0
  /\ disturbed = {} /\ approved = {} /\ issuedDirectly = {}

-----------------------------------------------------------------------------
(* Steps of requests *)

Turns(r, state) == examiner' = [examiner EXCEPT ![r] = state]
Continues(r, pc) == examiner' = [examiner EXCEPT ![r].pc = pc]
WorksOn(r, a) == examiner[r].pc # "idle" /\ examiner[r].on = a

(* A request arrives and makes its first read. *)
Asks(r, state) ==
  /\ examiner[r].pc = "idle" /\ examRequests < MaxExamRequests
  /\ examRequests' = examRequests + 1
  /\ Turns(r, state)
  /\ UNCHANGED <<examRows, manualReview, examHistory>>

(* What every save remembers: was another request working on the attempt?      *)
Disturbs(r, a) ==
  disturbed' = disturbed \union {b \in {a} : \E other \in Examiners \ {r} : WorksOn(other, b)}

(* UQ_exam_attempt_active_user_exam: of the learner's attempts one is active.  *)
IndexAllows(a, status) ==
  status \in ActiveStatuses => \A b \in ExamAttempts \ {a} : attempt[b] \notin ActiveStatuses

(* A save of the attempt's row, which ends the request or goes on. *)
SavesAttempt(r, a, status, next) ==
  /\ IF IndexAllows(a, status)
     THEN /\ attempt' = [attempt EXCEPT ![a] = status]
          /\ approved' = approved \union {b \in {a} : status = "RETAKE_REQUESTED"}
          /\ Turns(r, next)
     ELSE Turns(r, Off) /\ UNCHANGED <<attempt, approved>>
  /\ Disturbs(r, a)
  /\ UNCHANGED <<answerRows, review, certificate, manualReview, examRequests, examFaults,
                 issuedDirectly>>

-----------------------------------------------------------------------------
(* The learner *)

\* Mutant of MayStart: whatever became of the latest attempt.
MayStartAgain == Latest # NoAttempt => attempt[Latest] \notin ActiveStatuses

MayStart == Latest # NoAttempt => attempt[Latest] = "RETAKE_REQUESTED"

StartAttempt(r) ==
  /\ MayStart /\ Latest < MaxExamAttempts
  /\ Asks(r, [Off EXCEPT !.pc = "start", !.on = Latest])

(* The row that is inserted is the next one, also when another request has     *)
(* inserted one since this request read the latest.                            *)
InsertAttempt(r) ==
  LET new == Latest + 1
  IN /\ examiner[r].pc = "start" /\ new \in ExamAttempts
     /\ Turns(r, Off)
     /\ attempt' = IF IndexAllows(new, "IN_PROGRESS")
                   THEN [attempt EXCEPT ![new] = "IN_PROGRESS"] ELSE attempt
     /\ disturbed' = IF examiner[r].on = Latest THEN disturbed ELSE disturbed \union {new}
     /\ UNCHANGED <<answerRows, review, certificate, manualReview, examRequests,
                    examFaults, approved, issuedDirectly>>

(* submitAnswer: the attempt is read, the question's answer deleted, a new one *)
(* inserted.                                                                   *)
SubmitAnswer(r, a, q) ==
  /\ attempt[a] = "IN_PROGRESS"
  /\ Asks(r, [Off EXCEPT !.pc = "delete", !.on = a, !.about = q])

\* Mutant of DeleteAnswer: the earlier answer is kept.
DeleteNothing(r) ==
  /\ examiner[r].pc = "delete"
  /\ Continues(r, "answer")
  /\ Disturbs(r, examiner[r].on)
  /\ UNCHANGED <<examRows, manualReview, examRequests, examFaults, approved,
                 issuedDirectly>>

DeleteAnswer(r) ==
  /\ examiner[r].pc = "delete"
  /\ answerRows' = [answerRows EXCEPT ![examiner[r].on][examiner[r].about] = 0]
  /\ Continues(r, "answer")
  /\ Disturbs(r, examiner[r].on)
  /\ UNCHANGED <<attempt, review, certificate, manualReview, examRequests, examFaults,
                 approved, issuedDirectly>>

InsertAnswer(r) ==
  /\ examiner[r].pc = "answer"
  /\ answerRows' = [answerRows EXCEPT ![examiner[r].on][examiner[r].about] = @ + 1]
  /\ Turns(r, Off)
  /\ Disturbs(r, examiner[r].on)
  /\ UNCHANGED <<attempt, review, certificate, manualReview, examRequests, examFaults,
                 approved, issuedDirectly>>

SubmitAttempt(r, a) ==
  /\ attempt[a] = "IN_PROGRESS"
  /\ Asks(r, [Off EXCEPT !.pc = "submit", !.on = a])

SaveSubmitted(r) ==
  /\ examiner[r].pc = "submit"
  /\ SavesAttempt(r, examiner[r].on, IF manualReview THEN "UNDER_REVIEW" ELSE "EVALUATED", Off)

-----------------------------------------------------------------------------
(* Verdicts *)

\* Mutant of Reopenable: a certified examination is reopened like any other.
ReopenableAlways == {"EVALUATED", "RETAKE_REQUESTED", "CERTIFICATE_ISSUED"}

Reopenable == {"EVALUATED", "RETAKE_REQUESTED"}

ReopenEvaluation(r, a) ==
  /\ attempt[a] \in Reopenable
  /\ Asks(r, [Off EXCEPT !.pc = "reopen", !.on = a])

SaveReopened(r) ==
  /\ examiner[r].pc = "reopen"
  /\ SavesAttempt(r, examiner[r].on, "UNDER_REVIEW", Off)

(* giveFinalVerdict, and requestRetake with the verdict RETAKE_REQUIRED. *)
GiveFinalVerdict(r, a, verdict, issue) ==
  /\ attempt[a] \in {"UNDER_REVIEW", "EVALUATED", "RETAKE_REQUESTED"}
  /\ issue => verdict = "PASSED"
  /\ Asks(r, [pc |-> "find", on |-> a, about |-> verdict, issue |-> issue])

FindReview(r) ==
  /\ examiner[r].pc = "find"
  /\ Continues(r, IF review[examiner[r].on] = "NONE" THEN "create" ELSE "update")
  /\ UNCHANGED <<examRows, manualReview, examRequests, examHistory>>

(* One review per attempt: the second request that creates one fails. *)
SaveReview(r) ==
  LET a == examiner[r].on
      fails == examiner[r].pc = "create" /\ review[a] # "NONE"
  IN /\ examiner[r].pc \in {"create", "update"}
     /\ IF fails
        THEN Turns(r, Off) /\ UNCHANGED review
        ELSE /\ review' = [review EXCEPT ![a] = examiner[r].about]
             /\ Continues(r, "verdict")
     /\ Disturbs(r, a)
     /\ UNCHANGED <<attempt, answerRows, certificate, manualReview, examRequests,
                    examFaults, approved, issuedDirectly>>

\* Mutant of StatusAfter: a retake leaves the examination evaluated.
StatusAlwaysEvaluated(verdict) == "EVALUATED"

StatusAfter(verdict) == IF verdict = "PASSED" THEN "EVALUATED" ELSE "RETAKE_REQUESTED"

SaveVerdict(r) ==
  /\ examiner[r].pc = "verdict"
  /\ SavesAttempt(r, examiner[r].on, StatusAfter(examiner[r].about),
       IF examiner[r].issue THEN [examiner[r] EXCEPT !.pc = "issue"] ELSE Off)

-----------------------------------------------------------------------------
(* Certificates *)

(* The evaluation's endpoint; the certificates' own endpoint skips its check   *)
(* and leaves the attempt alone.                                               *)
IssueCertificate(r, a) ==
  /\ attempt[a] # "NONE"
  /\ Asks(r, [Off EXCEPT !.pc = "issue", !.on = a, !.issue = TRUE])

IssueDirectly(r, a) ==
  /\ attempt[a] # "NONE"
  /\ Asks(r, [Off EXCEPT !.pc = "check", !.on = a])

CheckReview(r) ==
  /\ examiner[r].pc = "issue"
  /\ IF review[examiner[r].on] = "PASSED" THEN Continues(r, "check") ELSE Turns(r, Off)
  /\ UNCHANGED <<examRows, manualReview, examRequests, examHistory>>

CheckCertificate(r) ==
  LET a == examiner[r].on
  IN /\ examiner[r].pc = "check"
     /\ IF certificate[a] = "NONE" /\ review[a] = "PASSED"
        THEN Continues(r, "certify") ELSE Turns(r, Off)
     /\ UNCHANGED <<examRows, manualReview, examRequests, examHistory>>

(* One certificate per attempt. *)
InsertCertificate(r) ==
  LET a == examiner[r].on
  IN /\ examiner[r].pc = "certify"
     /\ IF certificate[a] # "NONE"
        THEN Turns(r, Off) /\ UNCHANGED <<certificate, issuedDirectly>>
        ELSE /\ certificate' = [certificate EXCEPT ![a] = "ISSUED"]
             /\ issuedDirectly' = IF examiner[r].issue THEN issuedDirectly \ {a}
                                  ELSE issuedDirectly \union {a}
             /\ Continues(r, "url")
     /\ Disturbs(r, a)
     /\ UNCHANGED <<attempt, answerRows, review, manualReview, examRequests, examFaults,
                    approved>>

SavesCertificate(r, a, status) ==
  /\ certificate' = [certificate EXCEPT ![a] = status]
  /\ Disturbs(r, a)
  /\ UNCHANGED <<attempt, answerRows, review, manualReview, examRequests, examFaults,
                 approved, issuedDirectly>>

(* The copy that was inserted is saved with its address and, unless a PDF was  *)
(* supplied, again when the PDF has been made: ISSUED both times.              *)
SaveCertificate(r) ==
  /\ \/ examiner[r].pc = "url" /\ Continues(r, "pdf")
     \/ /\ examiner[r].pc \in {"url", "pdf"}
        /\ IF examiner[r].issue THEN Continues(r, "issued") ELSE Turns(r, Off)
  /\ SavesCertificate(r, examiner[r].on, "ISSUED")

GenerationFails(r) ==
  /\ examiner[r].pc \in {"url", "pdf"}
  /\ Turns(r, Off)
  /\ SavesCertificate(r, examiner[r].on, "NONE")

MarkIssued(r) ==
  /\ examiner[r].pc = "issued"
  /\ SavesAttempt(r, examiner[r].on, "CERTIFICATE_ISSUED", Off)

RegenerateCertificatePdf(r, a) ==
  /\ certificate[a] = "ISSUED"
  /\ Asks(r, [Off EXCEPT !.pc = "regenerate", !.on = a])

SaveRegenerated(r) ==
  /\ examiner[r].pc = "regenerate"
  /\ Turns(r, Off)
  /\ SavesCertificate(r, examiner[r].on, "ISSUED")

RevokeCertificate(r, a) ==
  /\ certificate[a] = "ISSUED"
  /\ Asks(r, [Off EXCEPT !.pc = "revoke", !.on = a])

SaveRevoked(r) ==
  /\ examiner[r].pc = "revoke"
  /\ Turns(r, Off)
  /\ SavesCertificate(r, examiner[r].on, "REVOKED")

(* The process or the connection of a request goes away. *)
ExamRequestDies(r) ==
  /\ examiner[r].pc # "idle" /\ examFaults < MaxExamFaults
  /\ examFaults' = examFaults + 1
  /\ disturbed' = disturbed \union ({examiner[r].on} \ {NoAttempt})
  /\ Turns(r, Off)
  /\ UNCHANGED <<examRows, manualReview, examRequests, approved, issuedDirectly>>

-----------------------------------------------------------------------------
ExamNext ==
  \E r \in Examiners :
    \/ StartAttempt(r) \/ InsertAttempt(r)
    \/ \E a \in ExamAttempts :
         \/ \E q \in ExamQuestions : SubmitAnswer(r, a, q)
         \/ SubmitAttempt(r, a)
         \/ ReopenEvaluation(r, a)
         \/ \E v \in Verdicts, issue \in BOOLEAN : GiveFinalVerdict(r, a, v, issue)
         \/ IssueCertificate(r, a) \/ IssueDirectly(r, a)
         \/ RegenerateCertificatePdf(r, a) \/ RevokeCertificate(r, a)
    \/ DeleteAnswer(r) \/ InsertAnswer(r) \/ SaveSubmitted(r)
    \/ SaveReopened(r) \/ FindReview(r) \/ SaveReview(r) \/ SaveVerdict(r)
    \/ CheckReview(r) \/ CheckCertificate(r) \/ InsertCertificate(r)
    \/ SaveCertificate(r) \/ GenerationFails(r) \/ MarkIssued(r)
    \/ SaveRegenerated(r) \/ SaveRevoked(r)
    \/ ExamRequestDies(r)

ExamSpec == ExamInit /\ [][ExamNext]_examVars

-----------------------------------------------------------------------------
(* Properties *)

ExamTypeOK ==
  /\ attempt \in [ExamAttempts -> ActiveStatuses \union
       {"NONE", "EVALUATED", "RETAKE_REQUESTED", "CERTIFICATE_ISSUED"}]
  /\ answerRows \in [ExamAttempts -> [ExamQuestions -> Nat]]
  /\ review \in [ExamAttempts -> Verdicts \union {"NONE"}]
  /\ certificate \in [ExamAttempts -> {"NONE", "ISSUED", "REVOKED"}]
  /\ manualReview \in BOOLEAN
  /\ \A r \in Examiners : examiner[r].on \in ExamAttempts \union {NoAttempt}
  /\ examRequests \in 0..MaxExamRequests /\ examFaults \in 0..MaxExamFaults
  /\ disturbed \subseteq ExamAttempts /\ approved \subseteq ExamAttempts
  /\ issuedDirectly \subseteq ExamAttempts

Untouched(a) == a \notin disturbed /\ \A r \in Examiners : ~WorksOn(r, a)

\* However requests interleave and die, only a submitted examination has a
\* review, only a reviewed one a certificate, and no attempt starts before the
\* previous one was submitted. Where the requests for an attempt came one after
\* the other, its status agrees with its review, a question has one answer, the
\* next attempt was allowed, and a certificate that the evaluation issued tells
\* of a passed examination which can no longer be judged anew (submitAnswer,
\* giveFinalVerdict, requestRetake, reopenEvaluation, issueCertificate).
ExamsConsistent ==
  /\ ExamTypeOK
  /\ \A a \in ExamAttempts :
       /\ review[a] # "NONE" => attempt[a] \notin {"NONE", "IN_PROGRESS"}
       /\ certificate[a] # "NONE" => review[a] # "NONE"
       /\ a > 1 /\ attempt[a] # "NONE" => attempt[a - 1] \notin {"NONE", "IN_PROGRESS"}
  /\ \A a \in {b \in ExamAttempts : Untouched(b)} :
       /\ attempt[a] = "RETAKE_REQUESTED" => review[a] = "RETAKE_REQUIRED"
       /\ attempt[a] = "EVALUATED" => review[a] # "RETAKE_REQUIRED"
       /\ attempt[a] = "CERTIFICATE_ISSUED" => certificate[a] # "NONE"
       /\ certificate[a] # "NONE" /\ a \notin issuedDirectly =>
            attempt[a] = "CERTIFICATE_ISSUED" /\ review[a] = "PASSED"
       /\ \A q \in ExamQuestions : answerRows[a][q] <= 1
       /\ a > 1 /\ attempt[a] # "NONE" /\ a - 1 \notin disturbed => a - 1 \in approved
=============================================================================
