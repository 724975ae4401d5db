---------------------------- MODULE CvGenerations -----------------------------
(* The making of CV images: one user's generations with what they cost         *)
(* (cv-generations/services/cv-generations.service.ts) and the assistant       *)
(* session that asks for one (cv-assistant/services/cv-assistant.service.ts).  *)
(* A charge and the generation it pays for are one transaction, and so are a   *)
(* failure and its refund; the session is read once per request and saved as   *)
(* a whole, and the image is made by a promise nobody waits for.               *)
EXTENDS Integers, FiniteSets

CONSTANTS
  Generations,        \* identifiers of generations
  CvRequests,         \* requests about the session in flight
  FreeGenerations,    \* what the wallet holds at the start: free creations ...
  PaidCredits,        \* ... and purchased credits
  MaxCvRequests,      \* bound: requests made
  MaxCvFaults,        \* bound: requests and workers that die, answers lost
  NoGeneration

ASSUME CvAssumption ==
  /\ FreeGenerations \in Nat /\ PaidCredits \in Nat
  /\ MaxCvRequests \in Nat /\ MaxCvFaults \in Nat

VARIABLES
  cvSession,          \* cv_assistant_sessions: status and generationId
  generation,         \* cv_generations; a deleted one keeps its history
  cvWallet,           \* freeCvGenerationsRemaining and cvCredits
  editing,            \* the session edits an earlier CV, and editing is free
  making,             \* processGeneration of a generation
  cvRequest,          \* what a request holds between two calls
  cvRequested, cvFaults,
  cvOverlap           \* history: a request overlapped with another, or died

cvVars == <<cvSession, generation, cvWallet, editing, making, cvRequest, cvRequested,
            cvFaults, cvOverlap>>

Unmade == [status |-> "NONE", charge |-> "NONE", refunded |-> FALSE, assisted |-> FALSE]
Away == [pc |-> "idle", kind |-> "none", status |-> "ACTIVE", made |-> NoGeneration]
Live(g) == generation[g].status \in {"PROCESSING", "COMPLETED"}

(* createSession, startGenerationEdit: a session begins ACTIVE.                *)
CvInit ==
  /\ cvSession = [status |-> "ACTIVE", made |-> NoGeneration]
  /\ generation = [g \in Generations |-> Unmade]
  /\ cvWallet = [FREE |-> FreeGenerations, PAID |-> PaidCredits]
  /\ editing \in BOOLEAN
  /\ making = [g \in Generations |-> "none"]
  /\ cvRequest = [r \in CvRequests |-> Away]
  /\ cvRequested = 0 /\ cvFaults = 0 /\ cvOverlap = FALSE

-----------------------------------------------------------------------------
(* Charging *)

Charges == {"FREE", "PAID"}

(* consumeCvGenerationAccess, under the wallet's lock: the free creations      *)
(* first; "NONE" when the wallet is empty.                                     *)
ChargeSource ==
  IF cvWallet.FREE > 0 THEN "FREE" ELSE IF cvWallet.PAID > 0 THEN "PAID" ELSE "NONE"

(* UQ_cv_generations_active_assistant_session *)
SessionTaken(g) == \E h \in Generations \ {g} : generation[h].assisted /\ Live(h)

(* createProcessingGeneration: charge and row, or neither. *)
Charged(g, source, assisted) ==
  /\ generation' = [generation EXCEPT ![g] =
       [status |-> "PROCESSING", charge |-> source, refunded |-> FALSE, assisted |-> assisted]]
  /\ cvWallet' = IF source = "NONE" THEN cvWallet ELSE [cvWallet EXCEPT ![source] = @ - 1]
  /\ making' = [making EXCEPT ![g] = "running"]

(* create (a form) and regenerate (of a finished CV, free where editing is). *)
CreateGeneration(g, again) ==
  LET free == again /\ editing
  IN /\ generation[g].status = "NONE"
     /\ again => \E h \in Generations : generation[h].status = "COMPLETED"
     /\ ~free => ChargeSource # "NONE"
     /\ Charged(g, IF free THEN "NONE" ELSE ChargeSource, FALSE)
     /\ UNCHANGED <<cvSession, editing, cvRequest, cvRequested, cvFaults, cvOverlap>>

(* delete: the row goes, whatever the generation is doing, and no refund. *)
DeleteGeneration(g) ==
  /\ generation[g].status \notin {"NONE", "DELETED"}
  /\ generation' = [generation EXCEPT ![g].status = "DELETED"]
  /\ UNCHANGED <<cvSession, cvWallet, editing, making, cvRequest, cvRequested, cvFaults,
                 cvOverlap>>

-----------------------------------------------------------------------------
(* processGeneration *)

(* The copy is saved as COMPLETED: a row that was deleted meanwhile comes back *)
(* unless its session has another one now.                                     *)
CompleteGeneration(g) ==
  LET fits == generation[g].assisted => ~SessionTaken(g)
  IN /\ making[g] = "running"
     /\ generation' = IF fits THEN [generation EXCEPT ![g].status = "COMPLETED"] ELSE generation
     /\ making' = [making EXCEPT ![g] = IF fits THEN "none" ELSE "failing"]
     /\ UNCHANGED <<cvSession, cvWallet, editing, cvRequest, cvRequested, cvFaults, cvOverlap>>

(* The row is saved and the answer of the database is lost. *)
CompletionUnanswered(g) ==
  /\ making[g] = "running" /\ generation[g].status = "PROCESSING"
  /\ cvFaults < MaxCvFaults /\ cvFaults' = cvFaults + 1
  /\ generation' = [generation EXCEPT ![g].status = "COMPLETED"]
  /\ making' = [making EXCEPT ![g] = "failing"]
  /\ UNCHANGED <<cvSession, cvWallet, editing, cvRequest, cvRequested, cvOverlap>>

(* The image model, the upload or a file fails. *)
GenerationThrows(g) ==
  /\ making[g] = "running"
  /\ making' = [making EXCEPT ![g] = "failing"]
  /\ UNCHANGED <<cvSession, generation, cvWallet, editing, cvRequest, cvRequested, cvFaults,
                 cvOverlap>>

\* Mutant of Refundable: the status of the locked row is not looked at.
RefundableAlways(g) == generation[g].status # "DELETED"

Refundable(g) == generation[g].status = "PROCESSING"

(* One transaction holding the generation's row, then the wallet's. *)
FailGenerationAndRefund(g) ==
  LET source == generation[g].charge
      refunds == Refundable(g) /\ source # "NONE" /\ ~generation[g].refunded
  IN /\ making[g] = "failing"
     /\ generation' = IF Refundable(g)
          THEN [generation EXCEPT ![g].status = "FAILED", ![g].refunded = @ \/ refunds]
          ELSE generation
     /\ cvWallet' = IF refunds THEN [cvWallet EXCEPT ![source] = @ + 1] ELSE cvWallet
     /\ making' = [making EXCEPT ![g] = "none"]
     /\ UNCHANGED <<cvSession, editing, cvRequest, cvRequested, cvFaults, cvOverlap>>

(* The process that makes the image stops; nothing takes its work up again. *)
MakerDies(g) ==
  /\ making[g] # "none" /\ cvFaults < MaxCvFaults
  /\ cvFaults' = cvFaults + 1
  /\ making' = [making EXCEPT ![g] = "none"]
  /\ UNCHANGED <<cvSession, generation, cvWallet, editing, cvRequest, cvRequested, cvOverlap>>

-----------------------------------------------------------------------------
(* The assistant's session *)

Copy(r) == [status |-> cvRequest[r].status, made |-> cvRequest[r].made]
InFlight(r) == cvRequest[r].pc # "idle"
Overlaps(r) == cvOverlap' = (cvOverlap \/ \E other \in CvRequests \ {r} : InFlight(other))

(* A request loads the session: getSession, sendMessage or attachAssets,       *)
(* generateCv.                                                                 *)
FindOwnedSession(r, kind) ==
  /\ ~InFlight(r) /\ cvRequested < MaxCvRequests
  /\ cvRequested' = cvRequested + 1
  /\ cvRequest' = [cvRequest EXCEPT ![r] =
       [pc |-> "sync", kind |-> kind, status |-> cvSession.status, made |-> cvSession.made]]
  /\ UNCHANGED <<cvSession, generation, cvWallet, editing, making, cvFaults, cvOverlap>>

(* What a request does once its copy is in step with the generation. *)
AfterSync(kind, copy) ==
  CASE kind = "message" /\ copy.status \in {"ACTIVE", "READY"} -> "plan"
    [] kind = "generate" /\ copy.status = "READY" -> "claim"
    [] OTHER -> "idle"

(* Every request begins with it: a finished generation completes the session,  *)
(* a failed one makes it ready again (restoreSessionReadiness).                *)
SyncGenerationStatus(r) ==
  LET copy == Copy(r)
      found == IF copy.made # NoGeneration /\ copy.status \in {"GENERATING", "COMPLETED"}
               THEN generation[copy.made].status ELSE "NONE"
      synced == CASE found = "COMPLETED" -> [copy EXCEPT !.status = "COMPLETED"]
                  [] found = "FAILED" -> [copy EXCEPT !.status = "READY"]
                  [] OTHER -> copy
      next == AfterSync(cvRequest[r].kind, synced)
  IN /\ cvRequest[r].pc = "sync"
     /\ cvSession' = IF synced = copy THEN cvSession ELSE synced
     /\ IF synced = copy THEN UNCHANGED cvOverlap ELSE Overlaps(r)
     /\ cvRequest' = [cvRequest EXCEPT ![r] = IF next = "idle" THEN Away ELSE
          [@ EXCEPT !.pc = next, !.status = synced.status]]
     /\ UNCHANGED <<generation, cvWallet, editing, making, cvRequested, cvFaults>>

(* sendMessage saves a change of mode and attachAssets the files before the    *)
(* model is asked for the next question.                                       *)
SaveBeforePlan(r) ==
  /\ cvRequest[r].pc = "plan"
  /\ cvSession' = Copy(r)
  /\ Overlaps(r)
  /\ cvRequest' = [cvRequest EXCEPT ![r].pc = "answer"]
  /\ UNCHANGED <<generation, cvWallet, editing, making, cvRequested, cvFaults>>

(* applyTurnPlan, and the copy is saved. *)
ApplyTurnPlan(r, ready) ==
  /\ cvRequest[r].pc \in {"plan", "answer"}
  /\ cvSession' = [Copy(r) EXCEPT !.status = IF ready THEN "READY" ELSE "ACTIVE"]
  /\ Overlaps(r)
  /\ cvRequest' = [cvRequest EXCEPT ![r] = Away]
  /\ UNCHANGED <<generation, cvWallet, editing, making, cvRequested, cvFaults>>

(* The claim is one conditional update. The loser loads the session again,     *)
(* brings it in step and gives up.                                             *)
ClaimSession(r) ==
  LET wins == cvSession.status = "READY"
  IN /\ cvRequest[r].pc = "claim"
     /\ cvSession' = IF wins THEN [cvSession EXCEPT !.status = "GENERATING"] ELSE cvSession
     /\ Overlaps(r)
     /\ cvRequest' = [cvRequest EXCEPT ![r] =
          IF wins THEN [@ EXCEPT !.pc = "create", !.status = "GENERATING"]
          ELSE [pc |-> "sync", kind |-> "poll", status |-> cvSession.status,
                made |-> cvSession.made]]
     /\ UNCHANGED <<generation, cvWallet, editing, making, cvRequested, cvFaults>>

\* Mutant of Created: the charge is committed before the row is inserted.
CreatedAfterCharge(r, g) ==
  /\ cvWallet' = [cvWallet EXCEPT !.FREE = IF editing THEN @ ELSE @ - 1]
  /\ generation' = IF SessionTaken(g) THEN generation ELSE [generation EXCEPT ![g] =
       [status |-> "PROCESSING", charge |-> IF editing THEN "NONE" ELSE "FREE",
        refunded |-> FALSE, assisted |-> TRUE]]
  /\ making' = IF SessionTaken(g) THEN making ELSE [making EXCEPT ![g] = "running"]

(* createFromAssistantSession: the index rolls the charge back with the row. *)
Created(r, g) ==
  /\ ~SessionTaken(g) /\ (editing \/ ChargeSource # "NONE")
  /\ Charged(g, IF editing THEN "NONE" ELSE ChargeSource, TRUE)

CreateFromAssistant(r, g) ==
  /\ cvRequest[r].pc = "create" /\ generation[g].status = "NONE"
  /\ Created(r, g)
  /\ cvRequest' = [cvRequest EXCEPT ![r].pc = "link", ![r].made = g]
  /\ UNCHANGED <<cvSession, editing, cvRequested, cvFaults, cvOverlap>>

(* A file or the template is gone, the wallet is empty, the session is taken. *)
CreateThrows(r) ==
  /\ cvRequest[r].pc = "create"
  /\ cvRequest' = [cvRequest EXCEPT ![r].pc = "restore"]
  /\ UNCHANGED <<cvSession, generation, cvWallet, editing, making, cvRequested, cvFaults,
                 cvOverlap>>

RestoreSessionReadiness(r) ==
  /\ cvRequest[r].pc = "restore"
  /\ cvSession' = [Copy(r) EXCEPT !.status = "READY"]
  /\ Overlaps(r)
  /\ cvRequest' = [cvRequest EXCEPT ![r] = Away]
  /\ UNCHANGED <<generation, cvWallet, editing, making, cvRequested, cvFaults>>

\* Mutant of LinkGeneration: the copy is saved as it was loaded.
LinkNothing(r) ==
  /\ cvRequest[r].pc = "link"
  /\ cvSession' = [cvSession EXCEPT !.status = "READY"]
  /\ Overlaps(r)
  /\ cvRequest' = [cvRequest EXCEPT ![r] = Away]
  /\ UNCHANGED <<generation, cvWallet, editing, making, cvRequested, cvFaults>>

LinkGeneration(r) ==
  /\ cvRequest[r].pc = "link"
  /\ cvSession' = Copy(r)
  /\ Overlaps(r)
  /\ cvRequest' = [cvRequest EXCEPT ![r] = Away]
  /\ UNCHANGED <<generation, cvWallet, editing, making, cvRequested, cvFaults>>

CvRequestDies(r) ==
  /\ InFlight(r) /\ cvFaults < MaxCvFaults
  /\ cvFaults' = cvFaults + 1 /\ cvOverlap' = TRUE
  /\ cvRequest' = [cvRequest EXCEPT ![r] = Away]
  /\ UNCHANGED <<cvSession, generation, cvWallet, editing, making, cvRequested>>

-----------------------------------------------------------------------------
CvNext ==
  \/ \E g \in Generations :
       \/ \E again \in BOOLEAN : CreateGeneration(g, again)
       \/ DeleteGeneration(g) \/ CompleteGeneration(g) \/ CompletionUnanswered(g)
       \/ GenerationThrows(g) \/ FailGenerationAndRefund(g) \/ MakerDies(g)
  \/ \E r \in CvRequests :
       \/ \E kind \in {"poll", "message", "generate"} : FindOwnedSession(r, kind)
       \/ SyncGenerationStatus(r) \/ SaveBeforePlan(r)
       \/ \E ready \in BOOLEAN : ApplyTurnPlan(r, ready)
       \/ ClaimSession(r)
       \/ \E g \in Generations : CreateFromAssistant(r, g)
       \/ CreateThrows(r) \/ RestoreSessionReadiness(r) \/ LinkGeneration(r)
       \/ CvRequestDies(r)

CvSpec == CvInit /\ [][CvNext]_cvVars

-----------------------------------------------------------------------------
(* Properties *)

CvTypeOK ==
  /\ cvSession.status \in {"ACTIVE", "READY", "GENERATING", "COMPLETED"}
  /\ cvSession.made \in Generations \union {NoGeneration}
  /\ generation \in [Generations ->
       [status : {"NONE", "PROCESSING", "COMPLETED", "FAILED", "DELETED"},
        charge : Charges \union {"NONE"}, refunded : BOOLEAN, assisted : BOOLEAN]]
  /\ cvWallet \in [Charges -> Nat]
  /\ editing \in BOOLEAN /\ cvOverlap \in BOOLEAN
  /\ making \in [Generations -> {"none", "running", "failing"}]
  /\ \A r \in CvRequests : cvRequest[r].made \in Generations \union {NoGeneration}
  /\ cvRequested \in 0..MaxCvRequests /\ cvFaults \in 0..MaxCvFaults

Paid(source) == {g \in Generations : generation[g].charge = source /\ ~generation[g].refunded}

\* However requests, deletions, failures and crashes interleave, the wallet has
\* lost exactly what generations cost and got back exactly what the failed ones
\* did, a session has one live generation, and it is COMPLETED only with a
\* finished one; where its requests came one after the other, a live generation
\* is the one it shows, so that asking again returns it
\* (createProcessingGeneration, failGenerationAndRefund, generateCv,
\* syncGenerationStatus).
CvChargesConsistent ==
  /\ CvTypeOK
  /\ cvWallet.FREE + Cardinality(Paid("FREE")) = FreeGenerations
  /\ cvWallet.PAID + Cardinality(Paid("PAID")) = PaidCredits
  /\ \A g \in Generations :
       /\ generation[g].status = "FAILED" => generation[g].refunded \/ generation[g].charge = "NONE"
       /\ generation[g].status \in {"PROCESSING", "COMPLETED"} => ~generation[g].refunded
       /\ generation[g].assisted /\ Live(g) => ~SessionTaken(g)
  /\ cvSession.status = "COMPLETED" =>
       cvSession.made # NoGeneration /\ generation[cvSession.made].status \in {"COMPLETED", "DELETED"}
  /\ ~cvOverlap /\ (\A r \in CvRequests : ~InFlight(r)) =>
       \A g \in Generations : generation[g].assisted /\ Live(g) =>
         cvSession.made = g /\ cvSession.status \in {"GENERATING", "COMPLETED"}
=============================================================================
