---------------------------- MODULE MCStoreRefunds ----------------------------
(* StoreRefunds, FinalExams and CvGenerations side by side, on a small         *)
(* instance for TLC. They share no state; `moving` says which of them a        *)
(* behaviour is about, so that TLC explores the sum of their states, not the   *)
(* product.                                                                    *)
EXTENDS StoreRefunds, FinalExams, CvGenerations, TLC

\* s1 and s2 also stand for the requests of FinalExams and for generations, p1
\* and p2 for the requests of CvGenerations.
Symmetry == Permutations(Orders) \union Permutations(Purchases) \union Permutations(Sessions)

VARIABLE moving

DeskInit ==
  /\ RefundInit /\ ExamInit /\ CvInit
  /\ moving \in {"refunds", "exams", "cvs"}
  \* What rests does so in one of its initial states.
  /\ moving # "exams" => manualReview
  /\ moving # "cvs" => editing

DeskNext ==
  /\ moving' = moving
  /\ \/ moving = "refunds" /\ RefundNext /\ UNCHANGED <<examVars, cvVars>>
     \/ moving = "exams" /\ ExamNext /\ UNCHANGED <<refundAllVars, cvVars>>
     \/ moving = "cvs" /\ CvNext /\ UNCHANGED <<refundAllVars, examVars>>

DeskSpec == DeskInit /\ [][DeskNext]_<<refundAllVars, examVars, cvVars, moving>>
=============================================================================
