SPECIFICATION DeskSpec
CONSTANTS
  Orders = {o1}
  Purchases = {p1, p2}
  Sessions = {s1, s2}
  Refunders = {r1, r2, r3}
  NoOrder = NoOrder
  NoPurchase = NoPurchase
  MaxFaults = 2
  MaxExamAttempts = 2
  ExamQuestions = {o1}
  Examiners = {s1, s2}
  MaxExamRequests = 7
  MaxExamFaults = 1
  Generations = {s1, s2}
  CvRequests = {p1, p2}
  FreeGenerations = 1
  PaidCredits = 1
  MaxCvRequests = 4
  MaxCvFaults = 1
  NoGeneration = NoGeneration
SYMMETRY Symmetry
INVARIANTS RefundsConsistent ReversedExactlyOnce ExamsConsistent CvChargesConsistent
PROPERTIES ImplementsLedger
CHECK_DEADLOCK FALSE
