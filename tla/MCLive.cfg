SPECIFICATION LiveSpec
CONSTANTS
  Orders = {o1}
  Purchases = {p1}
  Sessions = {s1, s2}
  Refunders = {r1, r2}
  NoOrder = NoOrder
  NoPurchase = NoPurchase
  MaxFaults = 2
  Assets = {a1}
  Workers = {w1, w2}
  NoAsset = NoAsset
  MaxAttempts = 2
  MaxVideoFaults = 2
  MaxRequeues = 1
INVARIANTS VideoConsistent
PROPERTIES PaidIsCredited VoidedIsReversed PublishedStays UploadIsSettled
CHECK_DEADLOCK FALSE
