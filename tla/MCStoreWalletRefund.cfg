SPECIFICATION WalletSpec
CONSTANTS
  o1 = o1
  o2 = o2
  Resources = {"cv"}
  Orders <- OneOrder
  Rewards = {}
  Gives <- OneGives
  Spenders = {s1}
SYMMETRY Symmetry
INVARIANTS OnlyUnusedIsReversed
CHECK_DEADLOCK FALSE
