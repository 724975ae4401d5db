SPECIFICATION FairSpec
CONSTANTS
  Sessions = {s1, s2}
  Events = {e1}
  Ticks = {t1}
  NoSession = NoSession
  BatchSize = 1
  MaxAttempts = 2
  MaxFaults = 1
PROPERTIES EndedIsSettled
CHECK_DEADLOCK FALSE
