SPECIFICATION QueuesSpec
CONSTANTS
  Events = {e1, e2}
  Workers = {w1, w2}
  Admins = {a1}
  NoEvent = NoEvent
  MaxAttempts = 2
  MaxFaults = 1
  MaxRetries = 1
  Voids = {v1}
  Runners = {r1, r2}
  NoRun = NoRun
  NoVoid = NoVoid
  Overlap = 1
  Horizon = 1
  LastHour = 2
  VoidAttempts = 2
  MaxTroubles = 1
INVARIANTS VoidsConsistent
PROPERTIES NotificationsDoTheirWork StoredIsSettled VoidsAreSettled
CHECK_DEADLOCK FALSE
