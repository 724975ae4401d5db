SPECIFICATION CallsSpec
CONSTANTS
  u1 = u1
  u2 = u2
  u3 = u3
  c1 = c1
  c2 = c2
  Users <- MCUsers
  Calls <- MCCalls
  CallerOf <- MCCallerOf
  ReceiverOf <- MCReceiverOf
  NoCall = NoCall
  Requests = {r1, r2}
  MaxCallFaults = 0
PROPERTIES LateTimeoutIsIdempotent
CHECK_DEADLOCK FALSE
