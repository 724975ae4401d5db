SPECIFICATION ServedSpec
CONSTANTS
  u1 = u1
  u2 = u2
  u3 = u3
  c1 = c1
  c2 = c2
  Users <- MCUsers
  Calls <- MCCalls
  CallerOf <- MCCallerOf
  ReceiverOf <- MCReceiverOf
  NoCall = NoCall
  Requests = {r1}
  MaxCallFaults = 1
  Keys = {k1}
  FileRequests = {f1, f2}
  MaxS3Faults = 1
  NoKey = NoKey
  NoJob = NoJob
 
PROPERTIES SerialCallsAreSound CallsEnd 
CHECK_DEADLOCK FALSE
