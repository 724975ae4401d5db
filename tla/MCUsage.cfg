SPECIFICATION UsageSpec
CONSTANTS
  u1 = u1 u2 = u2 u3 = u3
  c1 = c1 c2 = c2 k1 = k1 k2 = k2
  d1 = d1 d2 = d2 d3 = d3 o1 = o1 o2 = o2 m1 = m1 m2 = m2
  Users = {u1, u2, u3}
  Calls <- MCCalls
  CallerOf <- MCCallerOf
  ReceiverOf <- MCReceiverOf
  NoCall = NoCall
  Requests = {r1, r2}
  MaxCallFaults = 1
  DeviceUsers = {u1, u2}
  Courses = {k1, k2}
  Devices = {d1, d2, d3}
  IosDevices = {d1}
  Attempts <- MCAttempts
  MaxOpen = 1
  MaxAdds = 2
  Resources = {"cv", "tokens"}
  Orders <- MCOrders
  Rewards = {o2}
  Gives <- MCGives
  Spenders = {r1, r2}
  Members = {u1, u2}
  ChatMessages = {m1, m2}
  AuthorOf <- MCAuthorOf
  ChatRequests = {r1, r2}
  Passes = {r1, r2}
  RetryLimit = 1
  MaxChatWork = 4
  MaxChatFaults = 1
  NoMessage = NoMessage
  Holders = {u1, u2}
  Installations <- MCInstallations
  SessionIds = {1, 2, 3}
  Clients = {s1, s2}
  Callers = {r1, r2}
  MaxAuthWork = 4
  NoSession = NoSession
  Codes = {1, 2}
  Askers = {r1, r2}
  MaxAttempts = 1
  MaxAsked = 4
  MaxAccountFaults = 1
SYMMETRY UsageSymmetry
INVARIANTS DevicesConsistent WalletConsistent  SessionsConsistent AccountsConsistent
PROPERTIES AccessIsRegained CallsRunTheirCourse
CHECK_DEADLOCK FALSE
