SPECIFICATION TutorSpec
CONSTANTS
  Sessions = {s1}
  Events = {v1, v2}
  Ticks = {r1, r2}
  NoSession = NoSession
  BatchSize = 1
  MaxAttempts = 2
  MaxFaults = 3
  VoiceSessions = {v1, v2}
  VoiceRequests = {r1, r2}
  Credit = 3
  Ttl = 2
  QuizSessions = {v1, v2}
  Questions = {q1}
  Learners = {r1, r2}
  Target = 2
  PromotionAt = 2
  MaxRequests = 4
  MaxLearningFaults = 1
  Streakers = {r1, r2}
  LastLocalDay = 4
  Offsets <- MCOffsets
  MaxFreezes = 2
  MaxVisits = 3
  Clerks = {r1, r2}
  AddressTexts = {v1, v2}
  MaxClerkWork = 3
  MaxClerkFaults = 1
SYMMETRY TutorSymmetry
INVARIANTS GiveawaysConsistent   StreakIsTheRun
PROPERTIES VoiceIsMetered
CHECK_DEADLOCK FALSE
