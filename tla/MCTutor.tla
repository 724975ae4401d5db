------------------------------- MODULE MCTutor -------------------------------
(* LiveSummaries, VoiceUsage, LearningRewards, Streaks and Giveaways side by   *)
(* side, on a small instance for TLC. They share no state; `moving` says which *)
(* of them a behaviour is about, so that TLC explores the sum of their states, *)
(* not the product.                                                            *)
EXTENDS LiveSummaries, VoiceUsage, LearningRewards, Streaks, Giveaways, TLC

MCOffsets == -1..1

\* r1 and r2 stand for ticks and for requests, v1 and v2 for events, voice
\* sessions, quiz sessions and what addresses say.
TutorSymmetry == Permutations(Ticks) \union Permutations(VoiceSessions)

VARIABLE moving

TutorInit ==
  /\ Init /\ VoiceInit /\ LearningInit /\ StreaksInit /\ GiveawaysInit
  /\ moving \in {"summaries", "voice", "rewards", "streak", "giveaway"}
  \* What rests does so in one of its initial states.
  /\ moving # "rewards" => InProgress = {}
  /\ moving # "streak" => offset = 0 /\ monthly = {}
  /\ moving # "giveaway" => kind = "NONE"

TutorNext ==
  /\ moving' = moving
  /\ \/ moving = "summaries" /\ Next
     \/ moving # "summaries" /\ UNCHANGED vars
  /\ \/ moving = "voice" /\ VoiceNext
     \/ moving # "voice" /\ UNCHANGED voiceVars
  /\ \/ moving = "rewards" /\ LearningNext
     \/ moving # "rewards" /\ UNCHANGED learningVars
  /\ \/ moving = "streak" /\ StreaksNext
     \/ moving # "streak" /\ UNCHANGED streakVars
  /\ \/ moving = "giveaway" /\ GiveawaysNext
     \/ moving # "giveaway" /\ UNCHANGED rewardVars

TutorSpec ==
  TutorInit /\ [][TutorNext]_<<vars, voiceVars, learningVars, streakVars, rewardVars, moving>>
=============================================================================
