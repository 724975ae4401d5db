--------------------------- MODULE LearningRewards ---------------------------
(* What a learner earns: quiz sessions and their completion, lesson            *)
(* completion, daily challenge tasks and the daily chest, all paid through the *)
(* XP transactions of ScoringService and mirrored in the leaderboard profile   *)
(* (module-2/quizzes, daily-challenges, scoring, leaderboard). One learner,    *)
(* one quiz, one day; `Learners` are the requests the learner's app has in     *)
(* flight. A completion is a chain of separate database calls without a        *)
(* transaction around it: every call is a step and a request may die between   *)
(* two of them. The day has two tasks: "xp" (EARN_XP_*, recomputed from the    *)
(* transactions whenever the day is read) and "answers" (counted from the      *)
(* activity log).                                                              *)
EXTENDS Integers, FiniteSets, FiniteSetsExt

CONSTANTS
  QuizSessions,       \* identifiers of sessions of the quiz
  Questions,          \* its questions
  Learners,           \* requests in flight
  Target,             \* what a daily task asks for
  PromotionAt,        \* XP at which the second league starts
  MaxRequests,        \* bound: requests the learner makes
  MaxLearningFaults   \* bound: requests that die half-way

Tasks == {"xp", "answers"}
Awards == QuizSessions \union Tasks \union {"lesson", "chest"}
NoAward == "none"

ASSUME LearningAssumption ==
  /\ IsFiniteSet(QuizSessions)
  /\ QuizSessions \intersect (Tasks \union {"lesson", "chest", NoAward}) = {}
  /\ Target \in Nat \ {0} /\ PromotionAt \in Nat \ {0}
  /\ MaxRequests \in Nat /\ MaxLearningFaults \in Nat

VARIABLES
  quizStatus,         \* quiz_sessions.status, "NONE" before the row exists
  answered,           \* the questions a session has confirmed answers for
  lessonDone,         \* lesson_progress.isCompleted
  chestOpened,        \* the user_daily_chest_rewards row exists
  taskStatus,         \* user_daily_challenge_progress.status
  taskProgress,       \* ... .progressValue
  logged,             \* sessions whose activity is in the activity log
  transaction,        \* the amount of an award's xp_transactions row, 0: none
  event,              \* the amount of its leaderboard_xp_events row, 0: none
  profileXp,          \* leaderboard_profiles.totalXp
  promotions,         \* rows of league_promotion_events
  boost,              \* the learner has an active promotion boost (x 2)
  learner,            \* what a request holds between two calls
  requested,          \* requests made, bounded by MaxRequests
  learningFaults,     \* requests that died, bounded by MaxLearningFaults
  interrupted,        \* history: awards whose last request did not get to its end
  profileStale         \* history: an award was lost to a stale profile

learningVars ==
  <<quizStatus, answered, lessonDone, chestOpened, taskStatus, taskProgress, logged,
    transaction, event, profileXp, promotions, boost, learner, requested,
    learningFaults, interrupted, profileStale>>

quizVars == <<quizStatus, answered>>
dayVars == <<lessonDone, chestOpened, taskStatus, taskProgress, logged>>
xpVars == <<transaction, event, profileXp, promotions, boost>>
learningHistory == <<learningFaults, interrupted, profileStale>>
bookkeeping == <<requested, learningHistory>>

Resting ==
  [pc |-> "idle", award |-> NoAward, amount |-> 0, seen |-> 0, item |-> "IN_PROGRESS",
   picked |-> {}]

InProgress == {s \in QuizSessions : quizStatus[s] = "IN_PROGRESS"}
WorkedOn(a) == \E r \in Learners : learner[r].award = a
Becomes(r, state) == learner' = [learner EXCEPT ![r] = state]
(* A request arrives and makes its first read. *)
Arrives(r, state) ==
  /\ learner[r].pc = "idle" /\ requested < MaxRequests
  /\ requested' = requested + 1
  /\ Becomes(r, state)
GoesTo(r, pc) == learner' = [learner EXCEPT ![r].pc = pc]

(* Rows of the time before the advisory lock may hold two open sessions.       *)
LearningInit ==
  /\ \E open \in SUBSET QuizSessions :
       quizStatus = [s \in QuizSessions |-> IF s \in open THEN "IN_PROGRESS" ELSE "NONE"]
  /\ answered = [s \in QuizSessions |-> {}]
  /\ lessonDone = FALSE /\ chestOpened = FALSE
  /\ taskStatus = [t \in Tasks |-> "IN_PROGRESS"] /\ taskProgress = [t \in Tasks |-> 0]
  /\ logged = {}
  /\ transaction = [a \in Awards |-> 0] /\ event = [a \in Awards |-> 0]
  /\ profileXp = 0 /\ promotions = 0 /\ boost = FALSE
  /\ learner = [r \in Learners |-> Resting]
  /\ requested = 0 /\ learningFaults = 0 /\ interrupted = {} /\ profileStale = FALSE

-----------------------------------------------------------------------------
(* Quiz sessions *)

(* startLessonQuiz up to the candidates, under the advisory lock of the user,  *)
(* the quiz and the lesson; the last conjunct leaves a session to create.      *)
StartQuiz(r, mode) ==
  /\ \A other \in Learners : learner[other].pc \notin {"START_OVER", "CONTINUE"}
  /\ \E s \in QuizSessions : quizStatus[s] = "NONE" \/ (mode = "CONTINUE" /\ s \in InProgress)
  /\ IF mode = "CONTINUE" /\ InProgress # {}
     THEN \E canonical \in InProgress :
            /\ \A s \in InProgress : Cardinality(answered[s]) <= Cardinality(answered[canonical])
            /\ Arrives(r, [Resting EXCEPT !.pc = mode, !.picked = InProgress, !.award = canonical])
     ELSE Arrives(r, [Resting EXCEPT !.pc = mode, !.picked = InProgress])
  /\ UNCHANGED <<quizVars, dayVars, xpVars, learningHistory>>

(* START_OVER: cancels the candidates it read, whatever became of them, and    *)
(* creates a session.                                                          *)
StartOver(r) ==
  /\ learner[r].pc = "START_OVER"
  /\ \E new \in {s \in QuizSessions : quizStatus[s] = "NONE"} :
       quizStatus' = [s \in QuizSessions |->
                        IF s = new THEN "IN_PROGRESS"
                        ELSE IF s \in learner[r].picked THEN "CANCELLED" ELSE quizStatus[s]]
  /\ interrupted' = interrupted \union {s \in learner[r].picked : quizStatus[s] = "SUBMITTED"}
  /\ Becomes(r, Resting)
  /\ UNCHANGED <<answered, dayVars, xpVars, learningFaults, profileStale, requested>>

(* Otherwise the candidate with the most answers takes the answers of the      *)
(* others, which are cancelled; without a candidate a session is created.      *)
ConsolidateInProgressSessions(r) ==
  LET canonical == learner[r].award
      duplicates == learner[r].picked \ {canonical}
  IN /\ learner[r].pc = "CONTINUE" /\ learner[r].picked # {}
     /\ answered' = [answered EXCEPT ![canonical] = @ \union UNION {answered[s] : s \in duplicates}]
     /\ quizStatus' = [s \in QuizSessions |->
                         IF s \in duplicates THEN "CANCELLED" ELSE quizStatus[s]]
     /\ interrupted' = interrupted \union {s \in duplicates : quizStatus[s] = "SUBMITTED"}
     /\ Becomes(r, Resting)
     /\ UNCHANGED <<dayVars, xpVars, learningFaults, profileStale, requested>>

CreateSession(r) ==
  /\ learner[r].pc = "CONTINUE" /\ learner[r].picked = {}
  /\ \E s \in QuizSessions :
       quizStatus[s] = "NONE" /\ quizStatus' = [quizStatus EXCEPT ![s] = "IN_PROGRESS"]
  /\ Becomes(r, Resting)
  /\ UNCHANGED <<answered, dayVars, xpVars, bookkeeping>>

(* checkAnswer: one transaction holding the session's row. *)
CheckAnswer(s, q) ==
  /\ quizStatus[s] = "IN_PROGRESS" /\ q \notin answered[s]
  /\ answered' = [answered EXCEPT ![s] = @ \union {q}]
  /\ UNCHANGED <<quizStatus, dayVars, xpVars, learner, bookkeeping>>

(* completeSession: the session is read without a lock. *)
CompleteSession(r, s) ==
  /\ quizStatus[s] = "IN_PROGRESS" /\ answered[s] = Questions
  /\ Arrives(r, [Resting EXCEPT !.pc = "record", !.award = s])
  /\ interrupted' = interrupted \ {s}
  /\ UNCHANGED <<quizVars, dayVars, xpVars, learningFaults, profileStale>>

-----------------------------------------------------------------------------
(* Lessons, tasks, the chest *)

(* markLessonCompleted: read, then saved as completed before anything is paid. *)
ReadLesson(r) ==
  /\ ~lessonDone
  /\ Arrives(r, [Resting EXCEPT !.pc = "lesson", !.award = "lesson"])
  /\ UNCHANGED <<quizVars, dayVars, xpVars, learningHistory>>

MarkLessonCompleted(r) ==
  /\ learner[r].pc = "lesson"
  /\ lessonDone' = TRUE
  /\ GoesTo(r, "record")
  /\ UNCHANGED <<quizVars, chestOpened, taskStatus, taskProgress, logged, xpVars,
                 bookkeeping>>

(* claimTask holds the task's row until it has paid; the XP goes through other *)
(* connections.                                                                *)
ClaimTask(r, t) ==
  /\ ~WorkedOn(t)
  /\ taskStatus[t] = "COMPLETED"
  /\ Arrives(r, [Resting EXCEPT !.pc = "record", !.award = t])
  /\ interrupted' = interrupted \ {t}
  /\ UNCHANGED <<quizVars, dayVars, xpVars, learningFaults, profileStale>>

(* openDailyChest: the tasks and the chest are read without a lock, ...        *)
ReadChest(r) ==
  /\ ~chestOpened
  /\ \A t \in Tasks : taskStatus[t] # "IN_PROGRESS"
  /\ Arrives(r, [Resting EXCEPT !.pc = "chest", !.award = "chest"])
  /\ UNCHANGED <<quizVars, dayVars, xpVars, learningHistory>>

(* ... and the chest's row is saved first; one learner and day have one row.   *)
SaveChest(r) ==
  /\ learner[r].pc = "chest"
  /\ chestOpened' = TRUE
  /\ IF chestOpened THEN Becomes(r, Resting) ELSE GoesTo(r, "record")
  /\ UNCHANGED <<quizVars, lessonDone, taskStatus, taskProgress, logged, xpVars,
                 bookkeeping>>

-----------------------------------------------------------------------------
(* Paying an award: ScoringService, then LeaderboardXpService *)

(* The first half of every record...Xp: the transaction that already exists is *)
(* returned, otherwise the amount is fixed with the boost read now. A task's   *)
(* XP is never boosted.                                                        *)
FindTransaction(r) ==
  LET a == learner[r].award
      fresh == IF boost /\ a \notin Tasks THEN 2 ELSE 1
  IN /\ learner[r].pc = "record"
     /\ Becomes(r, IF transaction[a] # 0
                THEN [learner[r] EXCEPT !.pc = "profile", !.amount = transaction[a]]
                ELSE [learner[r] EXCEPT !.pc = "insert", !.amount = fresh])
     /\ UNCHANGED <<quizVars, dayVars, xpVars, bookkeeping>>

\* Mutant of InsertTransaction: no unique index on the source of a transaction.
InsertUnindexed(r) ==
  /\ learner[r].pc = "insert"
  /\ transaction' = [transaction EXCEPT ![learner[r].award] = learner[r].amount]
  /\ GoesTo(r, "profile")
  /\ UNCHANGED <<quizVars, dayVars, event, profileXp, promotions, boost, bookkeeping>>

(* recordXpTransaction's insert; (source, sourceId) is unique and the loser of *)
(* a race fails, which fails its request.                                      *)
InsertTransaction(r) ==
  LET a == learner[r].award
  IN /\ learner[r].pc = "insert"
     /\ IF transaction[a] # 0
        THEN Becomes(r, Resting) /\ UNCHANGED transaction
        ELSE /\ transaction' = [transaction EXCEPT ![a] = learner[r].amount]
             /\ GoesTo(r, "profile")
     /\ UNCHANGED <<quizVars, dayVars, event, profileXp, promotions, boost, bookkeeping>>

(* ensureProfile loads the whole profile, without a lock, to refresh the name. *)
ReadProfile(r) ==
  /\ learner[r].pc = "profile"
  /\ Becomes(r, [learner[r] EXCEPT !.pc = "identity", !.seen = profileXp])
  /\ UNCHANGED <<quizVars, dayVars, xpVars, bookkeeping>>

(* Its save compares the loaded copy with the row and writes every column that *)
(* differs, totalXp included: what was awarded in between is gone.             *)
SaveProfile(r) ==
  /\ learner[r].pc = "identity"
  /\ profileXp' = learner[r].seen
  /\ profileStale' = (profileStale \/ profileXp # learner[r].seen)
  /\ GoesTo(r, "award")
  /\ UNCHANGED <<quizVars, dayVars, transaction, event, promotions, boost,
                 learningFaults, interrupted, requested>>

\* Mutant of FindEvent: an award that was mirrored already ends the request.
DuplicateEnds(r) ==
  /\ learner[r].pc = "award"
  /\ IF event[learner[r].award] # 0 THEN Becomes(r, Resting) ELSE GoesTo(r, "credit")
  /\ UNCHANGED <<quizVars, dayVars, xpVars, bookkeeping>>

(* awardXp looks for the event before it locks the profile. *)
FindEvent(r) ==
  /\ learner[r].pc = "award"
  /\ GoesTo(r, IF event[learner[r].award] # 0 THEN "finish" ELSE "credit")
  /\ UNCHANGED <<quizVars, dayVars, xpVars, bookkeeping>>

\* Mutant of Credited: the total is the one ensureProfile loaded.
CreditedUnlocked(r) == learner[r].seen + learner[r].amount

(* The total the profile's lock gives: read after it is held. *)
Credited(r) == profileXp + learner[r].amount

(* Under the lock: the event, the new total and a promotion; the unique index  *)
(* on (userId, idempotencyKey) rolls back the loser of a race.                 *)
CreditProfile(r) ==
  LET a == learner[r].award
  IN /\ learner[r].pc = "credit"
     /\ IF event[a] # 0
        THEN Becomes(r, Resting) /\ UNCHANGED <<event, profileXp, promotions>>
        ELSE /\ event' = [event EXCEPT ![a] = learner[r].amount]
             /\ profileXp' = Credited(r)
             /\ IF profileXp < PromotionAt /\ Credited(r) >= PromotionAt
                THEN promotions' = promotions + 1 /\ GoesTo(r, "boost")
                ELSE GoesTo(r, "finish") /\ UNCHANGED promotions
     /\ UNCHANGED <<quizVars, dayVars, transaction, boost, bookkeeping>>

(* ensureScoringBoost, after the transaction of the award. *)
EnsureScoringBoost(r) ==
  /\ learner[r].pc = "boost"
  /\ boost' = TRUE
  /\ GoesTo(r, "finish")
  /\ UNCHANGED <<quizVars, dayVars, transaction, event, profileXp, promotions,
                 bookkeeping>>

BoostExpires ==
  /\ boost /\ boost' = FALSE
  /\ UNCHANGED <<quizVars, dayVars, transaction, event, profileXp, promotions, learner,
                 bookkeeping>>

(* The last step of the four: completeSession saves the session it loaded as   *)
(* submitted, claimTask commits CLAIMED; a lesson and a chest are done.        *)
FinishAward(r) ==
  LET a == learner[r].award
  IN /\ learner[r].pc = "finish"
     /\ quizStatus' = [s \in QuizSessions |-> IF s = a THEN "SUBMITTED" ELSE quizStatus[s]]
     /\ taskStatus' = [t \in Tasks |-> IF t = a THEN "CLAIMED" ELSE taskStatus[t]]
     /\ Becomes(r, IF a \in QuizSessions
                THEN [Resting EXCEPT !.pc = "activity", !.award = a] ELSE Resting)
     /\ UNCHANGED <<answered, lessonDone, chestOpened, taskProgress, logged, xpVars,
                    bookkeeping>>

-----------------------------------------------------------------------------
(* The day *)

AtMost(limit, n) == IF n > limit THEN limit ELSE n
StatusAt(n) == IF n >= Target THEN "COMPLETED" ELSE "IN_PROGRESS"

(* recordActivity: the log entry and the task's progress in one transaction,   *)
(* which waits for a claim of the task; then the day is read (getToday).       *)
RecordActivity(r) ==
  LET s == learner[r].award
      next == AtMost(Target, taskProgress["answers"] + 1)
  IN /\ learner[r].pc = "activity" /\ ~WorkedOn("answers")
     /\ logged' = logged \union {s}
     /\ IF s \notin logged /\ taskStatus["answers"] = "IN_PROGRESS"
        THEN /\ taskProgress' = [taskProgress EXCEPT !["answers"] = next]
             /\ taskStatus' = [taskStatus EXCEPT !["answers"] = StatusAt(next)]
        ELSE UNCHANGED <<taskProgress, taskStatus>>
     /\ Becomes(r, [Resting EXCEPT !.pc = "today"])
     /\ UNCHANGED <<quizVars, lessonDone, chestOpened, xpVars, bookkeeping>>

(* XP that counts for the "xp" task: neither tasks nor chests. *)
EarnedToday == MapThenSumSet(LAMBDA a : transaction[a], QuizSessions \union {"lesson"})

(* getToday reads the tasks and the day's XP ...                               *)
ReadToday(r) ==
  LET copies == [Resting EXCEPT !.pc = "reconcile", !.item = taskStatus["xp"],
                                !.seen = EarnedToday]
  IN /\ \/ Arrives(r, copies)
        \/ learner[r].pc = "today" /\ Becomes(r, copies) /\ UNCHANGED requested
     /\ UNCHANGED <<quizVars, dayVars, xpVars, learningHistory>>

(* ... and reconcileAuthoritativeProgress saves what follows from the copies   *)
(* it holds, without a lock of its own.                                        *)
ReconcileProgress(r) ==
  LET kept == \/ learner[r].item = "CLAIMED"
              \/ learner[r].item = "COMPLETED" /\ learner[r].seen < Target
  IN /\ learner[r].pc = "reconcile" /\ ~WorkedOn("xp")
     /\ IF kept
        THEN UNCHANGED <<taskProgress, taskStatus>>
        ELSE /\ taskProgress' = [taskProgress EXCEPT !["xp"] = AtMost(Target, learner[r].seen)]
             /\ taskStatus' = [taskStatus EXCEPT !["xp"] = StatusAt(learner[r].seen)]
     /\ Becomes(r, Resting)
     /\ UNCHANGED <<quizVars, lessonDone, chestOpened, logged, xpVars, bookkeeping>>

(* The request dies with its process or its connection; its locks are freed.   *)
RequestDies(r) ==
  /\ learner[r].pc # "idle" /\ learningFaults < MaxLearningFaults
  /\ learningFaults' = learningFaults + 1
  /\ interrupted' = (interrupted \union {learner[r].award}) \ {NoAward}
  /\ Becomes(r, Resting)
  /\ UNCHANGED <<quizVars, dayVars, xpVars, profileStale, requested>>

-----------------------------------------------------------------------------
LearningNext ==
  \/ BoostExpires
  \/ \E s \in QuizSessions, q \in Questions : CheckAnswer(s, q)
  \/ \E r \in Learners :
       \/ \E mode \in {"START_OVER", "CONTINUE"} : StartQuiz(r, mode)
       \/ StartOver(r) \/ ConsolidateInProgressSessions(r) \/ CreateSession(r)
       \/ \E s \in QuizSessions : CompleteSession(r, s)
       \/ ReadLesson(r) \/ MarkLessonCompleted(r)
       \/ \E t \in Tasks : ClaimTask(r, t)
       \/ ReadChest(r) \/ SaveChest(r)
       \/ FindTransaction(r) \/ InsertTransaction(r) \/ ReadProfile(r) \/ SaveProfile(r)
       \/ FindEvent(r) \/ CreditProfile(r) \/ EnsureScoringBoost(r) \/ FinishAward(r)
       \/ RecordActivity(r) \/ ReadToday(r) \/ ReconcileProgress(r)
       \/ RequestDies(r)

LearningSpec == LearningInit /\ [][LearningNext]_learningVars

-----------------------------------------------------------------------------
(* Properties *)

LearningTypeOK ==
  /\ quizStatus \in [QuizSessions -> {"NONE", "IN_PROGRESS", "CANCELLED", "SUBMITTED"}]
  /\ answered \in [QuizSessions -> SUBSET Questions]
  /\ lessonDone \in BOOLEAN /\ chestOpened \in BOOLEAN
  /\ taskStatus \in [Tasks -> {"IN_PROGRESS", "COMPLETED", "CLAIMED"}]
  /\ taskProgress \in [Tasks -> 0..Target]
  /\ logged \subseteq QuizSessions
  /\ transaction \in [Awards -> Nat] /\ event \in [Awards -> Nat]
  /\ profileXp \in Nat /\ promotions \in Nat /\ boost \in BOOLEAN
  /\ requested \in 0..MaxRequests /\ learningFaults \in 0..MaxLearningFaults
  /\ interrupted \subseteq Awards /\ profileStale \in BOOLEAN
  /\ \A r \in Learners :
       /\ learner[r].award \in Awards \union {NoAward}
       /\ learner[r].picked \subseteq QuizSessions

\* Once no request works on it, an award is settled unless the last request for
\* it died: a completed lesson and an opened chest are paid, a paid quiz session
\* is submitted and a paid task claimed. A retry therefore repairs what a death
\* interrupted; only a lesson and a chest have none (completeSession, claimTask,
\* markLessonCompleted, openDailyChest).
RewardsAreSettled ==
  \A a \in Awards \ interrupted :
    ~WorkedOn(a) =>
      /\ a = "lesson" /\ lessonDone => event[a] # 0
      /\ a = "chest" /\ chestOpened => event[a] # 0
      /\ a \in QuizSessions /\ transaction[a] # 0 => quizStatus[a] = "SUBMITTED"
      /\ a = "answers" /\ transaction[a] # 0 => taskStatus[a] = "CLAIMED"

\* Unless a stale profile was saved over it, the profile's total is the sum of
\* the leaderboard events, and the learner was promoted once when it reached the
\* next league (awardXp under the profile's lock).
TotalIsTheEvents ==
  LET total == MapThenSumSet(LAMBDA a : event[a], Awards)
  IN ~profileStale =>
       /\ profileXp = total
       /\ promotions = IF total >= PromotionAt THEN 1 ELSE 0

\* However requests interleave and die: what is marked submitted or claimed was
\* paid; the leaderboard mirrors the exact amount of the transaction and adds up
\* to the total; a task keeps the status its progress calls for; and a claim cut
\* short can be claimed again (completeSession, claimTask, awardXp).
RewardsConsistent ==
  /\ LearningTypeOK
  /\ RewardsAreSettled
  /\ TotalIsTheEvents
  /\ \A s \in QuizSessions : quizStatus[s] = "SUBMITTED" => event[s] # 0
  /\ \A t \in Tasks : taskStatus[t] = "CLAIMED" => event[t] # 0
  /\ \A a \in Awards : event[a] \in {0, transaction[a]}
  /\ \A t \in Tasks : taskStatus[t] = "IN_PROGRESS" <=> taskProgress[t] < Target
  /\ transaction["answers"] # 0 => taskStatus["answers"] # "IN_PROGRESS"
=============================================================================
