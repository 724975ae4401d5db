------------------------------- MODULE Streaks -------------------------------
(* The daily streak of one learner (module-2/scoring/services/streak.service)  *)
(* and the freezes that protect it, bought or won through the store wallet     *)
(* (package-store/services/store-wallet.service) and the daily chest. Every    *)
(* writer loads the whole user_streaks row without a lock and saves the copy   *)
(* it changed; only the writers of the wallet exclude each other, by the       *)
(* wallet's row. Days are numbered; 0 is "no date". A request dates itself     *)
(* with the app's local day, or with the server's day when the app sent none.  *)
EXTENDS Integers, FiniteSets

CONSTANTS
  Streakers,          \* requests in flight
  LastLocalDay,       \* bound: days the model lives through
  Offsets,            \* server day minus the learner's local day
  MaxFreezes,         \* bound: no freeze is granted beyond it
  MaxVisits           \* bound: requests made

VARIABLES
  streak,             \* the user_streaks row
  localDay,           \* the learner's day
  offset,             \* a member of Offsets
  monthly,            \* days a monthly protection plan covers
  visit,              \* what a request holds between load and save
  visits,             \* requests made, bounded by MaxVisits
  granted,            \* freezes granted minus freezes taken back
  active,             \* history: days with a counted activity
  frozen,             \* history: missed days a freeze was consumed for
  bridged,            \* history: missed days that count in the streak
  stale               \* history: a save changed a row that others had changed

streakVars ==
  <<streak, localDay, offset, monthly, visit, visits, granted, active, frozen, bridged, stale>>
streakHistory == <<active, frozen, bridged>>
streakWorld == <<localDay, offset, monthly>>

Days == 1..LastLocalDay
NoStreak == [currentDays |-> 0, longestDays |-> 0, lastActivityDate |-> 0, freezes |-> 0]
NotVisiting == [pc |-> "idle", copy |-> NoStreak, behind |-> FALSE, day |-> 0]

\* The server's zone and the learner's are less than a day apart.
ASSUME StreaksAssumption ==
  /\ LastLocalDay \in Nat \ {0} /\ Offsets \subseteq -1..1
  /\ MaxFreezes \in Nat /\ MaxVisits \in Nat

StreaksInit ==
  /\ streak = NoStreak /\ localDay = 1
  /\ offset \in Offsets /\ monthly \in SUBSET (2..LastLocalDay)
  /\ visit = [r \in Streakers |-> NotVisiting] /\ visits = 0
  /\ granted = 0 /\ active = {} /\ frozen = {} /\ bridged = {} /\ stale = FALSE

AtLeast(m, n) == IF m > n THEN m ELSE n

-----------------------------------------------------------------------------
(* resetExpiredStreakIfNeeded *)

StreakExpired(copy, day) ==
  /\ copy.lastActivityDate # 0 /\ copy.currentDays > 0
  /\ day - copy.lastActivityDate > 1

MissedDays(copy, day) == (copy.lastActivityDate + 1)..(day - 1)
Unprotected(copy, day) == MissedDays(copy, day) \ monthly

\* The missed days the loop passes before it runs out of freezes, all of them
\* when it does not.
Passed(copy, day) ==
  {d \in MissedDays(copy, day) :
     Cardinality({u \in Unprotected(copy, day) : u <= d}) <= copy.freezes}

Frozen(copy, day) == Passed(copy, day) \ monthly

(* Every missed day is covered by the monthly plan or costs a freeze; the      *)
(* first that is not covered ends the streak, and the freezes are gone.        *)
ResetExpired(copy, day) ==
  LET passed == Passed(copy, day)
      days == copy.currentDays + Cardinality(passed)
      kept == passed = MissedDays(copy, day)
  IN [currentDays |-> IF kept THEN days ELSE 0,
      longestDays |-> AtLeast(copy.longestDays, days),
      lastActivityDate |-> IF kept THEN day - 1 ELSE 0,
      freezes |-> copy.freezes - Cardinality(Frozen(copy, day))]

-----------------------------------------------------------------------------
(* Requests *)

\* The loaded copy goes through the reset first, the purpose follows.
Loads(r, purpose, day) ==
  /\ visit[r].pc = "idle" /\ visits < MaxVisits
  /\ visits' = visits + 1
  /\ visit' = [visit EXCEPT ![r] =
                 [NotVisiting EXCEPT !.pc = purpose, !.copy = streak, !.day = day]]
  /\ UNCHANGED <<streak, streakWorld, granted, streakHistory, stale>>

(* getUserStreak with the app's date, or with the server's (quiz results,      *)
(* claims, the chest, lesson completion).                                      *)
GetUserStreak(r) ==
  \E day \in {localDay, localDay + offset} : day \in Days /\ Loads(r, "show", day)

(* updateDailyStreak: activities are dated by the app. *)
UpdateDailyStreak(r) == Loads(r, "update", localDay)

(* addStreakFreeze of the daily chest: getUserStreak with the server's date.   *)
AddStreakFreeze(r) ==
  /\ granted < MaxFreezes /\ localDay + offset \in Days
  /\ Loads(r, "add", localDay + offset)

(* The wallet's grants and reversals load the row as it is, under the lock of  *)
(* the wallet.                                                                 *)
WalletLoads(r) ==
  /\ granted < MaxFreezes
  /\ \A other \in Streakers : visit[other].pc \notin {"grant", "reverse"}
  /\ \E purpose \in {"grant", "reverse"} :
       /\ purpose = "reverse" => granted > 0
       /\ Loads(r, purpose, 0)

Leaves(r) == visit' = [visit EXCEPT ![r] = NotVisiting]

\* What others hold of a row that changes is behind it.
Outdated(v, row) == [v EXCEPT !.behind = v.behind \/ (v.pc # "idle" /\ row # streak)]

\* save: every column that differs from the row is written, so that the row
\* becomes the copy; `same` are the rows that a copy that is behind may find
\* without losing anything, and `after` is what the request holds next.
Saves(r, row, same, after) ==
  /\ streak' = row
  /\ stale' = (stale \/ (visit[r].behind /\ streak \notin same))
  /\ visit' = [q \in Streakers |-> IF q = r THEN after ELSE Outdated(visit[q], row)]

ExpiredNow(r) == visit[r].day # 0 /\ StreakExpired(visit[r].copy, visit[r].day)

(* The reset is saved before the request goes on. One that finds the row it    *)
(* would write consumes nothing, and holds the row again, unless it is an      *)
(* update of an earlier day.                                                   *)
SaveReset(r) ==
  LET v == visit[r]
      row == ResetExpired(v.copy, v.day)
      late == v.behind /\ v.pc = "update" /\ v.day # localDay
  IN /\ v.pc # "idle" /\ ExpiredNow(r)
     /\ Saves(r, row, {row}, [v EXCEPT !.copy = row, !.behind = late])
     /\ IF streak = row
        THEN UNCHANGED <<frozen, bridged>>
        ELSE /\ frozen' = frozen \union Frozen(v.copy, v.day)
             /\ bridged' = bridged \union Passed(v.copy, v.day)
     /\ UNCHANGED <<streakWorld, visits, granted, active>>

Shown(r) ==
  /\ visit[r].pc = "show" /\ ~ExpiredNow(r)
  /\ Leaves(r)
  /\ UNCHANGED <<streak, streakWorld, visits, granted, streakHistory, stale>>

\* The streak a counted activity of `day` makes of the copy.
Extended(copy, day) ==
  LET days == IF copy.lastActivityDate # 0 /\ day - copy.lastActivityDate = 1
              THEN copy.currentDays + 1 ELSE 1
  IN [copy EXCEPT !.currentDays = days, !.lastActivityDate = day,
                  !.longestDays = AtLeast(copy.longestDays, days)]

\* Mutant of SaveUpdate: a second activity of the day counts again.
CountTwice(r) ==
  LET v == visit[r]
      row == [Extended(v.copy, v.day) EXCEPT !.currentDays = v.copy.currentDays + 1]
  IN /\ v.pc = "update" /\ ~ExpiredNow(r)
     /\ Saves(r, row, {row}, NotVisiting) /\ active' = active \union {v.day}
     /\ UNCHANGED <<streakWorld, visits, granted, frozen, bridged>>

(* The rest of updateDailyStreak: a day counts once, a day before the last one *)
(* not at all.                                                                 *)
SaveUpdate(r) ==
  LET v == visit[r]
  IN /\ v.pc = "update" /\ ~ExpiredNow(r)
     /\ IF v.copy.lastActivityDate < v.day
        THEN /\ Saves(r, Extended(v.copy, v.day),
                      IF v.day = localDay THEN {Extended(v.copy, v.day)} ELSE {}, NotVisiting)
             /\ active' = active \union {v.day}
        ELSE /\ IF v.copy.lastActivityDate = v.day
                THEN Saves(r, v.copy, {v.copy}, NotVisiting)
                ELSE Leaves(r) /\ UNCHANGED <<streak, stale>>
             /\ UNCHANGED active
     /\ UNCHANGED <<streakWorld, visits, granted, frozen, bridged>>

(* The chest's and the wallet's freezes; a reversal takes back what is left.   *)
SaveFreezes(r) ==
  LET v == visit[r]
      change == IF v.pc # "reverse" THEN 1 ELSE IF v.copy.freezes > 0 THEN -1 ELSE 0
  IN /\ v.pc \in {"add", "grant", "reverse"} /\ ~ExpiredNow(r)
     /\ Saves(r, [v.copy EXCEPT !.freezes = v.copy.freezes + change], {}, NotVisiting)
     /\ granted' = granted + change
     /\ UNCHANGED <<streakWorld, visits, streakHistory>>

(* A request that dies has saved what it has saved. *)
VisitDies(r) ==
  /\ visit[r].pc # "idle"
  /\ Leaves(r)
  /\ UNCHANGED <<streak, streakWorld, visits, granted, streakHistory, stale>>

Midnight ==
  /\ localDay < LastLocalDay /\ localDay' = localDay + 1
  /\ UNCHANGED <<streak, offset, monthly, visit, visits, granted, streakHistory, stale>>

StreaksNext ==
  \/ Midnight
  \/ \E r \in Streakers :
       \/ GetUserStreak(r) \/ UpdateDailyStreak(r) \/ AddStreakFreeze(r) \/ WalletLoads(r)
       \/ SaveReset(r) \/ Shown(r) \/ SaveUpdate(r) \/ SaveFreezes(r) \/ VisitDies(r)

StreaksSpec == StreaksInit /\ [][StreaksNext]_streakVars

-----------------------------------------------------------------------------
(* Properties *)

StreaksTypeOK ==
  /\ streak \in [currentDays : 0..LastLocalDay, longestDays : 0..LastLocalDay,
                 lastActivityDate : 0..LastLocalDay, freezes : Nat]
  /\ localDay \in Days /\ offset \in Offsets /\ monthly \subseteq Days
  /\ visits \in 0..MaxVisits /\ granted \in Int
  /\ active \subseteq Days /\ frozen \subseteq Days /\ bridged \subseteq Days
  /\ stale \in BOOLEAN
  /\ \A r \in Streakers :
       visit[r].pc \in {"idle", "show", "update", "add", "grant", "reverse"}

Counted == active \union bridged

\* The reference definition: the days without a gap that end on `last`.
RunEnding(last) ==
  {d \in 1..last : d..last \subseteq Counted}

\* While no save changed a row that others had changed, a freeze is gone for each
\* missed day it covered and for no day of the monthly plan. Where besides the
\* server's day is never ahead of the learner's, the streak shown is the run of
\* days, active or protected, that ends on its last day, and a learner active on
\* every day so far has spent no freeze and lost no day
\* (resetExpiredStreakIfNeeded, updateDailyStreak).
StreakIsTheRun ==
  /\ StreaksTypeOK
  /\ ~stale =>
       /\ streak.freezes = granted - Cardinality(frozen)
       /\ frozen \intersect monthly = {}
       /\ streak.longestDays >= streak.currentDays
  /\ ~stale /\ offset <= 0 =>
       /\ streak.currentDays = Cardinality(RunEnding(streak.lastActivityDate))
       /\ 1..(localDay - 1) \subseteq active =>
            frozen = {} /\ streak.currentDays >= localDay - 1
=============================================================================
