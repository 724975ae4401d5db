----------------------------- MODULE StoreWallet -----------------------------
(***************************************************************************)
(* The wallet of one user: src/package-store/services/store-wallet.service. *)
(*                                                                         *)
(* Spending (AI tokens, CV credits) and giving a credit back read the row   *)
(* FOR UPDATE and save it in the same transaction.  Crediting an order or a *)
(* leaderboard reward, and reversing an order, read the row WITHOUT a lock, *)
(* compute new balances and save: the save reads the row again, and updates *)
(* every column in which the computed row differs from what it read.        *)
(* Grant and reversal of one order never overlap (its row is locked, see    *)
(* StoreRefunds), so that an order is a process here.                       *)
(***************************************************************************)
EXTENDS Integers

CONSTANTS
  Resources,   \* balance columns
  Orders,      \* orders and leaderboard rewards, what the wallet is credited for
  Rewards,     \* those of them that are never reversed
  Gives,       \* Gives[o][r]: the amount order o credits
  Spenders     \* requests that consume a unit or give it back

ASSUME WalletAssumption ==
  /\ Rewards \subseteq Orders
  /\ Gives \in [Orders -> [Resources -> Nat]]

VARIABLES
  balance,   \* the row
  locked,    \* a spender holds the row lock
  read,      \* the row it read with it
  taken,     \* resources a spender has consumed and may give back
  phase,     \* where an order is
  copy,      \* the row an order's transaction computed
  differs,   \* the columns its save will update
  touched,   \* history: another transaction committed since the order's read
  overlap,   \* history: some save overwrote a row it had not read
  reversed,  \* store_order_reversals: what was taken back for the order
  credited,  \* history: the totals of what saved grants credited, ...
  spent,     \* ... spenders consumed and did not give back, ...
  returned   \* ... and saved reversals took back

orderVars == <<phase, copy, differs, touched, overlap, reversed>>
spenderVars == <<locked, read, taken>>
totals == <<credited, spent, returned>>
walletVars == <<balance, spenderVars, orderVars, totals>>

-----------------------------------------------------------------------------
Phases == {"new", "granting", "grantSaving", "granted",
           "reversing", "reverseSaving", "reversed"}

Reading == {"granting", "grantSaving", "reversing", "reverseSaving"}

Lesser(a, b) == IF a < b THEN a ELSE b

Zero == [r \in Resources |-> 0]

Unlocked == \A s \in Spenders : ~locked[s]

WalletTypeOK ==
  /\ balance \in [Resources -> Nat]
  /\ locked \in [Spenders -> BOOLEAN]
  /\ read \in [Spenders -> [Resources -> Nat]]
  /\ taken \in [Spenders -> [Resources -> Nat]]
  /\ phase \in [Orders -> Phases]
  /\ copy \in [Orders -> [Resources -> Nat]]
  /\ differs \in [Orders -> SUBSET Resources]
  /\ touched \in [Orders -> BOOLEAN]
  /\ overlap \in BOOLEAN
  /\ reversed \in [Orders -> [Resources -> Nat]]
  /\ credited \in [Resources -> Int]
  /\ spent \in [Resources -> Int]
  /\ returned \in [Resources -> Int]

WalletInit ==
  /\ balance = Zero
  /\ locked = [s \in Spenders |-> FALSE]
  /\ read = [s \in Spenders |-> Zero]
  /\ taken = [s \in Spenders |-> Zero]
  /\ phase = [o \in Orders |-> "new"]
  /\ copy = [o \in Orders |-> Zero]
  /\ differs = [o \in Orders |-> {}]
  /\ touched = [o \in Orders |-> FALSE]
  /\ overlap = FALSE
  /\ reversed = [o \in Orders |-> Zero]
  /\ credited = Zero
  /\ spent = Zero
  /\ returned = Zero

-----------------------------------------------------------------------------
\* A commit on the row, as the open transactions of the orders see it.
TouchOthers(except) ==
  touched' = [o \in Orders |->
                IF o \in except THEN FALSE
                ELSE touched[o] \/ phase[o] \in Reading]

\* (Mutant: the row is read without FOR UPDATE.)
LockNothing(s) ==
  /\ ~locked[s]
  /\ locked' = [locked EXCEPT ![s] = TRUE]
  /\ read' = [read EXCEPT ![s] = balance]
  /\ UNCHANGED <<balance, taken, orderVars, totals>>

\* getLockedWallet.
Lock(s) ==
  /\ Unlocked
  /\ locked' = [locked EXCEPT ![s] = TRUE]
  /\ read' = [read EXCEPT ![s] = balance]
  /\ UNCHANGED <<balance, taken, orderVars, totals>>

Unlock(s) ==
  /\ locked' = [locked EXCEPT ![s] = FALSE]
  /\ read' = [read EXCEPT ![s] = Zero]

\* consumeAiTextTokens, consumePurchasedCvCredit, ...: a unit of a resource.
Consume(s, r) ==
  /\ locked[s]
  /\ read[s][r] > 0
  /\ balance' = [read[s] EXCEPT ![r] = @ - 1]
  /\ taken' = [taken EXCEPT ![s][r] = @ + 1]
  /\ Unlock(s)
  /\ TouchOthers({})
  /\ spent' = [spent EXCEPT ![r] = @ + 1]
  /\ UNCHANGED <<phase, copy, differs, overlap, reversed, credited, returned>>

\* refundPurchasedCvCredit, after the work the unit paid for has failed.
GiveBack(s, r) ==
  /\ locked[s]
  /\ taken[s][r] > 0
  /\ balance' = [read[s] EXCEPT ![r] = @ + 1]
  /\ taken' = [taken EXCEPT ![s][r] = @ - 1]
  /\ Unlock(s)
  /\ TouchOthers({})
  /\ spent' = [spent EXCEPT ![r] = @ - 1]
  /\ UNCHANGED <<phase, copy, differs, overlap, reversed, credited, returned>>

\* The balance is insufficient, or the transaction rolls back.
Release(s) ==
  /\ locked[s]
  /\ Unlock(s)
  /\ UNCHANGED <<balance, taken, orderVars, totals>>

-----------------------------------------------------------------------------
\* The unlocked read of grantOrder or grantLeaderboardReward.
GrantRead(o) ==
  /\ phase[o] = "new"
  /\ phase' = [phase EXCEPT ![o] = "granting"]
  /\ copy' = [copy EXCEPT ![o] = [r \in Resources |-> balance[r] + Gives[o][r]]]
  /\ touched' = [touched EXCEPT ![o] = FALSE]
  /\ UNCHANGED <<balance, spenderVars, differs, overlap, reversed, totals>>

\* The unlocked read of reverseOrder: what is left of the order's credit.
ReverseRead(o) ==
  LET back == [r \in Resources |-> Lesser(balance[r], Gives[o][r])]
  IN /\ phase[o] = "granted"
     /\ o \notin Rewards
     /\ phase' = [phase EXCEPT ![o] = "reversing"]
     /\ copy' = [copy EXCEPT ![o] = [r \in Resources |-> balance[r] - back[r]]]
     /\ reversed' = [reversed EXCEPT ![o] = back]
     /\ touched' = [touched EXCEPT ![o] = FALSE]
     /\ UNCHANGED <<balance, spenderVars, differs, overlap, totals>>

\* save() reads the row again and keeps the columns that differ.
Compare(o, from, to) ==
  /\ phase[o] = from
  /\ phase' = [phase EXCEPT ![o] = to]
  /\ differs' = [differs EXCEPT ![o] = {r \in Resources : copy[o][r] # balance[r]}]
  /\ UNCHANGED <<balance, spenderVars, copy, touched, overlap, reversed, totals>>

GrantCompare(o) == Compare(o, "granting", "grantSaving")
ReverseCompare(o) == Compare(o, "reversing", "reverseSaving")

\* The UPDATE of those columns, which waits for a row lock, and the commit.
Save(o, from, to) ==
  /\ phase[o] = from
  /\ Unlocked
  /\ balance' = [r \in Resources |-> IF r \in differs[o] THEN copy[o][r] ELSE balance[r]]
  /\ phase' = [phase EXCEPT ![o] = to]
  /\ overlap' = (overlap \/ touched[o])
  /\ copy' = [copy EXCEPT ![o] = Zero]
  /\ differs' = [differs EXCEPT ![o] = {}]
  /\ TouchOthers({o})
  /\ UNCHANGED <<spenderVars, reversed>>

GrantSave(o) ==
  /\ Save(o, "grantSaving", "granted")
  /\ credited' = [r \in Resources |-> credited[r] + Gives[o][r]]
  /\ UNCHANGED <<spent, returned>>

ReverseSave(o) ==
  /\ Save(o, "reverseSaving", "reversed")
  /\ returned' = [r \in Resources |-> returned[r] + reversed[o][r]]
  /\ UNCHANGED <<credited, spent>>

-----------------------------------------------------------------------------
WalletNext ==
  \/ \E s \in Spenders :
       \/ Lock(s) \/ Release(s)
       \/ \E r \in Resources : Consume(s, r) \/ GiveBack(s, r)
  \/ \E o \in Orders :
       \/ GrantRead(o) \/ GrantCompare(o) \/ GrantSave(o)
       \/ ReverseRead(o) \/ ReverseCompare(o) \/ ReverseSave(o)

WalletSpec == WalletInit /\ [][WalletNext]_walletVars

-----------------------------------------------------------------------------
(* Properties.                                                              *)

\* Nothing is lost or made up: the balance is what was credited less what was
\* spent and taken back, unless a grant or a reversal saved over a row that
\* another transaction had changed since its read.
ConservedUnlessOverlapped ==
  ~overlap => \A r \in Resources :
                balance[r] + spent[r] + returned[r] = credited[r]

\* The balances stay numbers no spender can overdraw, and add up.
WalletConsistent == WalletTypeOK /\ ConservedUnlessOverlapped

\* reverseOrder, store-wallet.service.ts:461-467: "On refund only unused balance
\* can be removed. For example, if the user bought 10 CV credits, used 4, and
\* then receives a refund, only the remaining 6 credits can be reversed."
OnlyUnusedIsReversed ==
  \A r \in Resources : spent[r] + returned[r] <= credited[r]
=============================================================================
