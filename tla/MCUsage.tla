------------------------------- MODULE MCUsage -------------------------------
(* What users do around the courses, on a small instance for TLC: Calls,       *)
(* CourseDevices, StoreWallet, ChatMessages, Sessions and Accounts side by     *)
(* side. They share no state; `moving` says which of them a behaviour is       *)
(* about, so that TLC explores the sum of their states, not the product.       *)
EXTENDS Calls, CourseDevices, StoreWallet, ChatMessages, Sessions, Accounts, TLC

CONSTANTS u1, u2, u3, c1, c2, k1, k2, d1, d2, d3, o1, o2, m1, m2

\* Two calls that share the user they ring.
MCCalls == {c1, c2}
MCCallerOf == (c1 :> u1) @@ (c2 :> u3)
MCReceiverOf == (c1 :> u2) @@ (c2 :> u2)

\* One user with three devices on one course and one of them on a second
\* course; another account tries the same device.
MCAttempts ==
  {<<u1, k1, d1>>, <<u1, k1, d2>>, <<u1, k1, d3>>, <<u1, k2, d1>>, <<u2, k1, d1>>}

\* An order of two CV credits and a leaderboard reward of a token and a credit.
MCOrders == {o1, o2}
MCGives == (o1 :> [cv |-> 2, tokens |-> 0]) @@ (o2 :> [cv |-> 1, tokens |-> 1])

\* Two messages of one user, and two users who log in on one device.
MCAuthorOf == (m1 :> u1) @@ (m2 :> u1)
MCInstallations == {<<u1, d1>>, <<u2, d1>>}

\* The same two names stand for the requests of every module, and for spenders
\* and the passes of the delivery processor, which appear in other behaviours.
UsageSymmetry == Permutations(Requests)

VARIABLE moving

UsageInit ==
  /\ CallsInit /\ DevicesInit /\ WalletInit /\ SessionsInit /\ AccountsInit /\ ChatInit
  /\ moving \in {"calls", "devices", "wallet", "chat", "sessions", "account"}
  /\ direct = "NONE" => moving = "chat"

UsageNext ==
  /\ moving' = moving
  /\ \/ moving = "calls" /\ CallsNext
     \/ moving # "calls" /\ UNCHANGED callVars
  /\ \/ moving = "devices" /\ DevicesNext
     \/ moving # "devices" /\ UNCHANGED deviceVars
  /\ \/ moving = "wallet" /\ WalletNext
     \/ moving # "wallet" /\ UNCHANGED walletVars
  /\ \/ moving = "chat" /\ ChatNext
     \/ moving # "chat" /\ UNCHANGED chatVars
  /\ \/ moving = "sessions" /\ SessionsNext
     \/ moving # "sessions" /\ UNCHANGED loginVars
  /\ \/ moving = "account" /\ AccountsNext
     \/ moving # "account" /\ UNCHANGED accountVars

UsageSpec ==
  UsageInit
    /\ [][UsageNext]_<<callVars, deviceVars, walletVars, chatVars, loginVars, accountVars, moving>>
=============================================================================
