----------------------------- MODULE MCCallsLive -----------------------------
(* Calls and Uploads side by side, for the properties that need fairness. They *)
(* share no state; `moving` says which of them a behaviour is about, so that   *)
(* TLC explores the sum of their states, not the product.                      *)
EXTENDS MCCalls, Uploads

VARIABLE moving

ServedInit ==
  /\ CallsInit /\ FilesInit
  /\ moving \in {"calls", "files"}
  \* What rests does so in one of its initial states.
  /\ moving # "files" => large = {}

ServedNext ==
  /\ moving' = moving
  /\ \/ moving = "calls" /\ CallsNext /\ UNCHANGED fileVars
     \/ moving = "files" /\ FilesNext /\ UNCHANGED callVars

\* Uploads at rest have nothing to do, so that their fairness asks for nothing
\* in a behaviour about the calls.
ServedSpec ==
  /\ ServedInit
  /\ [][ServedNext]_<<callVars, fileVars, moving>>
  /\ moving = "calls" => CallsFairness
  /\ FilesFairness
=============================================================================
