----------------------------- MODULE MCRtdnQueue -----------------------------
(* The two ways Google tells of what happened to a purchase, RtdnQueue and     *)
(* VoidReconciliation, side by side on a small instance for TLC. They share no *)
(* state; `moving` says which of them a behaviour is about.                    *)
EXTENDS RtdnQueue, VoidReconciliation, TLC

VARIABLE moving

QueuesInit ==
  /\ Init /\ VoidsInit
  /\ moving \in {"rtdn", "voids"}
  /\ enabled = (moving = "voids")

QueuesNext ==
  /\ moving' = moving
  /\ \/ moving = "rtdn" /\ Next
     \/ moving # "rtdn" /\ UNCHANGED vars
  /\ \/ moving = "voids" /\ VoidsNext
     \/ moving # "voids" /\ UNCHANGED voidVars

\* What rests has nothing left to do that its fairness asks for.
QueuesSpec ==
  /\ QueuesInit /\ [][QueuesNext]_<<vars, voidVars, moving>>
  /\ Fairness /\ VoidsFairness
=============================================================================
