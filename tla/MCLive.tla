------------------------------- MODULE MCLive -------------------------------
(* StoreRefunds and VideoJobs side by side, for the properties that need      *)
(* fairness. The two share no state; `moving` says which of them a behaviour   *)
(* is about, so that TLC explores the sum of their states, not the product.    *)
EXTENDS StoreRefunds, VideoJobs, TLC

VARIABLE moving

LiveInit == RefundInit /\ VideoInit /\ moving \in {"refunds", "video"}

LiveNext ==
  /\ moving' = moving
  /\ \/ moving = "refunds" /\ RefundNext /\ UNCHANGED videoVars
     \/ moving = "video" /\ VideoNext /\ UNCHANGED refundAllVars

LiveSpec ==
  /\ LiveInit
  /\ [][LiveNext]_<<refundAllVars, videoVars, moving>>
  /\ moving = "refunds" => RefundFairness
  /\ moving = "video" => VideoFairness
=============================================================================
