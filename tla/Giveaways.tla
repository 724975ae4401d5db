------------------------------ MODULE Giveaways ------------------------------
(* A reward an administrator gives to a learner (module-2/leaderboard): its    *)
(* creation, the one-time application of what it is worth, the shipping        *)
(* address and the dispatch of a physical one, its revocation. One reward;     *)
(* `Clerks` are the requests of the learner's app and of the admin panel. Each *)
(* handler loads the reward with its relations, decides, and then saves whole  *)
(* rows one after the other without a transaction or a lock: every call is a   *)
(* step, a save writes the copy that was loaded, and a request may die between *)
(* two of them. Amounts are valid ones; only Yes/No of a timestamp is kept.    *)
EXTENDS Integers, Sequences, SequencesExt, FiniteSets

CONSTANTS
  Clerks,             \* requests in flight
  AddressTexts,       \* what a shipping address may say
  MaxClerkWork,       \* bound: requests
  MaxClerkFaults      \* bound: requests that die half-way

ASSUME GiveawaysAssumption == MaxClerkWork \in Nat /\ MaxClerkFaults \in Nat

Kinds == {"WALLET", "XP", "FILE", "PHYSICAL"}
NoText == "none"
NoAddress == [text |-> NoText, locked |-> FALSE]
RewardStatuses ==
  {"PENDING", "NOTIFIED", "OPENED", "ADDRESS_PENDING", "ADDRESS_RECEIVED", "APPROVED",
   "PROCESSING", "DISPATCHED", "DELIVERED", "ISSUED", "CLAIMED", "REVOKED", "CANCELLED"}

VARIABLES
  kind,               \* leaderboard_rewards.rewardType, "NONE": no row
  reward,             \* the rest of its row
  address,            \* its shipping address row, NoAddress: none
  fulfilment,         \* its fulfilment row
  applied,            \* leaderboard_reward_values.appliedAt is set
  credited,            \* times the wallet or the XP was credited for it
  clerk,              \* what a request holds, and the calls it has left
  clerkWork,          \* requests made, bounded by MaxClerkWork
  clerkFaults,        \* requests that died, bounded by MaxClerkFaults
  parcel,             \* history: the address the last parcel was sent to
  staleRows,          \* history: tables a copy loaded earlier was saved over
  together,           \* history: two requests applied the reward at once
  revoked,            \* history: the reward has been revoked
  readdressed         \* history: an address was saved for a revoked reward

rewardRows == <<reward, address, fulfilment, applied, credited>>
rewardHistory == <<parcel, staleRows, together, revoked, readdressed>>
rewardVars == <<kind, rewardRows, clerk, clerkWork, clerkFaults, rewardHistory>>

Row(status, opened) == [status |-> status, opened |-> opened, seen |-> FALSE]
Done(dispatched, delivered) == [dispatched |-> dispatched, delivered |-> delivered]
Rows == [reward |-> reward, address |-> address, fulfilment |-> fulfilment]
AtRest == [todo |-> <<>>, read |-> Rows, save |-> Rows]
AllRest == \A r \in Clerks : clerk[r].todo = <<>>
\* A request that rests holds nothing.
Forgotten ==
  [reward |-> Row("PENDING", FALSE), address |-> NoAddress, fulfilment |-> Done(FALSE, FALSE)]
Idle == [todo |-> <<>>, read |-> Forgotten, save |-> Forgotten]
Physical == kind = "PHYSICAL"

(* Rewards of earlier versions were left for the user to open.                 *)
GiveawaysInit ==
  /\ kind \in Kinds \union {"NONE"}
  /\ reward = Row("PENDING", FALSE) /\ address = NoAddress /\ fulfilment = Done(FALSE, FALSE)
  /\ applied = FALSE /\ credited = 0
  /\ clerk = [r \in Clerks |-> Idle] /\ clerkWork = 0 /\ clerkFaults = 0
  /\ parcel = NoText /\ staleRows = {} /\ together = FALSE
  /\ revoked = FALSE /\ readdressed = FALSE
-----------------------------------------------------------------------------
(* A request loads the reward and its relations, and decides what to save.     *)
LoadsReward(r, save, todo) ==
  /\ kind # "NONE" /\ clerk[r].todo = <<>> /\ clerkWork < MaxClerkWork
  /\ clerkWork' = clerkWork + 1
  /\ clerk' = [clerk EXCEPT ![r] = [todo |-> todo, read |-> Rows, save |-> save]]
  /\ UNCHANGED <<kind, rewardRows, clerkFaults, rewardHistory>>

(* admin: the rows in one transaction; what is digital is applied at once.     *)
CreateReward(r) ==
  /\ kind = "NONE" /\ clerk[r].todo = <<>> /\ clerkWork < MaxClerkWork
  /\ clerkWork' = clerkWork + 1
  /\ \E k \in Kinds, askAddress \in BOOLEAN :
       /\ kind' = k
       /\ askAddress => k = "PHYSICAL"
       /\ reward' =
            Row(IF k # "PHYSICAL" THEN "OPENED"
                ELSE IF askAddress THEN "ADDRESS_PENDING" ELSE "PROCESSING", TRUE)
       /\ clerk' = [clerk EXCEPT ![r].todo = IF k = "PHYSICAL" THEN <<>> ELSE <<"apply">>]
  /\ UNCHANGED <<address, fulfilment, applied, credited, clerkFaults, rewardHistory>>

(* findById and markSeen                                                       *)
View(r) ==
  /\ ~reward.seen
  /\ LoadsReward(r, [Rows EXCEPT !.reward.seen = TRUE], <<"reward">>)

(* The first opening of a chest sets the status; requestShippingAddress of the *)
(* row says which of the two a physical reward gets.                           *)
OpenReward(r) ==
  /\ reward.status \notin {"REVOKED", "CANCELLED"}
  /\ \E status \in IF reward.opened THEN {reward.status}
                    ELSE IF Physical THEN {"ADDRESS_PENDING", "PROCESSING"} ELSE {"OPENED"} :
       LoadsReward(r, [Rows EXCEPT !.reward = [status |-> status, opened |-> TRUE, seen |-> TRUE]],
                   IF Physical THEN <<"reward">> ELSE <<"reward", "apply">>)

(* saveShippingAddress of the user and updateShippingAddress of the admin      *)
EnterAddress(r) ==
  /\ Physical /\ reward.status \notin {"DISPATCHED", "DELIVERED"} /\ ~address.locked
  /\ \E text \in AddressTexts :
       LoadsReward(r, [Rows EXCEPT !.address.text = text, !.reward.status = "ADDRESS_RECEIVED"],
             <<"address", "fulfilment", "reward">>)

RequestAddress(r) ==
  /\ Physical /\ reward.status \notin {"DELIVERED", "REVOKED"}
  /\ LoadsReward(r, [Rows EXCEPT !.reward.status =
                 IF reward.opened THEN "ADDRESS_PENDING" ELSE "NOTIFIED"],
           <<"reward", "fulfilment">>)

\* Mutant of MayDispatch: a revoked reward is sent as well.
MayDispatchAny == address # NoAddress /\ reward.status # "DELIVERED"

MayDispatch == address # NoAddress /\ reward.status \notin {"DELIVERED", "REVOKED"}

\* Mutant of Dispatched: the address is left open to later changes.
DispatchedUnlocked ==
  [Rows EXCEPT !.fulfilment.dispatched = TRUE, !.reward.status = "DISPATCHED"]

Dispatched ==
  [Rows EXCEPT !.fulfilment.dispatched = TRUE, !.address.locked = TRUE,
               !.reward.status = "DISPATCHED"]

Dispatch(r) ==
  /\ Physical /\ MayDispatch
  /\ LoadsReward(r, Dispatched, <<"fulfilment", "address", "reward">>)

(* markDelivered of the admin and confirmDelivery of the user                  *)
Deliver(r) ==
  /\ Physical /\ reward.status = "DISPATCHED"
  /\ LoadsReward(r, [Rows EXCEPT !.reward.status = "DELIVERED", !.fulfilment.delivered = TRUE,
                           !.address.locked = address # NoAddress],
           IF address = NoAddress THEN <<"reward", "fulfilment">>
           ELSE <<"reward", "fulfilment", "address">>)

AllowedFrom(status) ==
  CASE status = "PENDING" -> {"NOTIFIED", "REVOKED", "CANCELLED"}
    [] status = "NOTIFIED" -> {"OPENED", "ADDRESS_PENDING", "REVOKED"}
    [] status = "OPENED" -> {"ADDRESS_PENDING", "PROCESSING", "CLAIMED", "ISSUED", "REVOKED"}
    [] status = "ADDRESS_PENDING" -> {"ADDRESS_RECEIVED", "REVOKED"}
    [] status = "ADDRESS_RECEIVED" -> {"APPROVED", "PROCESSING", "DISPATCHED", "REVOKED"}
    [] status = "APPROVED" -> {"PROCESSING", "DISPATCHED", "REVOKED"}
    [] status = "PROCESSING" -> {"DISPATCHED", "CLAIMED", "ISSUED", "REVOKED"}
    [] status = "DISPATCHED" -> {"DELIVERED"}
    [] OTHER -> {}

(* admin: any allowed change by hand, then the timestamp that goes with it     *)
UpdateStatus(r) ==
  \E next \in AllowedFrom(reward.status) :
    LoadsReward(r, [Rows EXCEPT !.reward.status = next,
                          !.fulfilment.dispatched = @ \/ next = "DISPATCHED",
                          !.fulfilment.delivered = @ \/ next = "DELIVERED"],
          <<"reward", "fulfilment">>)

(* sendUpdateNotification: saves the whole fulfilment for one timestamp        *)
SendUpdate(r) ==
  /\ reward.status \notin {"REVOKED", "CANCELLED"}
  /\ LoadsReward(r, Rows, <<"fulfilment">>)

\* Mutant of MayRevoke: only what was sent is refused.
MayRevokeApplied == reward.status \notin {"DISPATCHED", "DELIVERED", "REVOKED"}

MayRevoke ==
  reward.status \notin {"CLAIMED", "ISSUED", "DISPATCHED", "DELIVERED", "REVOKED"}

Revoke(r) ==
  /\ MayRevoke
  /\ LoadsReward(r, [Rows EXCEPT !.reward.status = "REVOKED"], <<"reward">>)
-----------------------------------------------------------------------------
NextCall(r) == Head(clerk[r].todo)
Left(r, todo) == IF todo = <<>> THEN Idle ELSE [clerk[r] EXCEPT !.todo = todo]
(* The call is made, and the request has the others left.                      *)
Makes(r, call) ==
  /\ clerk[r].todo # <<>> /\ NextCall(r) = call
  /\ clerk' = [clerk EXCEPT ![r] = Left(r, Tail(clerk[r].todo))]
  /\ UNCHANGED <<kind, clerkWork, clerkFaults>>
(* A copy is saved over a row that has changed since.                          *)
StaleIf(r, table, row) ==
  staleRows' = staleRows \union IF clerk[r].read[table] = row THEN {} ELSE {table}

SaveReward(r) ==
  /\ Makes(r, "reward")
  /\ reward' = clerk[r].save.reward
  /\ StaleIf(r, "reward", reward)
  /\ revoked' = (revoked \/ reward'.status = "REVOKED")
  /\ UNCHANGED <<address, fulfilment, applied, credited, parcel, together, readdressed>>

(* leaderboard_reward_shipping_addresses.rewardId is unique: the insert of a   *)
(* second row throws.                                                          *)
SecondRow(r) == clerk[r].read.address = NoAddress /\ address # NoAddress

SaveAddress(r) ==
  /\ Makes(r, "address") /\ ~SecondRow(r)
  /\ address' = clerk[r].save.address
  /\ StaleIf(r, "address", address)
  /\ parcel' = IF clerk[r].save.reward.status = "DISPATCHED" THEN address'.text ELSE parcel
  /\ readdressed' =
       (readdressed \/ (clerk[r].read.reward.status = "REVOKED"
                          /\ clerk[r].save.reward.status = "ADDRESS_RECEIVED"))
  /\ UNCHANGED <<reward, fulfilment, applied, credited, together, revoked>>

SaveFulfilment(r) ==
  /\ Makes(r, "fulfilment")
  /\ fulfilment' = clerk[r].save.fulfilment
  /\ StaleIf(r, "fulfilment", fulfilment)
  /\ UNCHANGED <<reward, address, applied, credited, parcel, together, revoked, readdressed>>

Applying(r) == clerk[r].todo # <<>> /\ NextCall(r) \in {"grant", "value"}
AppliedStatus == IF kind = "FILE" THEN "ISSUED" ELSE "CLAIMED"

\* Mutant of LeftAsItIs: whether the reward was applied is not looked at.
LeftIfRevoked == reward.status \in {"REVOKED", "CANCELLED"}

LeftAsItIs == applied \/ reward.status \in {"REVOKED", "CANCELLED"}

(* applyReward loads the reward anew; one that was applied is left alone.      *)
StartApply(r) ==
  /\ clerk[r].todo = <<"apply">>
  /\ clerk' =
       [clerk EXCEPT ![r] =
          IF LeftAsItIs THEN Idle
          ELSE [todo |-> <<"grant", "value", "reward">>, read |-> Rows,
                save |-> [Rows EXCEPT !.reward.status = AppliedStatus]]]
  /\ together' = (together \/ \E p \in Clerks \ {r} : Applying(p))
  /\ UNCHANGED <<kind, rewardRows, clerkWork, clerkFaults, parcel, staleRows, revoked, readdressed>>

(* The wallet is credited under its lock, again by whoever comes again; XP has *)
(* the reward's identifier as its idempotency key.                             *)
Grant(r) ==
  /\ Makes(r, "grant")
  /\ credited' =
       CASE kind = "WALLET" -> credited + 1
         [] kind = "XP" -> 1
         [] OTHER -> credited
  /\ UNCHANGED <<reward, address, fulfilment, applied, rewardHistory>>

SaveValue(r) ==
  /\ Makes(r, "value")
  /\ applied' = TRUE
  /\ UNCHANGED <<reward, address, fulfilment, credited, rewardHistory>>

(* A request is cut off, or one of its calls throws.                           *)
ClerkDies(r) ==
  /\ clerk[r].todo # <<>>
  /\ \/ clerkFaults < MaxClerkFaults /\ clerkFaults' = clerkFaults + 1
     \/ NextCall(r) = "address" /\ SecondRow(r) /\ clerkFaults' = clerkFaults
  /\ clerk' = [clerk EXCEPT ![r] = Idle]
  /\ UNCHANGED <<kind, rewardRows, clerkWork, rewardHistory>>

GiveawaysNext ==
  \E r \in Clerks :
    \/ CreateReward(r) \/ View(r) \/ OpenReward(r) \/ EnterAddress(r) \/ RequestAddress(r)
    \/ Dispatch(r) \/ Deliver(r) \/ UpdateStatus(r) \/ SendUpdate(r) \/ Revoke(r)
    \/ SaveReward(r) \/ SaveAddress(r) \/ SaveFulfilment(r)
    \/ StartApply(r) \/ Grant(r) \/ SaveValue(r) \/ ClerkDies(r)

GiveawaysSpec == GiveawaysInit /\ [][GiveawaysNext]_rewardVars
-----------------------------------------------------------------------------
RowSets ==
  [reward : [status : RewardStatuses, opened : BOOLEAN, seen : BOOLEAN],
   address : [text : AddressTexts \union {NoText}, locked : BOOLEAN],
   fulfilment : [dispatched : BOOLEAN, delivered : BOOLEAN]]
(* The types of the variables.                                                 *)
GiveawaysTypeOK ==
  /\ kind \in Kinds \union {"NONE"} /\ Rows \in RowSets
  /\ applied \in BOOLEAN /\ credited \in 0..MaxClerkWork
  /\ \A r \in Clerks :
       /\ clerk[r].read \in RowSets /\ clerk[r].save \in RowSets
       /\ Range(clerk[r].todo) \subseteq
            {"reward", "address", "fulfilment", "apply", "grant", "value"}
  /\ clerkWork \in 0..MaxClerkWork /\ clerkFaults \in 0..MaxClerkFaults
  /\ staleRows \subseteq {"reward", "address", "fulfilment"}

(* A reward marked as applied was credited, and only once: opening it again    *)
(* gives nothing more. Two requests that apply it at once, or one that dies    *)
(* between the credit and the mark, do give it twice.                          *)
GrantedOnce ==
  /\ applied /\ kind \in {"WALLET", "XP"} => credited > 0
  /\ credited > 1 => together \/ clerkFaults > 0

(* A revoked reward was never credited, unless a request died half-way or a    *)
(* copy was saved over a change; and it stays revoked until somebody saves an  *)
(* address for it.                                                             *)
RevokedIsWithheld ==
  /\ AllRest /\ reward.status = "REVOKED" /\ credited > 0 =>
       clerkFaults > 0 \/ "reward" \in staleRows
  /\ revoked /\ reward.status # "REVOKED" => readdressed \/ "reward" \in staleRows

(* What was dispatched keeps, locked, the address the parcel went to, and the  *)
(* time of its dispatch, unless copies of those rows crossed.                  *)
ParcelIsTraced ==
  AllRest /\ reward.status \in {"DISPATCHED", "DELIVERED"} =>
    \/ clerkFaults > 0
    \/ /\ parcel # NoText /\ "address" \notin staleRows =>
            address = [text |-> parcel, locked |-> TRUE]
       /\ "fulfilment" \notin staleRows /\ "reward" \notin staleRows =>
            fulfilment.dispatched /\ (reward.status = "DELIVERED" => fulfilment.delivered)

GiveawaysConsistent == GiveawaysTypeOK /\ GrantedOnce /\ RevokedIsWithheld /\ ParcelIsTraced
=============================================================================
