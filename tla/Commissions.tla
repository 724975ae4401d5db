----------------------------- MODULE Commissions -----------------------------
(* The commissions of an influencer partner (influencer-hub): how an order     *)
(* made with a coupon of the partner earns one once it is paid, and how the    *)
(* partner and the deal are edited and archived. Nothing here takes a lock;    *)
(* only the completion of an order holds the lock of its order.                *)
EXTENDS Integers, Sequences

CONSTANTS
  Referred,           \* checkouts with a coupon of the partner, each of one order
  Converters,         \* transactions that convert an attribution
  Managers,           \* administrators' requests on the partner
  CouponCodes,        \* the partner's coupons
  Shares,             \* percentages of an order that a deal may give the partner
  MaxManaged,         \* bound: requests of administrators
  MaxMishaps          \* bound: transactions rolled back, archivings cut short

ASSUME SharesAssumption == Shares \subseteq Nat \ {0}
ASSUME ManagedAssumption == MaxManaged \in Nat /\ MaxMishaps \in Nat

VARIABLES
  partner,            \* the partner's status
  coupon,             \* the rows of the partner's coupons
  share,              \* what a checkout has resolved, and then its order's attribution
  referral,           \* the attribution's status, "none" before the order exists
  settled,            \* orders that are paid
  ledger,             \* the COMMISSION entries of an order
  converter, mishaps, manager, managed,
  retired,            \* history: archived, and no deal or activation since
  collided            \* history: an edit of the partner overlapped its archiving

commissionVars == <<partner, coupon, share, referral, settled, ledger, converter, mishaps,
                    manager, managed, retired, collided>>
partnerVars == <<partner, coupon, manager, managed, retired, collided>>
orderVars == <<share, referral, settled, ledger, converter>>

NoCoupon == [status |-> "NONE", share |-> 0]
CouponRows == [status : {"ACTIVE", "PAUSED"}, share : Shares] \union {NoCoupon}
Deals == [code : CouponCodes, row : [status : {"ACTIVE", "PAUSED"}, share : Shares]]
NoDeal == {}

Unused == [at |-> "idle", order |-> {}, completes |-> FALSE, owes |-> FALSE]
AtRest == [at |-> "idle", status |-> "ACTIVE", deal |-> NoDeal]

(* createPartner, with a deal or without.                                      *)
CommissionsInit ==
  /\ partner = "ACTIVE" /\ coupon \in [CouponCodes -> CouponRows]
  /\ share = [b \in Referred |-> 0]
  /\ referral = [b \in Referred |-> "none"]
  /\ settled = {} /\ ledger = [b \in Referred |-> <<>>]
  /\ converter = [k \in Converters |-> Unused] /\ mishaps = 0
  /\ manager = [a \in Managers |-> AtRest] /\ managed = 0
  /\ retired = FALSE /\ collided = FALSE
-----------------------------------------------------------------------------
(* resolveCouponForCheckout: an active coupon, on its own terms of now.        *)
Resolve(b, c) ==
  /\ share[b] = 0 /\ coupon[c].status = "ACTIVE"
  /\ share' = [share EXCEPT ![b] = coupon[c].share]
  /\ UNCHANGED <<partnerVars, referral, settled, ledger, converter, mishaps>>

(* recordPendingOrderAttribution, in the transaction that creates the order.   *)
PlaceReferred(b) ==
  /\ share[b] # 0 /\ referral[b] = "none"
  /\ referral' = [referral EXCEPT ![b] = "pending"]
  /\ UNCHANGED <<partnerVars, share, settled, ledger, converter, mishaps>>

(* convertOrderAttribution, in the transaction that completes the order, which *)
(* holds the order's lock, or in that of handlePaidOrder, which does not.      *)
FindAttribution(k, b) ==
  /\ converter[k] = Unused /\ referral[b] # "none"
  /\ \E completes \in BOOLEAN :
       /\ completes => /\ b \notin settled
                       /\ \A l \in Converters : ~(converter[l].completes /\ b \in converter[l].order)
       /\ \/ /\ referral[b] = "converted" /\ completes
             /\ settled' = settled \union {b} /\ UNCHANGED converter
          \/ /\ referral[b] = "pending"
             /\ converter' = [converter EXCEPT ![k] =
                  [at |-> "found", order |-> {b}, completes |-> completes, owes |-> ledger[b] = <<>>]]
             /\ UNCHANGED settled
  /\ UNCHANGED <<partnerVars, share, referral, ledger, mishaps>>

(* The row of the attribution is updated: it stays locked until the commit.    *)
SaveAttribution(k) ==
  /\ converter[k].at = "found"
  /\ \A l \in Converters : ~(converter[l].at = "saved" /\ converter[l].order = converter[k].order)
  /\ converter' = [converter EXCEPT ![k].at = "saved"]
  /\ UNCHANGED <<partnerVars, share, referral, settled, ledger, mishaps>>

\* Mutant of Owes: the ledger was searched before the attribution was saved.
OwesAtFirst(k, b) == converter[k].owes

Owes(k, b) == ledger[b] = <<>>

(* The ledger is searched for a commission of the order, and all is committed. *)
Convert(k) ==
  \E b \in converter[k].order :
    /\ converter[k].at = "saved"
    /\ referral' = [referral EXCEPT ![b] = "converted"]
    /\ ledger' = IF Owes(k, b) THEN [ledger EXCEPT ![b] = Append(@, share[b])] ELSE ledger
    /\ settled' = IF converter[k].completes THEN settled \union {b} ELSE settled
    /\ converter' = [converter EXCEPT ![k] = Unused]
    /\ UNCHANGED <<partnerVars, share, mishaps>>

RollBack(k) ==
  /\ converter[k] # Unused /\ mishaps < MaxMishaps
  /\ mishaps' = mishaps + 1
  /\ converter' = [converter EXCEPT ![k] = Unused]
  /\ UNCHANGED <<partnerVars, share, referral, settled, ledger>>
-----------------------------------------------------------------------------
Manages(a, state) ==
  /\ manager[a] = AtRest /\ managed < MaxManaged
  /\ managed' = managed + 1 /\ manager' = [manager EXCEPT ![a] = state]
  /\ UNCHANGED <<orderVars, mishaps, coupon, retired, collided>>

(* updatePartner loads the row; the request may name a status and a deal.      *)
StartEdit(a) ==
  \E status \in {"as loaded", "ACTIVE", "INACTIVE"}, deal \in {NoDeal} \union {{x} : x \in Deals} :
    /\ Manages(a, [at |-> IF status = "ACTIVE" THEN "activating" ELSE "editing",
                   status |-> IF status = "as loaded" THEN partner ELSE status, deal |-> deal])
    /\ UNCHANGED partner

(* upsertDealWithManager                                                       *)
Upserted(deal) ==
  [c \in CouponCodes |-> IF \E x \in deal : x.code = c THEN (CHOOSE x \in deal : x.code = c).row
                         ELSE coupon[c]]

(* The row is saved as it was loaded, with what the request names.             *)
SaveEdit(a) ==
  /\ manager[a].at \in {"editing", "activating"}
  /\ partner' = manager[a].status /\ coupon' = Upserted(manager[a].deal)
  /\ retired' = (retired /\ manager[a].at = "editing" /\ manager[a].deal = NoDeal)
  /\ collided' = (collided \/ \E e \in Managers : manager[e].at = "pausing")
  /\ manager' = [manager EXCEPT ![a] = AtRest]
  /\ UNCHANGED <<orderVars, managed, mishaps>>

(* archivePartner: the row is saved, then the coupons are paused.              *)
ArchivePartner(a) ==
  Manages(a, [AtRest EXCEPT !.at = "pausing"]) /\ partner' = "INACTIVE"

\* Mutant of Paused: only one coupon of the partner.
PausedOne ==
  LET active == {c \in CouponCodes : coupon[c].status = "ACTIVE"}
  IN  [c \in CouponCodes |-> IF active # {} /\ c = CHOOSE d \in active : TRUE
                             THEN [coupon[c] EXCEPT !.status = "PAUSED"] ELSE coupon[c]]

Paused ==
  [c \in CouponCodes |-> IF coupon[c] = NoCoupon THEN NoCoupon ELSE [coupon[c] EXCEPT !.status = "PAUSED"]]

PauseCoupons(a) ==
  /\ manager[a].at = "pausing"
  /\ coupon' = Paused /\ retired' = TRUE
  /\ collided' = (collided \/ \E e \in Managers : manager[e].at \in {"editing", "activating"})
  /\ manager' = [manager EXCEPT ![a] = AtRest]
  /\ UNCHANGED <<orderVars, partner, managed, mishaps>>

ArchivingDies(a) ==
  /\ manager[a].at = "pausing" /\ mishaps < MaxMishaps /\ mishaps' = mishaps + 1
  /\ manager' = [manager EXCEPT ![a] = AtRest]
  /\ UNCHANGED <<orderVars, partner, coupon, managed, retired, collided>>

CommissionsNext ==
  \/ \E b \in Referred :
       \/ \E c \in CouponCodes : Resolve(b, c)
       \/ PlaceReferred(b)
       \/ \E k \in Converters : FindAttribution(k, b)
  \/ \E k \in Converters : SaveAttribution(k) \/ Convert(k) \/ RollBack(k)
  \/ \E a \in Managers :
       StartEdit(a) \/ SaveEdit(a) \/ ArchivePartner(a) \/ PauseCoupons(a) \/ ArchivingDies(a)

CommissionsSpec == CommissionsInit /\ [][CommissionsNext]_commissionVars
-----------------------------------------------------------------------------
(* The types of the variables.                                                 *)
CommissionsTypeOK ==
  /\ partner \in {"ACTIVE", "INACTIVE"} /\ coupon \in [CouponCodes -> CouponRows]
  /\ share \in [Referred -> Shares \union {0}]
  /\ referral \in [Referred -> {"none", "pending", "converted"}]
  /\ settled \subseteq Referred
  /\ ledger \in [Referred -> Seq(Shares)]
  /\ converter \in [Converters -> [at : {"idle", "found", "saved"}, order : SUBSET Referred,
                                   completes : BOOLEAN, owes : BOOLEAN]]
  /\ manager \in [Managers -> [at : {"idle", "editing", "activating", "pausing"},
                               status : {"ACTIVE", "INACTIVE"}, deal : SUBSET Deals]]
  /\ managed \in 0..MaxManaged /\ mishaps \in 0..MaxMishaps
  /\ retired \in BOOLEAN /\ collided \in BOOLEAN

(* An order of the partner's coupon earns one commission, of the share that    *)
(* was resolved for it, however often and concurrently it is reported paid;    *)
(* and a paid order has earned it.                                             *)
CommissionOnce ==
  \A b \in Referred :
    /\ ledger[b] = IF referral[b] = "converted" THEN <<share[b]>> ELSE <<>>
    /\ b \in settled => referral[b] = "converted"

(* An archived partner is inactive and sells nothing until a deal is saved or  *)
(* the partner activated, unless an edit overlapped the archiving.             *)
RetiredSellsNothing ==
  retired /\ ~collided =>
    partner = "INACTIVE" /\ \A c \in CouponCodes : coupon[c].status # "ACTIVE"

CommissionsConsistent == CommissionsTypeOK /\ CommissionOnce /\ RetiredSellsNothing
=============================================================================
