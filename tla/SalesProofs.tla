----------------------------- MODULE SalesProofs -----------------------------
(* What the modules of the sales guarantee for every number of orders,         *)
(* requests, products and coupons: Commissions, Coupons, Catalogue and         *)
(* CourseOrders.                                                               *)
EXTENDS CourseOrders, Catalogue, Coupons, Commissions, FiniteSetTheorems, TLAPS

-----------------------------------------------------------------------------
(* Commissions: the orders.                                                    *)

\* An order with an attribution has the share that was resolved for it, and a
\* transaction converts the attribution of an order that has one.
Attributed ==
  /\ \A b \in Referred : referral[b] # "none" => share[b] \in Shares
  /\ \A k \in Converters :
       /\ converter[k].at = "idle" => converter[k] = Unused
       /\ \A b \in converter[k].order : referral[b] # "none"

(* Commissions: the partner.                                                   *)

\* While nobody edits the partner as it is archived: who pauses the coupons has
\* made the partner inactive, and who has loaded an archived partner will save
\* it as inactive.
Retiring ==
  ~collided =>
    /\ \A a \in Managers : manager[a].at = "pausing" => partner = "INACTIVE"
    /\ retired => \A a \in Managers : manager[a].at = "editing" => manager[a].status = "INACTIVE"

CommissionsInv == CommissionsConsistent /\ Attributed /\ Retiring

ConverterStates ==
  [at : {"idle", "found", "saved"}, order : SUBSET Referred, completes : BOOLEAN, owes : BOOLEAN]
ManagerStates ==
  [at : {"idle", "editing", "activating", "pausing"}, status : {"ACTIVE", "INACTIVE"},
   deal : SUBSET Deals]

\* Who rests has a state too.
LEMMA RestTyped == Unused \in ConverterStates /\ AtRest \in ManagerStates
<1>1. {} \in SUBSET Referred /\ {} \in SUBSET Deals
  OBVIOUS
<1> HIDE DEF Deals
<1> QED
  BY <1>1 DEF Unused, AtRest, ConverterStates, ManagerStates, NoDeal

\* Before the first order nobody is referred and no commission exists.
LEMMA CommissionsInitInv == CommissionsInit => CommissionsInv
<1> SUFFICES ASSUME CommissionsInit PROVE CommissionsInv
  OBVIOUS
<1>1. /\ converter \in [Converters -> ConverterStates] /\ manager \in [Managers -> ManagerStates]
      /\ \A k \in Converters : converter[k] = Unused
      /\ \A a \in Managers : manager[a].at = "idle"
  BY RestTyped DEF CommissionsInit, AtRest
<1>2. <<>> \in Seq(Shares)
  OBVIOUS
<1>3. ledger \in [Referred -> Seq(Shares)]
  BY <1>2 DEF CommissionsInit
<1>a. /\ share \in [Referred -> Shares \union {0}] /\ settled \subseteq Referred
      /\ referral \in [Referred -> {"none", "pending", "converted"}]
      /\ managed \in 0..MaxManaged /\ mishaps \in 0..MaxMishaps
  BY ManagedAssumption DEF CommissionsInit
<1>b. /\ partner \in {"ACTIVE", "INACTIVE"} /\ coupon \in [CouponCodes -> CouponRows]
      /\ retired \in BOOLEAN /\ collided \in BOOLEAN
  BY DEF CommissionsInit
<1>4. CommissionsTypeOK
  BY <1>1, <1>3, <1>a, <1>b DEF CommissionsTypeOK, ConverterStates, ManagerStates
<1>5. CommissionOnce /\ RetiredSellsNothing /\ Attributed /\ Retiring
  BY <1>1
  DEF CommissionsInit, CommissionOnce, RetiredSellsNothing, Attributed, Retiring, Unused
<1> QED
  BY <1>4, <1>5 DEF CommissionsInv, CommissionsConsistent

\* A step of an order keeps everything about the partner.
LEMMA OrderStep ==
  ASSUME CommissionsInv,
         \/ \E b \in Referred :
              \/ \E c \in CouponCodes : Resolve(b, c)
              \/ PlaceReferred(b)
              \/ \E k \in Converters : FindAttribution(k, b)
         \/ \E k \in Converters : SaveAttribution(k) \/ Convert(k) \/ RollBack(k)
  PROVE  CommissionsInv'
<1> USE ManagedAssumption, SharesAssumption
<1>0. CommissionsTypeOK /\ CommissionOnce /\ RetiredSellsNothing /\ Attributed /\ Retiring
  BY DEF CommissionsInv, CommissionsConsistent
<1>1. UNCHANGED partnerVars
  BY DEF Resolve, PlaceReferred, FindAttribution, SaveAttribution, Convert, RollBack
<1>2. RetiredSellsNothing' /\ Retiring'
  BY <1>0, <1>1 DEF partnerVars, RetiredSellsNothing, Retiring
<1>t. /\ share \in [Referred -> Shares \union {0}] /\ settled \subseteq Referred
      /\ referral \in [Referred -> {"none", "pending", "converted"}]
      /\ ledger \in [Referred -> Seq(Shares)] /\ mishaps \in 0..MaxMishaps
      /\ converter \in [Converters -> ConverterStates]
  BY <1>0 DEF CommissionsTypeOK, ConverterStates
<1> DEFINE Typed ==
             /\ share \in [Referred -> Shares \union {0}] /\ settled \subseteq Referred
             /\ referral \in [Referred -> {"none", "pending", "converted"}]
             /\ ledger \in [Referred -> Seq(Shares)] /\ mishaps \in 0..MaxMishaps
             /\ converter \in [Converters -> ConverterStates]
           Orderly == Typed /\ CommissionOnce /\ Attributed
<1>3. ASSUME NEW b \in Referred, NEW c \in CouponCodes, Resolve(b, c) PROVE Orderly'
  <2>1. coupon[c].share \in Shares
    BY <1>0, <1>3 DEF Resolve, CommissionsTypeOK, CouponRows, NoCoupon
  <2>2. /\ share' = [share EXCEPT ![b] = coupon[c].share] /\ share[b] = 0
        /\ UNCHANGED <<referral, settled, ledger, converter, mishaps>>
    BY <1>3 DEF Resolve
  <2>3. referral[b] = "none"
    BY <1>0, <1>t, <2>2 DEF Attributed
  <2>4. CommissionOnce'
    BY <1>0, <1>t, <2>2, <2>3 DEF CommissionOnce
  <2>5. Attributed'
    BY <1>0, <1>t, <2>1, <2>2 DEF Attributed
  <2> QED
    BY <1>t, <2>1, <2>2, <2>4, <2>5
<1>4. ASSUME NEW b \in Referred, PlaceReferred(b) PROVE Orderly'
  <2>1. /\ referral' = [referral EXCEPT ![b] = "pending"] /\ referral[b] = "none" /\ share[b] # 0
        /\ UNCHANGED <<share, settled, ledger, converter, mishaps>>
    BY <1>4 DEF PlaceReferred
  <2>2. CommissionOnce' /\ Attributed'
    BY <1>0, <1>t, <2>1 DEF CommissionOnce, Attributed
  <2> QED
    BY <1>t, <2>1, <2>2
<1>5. ASSUME NEW b \in Referred, NEW k \in Converters, FindAttribution(k, b) PROVE Orderly'
  <2>1. PICK completes \in BOOLEAN :
          \/ /\ referral[b] = "converted" /\ completes
             /\ settled' = settled \union {b} /\ UNCHANGED converter
          \/ /\ referral[b] = "pending"
             /\ converter' = [converter EXCEPT ![k] =
                  [at |-> "found", order |-> {b}, completes |-> completes, owes |-> ledger[b] = <<>>]]
             /\ UNCHANGED settled
    BY <1>5 DEF FindAttribution
  <2>2. UNCHANGED <<share, referral, ledger, mishaps>>
    BY <1>5 DEF FindAttribution
  <2>3. CASE referral[b] = "converted" /\ settled' = settled \union {b} /\ UNCHANGED converter
    BY <1>0, <1>t, <2>2, <2>3 DEF CommissionOnce, Attributed
  <2>4. ASSUME NEW owes \in BOOLEAN, referral[b] = "pending", UNCHANGED settled,
               converter' = [converter EXCEPT ![k] =
                 [at |-> "found", order |-> {b}, completes |-> completes, owes |-> owes]]
        PROVE  Orderly'
    <3>1. [at |-> "found", order |-> {b}, completes |-> completes, owes |-> owes] \in ConverterStates
      BY DEF ConverterStates
    <3>2. CommissionOnce' /\ Attributed'
      BY <1>0, <1>t, <2>2, <2>4 DEF CommissionOnce, Attributed
    <3> QED
      BY <1>t, <2>2, <2>4, <3>1, <3>2
  <2>5. (ledger[b] = <<>>) \in BOOLEAN
    OBVIOUS
  <2> QED
    BY <2>1, <2>3, <2>4, <2>5
<1>6. ASSUME NEW k \in Converters, SaveAttribution(k) PROVE Orderly'
  <2>1. /\ converter' = [converter EXCEPT ![k].at = "saved"]
        /\ UNCHANGED <<share, referral, settled, ledger, mishaps>>
    BY <1>6 DEF SaveAttribution
  <2>2. [converter[k] EXCEPT !.at = "saved"] \in ConverterStates
    BY <1>t DEF ConverterStates
  <2>3. CommissionOnce' /\ Attributed'
    BY <1>0, <1>t, <2>1 DEF CommissionOnce, Attributed, ConverterStates
  <2> QED
    BY <1>t, <2>1, <2>2, <2>3
<1>7. ASSUME NEW k \in Converters, Convert(k) PROVE Orderly'
  <2>1. PICK b \in converter[k].order :
          /\ referral' = [referral EXCEPT ![b] = "converted"]
          /\ ledger' = IF Owes(k, b) THEN [ledger EXCEPT ![b] = Append(@, share[b])] ELSE ledger
          /\ settled' = IF converter[k].completes THEN settled \union {b} ELSE settled
          /\ converter' = [converter EXCEPT ![k] = Unused]
          /\ UNCHANGED <<partnerVars, share, mishaps>>
    BY <1>7 DEF Convert
  <2>2. b \in Referred /\ share[b] \in Shares
    BY <1>0, <1>t, <2>1 DEF Attributed, ConverterStates
  <2>3. Append(<<>>, share[b]) = <<share[b]>> /\ <<share[b]>> # <<>> /\ <<share[b]>> \in Seq(Shares)
    BY <2>2
  <2>4. ledger' = [ledger EXCEPT ![b] = <<share[b]>>]
    <3>1. CASE referral[b] = "converted"
      BY <1>0, <1>t, <2>1, <2>2, <2>3, <3>1 DEF CommissionOnce, Owes
    <3>2. CASE referral[b] # "converted"
      BY <1>0, <1>t, <2>1, <2>2, <2>3, <3>2 DEF CommissionOnce, Owes
    <3> QED
      BY <3>1, <3>2
  <2>5. CommissionOnce'
    BY <1>0, <1>t, <2>1, <2>2, <2>4 DEF CommissionOnce
  <2>6. Attributed'
    BY <1>0, <1>t, <2>1, <2>2 DEF Attributed, Unused
  <2> QED
    BY <1>t, RestTyped, <2>1, <2>2, <2>3, <2>4, <2>5, <2>6
<1>8. ASSUME NEW k \in Converters, RollBack(k) PROVE Orderly'
  <2>1. /\ converter' = [converter EXCEPT ![k] = Unused] /\ mishaps < MaxMishaps
        /\ mishaps' = mishaps + 1
        /\ UNCHANGED <<share, referral, settled, ledger>>
    BY <1>8 DEF RollBack
  <2>2. CommissionOnce' /\ Attributed'
    BY <1>0, <1>t, <2>1 DEF CommissionOnce, Attributed, Unused
  <2> QED
    BY <1>t, RestTyped, <2>1, <2>2
<1>9. Orderly'
  BY <1>3, <1>4, <1>5, <1>6, <1>7, <1>8
<1>10. CommissionsTypeOK'
  BY <1>0, <1>1, <1>9 DEF CommissionsTypeOK, partnerVars, ConverterStates
<1> QED
  BY <1>2, <1>9, <1>10 DEF CommissionsInv, CommissionsConsistent

\* A step of an administrator keeps everything about the orders.
LEMMA PartnerStep ==
  ASSUME CommissionsInv, NEW a \in Managers,
         StartEdit(a) \/ SaveEdit(a) \/ ArchivePartner(a) \/ PauseCoupons(a) \/ ArchivingDies(a)
  PROVE  CommissionsInv'
<1> USE ManagedAssumption
<1>0. CommissionsTypeOK /\ CommissionOnce /\ RetiredSellsNothing /\ Attributed /\ Retiring
  BY DEF CommissionsInv, CommissionsConsistent
<1>1. UNCHANGED orderVars
  BY DEF StartEdit, Manages, SaveEdit, ArchivePartner, PauseCoupons, ArchivingDies
<1>2. CommissionOnce' /\ Attributed'
  BY <1>0, <1>1 DEF orderVars, CommissionOnce, Attributed
<1>t. /\ partner \in {"ACTIVE", "INACTIVE"} /\ coupon \in [CouponCodes -> CouponRows]
      /\ manager \in [Managers -> ManagerStates]
      /\ managed \in 0..MaxManaged /\ mishaps \in 0..MaxMishaps
      /\ retired \in BOOLEAN /\ collided \in BOOLEAN
  BY <1>0 DEF CommissionsTypeOK, ManagerStates
<1> DEFINE Typed ==
             /\ partner \in {"ACTIVE", "INACTIVE"} /\ coupon \in [CouponCodes -> CouponRows]
             /\ manager \in [Managers -> ManagerStates]
             /\ managed \in 0..MaxManaged /\ mishaps \in 0..MaxMishaps
             /\ retired \in BOOLEAN /\ collided \in BOOLEAN
           Managed == Typed /\ RetiredSellsNothing /\ Retiring
<1>3. ASSUME NEW state \in ManagerStates, Manages(a, state), partner' \in {partner, "INACTIVE"},
             state.at = "editing" => state.status = "INACTIVE" \/ partner # "INACTIVE",
             state.at = "pausing" => partner' = "INACTIVE"
      PROVE  Managed'
  <2>1. /\ manager' = [manager EXCEPT ![a] = state] /\ managed' = managed + 1 /\ managed < MaxManaged
        /\ UNCHANGED <<mishaps, coupon, retired, collided>>
    BY <1>3 DEF Manages
  <2>2. Typed'
    BY <1>t, <1>3, <2>1
  <2>3. RetiredSellsNothing'
    BY <1>0, <1>3, <2>1 DEF RetiredSellsNothing
  <2>4. Retiring'
    BY <1>0, <1>t, <1>3, <2>1 DEF Retiring, RetiredSellsNothing
  <2> QED
    BY <2>2, <2>3, <2>4
<1>4. ASSUME StartEdit(a) PROVE Managed'
  <2>1. PICK status \in {"as loaded", "ACTIVE", "INACTIVE"},
             deal \in {NoDeal} \union {{x} : x \in Deals} :
          /\ Manages(a, [at |-> IF status = "ACTIVE" THEN "activating" ELSE "editing",
                         status |-> IF status = "as loaded" THEN partner ELSE status, deal |-> deal])
          /\ UNCHANGED partner
    BY <1>4 DEF StartEdit
  <2>2. deal \in SUBSET Deals
    BY DEF NoDeal
  <2> DEFINE at == IF status = "ACTIVE" THEN "activating" ELSE "editing"
             loaded == IF status = "as loaded" THEN partner ELSE status
  <2>3. /\ at \in {"idle", "editing", "activating", "pausing"} /\ at # "pausing"
        /\ loaded \in {"ACTIVE", "INACTIVE"}
        /\ at = "editing" => loaded = "INACTIVE" \/ partner # "INACTIVE"
    BY <1>t
  <2> HIDE DEF at, loaded
  <2>4. [at |-> at, status |-> loaded, deal |-> deal] \in ManagerStates
    BY <2>2, <2>3 DEF ManagerStates
  <2>5. Manages(a, [at |-> at, status |-> loaded, deal |-> deal])
    BY <2>1 DEF at, loaded
  <2> HIDE DEF Managed
  <2>6. Managed'
    BY <1>3, <2>1, <2>3, <2>4, <2>5
  <2> QED
    BY <2>6
<1>5. ASSUME ArchivePartner(a) PROVE Managed'
  <2>1. [AtRest EXCEPT !.at = "pausing"] \in ManagerStates
    BY RestTyped DEF ManagerStates
  <2>2. [AtRest EXCEPT !.at = "pausing"].at = "pausing"
    BY DEF AtRest
  <2> HIDE DEF Managed
  <2> QED
    BY <1>3, <1>5, <2>1, <2>2 DEF ArchivePartner
<1>6. ASSUME SaveEdit(a) PROVE Managed'
  <2>1. /\ partner' = manager[a].status /\ coupon' = Upserted(manager[a].deal)
        /\ retired' = (retired /\ manager[a].at = "editing" /\ manager[a].deal = NoDeal)
        /\ collided' = (collided \/ \E e \in Managers : manager[e].at = "pausing")
        /\ manager' = [manager EXCEPT ![a] = AtRest]
        /\ UNCHANGED <<managed, mishaps>>
    BY <1>6 DEF SaveEdit
  <2>2. manager[a].status \in {"ACTIVE", "INACTIVE"} /\ manager[a].deal \in SUBSET Deals
    BY <1>t DEF ManagerStates
  <2>3. coupon' \in [CouponCodes -> CouponRows]
    <3> SUFFICES ASSUME NEW c \in CouponCodes, \E x \in manager[a].deal : x.code = c
                 PROVE  (CHOOSE x \in manager[a].deal : x.code = c).row \in CouponRows
      BY <1>t, <2>1 DEF Upserted
    <3>1. (CHOOSE x \in manager[a].deal : x.code = c) \in Deals
      BY <2>2
    <3> QED
      BY <3>1 DEF Deals, CouponRows
  <2>4. manager[a].deal = NoDeal => coupon' = coupon
    BY <1>t, <2>1 DEF Upserted, NoDeal
  <2>5. retired' \in BOOLEAN /\ collided' \in BOOLEAN
    BY <1>t, <2>1
  <2>6. Typed'
    BY <1>t, RestTyped, <2>1, <2>2, <2>3, <2>5
  <2>7. RetiredSellsNothing'
    BY <1>0, <1>t, <2>1, <2>4 DEF RetiredSellsNothing, Retiring
  <2>8. Retiring'
    <3> SUFFICES ASSUME ~collided'
                 PROVE  /\ \A e \in Managers : manager'[e].at # "pausing"
                        /\ retired' => \A e \in Managers : manager'[e].at = "editing" =>
                                                           manager'[e].status = "INACTIVE"
      BY DEF Retiring
    <3>1. ~collided /\ \A e \in Managers : manager[e].at # "pausing"
      BY <2>1
    <3> QED
      BY <1>0, <1>t, <2>1, <3>1 DEF Retiring, AtRest
  <2> QED
    BY <2>6, <2>7, <2>8
<1>7. ASSUME PauseCoupons(a) PROVE Managed'
  <2>1. /\ manager[a].at = "pausing" /\ coupon' = Paused /\ retired' = TRUE
        /\ collided' = (collided \/ \E e \in Managers : manager[e].at \in {"editing", "activating"})
        /\ manager' = [manager EXCEPT ![a] = AtRest]
        /\ UNCHANGED <<partner, managed, mishaps>>
    BY <1>7 DEF PauseCoupons
  <2>2. ASSUME NEW c \in CouponCodes PROVE coupon'[c] \in CouponRows /\ coupon'[c].status # "ACTIVE"
    <3>1. CASE coupon[c] = NoCoupon
      BY <2>1, <3>1 DEF Paused, CouponRows, NoCoupon
    <3>2. CASE coupon[c] # NoCoupon
      <4>1. coupon[c] \in [status : {"ACTIVE", "PAUSED"}, share : Shares]
        BY <1>t, <3>2 DEF CouponRows
      <4>2. coupon'[c] = [coupon[c] EXCEPT !.status = "PAUSED"]
        BY <2>1, <3>2 DEF Paused
      <4>3. coupon'[c] \in [status : {"ACTIVE", "PAUSED"}, share : Shares] /\ coupon'[c].status = "PAUSED"
        BY <4>1, <4>2
      <4> QED
        BY <4>3 DEF CouponRows
    <3> QED
      BY <3>1, <3>2
  <2>3. coupon' = [c \in CouponCodes |-> coupon'[c]]
    BY <2>1 DEF Paused
  <2>4. Typed'
    BY <1>t, RestTyped, <2>1, <2>2, <2>3
  <2>5. RetiredSellsNothing'
    BY <1>0, <1>t, <2>1, <2>2 DEF RetiredSellsNothing, Retiring
  <2>6. Retiring'
    <3> SUFFICES ASSUME ~collided'
                 PROVE  /\ \A e \in Managers : manager'[e].at = "pausing" => partner' = "INACTIVE"
                        /\ \A e \in Managers : manager'[e].at # "editing"
      BY DEF Retiring
    <3>1. ~collided /\ \A e \in Managers : manager[e].at # "editing"
      BY <2>1
    <3> QED
      BY <1>0, <1>t, <2>1, <3>1 DEF Retiring, AtRest
  <2> QED
    BY <2>4, <2>5, <2>6
<1>8. ASSUME ArchivingDies(a) PROVE Managed'
  <2>1. /\ mishaps < MaxMishaps /\ mishaps' = mishaps + 1
        /\ manager' = [manager EXCEPT ![a] = AtRest]
        /\ UNCHANGED <<partner, coupon, managed, retired, collided>>
    BY <1>8 DEF ArchivingDies
  <2>2. Typed'
    BY <1>t, RestTyped, <2>1
  <2>3. RetiredSellsNothing' /\ Retiring'
    BY <1>0, <1>t, <2>1 DEF RetiredSellsNothing, Retiring, AtRest
  <2> QED
    BY <2>2, <2>3
<1>9. Managed'
  BY <1>4, <1>5, <1>6, <1>7, <1>8
<1>10. CommissionsTypeOK'
  BY <1>0, <1>1, <1>9 DEF CommissionsTypeOK, orderVars, ManagerStates
<1> QED
  BY <1>2, <1>9, <1>10 DEF CommissionsInv, CommissionsConsistent

\* An order of a partner's coupon earns one commission, whatever reports it paid
\* and however they overlap (convertOrderAttribution); an archived partner sells
\* nothing unless an edit overlapped the archiving (archivePartner, updatePartner).
THEOREM CommissionsAreConsistent == CommissionsSpec => []CommissionsConsistent
<1>1. CommissionsInv /\ [CommissionsNext]_commissionVars => CommissionsInv'
  <2> SUFFICES ASSUME CommissionsInv, [CommissionsNext]_commissionVars PROVE CommissionsInv'
    OBVIOUS
  <2>1. CASE UNCHANGED commissionVars
    BY <2>1
    DEF commissionVars, CommissionsInv, CommissionsConsistent, CommissionsTypeOK,
        CommissionOnce, RetiredSellsNothing, Attributed, Retiring
  <2>2. CASE CommissionsNext
    BY <2>2, OrderStep, PartnerStep DEF CommissionsNext
  <2> QED
    BY <2>1, <2>2
<1>2. CommissionsInv => CommissionsConsistent
  BY DEF CommissionsInv
<1> QED
  BY <1>1, <1>2, CommissionsInitInv, PTL DEF CommissionsSpec
-----------------------------------------------------------------------------
(* The coupon of a product.                                                    *)

\* While no two checkouts wrote its mappings together: only the writer changes
\* them, and what it read is what is there.
WriterReadAll ==
  ~crowded => \A b \in Writing : holder = "product" /\ buyer[b].at # "adding"
                                  /\ Offered = buyer[b].kept /\ Offered = buyer[b].seen

\* The shape of what a checkout has read.
BuyerStates ==
  [at : {"idle", "creating", "adding", "repairing", "removing", "rereading", "placed"},
   wanted : StoreProducts, seen : SUBSET OfferIds, kept : SUBSET OfferIds]

BuyerShapes ==
  /\ buyer \in [Buyers -> BuyerStates]
  /\ charged \in [Buyers -> SUBSET StoreProducts]

\* The coupon has one mapping, as a fact about sets; and one when it exists.
OneMapping ==
  ~crowded => /\ \A m, n \in Offered : m = n
              /\ holder = "product" => Offered # {}

CouponsInv == CouponsTypeOK /\ ChargedForWhatIsSold /\ BuyerShapes /\ OneMapping /\ WriterReadAll

\* The empty sequence of offers has no index.
LEMMA NoOffers == DOMAIN <<>> = {}
  OBVIOUS

\* What a checkout becomes, field by field.
BuyerPhases == {"idle", "creating", "adding", "repairing", "removing", "rereading", "placed"}

\* A buyer moves on and keeps what it wanted, saw and kept.
LEMMA BuyerMovesTo ==
  ASSUME NEW x \in BuyerStates, NEW at \in BuyerPhases
  PROVE  /\ [x EXCEPT !.at = at] \in BuyerStates
         /\ [x EXCEPT !.at = at].at = at /\ [x EXCEPT !.at = at].seen = x.seen
         /\ [x EXCEPT !.at = at].kept = x.kept /\ [x EXCEPT !.at = at].wanted = x.wanted
  BY DEF BuyerStates, BuyerPhases

\* A buyer has placed the order for the product it wanted.
LEMMA BuyerPlaces ==
  ASSUME NEW x \in BuyerStates, NEW wanted \in StoreProducts
  PROVE  /\ [x EXCEPT !.at = "placed", !.wanted = wanted] \in BuyerStates
         /\ [x EXCEPT !.at = "placed", !.wanted = wanted].at = "placed"
         /\ [x EXCEPT !.at = "placed", !.wanted = wanted].wanted = wanted
  BY DEF BuyerStates

\* A buyer who has not begun is idle.
LEMMA StrollingTyped == Strolling \in BuyerStates /\ Strolling.at = "idle"
<1>1. {} \in SUBSET OfferIds
  OBVIOUS
<1> QED
  BY <1>1 DEF Strolling, BuyerStates, StoreProducts

\* The first states of the sales with coupons.
LEMMA CouponsInitInv == CouponsInit => CouponsInv
<1> SUFFICES ASSUME CouponsInit PROVE CouponsInv
  OBVIOUS
<1>1. /\ Offered = {} /\ holder # "product" /\ crowded = FALSE /\ sold \in StoreProducts
      /\ \A b \in Buyers : buyer[b] = Strolling
      /\ buyer = [b \in Buyers |-> Strolling] /\ charged = [b \in Buyers |-> {}]
      /\ holder \in {"nobody", "partner"} /\ native \in BOOLEAN
  BY NoOffers DEF CouponsInit, Offered, StoreProducts
<1>2. BuyerShapes
  BY <1>1, StrollingTyped DEF BuyerShapes
<1>3. CouponsTypeOK
  BY <1>1, <1>2 DEF CouponsTypeOK, BuyerShapes, BuyerStates
<1>4. ChargedForWhatIsSold /\ OneMapping /\ WriterReadAll
  BY <1>1 DEF ChargedForWhatIsSold, OneMapping, WriterReadAll, Writing, Strolling
<1> QED
  BY <1>2, <1>3, <1>4 DEF CouponsInv

\* A checkout moves on and writes no mapping: it only reads them.
LEMMA BuyerMoves ==
  ASSUME CouponsInv, NEW b \in Buyers, NEW state \in BuyerStates, NEW pays \in SUBSET StoreProducts,
         buyer' = [buyer EXCEPT ![b] = state], charged' = [charged EXCEPT ![b] = pays],
         state.at = "placed" => pays = {state.wanted},
         ~crowded /\ state.at \in {"adding", "repairing", "removing"} =>
           /\ holder = "product" /\ state.at # "adding"
           /\ Offered = state.kept /\ Offered = state.seen,
         UNCHANGED <<holder, sold, native, offers, crowded>>
  PROVE  CouponsInv'
<1> USE DEF CouponsInv
<1>1. BuyerShapes'
  BY DEF BuyerShapes
<1>2. CouponsTypeOK'
  BY <1>1 DEF CouponsTypeOK, BuyerShapes, BuyerStates, Offered
<1>3. ChargedForWhatIsSold'
  BY DEF ChargedForWhatIsSold, BuyerShapes
<1>4. OneMapping'
  BY DEF OneMapping, Offered
<1>5. WriterReadAll'
  BY DEF WriterReadAll, BuyerShapes, Writing, Offered
<1> QED
  BY <1>1, <1>2, <1>3, <1>4, <1>5

\* It leaves without an order.
LEMMA BuyerLeaves ==
  ASSUME CouponsInv, NEW b \in Buyers, Leaves(b), UNCHANGED <<offers, crowded>>
  PROVE  CouponsInv'
<1>1. /\ buyer' = [buyer EXCEPT ![b] = Strolling] /\ UNCHANGED <<holder, sold, native>>
      /\ charged' = [charged EXCEPT ![b] = charged[b]] /\ charged[b] \in SUBSET StoreProducts
  BY DEF Leaves, Shops, CouponsInv, BuyerShapes
<1>2. Strolling \in BuyerStates /\ Strolling.at = "idle"
  BY StrollingTyped DEF StoreProducts
<1> QED
  BY <1>1, <1>2, BuyerMoves

\* A checkout that uses a mapping pays for the product it wants.
LEMMA UsesStep ==
  ASSUME CouponsInv, NEW b \in Buyers, NEW state, state.wanted \in StoreProducts,
         NEW m \in Offered, Uses(b, state, m), UNCHANGED <<offers, crowded>>
  PROVE  CouponsInv'
<1>1. CASE Discounts(offers[m], state.wanted)
  <2> DEFINE placed == [Strolling EXCEPT !.at = "placed", !.wanted = state.wanted]
  <2>1. /\ buyer' = [buyer EXCEPT ![b] = placed] /\ UNCHANGED <<holder, sold, native>>
        /\ charged' = [charged EXCEPT ![b] = {state.wanted}]
    BY <1>1 DEF Uses, Shops, Discounts
  <2>2. placed \in BuyerStates /\ placed.at = "placed" /\ placed.wanted = state.wanted
    BY StrollingTyped, BuyerPlaces
  <2> HIDE DEF placed
  <2> QED
    BY <2>1, <2>2, BuyerMoves
<1>2. CASE ~Discounts(offers[m], state.wanted)
  BY <1>2, BuyerLeaves DEF Uses
<1> QED
  BY <1>1, <1>2

\* Every step of the sales with coupons keeps the invariant.
LEMMA CouponsStep ==
  ASSUME CouponsInv, [CouponsNext]_couponVars
  PROVE  CouponsInv'
<1>t. /\ buyer \in [Buyers -> BuyerStates] /\ sold \in StoreProducts
      /\ charged \in [Buyers -> SUBSET StoreProducts]
      /\ \A b \in Buyers :
           /\ buyer[b] \in BuyerStates /\ charged[b] \in SUBSET StoreProducts
           /\ buyer[b].wanted \in StoreProducts
           /\ buyer[b].seen \in SUBSET OfferIds /\ buyer[b].kept \in SUBSET OfferIds
      /\ Offered \subseteq OfferIds /\ \A m \in Offered : offers[m] \in StoreProducts
  BY DEF CouponsInv, CouponsTypeOK, BuyerShapes, BuyerStates
<1>1. ASSUME NEW b \in Buyers, LookUpOwn(b) PROVE CouponsInv'
  <2> DEFINE mine == [Strolling EXCEPT !.wanted = sold, !.seen = Offered]
  <2>1. UNCHANGED <<offers, crowded>>
    BY <1>1 DEF LookUpOwn
  <2>2. mine \in BuyerStates /\ mine.wanted = sold /\ mine.seen = Offered
    <3>1. sold \in StoreProducts /\ Offered \in SUBSET OfferIds /\ Strolling \in BuyerStates
      BY <1>t, StrollingTyped
    <3> QED
      BY <3>1 DEF BuyerStates
  <2>3. ASSUME NEW state \in BuyerStates, Shops(b, state), UNCHANGED charged,
               state.seen = Offered, state.at # "placed",
               state.at = "adding" => holder = "product" /\ Offered = {},
               state.at \in {"repairing", "removing"} =>
                 /\ holder = "product" /\ \E m \in Offered : state.kept = {m}
        PROVE  CouponsInv'
    <3>1. /\ buyer' = [buyer EXCEPT ![b] = state] /\ UNCHANGED <<holder, sold, native>>
          /\ charged' = [charged EXCEPT ![b] = charged[b]]
      BY <2>3, <1>t DEF Shops
    <3>2. ~crowded /\ state.at \in {"adding", "repairing", "removing"} =>
             /\ holder = "product" /\ state.at # "adding" /\ Offered = state.kept
      BY <2>3 DEF CouponsInv, OneMapping
    <3> QED
      BY <2>1, <2>3, <3>1, <3>2, <1>t, BuyerMoves
  <2> HIDE DEF mine
  <2>4. ASSUME NEW at \in {"creating", "adding"}, Shops(b, [mine EXCEPT !.at = at]), UNCHANGED charged,
               at = "adding" => holder = "product" /\ Offered = {}
        PROVE  CouponsInv'
    <3> DEFINE state == [mine EXCEPT !.at = at]
    <3>1. state \in BuyerStates /\ state.at = at /\ state.seen = Offered
      <4>1. at \in BuyerPhases
        BY DEF BuyerPhases
      <4>2. /\ [mine EXCEPT !.at = at] \in BuyerStates /\ [mine EXCEPT !.at = at].at = at
            /\ [mine EXCEPT !.at = at].seen = mine.seen
        BY <2>2, <4>1, BuyerMovesTo, Zenon
      <4> QED
        BY <2>2, <4>2
    <3> HIDE DEF state
    <3> QED
      BY <2>3, <2>4, <3>1 DEF state
  <2>5. ASSUME holder = "product", NEW m \in Offered, NEW at \in {"repairing", "removing"},
               Shops(b, [mine EXCEPT !.at = at, !.kept = {m}]), UNCHANGED charged
        PROVE  CouponsInv'
    <3> DEFINE state == [mine EXCEPT !.at = at, !.kept = {m}]
    <3>1. state \in BuyerStates /\ state.at = at /\ state.seen = Offered /\ state.kept = {m}
      <4>1. {m} \in SUBSET OfferIds
        BY <1>t
      <4>2. at \in BuyerPhases
        BY DEF BuyerPhases
      <4>3. /\ state \in BuyerStates /\ state.at = at /\ state.seen = mine.seen
            /\ state.kept = {m}
        BY <2>2, <4>1, <4>2 DEF BuyerStates, BuyerPhases
      <4> QED
        BY <2>2, <4>3
    <3> HIDE DEF state
    <3> QED
      BY <2>3, <2>5, <3>1 DEF state
  <2>6. ASSUME NEW m \in Offered, Uses(b, mine, m) PROVE CouponsInv'
    BY <1>t, <2>1, <2>2, <2>6, UsesStep
  <2>7. \/ Shops(b, [mine EXCEPT !.at = "creating"]) /\ UNCHANGED charged
        \/ holder = "product" /\ Offered = {} /\ Shops(b, [mine EXCEPT !.at = "adding"])
             /\ UNCHANGED charged
        \/ /\ holder = "product"
           /\ \E m \in Offered, at \in {"repairing", "removing"} :
                \/ Shops(b, [mine EXCEPT !.at = at, !.kept = {m}]) /\ UNCHANGED charged
                \/ Uses(b, mine, m)
    BY <1>1 DEF LookUpOwn, FoundFor, mine
  <2> QED
    BY <2>4, <2>5, <2>6, <2>7
<1>2. ASSUME NEW b \in Buyers, CreateOwn(b) PROVE CouponsInv'
  <2>1. CASE holder # "nobody"
    BY <1>2, <2>1, BuyerLeaves DEF CreateOwn
  <2>2. CASE holder = "nobody"
    <3> DEFINE wanted == buyer[b].wanted
               placed == [Strolling EXCEPT !.at = "placed", !.wanted = wanted]
    <3>1. PICK m \in OfferIds :
            /\ holder' = "product" /\ offers' = [n \in {m} |-> wanted]
            /\ buyer' = [buyer EXCEPT ![b] = placed] /\ charged' = [charged EXCEPT ![b] = {wanted}]
            /\ UNCHANGED <<sold, native, crowded>>
      BY <1>2, <2>2 DEF CreateOwn
    <3>2. placed \in BuyerStates /\ placed.at = "placed" /\ placed.wanted = wanted
          /\ wanted \in StoreProducts
      BY <1>t, StrollingTyped, BuyerPlaces
    <3>0. Offered' = {m} /\ offers'[m] = wanted
      BY <3>1 DEF Offered
    <3> HIDE DEF placed, wanted
    <3>3. BuyerShapes'
      BY <1>t, <3>1, <3>2 DEF BuyerShapes
    <3>4. CouponsTypeOK'
      BY <3>0, <3>1, <3>2, <3>3 DEF CouponsInv, CouponsTypeOK, BuyerShapes, BuyerStates, Offered
    <3>5. ChargedForWhatIsSold'
      BY <1>t, <3>1, <3>2 DEF CouponsInv, ChargedForWhatIsSold
    <3>6. OneMapping'
      BY <3>0, <3>1, <3>2 DEF OneMapping
    <3>7. WriterReadAll'
      BY <3>0, <1>t, <2>2, <3>1, <3>2 DEF CouponsInv, WriterReadAll, Writing
    <3> QED
      BY <3>3, <3>4, <3>5, <3>6, <3>7 DEF CouponsInv
  <2> QED
    BY <2>1, <2>2
\* A checkout writes the mappings that are there now.
<1>3. ASSUME NEW b \in Buyers, NEW rows, NEW next \in {"removing", "rereading"}, Writes(b, rows, next),
             b \in Writing, DOMAIN rows \subseteq OfferIds,
             \A m \in DOMAIN rows : rows[m] \in StoreProducts,
             ~crowded => /\ DOMAIN rows = buyer[b].kept
                         /\ next = "removing" => DOMAIN rows = buyer[b].seen
      PROVE  CouponsInv'
  <2> DEFINE state == [buyer[b] EXCEPT !.at = next]
  <2>1. /\ offers' = rows /\ buyer' = [buyer EXCEPT ![b] = state]
        /\ crowded' = (crowded \/ Writing # {b}) /\ UNCHANGED <<holder, sold, native, charged>>
    BY <1>3 DEF Writes, Shops
  <2>2. /\ state \in BuyerStates /\ state.at = next /\ state.seen = buyer[b].seen
        /\ state.kept = buyer[b].kept
    <3>1. next \in BuyerPhases /\ buyer[b] \in BuyerStates
      BY <1>t DEF BuyerPhases
    <3> QED
      BY <3>1, BuyerMovesTo, Zenon
  <2> HIDE DEF state
  <2>3. Offered' = DOMAIN rows
    BY <2>1 DEF Offered
  <2>4. BuyerShapes'
    BY <1>t, <2>1, <2>2 DEF BuyerShapes
  <2>5. CouponsTypeOK'
    <3>1. crowded' \in BOOLEAN
      BY <2>1 DEF CouponsInv, CouponsTypeOK
    <3> QED
      BY <1>3, <2>1, <2>3, <2>4, <3>1 DEF CouponsInv, CouponsTypeOK, BuyerShapes, BuyerStates
  <2>6. ChargedForWhatIsSold'
    BY <1>3, <1>t, <2>1, <2>2 DEF CouponsInv, ChargedForWhatIsSold
  <2>7. ASSUME ~crowded'
        PROVE  ~crowded /\ Writing = {b} /\ Offered = buyer[b].kept /\ Offered' = Offered
    BY <1>3, <2>1, <2>3, <2>7 DEF CouponsInv, WriterReadAll
  <2>8. OneMapping'
    BY <2>1, <2>7 DEF CouponsInv, OneMapping
  <2>9. WriterReadAll'
    <3> SUFFICES ASSUME ~crowded', NEW c \in Writing'
                 PROVE  /\ holder' = "product" /\ buyer'[c].at # "adding"
                        /\ Offered' = buyer'[c].kept /\ Offered' = buyer'[c].seen
      BY DEF WriterReadAll
    <3>1. c = b
      BY <1>t, <2>1, <2>7 DEF Writing
    <3>2. /\ buyer'[b] = state /\ holder = "product" /\ next = "removing"
      BY <1>3, <1>t, <2>1, <2>2, <2>7, <3>1 DEF CouponsInv, WriterReadAll, Writing
    <3> QED
      BY <1>3, <2>1, <2>2, <2>3, <2>7, <3>1, <3>2
  <2> QED
    BY <2>4, <2>5, <2>6, <2>8, <2>9 DEF CouponsInv
<1>w. ASSUME NEW b \in Buyers, buyer[b].at \in {"adding", "repairing", "removing"}
      PROVE  /\ b \in Writing
             /\ ~crowded => /\ buyer[b].at # "adding"
                            /\ Offered = buyer[b].kept /\ Offered = buyer[b].seen
  BY <1>w DEF CouponsInv, WriterReadAll, Writing
<1>4. ASSUME NEW b \in Buyers, AddMapping(b) PROVE CouponsInv'
  <2>1. PICK m \in OfferIds :
          Writes(b, [n \in Offered \union {m} |-> IF n = m THEN buyer[b].wanted ELSE offers[n]], "rereading")
    BY <1>4 DEF AddMapping
  <2> DEFINE rows == [n \in Offered \union {m} |-> IF n = m THEN buyer[b].wanted ELSE offers[n]]
  <2>2. DOMAIN rows \subseteq OfferIds /\ \A n \in DOMAIN rows : rows[n] \in StoreProducts
    BY <1>t
  <2>3. buyer[b].at = "adding"
    BY <1>4 DEF AddMapping
  <2> HIDE DEF rows
  <2> QED
    BY <1>3, <1>w, <2>1, <2>2, <2>3 DEF rows
<1>5. ASSUME NEW b \in Buyers, RepairMapping(b) PROVE CouponsInv'
  <2> DEFINE rows == [n \in Offered \union buyer[b].kept |->
                        IF n \in buyer[b].kept THEN buyer[b].wanted ELSE offers[n]]
  <2>1. Writes(b, rows, "removing") /\ buyer[b].at = "repairing"
    BY <1>5 DEF RepairMapping
  <2>2. DOMAIN rows \subseteq OfferIds /\ \A n \in DOMAIN rows : rows[n] \in StoreProducts
    BY <1>t
  <2>3. DOMAIN rows = Offered \union buyer[b].kept
    OBVIOUS
  <2> HIDE DEF rows
  <2> QED
    BY <1>3, <1>w, <2>1, <2>2, <2>3
<1>6. ASSUME NEW b \in Buyers, RemoveDuplicates(b) PROVE CouponsInv'
  <2> DEFINE rows == [n \in Offered \ (buyer[b].seen \ buyer[b].kept) |-> offers[n]]
  <2>1. Writes(b, rows, "rereading") /\ buyer[b].at = "removing"
    BY <1>6 DEF RemoveDuplicates
  <2>2. DOMAIN rows \subseteq OfferIds /\ \A n \in DOMAIN rows : rows[n] \in StoreProducts
    BY <1>t
  <2>3. DOMAIN rows = Offered \ (buyer[b].seen \ buyer[b].kept)
    OBVIOUS
  <2> HIDE DEF rows
  <2> QED
    BY <1>3, <1>w, <2>1, <2>2, <2>3
<1>7. ASSUME NEW b \in Buyers, ReadAgain(b) PROVE CouponsInv'
  <2>1. UNCHANGED <<offers, crowded>> /\ (Leaves(b) \/ \E m \in Offered : Uses(b, buyer[b], m))
    BY <1>7 DEF ReadAgain
  <2> QED
    BY <1>t, <2>1, BuyerLeaves, UsesStep
<1>8. ASSUME NEW b \in Buyers, CheckoutDies(b) PROVE CouponsInv'
  BY <1>8, BuyerLeaves DEF CheckoutDies
<1>9. CASE PartnerTakesCode
  BY <1>9
  DEF PartnerTakesCode, CouponsInv, CouponsTypeOK, ChargedForWhatIsSold, BuyerShapes, OneMapping,
      WriterReadAll, Writing, Offered
<1>10. CASE ReplaceProduct
  BY <1>10
  DEF ReplaceProduct, CouponsInv, CouponsTypeOK, ChargedForWhatIsSold, BuyerShapes, OneMapping,
      WriterReadAll, Writing, Offered
<1>11. CASE UNCHANGED couponVars
  BY <1>11
  DEF couponVars, CouponsInv, CouponsTypeOK, ChargedForWhatIsSold, BuyerShapes, OneMapping,
      WriterReadAll, Writing, Offered
<1> QED
  BY <1>1, <1>2, <1>4, <1>5, <1>6, <1>7, <1>8, <1>9, <1>10, <1>11 DEF CouponsNext

\* An order pays for the product its checkout was made for, and a product's
\* coupon has one mapping while no two checkouts write its mappings together
\* (resolveProductOwnCoupon).
THEOREM CouponsAreConsistent == CouponsSpec => []CouponsConsistent
<1>1. CouponsInv => CouponsConsistent
  <2> SUFFICES ASSUME CouponsInv, ~crowded PROVE Cardinality(Offered) <= 1
    BY DEF CouponsInv, CouponsConsistent, OwnCouponIsUnambiguous, OneMapping
  <2>1. CASE Offered = {}
    BY <2>1, FS_EmptySet
  <2>2. ASSUME NEW m \in Offered PROVE Cardinality(Offered) <= 1
    <3>1. Offered = {m}
      BY <2>2 DEF CouponsInv, OneMapping
    <3> QED
      BY <3>1, FS_Singleton
  <2> QED
    BY <2>1, <2>2
<1>2. CouponsInv /\ [CouponsNext]_couponVars => CouponsInv'
  BY CouponsStep
<1> QED
  BY <1>1, <1>2, CouponsInitInv, PTL DEF CouponsSpec

-----------------------------------------------------------------------------
(* Catalogue: the rows of products and what desks and checkouts hold of them.  *)

\* Rows that are there, what desks hold and what checkouts hold.
SoldRows == RowsOf("package") \union RowsOf("course")
Packs == [status : {"PUBLISHED", "ARCHIVED"}, offer : Offers]
DeskStates ==
  [at : {"vacant", "create", "update", "delete", "locked", "package"}, row : Rows,
   mappings : SUBSET Mappings, orders : SUBSET Checkouts,
   copy : {<<>>} \union UNION {[S -> Rows] : S \in SUBSET Mappings}, pack : {<<>>} \union Packs]
CheckoutStates ==
  [at : {"browsing", "loaded", "checked", "placed"}, id : SUBSET Mappings, row : Rows,
   offer : Offers, coupon : BOOLEAN]

\* Where a desk is about to write a row, and when two rows belong to the same
\* owner and are of the same kind (a plan's or not).
ToWrite == {"create", "update", "locked"}
Agrees(a, b) == a.owner = b.owner /\ (a.plan = NoPlan) = (b.plan = NoPlan)

\* What a desk may rely on, wherever no package was saved over it: what is for
\* sale under its product means what its row means, its mapping belongs to the
\* same owner, and the orders it counted say what it says.
DeskSound(d) ==
  LET s == desk[d]
  IN /\ s.at \in ToWrite => s.row \in SoldRows
     /\ s.at \in ToWrite \union {"delete"} => \E m \in Mappings : s.mappings = {m}
     /\ s.at = "delete" => s.orders = {}
     /\ s.at = "package" => s.copy \in [s.mappings -> Rows] /\ s.pack \in Packs
     /\ s.orders \subseteq Placed
     /\ s.at = "locked" => \A n \in Present \ (restored \union s.mappings) :
          mapping[n].product = s.row.product => Agrees(mapping[n], s.row)
     /\ s.at \in ToWrite =>
          /\ \A m \in (s.mappings \intersect Present) \ restored : mapping[m].owner = s.row.owner
          /\ s.mappings \ restored # {} =>
               \A o \in s.orders \ slipped : SameIdentity(checkout[o].row, s.row)

DesksApart(d, e) ==
  /\ desk[d].at = "locked" /\ desk[e].at = "locked" /\ desk[d].row.product = desk[e].row.product => d = e
  /\ desk[d].at \in ToWrite /\ desk[e].at \in ToWrite
       /\ (desk[d].mappings \intersect desk[e].mappings) \ restored # {} => desk[d].row.owner = desk[e].row.owner

CatalogueInv ==
  /\ mapping \in [Mappings -> Rows] /\ pack \in Packs
  /\ desk \in [Desks -> DeskStates] /\ checkout \in [Checkouts -> CheckoutStates]
  /\ slipped \subseteq Checkouts /\ restored \subseteq Mappings
  /\ \A o \in Checkouts : checkout[o].at # "browsing" => checkout[o].row \in SoldRows
  /\ \A d \in Desks : DeskSound(d)
  /\ \A d, e \in Desks : DesksApart(d, e)
  /\ OneMeaning /\ UsedIsImmutable

\* The rows of the two kinds of product are rows of the catalogue.
LEMMA RowsAre ==
  /\ Rows = SoldRows \union {Missing}
  /\ \A row \in SoldRows : row # Missing /\ row.owner \in Owners /\ row.product \in Products
  /\ \A row \in SoldRows : ~SameIdentity(row, Missing) /\ ~SameIdentity(Missing, row)
  /\ Missing \notin SoldRows
<1>1. Rows = SoldRows \union {Missing}
  BY DEF Rows, SoldRows
<1>2. \A row \in SoldRows : row.owner \in Owners /\ row.product \in Products
  BY DEF SoldRows, RowsOf, Owners
<1>3. Missing.owner \notin Owners /\ Missing.product \notin Products
  BY PlansAssumption DEF Missing, Owners
<1> QED
  BY <1>1, <1>2, <1>3 DEF SameIdentity

\* The row of a product that does not exist.
LEMMA VacantTyped ==
  /\ Vacant \in DeskStates /\ Vacant.at = "vacant" /\ Vacant.mappings = {} /\ Vacant.orders = {}
  BY RowsAre DEF Vacant, DeskStates

\* What the run checks follows from the invariant.
LEMMA CatalogueIsConsistent == CatalogueInv => CatalogueConsistent
  BY DEF CatalogueInv, CatalogueConsistent, CatalogueTypeOK, DeskStates, CheckoutStates, Packs

\* An empty catalogue is consistent.
LEMMA CatalogueInitInv == CatalogueInit => CatalogueInv
<1> SUFFICES ASSUME CatalogueInit PROVE CatalogueInv
  OBVIOUS
<1>1. mapping \in [Mappings -> Rows] /\ pack \in Packs /\ slipped = {} /\ restored = {}
  BY RowsAre, PlansAssumption DEF CatalogueInit, Packs, Offers
<1>2. desk \in [Desks -> DeskStates] /\ \A d \in Desks : desk[d] = Vacant
  BY VacantTyped DEF CatalogueInit
<1>3. Browsing \in CheckoutStates /\ Browsing.at = "browsing"
  BY RowsAre, PlansAssumption DEF Browsing, CheckoutStates, Offers
<1>4. checkout \in [Checkouts -> CheckoutStates] /\ \A o \in Checkouts : checkout[o].at = "browsing"
  BY <1>3 DEF CatalogueInit
<1>5. \A d \in Desks : DeskSound(d)
  BY <1>2, VacantTyped DEF DeskSound, ToWrite
<1>6. \A d, e \in Desks : DesksApart(d, e)
  BY <1>2, VacantTyped DEF DesksApart, ToWrite
<1>7. OneMeaning /\ UsedIsImmutable
  BY <1>4 DEF CatalogueInit, OneMeaning, UsedIsImmutable, Present, Placed
<1> QED
  BY <1>1, <1>2, <1>4, <1>5, <1>6, <1>7 DEF CatalogueInv

\* One desk's request goes on, and nothing is saved.
LEMMA DeskMoves ==
  ASSUME CatalogueInv, NEW d \in Desks, NEW s \in DeskStates, desk' = [desk EXCEPT ![d] = s],
         UNCHANGED <<mapping, pack, checkout, slipped, restored>>,
         DeskSound(d)', \A e \in Desks \ {d} : DesksApart(d, e)' /\ DesksApart(e, d)'
  PROVE  CatalogueInv'
<1>1. \A e \in Desks : desk'[e] = IF e = d THEN s ELSE desk[e]
  BY DEF CatalogueInv
<1>2. desk' \in [Desks -> DeskStates]
  BY DEF CatalogueInv
<1>3. Present' = Present /\ Placed' = Placed
  BY DEF Present, Placed
<1>4. ASSUME NEW e \in Desks \ {d} PROVE DeskSound(e)'
  <2>1. DeskSound(e) /\ desk'[e] = desk[e]
    BY <1>1 DEF CatalogueInv
  <2> QED
    BY <1>3, <2>1 DEF DeskSound
<1>5. ASSUME NEW e \in Desks, NEW f \in Desks PROVE DesksApart(e, f)'
  <2>1. CASE e # d /\ f # d
    BY <1>1, <2>1 DEF CatalogueInv, DesksApart
  <2>2. CASE e = d /\ f = d
    BY <2>2 DEF DesksApart
  <2> QED
    BY <2>1, <2>2
<1>6. OneMeaning' /\ UsedIsImmutable'
  BY <1>3 DEF CatalogueInv, OneMeaning, UsedIsImmutable
<1> QED
  BY <1>2, <1>4, <1>5, <1>6 DEF CatalogueInv

\* A desk saves and is done: an untouched mapping is as it was, gone, or the row
\* that the desk locked.
LEMMA MappingsMove ==
  ASSUME CatalogueInv, NEW d \in Desks, desk' = [desk EXCEPT ![d] = Vacant],
         mapping' \in [Mappings -> Rows], pack' \in Packs, UNCHANGED checkout,
         slipped \subseteq slipped', slipped' \subseteq Checkouts,
         restored \subseteq restored', restored' \subseteq Mappings,
         \A m \in Mappings \ restored' :
           \/ mapping'[m] = mapping[m]
           \/ mapping'[m] = Missing
           \/ desk[d].at = "locked" /\ m \in desk[d].mappings /\ mapping'[m] = desk[d].row,
         UsedIsImmutable'
  PROVE  CatalogueInv'
<1>1. \A e \in Desks : desk'[e] = IF e = d THEN Vacant ELSE desk[e]
  BY DEF CatalogueInv
<1>2. desk' \in [Desks -> DeskStates]
  BY VacantTyped DEF CatalogueInv
<1>3. Placed' = Placed
  BY DEF Placed
<1>4. ASSUME NEW m \in Present' \ restored'
      PROVE  \/ m \in Present \ restored /\ mapping'[m] = mapping[m]
             \/ desk[d].at = "locked" /\ m \in desk[d].mappings /\ mapping'[m] = desk[d].row
  BY <1>4 DEF Present
<1>5. DeskSound(d) /\ \A e \in Desks : DesksApart(d, e) /\ DesksApart(e, d)
  BY DEF CatalogueInv
<1>6. ASSUME NEW e \in Desks PROVE DeskSound(e)'
  <2>1. CASE e = d
    BY <1>1, <2>1, VacantTyped DEF DeskSound, ToWrite
  <2>2. CASE e # d
    <3>1. desk'[e] = desk[e] /\ DeskSound(e)
      BY <1>1, <2>2 DEF CatalogueInv
    <3>2. ASSUME desk[e].at = "locked", NEW n \in Present' \ (restored' \union desk[e].mappings),
                 mapping'[n].product = desk[e].row.product
          PROVE  Agrees(mapping'[n], desk[e].row)
      <4>1. CASE n \in Present \ restored /\ mapping'[n] = mapping[n]
        BY <3>1, <3>2, <4>1 DEF DeskSound
      <4>2. CASE desk[d].at = "locked" /\ mapping'[n] = desk[d].row
        BY <1>5, <2>2, <3>2, <4>2 DEF DesksApart
      <4> QED
        BY <1>4, <3>2, <4>1, <4>2
    <3>3. ASSUME desk[e].at \in ToWrite, NEW m \in (desk[e].mappings \intersect Present') \ restored'
          PROVE  mapping'[m].owner = desk[e].row.owner
      <4>1. CASE m \in Present \ restored /\ mapping'[m] = mapping[m]
        BY <3>1, <3>3, <4>1 DEF DeskSound
      <4>2. CASE desk[d].at = "locked" /\ m \in desk[d].mappings /\ mapping'[m] = desk[d].row
        <5>1. m \in (desk[d].mappings \intersect desk[e].mappings) \ restored
          BY <3>3, <4>2
        <5> QED
          BY <1>5, <3>3, <4>2, <5>1 DEF DesksApart, ToWrite
      <4> QED
        BY <1>4, <3>3, <4>1, <4>2
    <3>4. ASSUME desk[e].at \in ToWrite, desk[e].mappings \ restored' # {}, NEW o \in desk[e].orders \ slipped'
          PROVE  SameIdentity(checkout[o].row, desk[e].row)
      BY <3>1, <3>4 DEF DeskSound
    <3> QED
      BY <1>3, <3>1, <3>2, <3>3, <3>4 DEF DeskSound
  <2> QED
    BY <2>1, <2>2
<1>7. ASSUME NEW e \in Desks, NEW f \in Desks PROVE DesksApart(e, f)'
  <2>1. DesksApart(e, f)
    BY DEF CatalogueInv
  <2>2. CASE e = d \/ f = d
    BY <1>1, <2>2, VacantTyped DEF DesksApart, ToWrite
  <2>3. CASE e # d /\ f # d
    BY <1>1, <2>1, <2>3 DEF DesksApart
  <2> QED
    BY <2>2, <2>3
<1>8. OneMeaning'
  <2> SUFFICES ASSUME NEW m \in Present' \ restored', NEW n \in Present' \ restored',
                      mapping'[m].product = mapping'[n].product
               PROVE  Agrees(mapping'[m], mapping'[n])
    BY DEF OneMeaning, Agrees
  <2>0. desk[d].at = "locked" => \E k \in Mappings : desk[d].mappings = {k}
    BY <1>5 DEF DeskSound, ToWrite
  <2>1. CASE m = n
    BY <2>1 DEF Agrees
  <2>2. CASE /\ m \in Present \ restored /\ mapping'[m] = mapping[m]
             /\ n \in Present \ restored /\ mapping'[n] = mapping[n]
    BY <2>2 DEF CatalogueInv, OneMeaning, Agrees
  <2>3. CASE /\ desk[d].at = "locked" /\ m \in desk[d].mappings /\ mapping'[m] = desk[d].row
             /\ n \in Present \ restored /\ mapping'[n] = mapping[n] /\ m # n
    BY <1>5, <2>0, <2>3 DEF DeskSound, Agrees
  <2>4. CASE /\ desk[d].at = "locked" /\ n \in desk[d].mappings /\ mapping'[n] = desk[d].row
             /\ m \in Present \ restored /\ mapping'[m] = mapping[m] /\ m # n
    BY <1>5, <2>0, <2>4 DEF DeskSound, Agrees
  <2> QED
    BY <1>4, <2>0, <2>1, <2>2, <2>3, <2>4
<1> QED
  BY <1>2, <1>6, <1>7, <1>8 DEF CatalogueInv

\* A checkout goes on: what is placed stays as it is.
LEMMA CheckoutMoves ==
  ASSUME CatalogueInv, UNCHANGED <<mapping, pack, desk, restored>>,
         NEW o \in Checkouts, NEW s \in CheckoutStates, checkout' = [checkout EXCEPT ![o] = s],
         checkout[o].at # "placed", s.at # "browsing" => s.row \in SoldRows,
         slipped \subseteq slipped', slipped' \subseteq Checkouts,
         s.at = "placed" /\ o \notin slipped' => \A m \in s.id \ restored :
           mapping[m].owner = s.row.owner /\ SameIdentity(mapping[m], s.row)
  PROVE  CatalogueInv'
<1>1. \A p \in Checkouts : checkout'[p] = IF p = o THEN s ELSE checkout[p]
  BY DEF CatalogueInv
<1>2. checkout' \in [Checkouts -> CheckoutStates] /\ Present' = Present
  BY DEF CatalogueInv, Present
<1>3. Placed \subseteq Placed' /\ \A p \in Placed : checkout'[p] = checkout[p]
  BY <1>1 DEF Placed
<1>4. ASSUME NEW d \in Desks PROVE DeskSound(d)'
  <2>1. DeskSound(d) /\ desk[d].orders \subseteq Placed
    BY DEF CatalogueInv, DeskSound
  <2>2. desk[d].orders \subseteq Placed' /\ \A p \in desk[d].orders : checkout'[p] = checkout[p]
    BY <1>3, <2>1
  <2> QED
    BY <1>2, <2>1, <2>2 DEF DeskSound
<1>5. \A d, e \in Desks : DesksApart(d, e)'
  BY DEF CatalogueInv, DesksApart
<1>6. OneMeaning'
  BY <1>2 DEF CatalogueInv, OneMeaning
<1>7. UsedIsImmutable'
  <2> SUFFICES ASSUME NEW p \in Checkouts, checkout'[p].at = "placed", p \notin slipped',
                      NEW m \in checkout'[p].id \ restored
               PROVE  mapping[m].owner = checkout'[p].row.owner /\ SameIdentity(mapping[m], checkout'[p].row)
    BY DEF UsedIsImmutable, Placed
  <2>1. CASE p = o
    BY <1>1, <2>1
  <2>2. CASE p # o
    BY <1>1, <2>2 DEF CatalogueInv, UsedIsImmutable, Placed
  <2> QED
    BY <2>1, <2>2
<1>8. \A p \in Checkouts : checkout'[p].at # "browsing" => checkout'[p].row \in SoldRows
  BY <1>1 DEF CatalogueInv
<1> QED
  BY <1>2, <1>4, <1>5, <1>6, <1>7, <1>8 DEF CatalogueInv

\* A desk begins to create a product.
LEMMA ProductCreated ==
  ASSUME CatalogueInv, NEW d \in Desks, NEW m \in Mappings, CreateProviderProduct(d, m)
  PROVE  CatalogueInv'
<1>1. PICK row \in SoldRows : Begins(d, [Vacant EXCEPT !.at = "create", !.row = row, !.mappings = {m}])
  BY DEF CreateProviderProduct, SoldRows, Owners
<1> DEFINE s == [Vacant EXCEPT !.at = "create", !.row = row, !.mappings = {m}]
<1>2. row \in Rows
  BY RowsAre
<1>3. s \in DeskStates /\ s.at = "create" /\ s.row = row /\ s.mappings = {m} /\ s.orders = {}
  BY <1>2 DEF Vacant, DeskStates
<1>4. /\ m \notin Present /\ \A e \in Desks : m \notin desk[e].mappings
      /\ desk' = [desk EXCEPT ![d] = s]
      /\ UNCHANGED <<mapping, pack, checkout, slipped, restored>>
  BY <1>1 DEF CreateProviderProduct, Begins
<1> HIDE DEF s
<1>5. desk'[d] = s /\ \A e \in Desks \ {d} : desk'[e] = desk[e]
  BY <1>4 DEF CatalogueInv
<1>6. DeskSound(d)'
  BY <1>3, <1>4, <1>5 DEF DeskSound, ToWrite, Present
<1>7. ASSUME NEW e \in Desks \ {d} PROVE DesksApart(d, e)' /\ DesksApart(e, d)'
  BY <1>3, <1>4, <1>5 DEF DesksApart, ToWrite
<1> QED
  BY <1>3, <1>4, <1>6, <1>7, DeskMoves

\* A desk begins to update a product.
LEMMA ProductUpdated ==
  ASSUME CatalogueInv, NEW d \in Desks, NEW m \in Mappings, UpdateProviderProduct(d, m)
  PROVE  CatalogueInv'
<1>1. PICK row \in RowsOf(mapping[m].owner) :
        /\ MayChange(m, row)
        /\ Begins(d, [Vacant EXCEPT !.at = "update", !.row = row, !.mappings = {m}, !.orders = OrdersOf(m)])
  BY DEF UpdateProviderProduct
<1>2. m \in Present /\ mapping[m] \in SoldRows
  BY RowsAre DEF UpdateProviderProduct, CatalogueInv, Present
<1>3. row \in SoldRows /\ row.owner = mapping[m].owner
  <2>1. mapping[m].owner = "package" \/ mapping[m].owner = "course"
    BY <1>2, RowsAre DEF Owners
  <2>2. row.owner = mapping[m].owner
    BY DEF RowsOf
  <2> QED
    BY <2>1, <2>2 DEF SoldRows
<1> DEFINE s == [Vacant EXCEPT !.at = "update", !.row = row, !.mappings = {m}, !.orders = OrdersOf(m)]
<1>4. OrdersOf(m) \subseteq Placed /\ Placed \subseteq Checkouts
  BY DEF OrdersOf, Placed
<1>5. s \in DeskStates /\ s.at = "update" /\ s.row = row /\ s.mappings = {m} /\ s.orders = OrdersOf(m)
  <2>1. row \in Rows /\ OrdersOf(m) \in SUBSET Checkouts
    BY <1>3, <1>4, RowsAre
  <2> QED
    BY <2>1 DEF Vacant, DeskStates
<1>6. desk' = [desk EXCEPT ![d] = s] /\ UNCHANGED <<mapping, pack, checkout, slipped, restored>>
  BY <1>1 DEF Begins
<1> HIDE DEF s
<1>7. desk'[d] = s /\ \A e \in Desks \ {d} : desk'[e] = desk[e]
  BY <1>6 DEF CatalogueInv
<1>8. ASSUME m \notin restored, NEW o \in OrdersOf(m) \ slipped PROVE SameIdentity(checkout[o].row, row)
  <2>1. SameIdentity(mapping[m], checkout[o].row)
    BY <1>8 DEF CatalogueInv, UsedIsImmutable, OrdersOf
  <2>2. SameIdentity(mapping[m], row)
    BY <1>1, <1>8 DEF MayChange
  <2> QED
    BY <2>1, <2>2 DEF SameIdentity
<1>9. DeskSound(d)'
  <2>1. Placed' = Placed
    BY <1>6 DEF Placed
  <2>2. s.mappings \ restored # {} => \A o \in s.orders \ slipped : SameIdentity(checkout[o].row, s.row)
    BY <1>5, <1>8
  <2>3. \A k \in (s.mappings \intersect Present') \ restored : mapping[k].owner = s.row.owner
    BY <1>3, <1>5
  <2> QED
    BY <1>3, <1>4, <1>5, <1>6, <1>7, <2>1, <2>2, <2>3 DEF DeskSound, ToWrite
<1>10. ASSUME NEW e \in Desks \ {d} PROVE DesksApart(d, e)' /\ DesksApart(e, d)'
  <2>1. desk[e].at \in ToWrite /\ m \in desk[e].mappings \ restored => mapping[m].owner = desk[e].row.owner
    BY <1>2 DEF CatalogueInv, DeskSound
  <2> QED
    BY <1>3, <1>5, <1>6, <1>7, <2>1 DEF DesksApart
<1> QED
  BY <1>5, <1>6, <1>9, <1>10, DeskMoves

\* A desk begins to delete a product.
LEMMA ProductDeleted ==
  ASSUME CatalogueInv, NEW d \in Desks, NEW m \in Mappings, DeleteProviderProduct(d, m)
  PROVE  CatalogueInv'
<1> DEFINE s == [Vacant EXCEPT !.at = "delete", !.mappings = {m}]
<1>2. s \in DeskStates /\ s.at = "delete" /\ s.mappings = {m} /\ s.orders = {}
  BY RowsAre DEF Vacant, DeskStates
<1>3. desk' = [desk EXCEPT ![d] = s] /\ UNCHANGED <<mapping, pack, checkout, slipped, restored>>
  BY DEF DeleteProviderProduct, Begins
<1> HIDE DEF s
<1>4. desk'[d] = s /\ \A e \in Desks \ {d} : desk'[e] = desk[e]
  BY <1>3 DEF CatalogueInv
<1>5. DeskSound(d)'
  BY <1>2, <1>3, <1>4 DEF DeskSound, ToWrite
<1>6. ASSUME NEW e \in Desks \ {d} PROVE DesksApart(d, e)' /\ DesksApart(e, d)'
  BY <1>2, <1>4 DEF DesksApart, ToWrite
<1> QED
  BY <1>2, <1>3, <1>5, <1>6, DeskMoves

\* A desk begins to edit a package, with the mappings it reads.
LEMMA PackageEdited ==
  ASSUME CatalogueInv, NEW d \in Desks, EditPackage(d)
  PROVE  CatalogueInv'
<1> DEFINE ids == Of("package")
           copy == [m \in ids |-> mapping[m]]
<1>1. PICK next \in Packs : Begins(d, [Vacant EXCEPT !.at = "package", !.mappings = ids, !.copy = copy, !.pack = next])
  <2>1. PICK next : /\ next \in {[pack EXCEPT !.status = "ARCHIVED"], [pack EXCEPT !.status = "PUBLISHED"]}
                          \union (IF pack.offer < MaxOffers THEN {[pack EXCEPT !.offer = @ + 1]} ELSE {})
                    /\ Begins(d, [Vacant EXCEPT !.at = "package", !.mappings = ids, !.copy = copy, !.pack = next])
    BY DEF EditPackage
  <2>2. pack \in Packs
    BY DEF CatalogueInv
  <2>3. next \in Packs
    BY <2>1, <2>2, PlansAssumption DEF Packs, Offers
  <2> QED
    BY <2>1, <2>3
<1> DEFINE s == [Vacant EXCEPT !.at = "package", !.mappings = ids, !.copy = copy, !.pack = next]
<1>2. ids \in SUBSET Mappings /\ copy \in [ids -> Rows]
  BY DEF Of, Present, CatalogueInv
<1>3. copy \in {<<>>} \union UNION {[S -> Rows] : S \in SUBSET Mappings}
  BY <1>2
<1>4. s \in DeskStates /\ s.at = "package" /\ s.mappings = ids /\ s.orders = {} /\ s.copy = copy /\ s.pack = next
  <2> HIDE DEF ids, copy
  <2> QED
    BY <1>2, <1>3, RowsAre DEF Vacant, DeskStates
<1>5. desk' = [desk EXCEPT ![d] = s] /\ UNCHANGED <<mapping, pack, checkout, slipped, restored>>
  BY <1>1 DEF Begins
<1> HIDE DEF s, ids, copy
<1>6. desk'[d] = s /\ \A e \in Desks \ {d} : desk'[e] = desk[e]
  BY <1>5 DEF CatalogueInv
<1>7. DeskSound(d)'
  BY <1>2, <1>4, <1>6 DEF DeskSound, ToWrite
<1>8. ASSUME NEW e \in Desks \ {d} PROVE DesksApart(d, e)' /\ DesksApart(e, d)'
  BY <1>4, <1>6 DEF DesksApart, ToWrite
<1> QED
  BY <1>4, <1>5, <1>7, <1>8, DeskMoves

\* A desk reads its product's row, or is refused.
LEMMA ProductLockedOrRefused ==
  ASSUME CatalogueInv, NEW d \in Desks, LockAndCheck(d)
  PROVE  CatalogueInv'
<1>1. /\ desk[d] \in DeskStates /\ DeskSound(d) /\ desk[d].at \in {"create", "update"}
      /\ UNCHANGED <<mapping, pack, checkout, slipped, restored>>
      /\ \A e \in Desks : ~(desk[e].at = "locked" /\ desk[e].row.product = desk[d].row.product)
  BY DEF CatalogueInv, LockAndCheck, ProductLocked
<1>2. PICK m \in Mappings : desk[d].mappings = {m}
  BY <1>1 DEF DeskSound, ToWrite
<1>3. (CHOOSE n \in desk[d].mappings : TRUE) = m
  BY <1>2
<1>4. CASE Mappable(m, desk[d].row)
  <2> DEFINE s == [desk[d] EXCEPT !.at = "locked"]
  <2>1. /\ s \in DeskStates /\ s.at = "locked" /\ s.row = desk[d].row /\ s.mappings = {m}
        /\ s.orders = desk[d].orders
    BY <1>1, <1>2 DEF DeskStates
  <2>2. desk' = [desk EXCEPT ![d] = s]
    BY <1>3, <1>4 DEF LockAndCheck
  <2> HIDE DEF s
  <2>3. desk'[d] = s /\ \A e \in Desks \ {d} : desk'[e] = desk[e]
    BY <2>2 DEF CatalogueInv
  <2>4. \A n \in Present \ {m} : mapping[n].product = s.row.product => Agrees(mapping[n], s.row)
    BY <1>4, <2>1 DEF Mappable, Agrees
  <2>5. DeskSound(d)'
    <3>1. Placed' = Placed /\ Present' = Present
      BY <1>1 DEF Placed, Present
    <3>2. desk[d].at \in ToWrite
      BY <1>1 DEF ToWrite
    <3> QED
      BY <1>1, <1>2, <2>1, <2>3, <2>4, <3>1, <3>2 DEF DeskSound
  <2>6. ASSUME NEW e \in Desks \ {d} PROVE DesksApart(d, e)' /\ DesksApart(e, d)'
    <3>1. DesksApart(d, e) /\ DesksApart(e, d)
      BY DEF CatalogueInv
    <3> QED
      BY <1>1, <1>2, <2>1, <2>3, <3>1 DEF DesksApart, ToWrite
  <2> QED
    BY <1>1, <2>1, <2>2, <2>5, <2>6, DeskMoves
<1>5. CASE ~Mappable(m, desk[d].row)
  <2>1. desk' = [desk EXCEPT ![d] = Vacant]
    BY <1>3, <1>5 DEF LockAndCheck
  <2>2. desk'[d] = Vacant
    BY <2>1 DEF CatalogueInv
  <2>3. DeskSound(d)'
    BY <2>2, VacantTyped DEF DeskSound, ToWrite
  <2>4. \A e \in Desks \ {d} : DesksApart(d, e)' /\ DesksApart(e, d)'
    BY <2>2, VacantTyped DEF DesksApart, ToWrite
  <2> QED
    BY <1>1, <2>1, <2>3, <2>4, VacantTyped, DeskMoves
<1> QED
  BY <1>4, <1>5

\* A desk saves the mapping of its product.
LEMMA MappingSaved ==
  ASSUME CatalogueInv, NEW d \in Desks, SaveMapping(d)
  PROVE  CatalogueInv'
<1>1. /\ desk[d] \in DeskStates /\ DeskSound(d) /\ desk[d].at = "locked" /\ desk[d].at \in ToWrite
      /\ UNCHANGED <<pack, checkout, restored>> /\ desk' = [desk EXCEPT ![d] = Vacant]
      /\ mapping \in [Mappings -> Rows] /\ pack \in Packs /\ slipped \subseteq Checkouts /\ restored \subseteq Mappings
      /\ UsedIsImmutable
  BY DEF CatalogueInv, SaveMapping, ToWrite
<1>2. PICK m \in Mappings : desk[d].mappings = {m}
  BY <1>1 DEF DeskSound
<1>3. (CHOOSE n \in desk[d].mappings : TRUE) = m
  BY <1>2
<1>4. PICK row \in SoldRows : desk[d].row = row
  BY <1>1 DEF DeskSound
<1>5. CASE ~FitsIndexes(m, row)
  <2>1. UNCHANGED <<mapping, slipped>>
    BY <1>3, <1>4, <1>5 DEF SaveMapping
  <2>2. UsedIsImmutable'
    BY <1>1, <2>1 DEF UsedIsImmutable, Placed
  <2> QED
    BY <1>1, <2>1, <2>2, MappingsMove
<1>6. CASE FitsIndexes(m, row)
  <2>1. mapping' = [mapping EXCEPT ![m] = row] /\ Slips(d, m, row)
    BY <1>3, <1>4, <1>6 DEF SaveMapping
  <2>2. /\ mapping' \in [Mappings -> Rows] /\ mapping'[m] = row
        /\ \A k \in Mappings \ {m} : mapping'[k] = mapping[k]
    BY <1>1, <1>4, <2>1, RowsAre
  <2>3. slipped \subseteq slipped' /\ slipped' \subseteq Checkouts
    BY <1>1, <2>1 DEF Slips, OrdersOf, Placed
  <2>4. ASSUME NEW o \in Placed \ slipped', NEW k \in checkout[o].id \ restored
        PROVE  mapping'[k].owner = checkout[o].row.owner /\ SameIdentity(mapping'[k], checkout[o].row)
    <3>0. /\ mapping[k].owner = checkout[o].row.owner /\ SameIdentity(mapping[k], checkout[o].row)
          /\ k \in Mappings /\ checkout[o].row \in SoldRows
      BY <1>1, <2>3, <2>4 DEF UsedIsImmutable, CatalogueInv, CheckoutStates, Placed
    <3>1. CASE k # m
      BY <2>2, <3>0, <3>1
    <3>2. CASE k = m
      <4>1. m \in Present
        BY <3>0, <3>2, RowsAre DEF Present, Missing, Owners
      <4>2. row.owner = mapping[m].owner
        BY <1>1, <1>2, <1>4, <2>4, <3>2, <4>1 DEF DeskSound
      <4>3. SameIdentity(checkout[o].row, row)
        <5>1. CASE SameIdentity(mapping[m], row)
          BY <3>0, <3>2, <5>1 DEF SameIdentity
        <5>2. CASE ~SameIdentity(mapping[m], row)
          <6>1. o \in desk[d].orders \ slipped
            BY <2>1, <2>3, <2>4, <3>2, <5>2 DEF Slips, OrdersOf
          <6> QED
            BY <1>1, <1>2, <1>4, <2>4, <3>2, <6>1 DEF DeskSound
        <5> QED
          BY <5>1, <5>2
      <4> QED
        BY <2>2, <3>0, <3>2, <4>2, <4>3 DEF SameIdentity
    <3> QED
      BY <3>1, <3>2
  <2>5. UsedIsImmutable'
    BY <1>1, <2>4 DEF UsedIsImmutable, Placed
  <2>6. \A k \in Mappings \ restored' :
          \/ mapping'[k] = mapping[k]
          \/ mapping'[k] = Missing
          \/ desk[d].at = "locked" /\ k \in desk[d].mappings /\ mapping'[k] = desk[d].row
    BY <1>1, <1>2, <1>4, <2>2
  <2> QED
    BY <1>1, <2>2, <2>3, <2>5, <2>6, MappingsMove
<1> QED
  BY <1>5, <1>6

\* A desk removes the mapping of its product.
LEMMA MappingRemoved ==
  ASSUME CatalogueInv, NEW d \in Desks, RemoveMapping(d)
  PROVE  CatalogueInv'
<1>1. /\ desk[d] \in DeskStates /\ DeskSound(d) /\ desk[d].at = "delete"
      /\ UNCHANGED <<pack, checkout, restored>> /\ desk' = [desk EXCEPT ![d] = Vacant]
      /\ mapping \in [Mappings -> Rows] /\ pack \in Packs /\ slipped \subseteq Checkouts /\ restored \subseteq Mappings
      /\ UsedIsImmutable
  BY DEF CatalogueInv, RemoveMapping
<1>2. PICK m \in Mappings : desk[d].mappings = {m} /\ desk[d].orders = {}
  BY <1>1 DEF DeskSound
<1>3. (CHOOSE n \in desk[d].mappings : TRUE) = m
  BY <1>2
<1>4. mapping' = [mapping EXCEPT ![m] = Missing] /\ Slips(d, m, Missing)
  BY <1>3 DEF RemoveMapping
<1>5. /\ mapping' \in [Mappings -> Rows] /\ mapping'[m] = Missing
      /\ \A k \in Mappings \ {m} : mapping'[k] = mapping[k]
  BY <1>1, <1>4, RowsAre
<1>6. slipped \subseteq slipped' /\ slipped' \subseteq Checkouts
  BY <1>1, <1>4 DEF Slips, OrdersOf, Placed
<1>7. ASSUME NEW o \in Placed \ slipped', NEW k \in checkout[o].id \ restored
      PROVE  mapping'[k].owner = checkout[o].row.owner /\ SameIdentity(mapping'[k], checkout[o].row)
  <2>0. /\ mapping[k].owner = checkout[o].row.owner /\ SameIdentity(mapping[k], checkout[o].row)
        /\ k \in Mappings /\ checkout[o].row \in SoldRows
    BY <1>1, <1>6, <1>7 DEF UsedIsImmutable, CatalogueInv, CheckoutStates, Placed
  <2>1. k # m
    <3> SUFFICES ASSUME k = m PROVE FALSE
      OBVIOUS
    <3>1. ~SameIdentity(mapping[m], Missing)
      BY <2>0, RowsAre DEF SameIdentity
    <3>2. o \in desk[d].orders
      BY <1>4, <1>7, <3>1 DEF Slips, OrdersOf
    <3> QED
      BY <1>2, <3>2
  <2> QED
    BY <1>5, <2>0, <2>1
<1>8. UsedIsImmutable'
  BY <1>1, <1>7 DEF UsedIsImmutable, Placed
<1> QED
  BY <1>1, <1>5, <1>6, <1>8, MappingsMove

\* A desk saves its package and the mappings it copied.
LEMMA PackageSaved ==
  ASSUME CatalogueInv, NEW d \in Desks, SavePackage(d)
  PROVE  CatalogueInv'
<1>1. /\ desk[d] \in DeskStates /\ DeskSound(d) /\ desk[d].at = "package"
      /\ UNCHANGED <<checkout, slipped>> /\ desk' = [desk EXCEPT ![d] = Vacant]
      /\ mapping \in [Mappings -> Rows] /\ pack \in Packs /\ slipped \subseteq Checkouts /\ restored \subseteq Mappings
      /\ UsedIsImmutable
  BY DEF CatalogueInv, SavePackage
<1>2. /\ desk[d].copy \in [desk[d].mappings -> Rows] /\ desk[d].pack \in Packs /\ desk[d].mappings \subseteq Mappings
  BY <1>1 DEF DeskSound, DeskStates
<1>3. \/ UNCHANGED <<mapping, pack, restored>>
      \/ /\ mapping' = [m \in Mappings |-> IF m \in desk[d].mappings THEN desk[d].copy[m] ELSE mapping[m]]
         /\ pack' = desk[d].pack
         /\ restored' = restored \union {m \in desk[d].mappings : mapping[m] # desk[d].copy[m]}
  BY DEF SavePackage
<1>4. /\ mapping' \in [Mappings -> Rows] /\ pack' \in Packs
      /\ restored \subseteq restored' /\ restored' \subseteq Mappings
      /\ \A m \in Mappings \ restored' : mapping'[m] = mapping[m]
  BY <1>1, <1>2, <1>3
<1>5. UsedIsImmutable'
  <2> SUFFICES ASSUME NEW o \in Placed \ slipped, NEW k \in checkout[o].id \ restored'
               PROVE  mapping'[k].owner = checkout[o].row.owner /\ SameIdentity(mapping'[k], checkout[o].row)
    BY <1>1 DEF UsedIsImmutable, Placed
  <2>1. k \in Mappings
    BY DEF CatalogueInv, CheckoutStates, Placed
  <2> QED
    BY <1>1, <1>4, <2>1 DEF UsedIsImmutable
<1> QED
  BY <1>1, <1>4, <1>5, MappingsMove

\* The steps of a checkout.
LEMMA CheckoutSteps ==
  ASSUME CatalogueInv, NEW o \in Checkouts,
         (\E m \in Mappings : LoadForSale(o, m)) \/ CheckProduct(o) \/ PlaceOrder(o)
  PROVE  CatalogueInv'
<1>0. /\ mapping \in [Mappings -> Rows] /\ pack \in Packs /\ checkout[o] \in CheckoutStates
      /\ checkout[o].at # "browsing" => checkout[o].row \in SoldRows
      /\ slipped \subseteq Checkouts
  BY DEF CatalogueInv
<1>1. CASE \E m \in Mappings : LoadForSale(o, m)
  <2>1. PICK m \in Mappings, byCoupon \in BOOLEAN :
          /\ m \in Present /\ checkout[o] = Browsing
          /\ Becomes(o, [at |-> "loaded", id |-> {m}, row |-> mapping[m], offer |-> pack.offer, coupon |-> byCoupon])
    BY <1>1 DEF LoadForSale
  <2> DEFINE s == [at |-> "loaded", id |-> {m}, row |-> mapping[m], offer |-> pack.offer, coupon |-> byCoupon]
  <2>2. mapping[m] \in SoldRows /\ mapping[m] \in Rows
    BY <1>0, <2>1, RowsAre DEF Present
  <2>3. s \in CheckoutStates /\ s.at = "loaded" /\ s.row \in SoldRows
    BY <1>0, <2>2 DEF CheckoutStates, Packs
  <2>4. checkout' = [checkout EXCEPT ![o] = s] /\ UNCHANGED <<mapping, pack, desk, slipped, restored>>
    BY <2>1 DEF Becomes
  <2>5. checkout[o].at # "placed"
    BY <2>1 DEF Browsing
  <2> HIDE DEF s
  <2> QED
    BY <1>0, <2>3, <2>4, <2>5, CheckoutMoves
<1>2. CASE CheckProduct(o)
  <2> DEFINE s == IF NotMappedElsewhere(checkout[o].row) THEN [checkout[o] EXCEPT !.at = "checked"] ELSE Browsing
  <2>1. checkout' = [checkout EXCEPT ![o] = s] /\ UNCHANGED <<mapping, pack, desk, slipped, restored>>
        /\ checkout[o].at = "loaded"
    BY <1>2 DEF CheckProduct, Becomes
  <2>2. [checkout[o] EXCEPT !.at = "checked"] \in CheckoutStates /\ Browsing \in CheckoutStates
    BY <1>0, RowsAre, PlansAssumption DEF CheckoutStates, Browsing, Offers
  <2>3. s \in CheckoutStates /\ s.at # "placed" /\ (s.at # "browsing" => s.row = checkout[o].row)
    BY <1>0, <2>2 DEF CheckoutStates, Browsing
  <2> HIDE DEF s
  <2> QED
    BY <1>0, <2>1, <2>3, CheckoutMoves
<1>3. CASE PlaceOrder(o)
  <2> DEFINE s == [checkout[o] EXCEPT !.at = "placed"]
  <2>1. /\ checkout' = [checkout EXCEPT ![o] = s] /\ UNCHANGED <<mapping, pack, desk, restored>>
        /\ checkout[o].at = "checked" /\ slipped \subseteq slipped' /\ slipped' \subseteq Checkouts
    BY <1>0, <1>3 DEF PlaceOrder
  <2>2. s \in CheckoutStates /\ s.row = checkout[o].row /\ s.id = checkout[o].id
    BY <1>0 DEF CheckoutStates
  <2>3. o \notin slipped' => \A m \in checkout[o].id :
          mapping[m].owner = checkout[o].row.owner /\ SameIdentity(mapping[m], checkout[o].row)
    BY <1>3 DEF PlaceOrder
  <2> HIDE DEF s
  <2> QED
    BY <1>0, <2>1, <2>2, <2>3, CheckoutMoves
<1> QED
  BY <1>1, <1>2, <1>3

\* Every step of the catalogue keeps the invariant.
LEMMA CatalogueStep == CatalogueInv /\ [CatalogueNext]_catalogueVars => CatalogueInv'
<1> SUFFICES ASSUME CatalogueInv, [CatalogueNext]_catalogueVars PROVE CatalogueInv'
  OBVIOUS
<1>1. CASE UNCHANGED catalogueVars
  <2>1. Present' = Present /\ Placed' = Placed /\ UNCHANGED <<mapping, pack, desk, checkout, slipped, restored>>
    BY <1>1 DEF catalogueVars, Present, Placed
  <2>2. \A d, e \in Desks : DeskSound(d)' /\ DesksApart(d, e)'
    BY <2>1 DEF CatalogueInv, DeskSound, DesksApart
  <2>3. OneMeaning' /\ UsedIsImmutable'
    BY <2>1 DEF CatalogueInv, OneMeaning, UsedIsImmutable
  <2> QED
    BY <2>1, <2>2, <2>3 DEF CatalogueInv
<1>2. CASE CatalogueNext
  <2>1. CASE \E d \in Desks, m \in Mappings :
               CreateProviderProduct(d, m) \/ UpdateProviderProduct(d, m) \/ DeleteProviderProduct(d, m)
    BY <2>1, ProductCreated, ProductUpdated, ProductDeleted
  <2>2. CASE \E d \in Desks : LockAndCheck(d)
    BY <2>2, ProductLockedOrRefused
  <2>3. CASE \E d \in Desks : SaveMapping(d) \/ RemoveMapping(d)
    BY <2>3, MappingSaved, MappingRemoved
  <2>4. CASE \E d \in Desks : EditPackage(d) \/ SavePackage(d)
    BY <2>4, PackageEdited, PackageSaved
  <2>5. CASE \E o \in Checkouts : (\E m \in Mappings : LoadForSale(o, m)) \/ CheckProduct(o) \/ PlaceOrder(o)
    BY <2>5, CheckoutSteps
  <2> QED
    BY <1>2, <2>1, <2>2, <2>3, <2>4, <2>5 DEF CatalogueNext
<1> QED
  BY <1>1, <1>2

\* A store product means one thing to both services, and a mapping that an order
\* uses keeps saying what it said, wherever no package was saved over it and the
\* order was not placed between the count and the change (lockProviderProductIdentity,
\* assertProductNotMappedToPackage, updateProviderProduct).
THEOREM CatalogueStaysConsistent == CatalogueSpec => []CatalogueConsistent
<1>1. CatalogueSpec => []CatalogueInv
  BY CatalogueInitInv, CatalogueStep, PTL DEF CatalogueSpec
<1> QED
  BY <1>1, CatalogueIsConsistent, PTL

-----------------------------------------------------------------------------
(* Course orders: the orders of a course, the stores and the access they pay for. *)

Paid(o) == order[o] = "PAID"
SettledOrder(o) == order[o] \in {"PAID", "REFUNDED"}
Silent(p) == <<"REFUND", p>> \notin notices /\ <<"REFUND_REVERSED", p>> \notin notices

\* A purchase that an order is tied to was sold, for the order's product, and
\* Apple's only to the order itself; whoever paid is tied to one.
PurchaseFits(o, p) ==
  store[p] # "unsold" /\ Google(p) = Google(o) /\ SameProduct(o, p) /\ (~Google(o) => p = o)
OrdersBound ==
  /\ \A o, x \in CourseOrderIds : bound[o] = bound[x] /\ bound[o] # NoCourseOrder => o = x
  /\ \A o \in CourseOrderIds :
       /\ bound[o] # NoCourseOrder => PurchaseFits(o, bound[o])
       /\ SettledOrder(o) => bound[o] # NoCourseOrder
       /\ Paid(o) /\ o \in TimedOrders /\ Google(o) => until[o] = ends[bound[o]]

\* What a verification holds: its order, and a purchase that fits its target; from
\* there on it is bound; the order whose payment it completes waits, and it is
\* the only one that does.
VerifierSound(w) ==
  IF w.at = "idle" THEN w = IdleVerifier
  ELSE /\ w.order \in CourseOrderIds /\ w.target \in CourseOrderIds
       /\ w.at \notin {"failing", "superseding"} =>
            w.purchase \in CourseOrderIds /\ PurchaseFits(w.target, w.purchase)
       /\ w.at \in {"reopening", "paying", "completing"} => bound[w.target] = w.purchase
       /\ w.at = "verified" => Google(w.order) /\ w.target = w.order
       /\ w.at = "completing" => order[w.target] \in {"PENDING", "PROCESSING"}
                                 /\ (w.read.order # NoCourseOrder => SettledOrder(w.read.order))
Verifying ==
  /\ \A v \in Verifiers : VerifierSound(verifier[v])
  /\ \A v, w \in Verifiers :
       verifier[v].at = "completing" /\ verifier[w].at = "completing"
         /\ verifier[v].target = verifier[w].target => v = w

\* Refunds that Google made, or the store told of, were made; a purchase whose
\* refund nobody has to hear of any more has its order REFUNDED.
RefundMade(o) ==
  /\ refund[o] # "none" => Google(o) /\ bound[o] # NoCourseOrder
  /\ refund[o] = "COMPLETED" => order[o] = "REFUNDED"
  /\ refund[o] \in {"PROVIDER_COMPLETED", "COMPLETED"} => store[bound[o]] = "refunded"
  /\ o \in refunding => refund[o] # "none"
  /\ order[o] = "REFUNDED" /\ Google(o) => store[bound[o]] = "refunded"
  /\ order[o] = "REFUNDED" /\ ~Google(o) /\ o \notin missed /\ Silent(o) => store[o] = "refunded"
RefundHeard(p) ==
  /\ Google(p) /\ <<"REFUND", p>> \in notices => store[p] = "refunded"
  /\ store[p] = "refunded" /\ p \notin missed /\ Silent(p) =>
       \E o \in CourseOrderIds : bound[o] = p /\ order[o] = "REFUNDED"
RefundsHeard == \A o \in CourseOrderIds : RefundMade(o) /\ RefundHeard(o)

\* The order that the enrollment rests on.
RestsOnPaid == enrollment.order # NoCourseOrder /\ Paid(enrollment.order)
EnrollmentRests ==
  /\ enrollment.order # NoCourseOrder => SettledOrder(enrollment.order)
  /\ HasAccess(enrollment) => RestsOnPaid \/ (enrollment.order = NoCourseOrder /\ grant = "ACTIVE")
  /\ \A o \in CourseOrderIds : Paid(o) =>
       \/ RestsOnPaid
       \/ enrollment.order # NoCourseOrder /\ o \in TimedOrders /\ until[o] <= day
  /\ ~excused /\ (\E o \in CourseOrderIds \ TimedOrders : Paid(o)) =>
       enrollment.status = "ACTIVE" /\ enrollment.lifetime

CourseInv == CourseOrdersTypeOK /\ OrdersBound /\ Verifying /\ RefundsHeard /\ EnrollmentRests

\* Before the first order nobody has paid and nobody has access.
LEMMA CourseInitInv == CourseOrdersInit => CourseInv
<1> SUFFICES ASSUME CourseOrdersInit PROVE CourseInv
  OBVIOUS
<1> USE DEF CourseOrdersInit
<1>1. CourseOrdersTypeOK
  <2>1. NotEnrolled \in Enrollments
    BY DEF Enrollments, NotEnrolled
  <2>2. IdleVerifier \in [at : Stages, order : CourseOrderIds \union {NoCourseOrder},
                         purchase : CourseOrderIds \union {NoCourseOrder},
                         target : CourseOrderIds \union {NoCourseOrder}, read : Enrollments]
    BY <2>1 DEF IdleVerifier, Stages
  <2> HIDE DEF NotEnrolled, IdleVerifier
  <2>3. 0 \in Days /\ 0 \in 0..LastDay /\ 0 \in 0..MaxDecisions
    BY CourseOrdersAssumption DEF Days
  <2>4. store \in [CourseOrderIds -> {"unsold", "owned", "refunded"}] /\ ends \in [CourseOrderIds -> Days]
        /\ until \in [CourseOrderIds -> Nat] /\ bound \in [CourseOrderIds -> CourseOrderIds \union {NoCourseOrder}]
    BY <2>3
  <2> QED
    BY <2>1, <2>2, <2>3, <2>4 DEF CourseOrdersTypeOK
<1>2. OrdersBound /\ RefundsHeard
  BY DEF OrdersBound, RefundsHeard, RefundMade, RefundHeard, Paid, SettledOrder
<1>3. Verifying
  BY DEF Verifying, VerifierSound, IdleVerifier
<1>4. EnrollmentRests
  BY DEF EnrollmentRests, NotEnrolled, HasAccess, Paid
<1> QED
  BY <1>1, <1>2, <1>3, <1>4 DEF CourseInv

\* What the run checks follows from the invariant.
LEMMA CourseInvImplies ==
  CourseInv => CourseOrdersConsistent /\ AccessFollowsPayment
<1> SUFFICES ASSUME CourseInv PROVE CourseOrdersConsistent /\ AccessFollowsPayment
  OBVIOUS
<1>1. OrdersFollowTheStore
  <2> SUFFICES ASSUME NEW o \in CourseOrderIds, NEW p, p = bound[o], p \notin missed,
                      {<<"REFUND", p>>, <<"REFUND_REVERSED", p>>} \intersect notices = {}
               PROVE  /\ p # NoCourseOrder /\ store[p] = "refunded" => order[o] # "PAID"
                      /\ order[o] = "REFUNDED" => store[p] = "refunded"
    BY DEF OrdersFollowTheStore
  <2>1. ASSUME p # NoCourseOrder, store[p] = "refunded" PROVE order[o] # "PAID"
    <3>1. p \in CourseOrderIds
      BY <2>1 DEF CourseInv, CourseOrdersTypeOK
    <3>2. PICK x \in CourseOrderIds : bound[x] = p /\ order[x] = "REFUNDED"
      BY <2>1, <3>1 DEF CourseInv, RefundsHeard, RefundHeard, Silent
    <3> QED
      BY <2>1, <3>2 DEF CourseInv, OrdersBound
  <2>2. ASSUME order[o] = "REFUNDED" PROVE store[p] = "refunded"
    <3>1. p # NoCourseOrder /\ (~Google(o) => p = o)
      BY <2>2 DEF CourseInv, OrdersBound, SettledOrder, PurchaseFits
    <3> QED
      BY <2>2, <3>1 DEF CourseInv, RefundsHeard, RefundMade, Silent
  <2> QED
    BY <2>1, <2>2
<1>2. AccessIsPaidFor
  BY DEF CourseInv, EnrollmentRests, RestsOnPaid, Paid, AccessIsPaidFor, CourseOrdersTypeOK, Enrollments
<1>3. PayerHasAccess
  BY DEF CourseInv, EnrollmentRests, Paid, PayerHasAccess, HasAccess
<1> QED
  BY <1>1, <1>2, <1>3 DEF CourseInv, CourseOrdersConsistent, OrdersBound, AccessFollowsPayment

\* The clock and the enrollment alone move; the orders stay.
LEMMA OrdersStay ==
  ASSUME CourseInv, UNCHANGED <<storeVars, order, bound, until, refund, refunding, verifier, missed>>
  PROVE  OrdersBound' /\ Verifying' /\ RefundsHeard'
<1>1. UNCHANGED <<store, ends, notices, order, bound, until, refund, refunding, verifier, missed>>
  BY DEF storeVars
<1> QED
  BY <1>1 DEF CourseInv, OrdersBound, Verifying, RefundsHeard, RefundMade, RefundHeard, Silent, PurchaseFits,
     VerifierSound, Paid, SettledOrder, storeVars

\* The stores, notices and refunds move, and what was sold stays so.
LEMMA PurchasesStay ==
  ASSUME CourseInv, UNCHANGED <<order, bound, until, verifier>>,
         \A p \in CourseOrderIds : store[p] # "unsold" => store'[p] # "unsold" /\ ends'[p] = ends[p]
  PROVE  OrdersBound' /\ Verifying'
<1>1. OrdersBound'
  BY DEF CourseInv, OrdersBound, PurchaseFits, Paid, SettledOrder, CourseOrdersTypeOK
<1>2. \A v \in Verifiers : VerifierSound(verifier[v])'
  BY DEF CourseInv, Verifying, VerifierSound, PurchaseFits, SettledOrder
<1> QED
  BY <1>1, <1>2 DEF CourseInv, Verifying

\* The stores and the refunds move; the orders and the enrollment stay.
LEMMA EnrollmentStays ==
  ASSUME CourseInv, UNCHANGED <<day, order, until, enrollment, grant, excused>>
  PROVE  EnrollmentRests'
  BY DEF CourseInv, EnrollmentRests, RestsOnPaid, HasAccess, Paid, SettledOrder

\* Days pass, access expires, and access is granted or revoked outside the stores.
LEMMA ClockInv ==
  ASSUME CourseInv, CourseDayPasses \/ Expire \/ RevokeExternal \/ \E forEver \in BOOLEAN : GrantExternal(forEver)
  PROVE  CourseInv'
<1>t. CourseOrdersTypeOK /\ EnrollmentRests
  BY DEF CourseInv
<1>1. CASE CourseDayPasses
  <2>1. CourseOrdersTypeOK'
    BY <1>t, <1>1, CourseOrdersAssumption DEF CourseDayPasses, CourseOrdersTypeOK, storeVars, enrolledVars, refundVars, history
  <2>2. EnrollmentRests'
    BY <1>t, <1>1 DEF CourseDayPasses, CourseOrdersTypeOK, storeVars, enrolledVars, refundVars, history,
       EnrollmentRests, RestsOnPaid, HasAccess, Paid, SettledOrder, Enrollments
  <2> QED
    BY <1>1, <2>1, <2>2, OrdersStay DEF CourseInv, CourseDayPasses, enrolledVars, refundVars, history
<1>2. CASE Expire
  <2>1. CourseOrdersTypeOK'
    BY <1>t, <1>2 DEF Expire, CourseOrdersTypeOK, storeVars, refundVars, history, Enrollments
  <2>2. EnrollmentRests'
    BY <1>t, <1>2 DEF Expire, CourseOrdersTypeOK, storeVars, refundVars, history,
       EnrollmentRests, RestsOnPaid, HasAccess, Paid, SettledOrder, Enrollments
  <2> QED
    BY <1>2, <2>1, <2>2, OrdersStay DEF CourseInv, Expire, refundVars, history
<1>3. CASE RevokeExternal
  <2>1. CourseOrdersTypeOK'
    BY <1>t, <1>3 DEF RevokeExternal, CourseOrdersTypeOK, storeVars, history, Enrollments
  <2>2. EnrollmentRests'
    BY <1>t, <1>3 DEF RevokeExternal, CourseOrdersTypeOK, storeVars, history,
       EnrollmentRests, RestsOnPaid, HasAccess, Paid, SettledOrder, Enrollments
  <2> QED
    BY <1>3, <2>1, <2>2, OrdersStay DEF CourseInv, RevokeExternal, history
<1>4. ASSUME NEW forEver \in BOOLEAN, GrantExternal(forEver) PROVE CourseInv'
  <2>1. CourseOrdersTypeOK'
    BY <1>t, <1>4, CourseOrdersAssumption DEF GrantExternal, CourseOrdersTypeOK, storeVars, history, Enrollments, Later
  <2>2. EnrollmentRests'
    BY <1>t, <1>4 DEF GrantExternal, CourseOrdersTypeOK, storeVars, history,
       EnrollmentRests, RestsOnPaid, HasAccess, Paid, SettledOrder, Enrollments
  <2> QED
    BY <1>4, <2>1, <2>2, OrdersStay DEF CourseInv, GrantExternal, history
<1> QED
  BY <1>1, <1>2, <1>3, <1>4

VerifierRows ==
  [at : Stages,
   order : CourseOrderIds \union {NoCourseOrder},
   purchase : CourseOrderIds \union {NoCourseOrder},
   target : CourseOrderIds \union {NoCourseOrder},
   read : Enrollments]

\* A verification moves, and saves at most the status of an order that is not
\* settled and stays so.
LEMMA VerificationMoves ==
  ASSUME CourseInv, NEW v \in Verifiers, NEW w \in VerifierRows,
         verifier' = [verifier EXCEPT ![v] = w], VerifierSound(w),
         NEW o \in CourseOrderIds, NEW s \in {"none", "PENDING", "PROCESSING", "PAID", "REFUNDED", "FAILED", "CANCELLED"},
         order' = [order EXCEPT ![o] = s],
         s = order[o] \/ (~SettledOrder(o) /\ s \notin {"PAID", "REFUNDED"} /\ ~OrderLocked(o) /\ w.at # "completing"),
         w.at = "completing" => ~OrderLocked(w.target), decisions' \in 0..MaxDecisions,
         UNCHANGED <<day, storeVars, enrollment, bound, until, refundVars, history>>
  PROVE  CourseInv'
<1>t. CourseOrdersTypeOK /\ UNCHANGED <<day, store, ends, notices, enrollment, bound, until, grant, refund, refunding,
                                       excused, missed>>
  BY DEF CourseInv, storeVars, refundVars, history
<1>o. /\ order'[o] = s /\ \A x \in CourseOrderIds \ {o} : order'[x] = order[x]
      /\ \A x \in CourseOrderIds : (order'[x] = "PAID" <=> Paid(x)) /\ (order'[x] = "REFUNDED" <=> order[x] = "REFUNDED")
  BY <1>t DEF CourseOrdersTypeOK, Paid, SettledOrder
<1>v. verifier'[v] = w /\ \A u \in Verifiers \ {v} : verifier'[u] = verifier[u]
  BY <1>t DEF CourseOrdersTypeOK
<1>1. CourseOrdersTypeOK'
  BY <1>t, <1>o DEF CourseOrdersTypeOK, VerifierRows
<1>2. OrdersBound'
  BY <1>t, <1>o DEF CourseInv, OrdersBound, PurchaseFits, Paid, SettledOrder
<1>3. RefundsHeard'
  <2> SUFFICES ASSUME NEW x \in CourseOrderIds PROVE RefundMade(x)' /\ RefundHeard(x)'
    BY DEF RefundsHeard
  <2>1. RefundMade(x) /\ RefundHeard(x)
    BY DEF CourseInv, RefundsHeard
  <2>2. RefundMade(x)'
    BY <1>t, <1>o, <2>1 DEF RefundMade, Silent
  <2>3. RefundHeard(x)'
    BY <1>t, <1>o, <2>1 DEF RefundHeard, Silent
  <2> QED
    BY <2>2, <2>3
<1>4. EnrollmentRests'
  BY <1>t, <1>o DEF CourseInv, EnrollmentRests, RestsOnPaid, HasAccess, Paid, SettledOrder
<1>5. Verifying'
  <2>1. ASSUME NEW x \in VerifierRows, VerifierSound(x), x.at = "completing" => x.target # o \/ s = order[o]
        PROVE  VerifierSound(x)'
    BY <1>t, <1>o, <2>1 DEF VerifierSound, PurchaseFits, SettledOrder, VerifierRows
  <2>2. \A u \in Verifiers : VerifierSound(verifier[u]) /\ verifier[u] \in VerifierRows
    BY <1>t DEF CourseInv, Verifying, CourseOrdersTypeOK, VerifierRows
  <2>3. \A u \in Verifiers : VerifierSound(verifier[u])'
    BY <1>v, <2>1, <2>2 DEF OrderLocked
  <2>4. \A u, x \in Verifiers :
          (verifier[u].at = "completing" /\ verifier[x].at = "completing"
             /\ verifier[u].target = verifier[x].target => u = x)'
    BY <1>v DEF CourseInv, Verifying, OrderLocked
  <2> QED
    BY <2>3, <2>4 DEF Verifying
<1> QED
  BY <1>1, <1>2, <1>3, <1>4, <1>5 DEF CourseInv

\* The steps of a verification that change no payment.
LEMMA VerifyingInv ==
  ASSUME CourseInv, NEW v \in Verifiers,
         \/ \E o, p \in CourseOrderIds : Verify(v, o, p)
         \/ \E o \in CourseOrderIds : PresentForeign(v, o)
         \/ FindExisting(v) \/ Reopen(v) \/ BeginPayment(v) \/ Supersede(v) \/ Fail(v) \/ CallDies(v)
  PROVE  CourseInv'
<1> DEFINE Moves(w, o, s) ==
      /\ w \in VerifierRows /\ VerifierSound(w) /\ verifier' = [verifier EXCEPT ![v] = w]
      /\ o \in CourseOrderIds /\ order' = [order EXCEPT ![o] = s]
      /\ s \in {"none", "PENDING", "PROCESSING", "PAID", "REFUNDED", "FAILED", "CANCELLED"}
      /\ \/ s = order[o]
         \/ ~SettledOrder(o) /\ s \notin {"PAID", "REFUNDED"} /\ ~OrderLocked(o) /\ w.at # "completing"
      /\ w.at = "completing" => ~OrderLocked(w.target)
      /\ decisions' \in 0..MaxDecisions
      /\ UNCHANGED <<day, storeVars, enrollment, bound, until, refundVars, history>>
<1>t. CourseOrdersTypeOK
  BY DEF CourseInv
<1>i. IdleVerifier \in VerifierRows /\ VerifierSound(IdleVerifier) /\ IdleVerifier.at = "idle"
  BY DEF IdleVerifier, VerifierRows, VerifierSound, Stages, NotEnrolled, Enrollments
<1>w. verifier[v] \in VerifierRows /\ VerifierSound(verifier[v])
  BY <1>t DEF CourseInv, CourseOrdersTypeOK, VerifierRows, Verifying
<1>m. ASSUME NEW w, NEW o, NEW s, Moves(w, o, s) PROVE CourseInv'
  BY <1>m, VerificationMoves
<1>o. \A o \in CourseOrderIds :
        /\ order = [order EXCEPT ![o] = order[o]]
        /\ order[o] \in {"none", "PENDING", "PROCESSING", "PAID", "REFUNDED", "FAILED", "CANCELLED"}
  BY <1>t DEF CourseOrdersTypeOK
<1>1. ASSUME NEW o \in CourseOrderIds, NEW p \in CourseOrderIds, Verify(v, o, p) PROVE CourseInv'
  <2>1. PICK w : w = [IdleVerifier EXCEPT !.at = IF Google(o) THEN "verified" ELSE "marking",
                                       !.order = o, !.purchase = p, !.target = o]
    OBVIOUS
  <2>2. w \in VerifierRows /\ w.at \in {"verified", "marking"} /\ w.order = o /\ w.purchase = p /\ w.target = o
        /\ (w.at = "verified" => Google(o))
    BY <1>i, <2>1 DEF VerifierRows, Stages
  <2>3. PurchaseFits(o, p)
    BY <1>1 DEF Verify, GoogleConfirms, AppleConfirms, PurchaseFits, SameProduct
  <2>4. VerifierSound(w)
    BY <2>2, <2>3 DEF VerifierSound
  <2>5. verifier' = [verifier EXCEPT ![v] = w] /\ UNCHANGED <<order, decisions>>
        /\ UNCHANGED <<day, storeVars, enrollment, bound, until, refundVars, history>>
    BY <1>1, <2>1 DEF Verify, enrolledVars
  <2>6. Moves(w, o, order[o])
    BY <1>t, <1>o, <2>2, <2>4, <2>5 DEF CourseOrdersTypeOK
  <2> QED
    BY <1>m, <2>6
<1>2. ASSUME NEW o \in CourseOrderIds, PresentForeign(v, o) PROVE CourseInv'
  <2>1. PICK w : w = [IdleVerifier EXCEPT !.at = "failing", !.order = o, !.target = o]
    OBVIOUS
  <2>2. w \in VerifierRows /\ w.at = "failing" /\ w.order = o /\ w.target = o
    BY <1>i, <2>1 DEF VerifierRows, Stages
  <2>4. VerifierSound(w)
    BY <2>2 DEF VerifierSound
  <2>5. verifier' = [verifier EXCEPT ![v] = w] /\ UNCHANGED order
        /\ UNCHANGED <<day, storeVars, enrollment, bound, until, refundVars, history>>
    BY <1>2, <2>1 DEF PresentForeign, enrolledVars
  <2>d. decisions' \in 0..MaxDecisions
    <3>1. decisions \in 0..MaxDecisions
      BY <1>t DEF CourseOrdersTypeOK
    <3>2. decisions < MaxDecisions /\ decisions' = decisions + 1
      BY <1>2 DEF PresentForeign
    <3> QED
      BY <3>1, <3>2, CourseOrdersAssumption
  <2>6. Moves(w, o, order[o])
    BY <1>o, <2>2, <2>4, <2>5, <2>d
  <2> QED
    BY <1>m, <2>6
<1>3. CASE FindExisting(v)
  <2>1. PICK o \in CourseOrderIds : o = verifier[v].order
    BY <1>w, <1>3 DEF FindExisting, VerifierSound
  <2>2. PICK w : /\ verifier' = [verifier EXCEPT ![v] = w]
                 /\ \/ w = [verifier[v] EXCEPT !.at = "marking"]
                    \/ \E x \in CourseOrderIds : bound[x] = verifier[v].purchase
                                              /\ w = [verifier[v] EXCEPT !.at = "reopening", !.target = x]
    <3>1. PICK existing : existing = {x \in CourseOrderIds \ {o} : bound[x] = verifier[v].purchase}
      OBVIOUS
    <3>2. IF existing = {} THEN verifier' = [verifier EXCEPT ![v].at = "marking"]
          ELSE \E x \in existing : verifier' = [verifier EXCEPT ![v].at = "reopening", ![v].target = x]
      BY <1>3, <2>1, <3>1 DEF FindExisting, Goto
    <3>3. CASE existing = {}
      BY <3>2, <3>3
    <3>4. ASSUME NEW x \in existing, verifier' = [verifier EXCEPT ![v].at = "reopening", ![v].target = x]
          PROVE  \E w : /\ verifier' = [verifier EXCEPT ![v] = w]
                        /\ \E y \in CourseOrderIds : bound[y] = verifier[v].purchase
                                        /\ w = [verifier[v] EXCEPT !.at = "reopening", !.target = y]
      BY <3>1, <3>4
    <3>5. CASE existing # {}
      <4>1. PICK x \in existing : verifier' = [verifier EXCEPT ![v].at = "reopening", ![v].target = x]
        BY <3>2, <3>5
      <4>2. PICK w : /\ verifier' = [verifier EXCEPT ![v] = w]
                     /\ \E y \in CourseOrderIds : bound[y] = verifier[v].purchase
                                        /\ w = [verifier[v] EXCEPT !.at = "reopening", !.target = y]
        BY <3>4, <4>1
      <4> QED
        BY <4>2
    <3> QED
      BY <3>3, <3>5
  <2>3. w \in VerifierRows /\ w.at \in {"marking", "reopening"}
    BY <1>w, <2>2 DEF VerifierRows, Stages
  <2>4. VerifierSound(w)
    <3>1. CASE w = [verifier[v] EXCEPT !.at = "marking"]
      BY <1>w, <1>3, <3>1 DEF VerifierSound, VerifierRows, FindExisting
    <3>2. ASSUME NEW x \in CourseOrderIds, bound[x] = verifier[v].purchase,
                 w = [verifier[v] EXCEPT !.at = "reopening", !.target = x]
          PROVE  VerifierSound(w)
      <4>1. verifier[v].purchase \in CourseOrderIds /\ verifier[v].order \in CourseOrderIds
        BY <1>w, <1>3 DEF VerifierSound, FindExisting
      <4>2. PurchaseFits(x, verifier[v].purchase)
        BY <3>2, <4>1, CourseOrdersAssumption DEF CourseInv, OrdersBound
      <4> QED
        BY <1>w, <3>2, <4>1, <4>2 DEF VerifierSound, VerifierRows
    <3> QED
      BY <2>2, <3>1, <3>2
  <2>5. UNCHANGED <<order, decisions>> /\ UNCHANGED <<day, storeVars, enrollment, bound, until, refundVars, history>>
    BY <1>3 DEF FindExisting, enrolledVars
  <2>6. Moves(w, o, order[o])
    BY <1>t, <1>o, <2>2, <2>3, <2>4, <2>5 DEF CourseOrdersTypeOK
  <2> QED
    BY <1>m, <2>6
<1>4. CASE Reopen(v)
  <2>1. PICK o \in CourseOrderIds : o = verifier[v].target
    BY <1>w, <1>4 DEF Reopen, VerifierSound
  <2>2. PICK w : w = [verifier[v] EXCEPT !.at = IF order[o] = "REFUNDED" THEN "failing" ELSE "paying"]
    OBVIOUS
  <2>3. w \in VerifierRows /\ w.at \in {"failing", "paying"} /\ verifier' = [verifier EXCEPT ![v] = w]
    BY <1>t, <1>w, <1>4, <2>1, <2>2 DEF VerifierRows, Stages, Reopen, Goto, CourseOrdersTypeOK
  <2>4. VerifierSound(w)
    BY <1>w, <1>4, <2>2, <2>3 DEF VerifierSound, VerifierRows, Reopen
  <2>5. PICK s : s = IF order[o] \in {"FAILED", "CANCELLED"} THEN "PROCESSING" ELSE order[o]
    OBVIOUS
  <2>6. order' = [order EXCEPT ![o] = s] /\ ~OrderLocked(o) /\ UNCHANGED decisions
        /\ UNCHANGED <<day, storeVars, enrollment, bound, until, refundVars, history>>
    BY <1>4, <1>o, <2>1, <2>5 DEF Reopen
  <2>7. Moves(w, o, s)
    BY <1>t, <1>o, <2>3, <2>4, <2>5, <2>6 DEF SettledOrder, CourseOrdersTypeOK
  <2> QED
    BY <1>m, <2>7
<1>5. CASE BeginPayment(v)
  <2>1. PICK o \in CourseOrderIds : o = verifier[v].target
    BY <1>w, <1>5 DEF BeginPayment, VerifierSound
  <2>2. UNCHANGED <<order, decisions>> /\ UNCHANGED <<day, storeVars, enrollment, bound, until, refundVars, history>>
        /\ ~OrderLocked(o)
    BY <1>5, <2>1 DEF BeginPayment, enrolledVars
  <2>3. CASE order[o] \in {"PENDING", "PROCESSING"}
    <3>1. PICK w : w = [verifier[v] EXCEPT !.at = "completing", !.read = enrollment]
      OBVIOUS
    <3>2. w \in VerifierRows /\ w.at = "completing" /\ w.target = o /\ verifier' = [verifier EXCEPT ![v] = w]
      BY <1>t, <1>w, <1>5, <2>1, <2>3, <3>1 DEF VerifierRows, Stages, BeginPayment, CourseOrdersTypeOK
    <3>3. VerifierSound(w)
      BY <1>w, <1>5, <2>1, <2>3, <3>1, <3>2 DEF VerifierSound, VerifierRows, BeginPayment, CourseInv, EnrollmentRests
    <3>4. Moves(w, o, order[o])
      BY <1>t, <1>o, <2>2, <3>2, <3>3 DEF CourseOrdersTypeOK
    <3> QED
      BY <1>m, <3>4
  <2>4. CASE order[o] \notin {"PENDING", "PROCESSING"}
    <3>1. verifier' = [verifier EXCEPT ![v] = IdleVerifier]
      BY <1>5, <2>1, <2>4 DEF BeginPayment, Done
    <3>2. Moves(IdleVerifier, o, order[o])
      BY <1>t, <1>o, <1>i, <2>2, <3>1 DEF CourseOrdersTypeOK
    <3> QED
      BY <1>m, <3>2
  <2> QED
    BY <2>3, <2>4
<1>6. CASE Supersede(v) \/ Fail(v)
  <2>1. PICK o \in CourseOrderIds : o = verifier[v].order
    BY <1>w, <1>6 DEF Supersede, Fail, VerifierSound
  <2>2. verifier' = [verifier EXCEPT ![v] = IdleVerifier] /\ ~OrderLocked(o) /\ UNCHANGED decisions
        /\ UNCHANGED <<day, storeVars, enrollment, bound, until, refundVars, history>>
    BY <1>6, <2>1 DEF Supersede, Fail, Done
  <2>3. PICK s \in {order[o], "CANCELLED", "FAILED"} :
          order' = [order EXCEPT ![o] = s] /\ (s = order[o] \/ ~SettledOrder(o))
    BY <1>6, <1>o, <2>1 DEF Supersede, Fail, SettledOrder
  <2>4. Moves(IdleVerifier, o, s)
    BY <1>t, <1>o, <1>i, <2>2, <2>3 DEF CourseOrdersTypeOK
  <2> QED
    BY <1>m, <2>4
<1>7. CASE CallDies(v)
  <2>1. PICK o \in CourseOrderIds : o = verifier[v].order
    BY <1>w, <1>7, <1>t DEF CallDies, VerifierSound
  <2>2. verifier' = [verifier EXCEPT ![v] = IdleVerifier] /\ UNCHANGED <<order, decisions>>
        /\ UNCHANGED <<day, storeVars, enrollment, bound, until, refundVars, history>>
    BY <1>7, <2>1 DEF CallDies, Done, enrolledVars
  <2>4. Moves(IdleVerifier, o, order[o])
    BY <1>t, <1>o, <1>i, <2>2 DEF CourseOrdersTypeOK
  <2> QED
    BY <1>m, <2>4
<1> QED
  BY <1>1, <1>2, <1>3, <1>4, <1>5, <1>6, <1>7

\* A user creates an order.
LEMMA CreateOrderInv ==
  ASSUME CourseInv, NEW o \in CourseOrderIds, CreateOrder(o)
  PROVE  CourseInv'
<1>t. CourseOrdersTypeOK /\ UNCHANGED <<day, store, ends, notices, enrollment, bound, until, grant, refund, refunding,
                                       verifier, decisions, excused, missed>>
  BY DEF CourseInv, CreateOrder, storeVars, refundVars, history
<1>o. /\ order[o] = "none" /\ order'[o] = "PENDING" /\ \A x \in CourseOrderIds \ {o} : order'[x] = order[x]
      /\ order' \in [CourseOrderIds -> {"none", "PENDING", "PROCESSING", "PAID", "REFUNDED", "FAILED", "CANCELLED"}]
      /\ \A x \in CourseOrderIds : (order'[x] = "PAID" <=> Paid(x)) /\ (order'[x] = "REFUNDED" <=> order[x] = "REFUNDED")
  BY <1>t DEF CourseOrdersTypeOK, Paid, CreateOrder
<1>1. CourseOrdersTypeOK'
  BY <1>t, <1>o DEF CourseOrdersTypeOK
<1>2. OrdersBound'
  BY <1>t, <1>o DEF CourseInv, OrdersBound, PurchaseFits, Paid, SettledOrder
<1>3. RefundsHeard'
  <2> SUFFICES ASSUME NEW x \in CourseOrderIds PROVE RefundMade(x)' /\ RefundHeard(x)'
    BY DEF RefundsHeard
  <2>1. RefundMade(x) /\ RefundHeard(x)
    BY DEF CourseInv, RefundsHeard
  <2>2. RefundMade(x)'
    BY <1>t, <1>o, <2>1 DEF RefundMade, Silent
  <2>3. RefundHeard(x)'
    BY <1>t, <1>o, <2>1 DEF RefundHeard, Silent
  <2> QED
    BY <2>2, <2>3
<1>4. EnrollmentRests'
  <2>1. enrollment.order \in CourseOrderIds \union {NoCourseOrder}
    BY <1>t DEF CourseOrdersTypeOK, Enrollments
  <2>2. SettledOrder(enrollment.order) /\ enrollment.order # NoCourseOrder => SettledOrder(enrollment.order)'
    BY <1>t, <1>o, <2>1 DEF SettledOrder, Paid
  <2>3. RestsOnPaid => RestsOnPaid'
    BY <1>t, <1>o, <2>1 DEF RestsOnPaid, Paid
  <2>4. HasAccess(enrollment)' = HasAccess(enrollment)
    BY <1>t DEF HasAccess
  <2> HIDE DEF SettledOrder, RestsOnPaid, HasAccess
  <2> QED
    BY <1>t, <1>o, <2>1, <2>2, <2>3, <2>4 DEF CourseInv, EnrollmentRests, Paid
<1>5. Verifying'
  <2>1. ASSUME NEW w \in VerifierRows, VerifierSound(w) PROVE VerifierSound(w)'
    <3>1. w.read.order \in CourseOrderIds \union {NoCourseOrder}
      BY <2>1 DEF VerifierRows, Enrollments
    <3> QED
      BY <1>t, <1>o, <2>1, <3>1 DEF VerifierSound, PurchaseFits, SettledOrder, Paid
  <2>2. \A u \in Verifiers : VerifierSound(verifier[u]) /\ verifier[u] \in VerifierRows
    BY <1>t DEF CourseInv, Verifying, CourseOrdersTypeOK, VerifierRows
  <2>3. \A u \in Verifiers : VerifierSound(verifier[u])'
    BY <1>t, <2>1, <2>2
  <2> QED
    BY <1>t, <2>3 DEF CourseInv, Verifying
<1> QED
  BY <1>1, <1>2, <1>3, <1>4, <1>5 DEF CourseInv

\* The purchase is tied to the order.
LEMMA MarkVerifiedInv ==
  ASSUME CourseInv, NEW v \in Verifiers, MarkVerified(v)
  PROVE  CourseInv'
<1>t. CourseOrdersTypeOK /\ UNCHANGED <<day, store, ends, notices, order, enrollment, until, grant, refund, refunding,
                                       decisions, excused, missed>>
  BY DEF CourseInv, MarkVerified, storeVars, refundVars, enrolledVars, history
<1>w. verifier[v] \in VerifierRows /\ VerifierSound(verifier[v]) /\ verifier[v].at = "marking"
  BY <1>t DEF CourseInv, CourseOrdersTypeOK, VerifierRows, Verifying, MarkVerified
<1>p. PICK o \in CourseOrderIds, p \in CourseOrderIds :
        verifier[v].target = o /\ verifier[v].purchase = p /\ PurchaseFits(o, p)
  BY <1>w DEF VerifierSound
<1>4. EnrollmentRests'
  BY <1>t, EnrollmentStays
<1>5. CASE (\A x \in CourseOrderIds \ {o} : bound[x] # p) /\ bound[o] \in {NoCourseOrder, p}
  <2>b. /\ bound' = [bound EXCEPT ![o] = p] /\ verifier' = [verifier EXCEPT ![v].at = "paying"]
    BY <1>p, <1>5 DEF MarkVerified, Goto
  <2>1. /\ bound'[o] = p /\ \A x \in CourseOrderIds : bound'[x] = bound[x] \/ (x = o /\ bound[o] = NoCourseOrder)
        /\ bound' \in [CourseOrderIds -> CourseOrderIds \union {NoCourseOrder}]
    BY <1>t, <1>5, <2>b DEF CourseOrdersTypeOK
  <2>n. bound[o] = NoCourseOrder => order[o] \notin {"PAID", "REFUNDED"} /\ refund[o] \notin {"PROVIDER_COMPLETED", "COMPLETED"}
    BY DEF CourseInv, OrdersBound, SettledOrder, RefundsHeard, RefundMade
  <2>2. CourseOrdersTypeOK'
    <3>1. verifier' \in [Verifiers -> VerifierRows]
      BY <1>t, <1>w, <2>b DEF CourseOrdersTypeOK, VerifierRows, Stages
    <3> QED
      BY <1>t, <2>1, <3>1 DEF CourseOrdersTypeOK, VerifierRows
  <2>3. OrdersBound'
    BY <1>t, <1>p, <1>5, <2>1, <2>n, CourseOrdersAssumption DEF CourseInv, OrdersBound, PurchaseFits, Paid, SettledOrder
  <2>4. RefundsHeard'
    <3> SUFFICES ASSUME NEW x \in CourseOrderIds PROVE RefundMade(x)' /\ RefundHeard(x)'
      BY DEF RefundsHeard
    <3>1. RefundMade(x) /\ RefundHeard(x)
      BY DEF CourseInv, RefundsHeard
    <3>2. RefundMade(x)'
      BY <1>t, <2>1, <2>n, <3>1, CourseOrdersAssumption DEF RefundMade, Silent
    <3>3. RefundHeard(x)'
      BY <1>t, <2>1, <3>1, CourseOrdersAssumption DEF RefundHeard, Silent
    <3> QED
      BY <3>2, <3>3
  <2>5. Verifying'
    <3>1. PICK w : w = [verifier[v] EXCEPT !.at = "paying"]
      OBVIOUS
    <3>2. verifier'[v] = w /\ \A u \in Verifiers \ {v} : verifier'[u] = verifier[u]
      BY <1>t, <2>b, <3>1 DEF CourseOrdersTypeOK
    <3>3. VerifierSound(w)' /\ w.at = "paying"
      BY <1>t, <1>w, <1>p, <2>1, <3>1 DEF VerifierSound, VerifierRows, PurchaseFits
    <3>4. ASSUME NEW x \in VerifierRows, VerifierSound(x) PROVE VerifierSound(x)'
      BY <1>t, <2>1, <3>4, CourseOrdersAssumption DEF VerifierSound, PurchaseFits, SettledOrder, VerifierRows
    <3>5. \A u \in Verifiers : VerifierSound(verifier[u]) /\ verifier[u] \in VerifierRows
      BY <1>t DEF CourseInv, Verifying, CourseOrdersTypeOK, VerifierRows
    <3>6. \A u \in Verifiers : VerifierSound(verifier[u])'
      BY <3>2, <3>3, <3>4, <3>5
    <3> QED
      BY <3>2, <3>3, <3>6 DEF CourseInv, Verifying
  <2> QED
    BY <1>4, <2>2, <2>3, <2>4, <2>5 DEF CourseInv
<1>6. CASE ~((\A x \in CourseOrderIds \ {o} : bound[x] # p) /\ bound[o] \in {NoCourseOrder, p})
  <2>1. bound' = bound /\ verifier' = [verifier EXCEPT ![v] = IdleVerifier] /\ UNCHANGED order
    BY <1>p, <1>6, <1>t DEF MarkVerified, Done
  <2>2. IdleVerifier \in VerifierRows /\ VerifierSound(IdleVerifier) /\ IdleVerifier.at = "idle"
    BY DEF IdleVerifier, VerifierRows, VerifierSound, Stages, NotEnrolled, Enrollments
  <2>3. order' = [order EXCEPT ![o] = order[o]] /\ decisions' \in 0..MaxDecisions
        /\ order[o] \in {"none", "PENDING", "PROCESSING", "PAID", "REFUNDED", "FAILED", "CANCELLED"}
        /\ UNCHANGED <<day, storeVars, enrollment, bound, until, refundVars, history>>
    BY <1>t, <2>1 DEF CourseOrdersTypeOK, storeVars, refundVars, history
  <2> QED
    BY <2>1, <2>2, <2>3, VerificationMoves
<1> QED
  BY <1>5, <1>6

\* The stores, notices and refund operations.
LEMMA StoresInv ==
  ASSUME CourseInv, NEW o \in CourseOrderIds,
         \/ Charge(o) \/ StoreRefunds(o) \/ StoreReversesRefund(o)
         \/ PrepareRefund(o) \/ ProviderRefunds(o) \/ RefundFails(o) \/ RefundDies(o) \/ VoidArrives(o)
  PROVE  CourseInv'
<1>t. CourseOrdersTypeOK /\ UNCHANGED <<day, order, enrollment, bound, until, grant, verifier, excused, missed>>
  BY DEF CourseInv, Charge, StoreRefunds, StoreReversesRefund, PrepareRefund, ProviderRefunds, RefundFails, RefundDies,
     VoidArrives, storeVars, refundVars, enrolledVars, history
<1>m. ASSUME decisions < MaxDecisions, decisions' = decisions + 1 PROVE decisions' \in 0..MaxDecisions
  <2>1. decisions \in 0..MaxDecisions
    BY <1>t DEF CourseOrdersTypeOK
  <2> QED
    BY <1>m, <2>1, CourseOrdersAssumption
<1>e. EnrollmentRests'
  BY <1>t, EnrollmentStays
<1>h. \A x \in CourseOrderIds : RefundMade(x) /\ RefundHeard(x)
  BY DEF CourseInv, RefundsHeard
<1>k. \A x \in CourseOrderIds : bound[x] # NoCourseOrder => bound[x] \in CourseOrderIds /\ PurchaseFits(x, bound[x])
  BY <1>t DEF CourseInv, OrdersBound, CourseOrdersTypeOK
<1>s. ASSUME CourseOrdersTypeOK', RefundsHeard',
             \A p \in CourseOrderIds : store[p] # "unsold" => store'[p] # "unsold" /\ ends'[p] = ends[p]
      PROVE  CourseInv'
  BY <1>t, <1>e, <1>s, PurchasesStay DEF CourseInv
<1>1. CASE Charge(o)
  <2>1. /\ store[o] = "unsold" /\ UNCHANGED <<notices, refund, refunding, decisions>>
        /\ store' = [store EXCEPT ![o] = "owned"] /\ ends' \in [CourseOrderIds -> Days]
        /\ \A p \in CourseOrderIds \ {o} : ends'[p] = ends[p]
    <3>1. day + Length \in Days /\ 0 \in Days
      BY <1>t, CourseOrdersAssumption DEF CourseOrdersTypeOK, Days
    <3> QED
      BY <1>t, <1>1, <3>1 DEF Charge, CourseOrdersTypeOK, refundVars
  <2>2. store'[o] = "owned" /\ \A p \in CourseOrderIds \ {o} : store'[p] = store[p]
    BY <1>t, <2>1 DEF CourseOrdersTypeOK
  <2>3. CourseOrdersTypeOK'
    BY <1>t, <2>1 DEF CourseOrdersTypeOK
  <2>4. RefundsHeard'
    <3> SUFFICES ASSUME NEW x \in CourseOrderIds PROVE RefundMade(x)' /\ RefundHeard(x)'
      BY DEF RefundsHeard
    <3>1. RefundMade(x)'
      BY <1>t, <1>h, <1>k, <2>1, <2>2 DEF RefundMade, Silent
    <3>2. RefundHeard(x)'
      BY <1>t, <1>h, <2>1, <2>2 DEF RefundHeard, Silent
    <3> QED
      BY <3>1, <3>2
  <2> QED
    BY <1>s, <2>1, <2>2, <2>3, <2>4
<1>2. CASE StoreRefunds(o) \/ StoreReversesRefund(o)
  <2>1. /\ decisions' \in 0..MaxDecisions /\ UNCHANGED <<ends, refund, refunding>>
        /\ \/ /\ store[o] = "owned" /\ store' = [store EXCEPT ![o] = "refunded"]
              /\ notices' = notices \union {<<"REFUND", o>>}
           \/ /\ store[o] = "refunded" /\ ~Google(o) /\ store' = [store EXCEPT ![o] = "owned"]
              /\ notices' = notices \union {<<"REFUND_REVERSED", o>>}
    BY <1>2, <1>m DEF StoreRefunds, StoreReversesRefund, refundVars, Google
  <2>2. /\ store'[o] \in {"owned", "refunded"} /\ store[o] # "unsold"
        /\ \A p \in CourseOrderIds \ {o} : store'[p] = store[p]
        /\ store[o] = "refunded" => ~Google(o)
        /\ store' \in [CourseOrderIds -> {"unsold", "owned", "refunded"}]
    BY <1>t, <2>1 DEF CourseOrdersTypeOK
  <2>3. CourseOrdersTypeOK'
    <3>1. notices' \subseteq {"REFUND", "REFUND_REVERSED"} \X CourseOrderIds
      BY <1>t, <2>1 DEF CourseOrdersTypeOK
    <3> QED
      BY <1>t, <2>1, <2>2, <3>1 DEF CourseOrdersTypeOK
  <2>n. /\ ~Silent(o)' /\ \A p \in CourseOrderIds \ {o} : (Silent(p)' <=> Silent(p))
        /\ \A p \in CourseOrderIds \ {o} : <<"REFUND", p>> \in notices' <=> <<"REFUND", p>> \in notices
    BY <2>1 DEF Silent
  <2>4. RefundsHeard'
    <3> SUFFICES ASSUME NEW x \in CourseOrderIds PROVE RefundMade(x)' /\ RefundHeard(x)'
      BY DEF RefundsHeard
    <3>1. RefundMade(x)'
      <4>1. bound[x] = o /\ Google(x) => Google(o)
        BY <1>k, CourseOrdersAssumption DEF PurchaseFits
      <4>2. (bound[x] = o /\ store'[o] # "refunded") => ~Google(o)
        BY <1>t, <2>1, <2>2 DEF CourseOrdersTypeOK
      <4>3. bound[x] # NoCourseOrder /\ bound[x] # o => store'[bound[x]] = store[bound[x]]
        BY <1>k, <2>2
      <4>4. order[x] = "REFUNDED" => bound[x] # NoCourseOrder
        BY DEF CourseInv, OrdersBound, SettledOrder
      <4> QED
        BY <1>t, <1>h, <2>1, <2>2, <2>n, <4>1, <4>2, <4>3, <4>4 DEF RefundMade
    <3>2. RefundHeard(x)'
      BY <1>t, <1>h, <2>1, <2>2, <2>n DEF RefundHeard
    <3> QED
      BY <3>1, <3>2
  <2> QED
    BY <1>s, <2>1, <2>2, <2>3, <2>4
<1>3. CASE PrepareRefund(o) \/ RefundDies(o)
  <2>1. /\ UNCHANGED <<store, ends, notices>> /\ decisions' \in 0..MaxDecisions
        /\ \/ /\ Google(o) /\ Paid(o) /\ refund[o] \in {"none", "FAILED"}
              /\ refund' = [refund EXCEPT ![o] = "PROCESSING"] /\ refunding' = refunding \union {o}
           \/ refund' = refund /\ refunding' = refunding \ {o}
    BY <1>3, <1>m, <1>t DEF PrepareRefund, RefundDies, storeVars, Paid, CourseOrdersTypeOK
  <2>3. CourseOrdersTypeOK'
    BY <1>t, <2>1 DEF CourseOrdersTypeOK
  <2>4. RefundsHeard'
    <3> SUFFICES ASSUME NEW x \in CourseOrderIds PROVE RefundMade(x)' /\ RefundHeard(x)'
      BY DEF RefundsHeard
    <3>1. RefundMade(x)'
      <4>1. Paid(o) => bound[o] # NoCourseOrder
        BY DEF CourseInv, OrdersBound, SettledOrder, Paid
      <4> QED
        BY <1>t, <1>h, <2>1, <4>1 DEF RefundMade, Silent, CourseOrdersTypeOK
    <3>2. RefundHeard(x)'
      BY <1>t, <1>h, <2>1 DEF RefundHeard, Silent
    <3> QED
      BY <3>1, <3>2
  <2> QED
    BY <1>s, <2>1, <2>3, <2>4
<1>4. CASE ProviderRefunds(o) \/ RefundFails(o)
  <2>p. PICK p \in CourseOrderIds : bound[o] = p /\ PurchaseFits(o, p) /\ Google(o)
    BY <1>4, <1>h, <1>k DEF ProviderRefunds, RefundFails, RefundMade
  <2>g. Google(p) /\ store[p] \in {"owned", "refunded"} /\ refund[o] # "none" /\ o \in refunding
    BY <1>t, <1>4, <1>h, <2>p DEF PurchaseFits, CourseOrdersTypeOK, ProviderRefunds, RefundFails, RefundMade
  <2>s. /\ store' = [store EXCEPT ![p] = "refunded"] \/ store' = store
        /\ ProviderRefunds(o) => store' = [store EXCEPT ![p] = "refunded"]
        /\ IF store[p] = "owned" /\ store' # store
            THEN notices' = notices \union {<<"REFUND", p>>} ELSE notices' = notices
    BY <1>t, <1>4, <2>p, <2>g DEF ProviderRefunds, RefundFails, CourseOrdersTypeOK
  <2>1. /\ UNCHANGED <<ends, decisions>> /\ refunding' = refunding \ {o}
        /\ store' \in [CourseOrderIds -> {"unsold", "owned", "refunded"}]
        /\ \A q \in CourseOrderIds \ {p} : store'[q] = store[q]
        /\ store'[p] \in {store[p], "refunded"} /\ store'[p] # "unsold"
    BY <1>t, <1>4, <2>g, <2>s DEF ProviderRefunds, RefundFails, CourseOrdersTypeOK
  <2>r. /\ \A x \in CourseOrderIds \ {o} : refund'[x] = refund[x]
        /\ \/ refund'[o] = "FAILED"
           \/ refund'[o] = refund[o] /\ refund[o] = "COMPLETED"
           \/ refund'[o] = "PROVIDER_COMPLETED" /\ store'[p] = "refunded"
        /\ refund' \in [CourseOrderIds -> {"none", "PROCESSING", "PROVIDER_COMPLETED", "COMPLETED", "FAILED"}]
    BY <1>t, <1>4, <2>s DEF ProviderRefunds, RefundFails, CourseOrdersTypeOK
  <2>n. /\ \A q \in CourseOrderIds \ {p} : Silent(q)' <=> Silent(q)
        /\ \A q \in CourseOrderIds \ {p} : <<"REFUND", q>> \in notices' <=> <<"REFUND", q>> \in notices
        /\ Silent(p)' => Silent(p) /\ store'[p] = store[p]
        /\ <<"REFUND", p>> \in notices' => <<"REFUND", p>> \in notices \/ store'[p] = "refunded"
    BY <1>t, <2>g, <2>s DEF Silent, CourseOrdersTypeOK
  <2>3. CourseOrdersTypeOK'
    <3>1. notices' \subseteq {"REFUND", "REFUND_REVERSED"} \X CourseOrderIds
      BY <1>t, <2>s DEF CourseOrdersTypeOK
    <3> QED
      BY <1>t, <2>1, <2>r, <3>1 DEF CourseOrdersTypeOK
  <2>4. RefundsHeard'
    <3> SUFFICES ASSUME NEW x \in CourseOrderIds PROVE RefundMade(x)' /\ RefundHeard(x)'
      BY DEF RefundsHeard
    <3>0. store[x] = "refunded" => store'[x] = "refunded"
      BY <2>1
    <3>1. RefundMade(x)'
      <4>1. bound[x] # NoCourseOrder /\ store[bound[x]] = "refunded" => store'[bound[x]] = "refunded"
        BY <1>k, <2>1
      <4>2. order[x] = "REFUNDED" => bound[x] # NoCourseOrder
        BY DEF CourseInv, OrdersBound, SettledOrder
      <4>3. Silent(x)' => Silent(x)
        BY <2>n
      <4> QED
        BY <1>t, <1>h, <2>p, <2>1, <2>r, <3>0, <4>1, <4>2, <4>3, CourseOrdersAssumption DEF RefundMade
    <3>2. RefundHeard(x)'
      BY <1>t, <1>h, <2>1, <2>n, <3>0 DEF RefundHeard
    <3> QED
      BY <3>1, <3>2
  <2> QED
    BY <1>s, <2>1, <2>3, <2>4
<1>5. CASE VoidArrives(o)
  <2>1. /\ UNCHANGED <<store, ends, refunding, decisions>> /\ Google(o) /\ <<"REFUND", bound[o]>> \in notices
        /\ IF refund[o] = "COMPLETED"
            THEN notices' = notices \ {<<"REFUND", bound[o]>>} /\ refund' = refund
            ELSE notices' = notices /\ refund' = [refund EXCEPT ![o] = "PROVIDER_COMPLETED"]
    BY <1>5 DEF VoidArrives, enrolledVars
  <2>p. PICK p \in CourseOrderIds : bound[o] = p /\ Google(p) /\ store[p] = "refunded"
    <3>1. bound[o] \in CourseOrderIds
      BY <1>t, <2>1 DEF CourseOrdersTypeOK
    <3>2. Google(bound[o])
      BY <1>k, <2>1, <3>1, CourseOrdersAssumption DEF PurchaseFits
    <3> QED
      BY <1>h, <2>1, <3>1, <3>2 DEF RefundHeard
  <2>3. CourseOrdersTypeOK'
    <3>1. notices' \subseteq {"REFUND", "REFUND_REVERSED"} \X CourseOrderIds
      BY <1>t, <2>1 DEF CourseOrdersTypeOK
    <3> QED
      BY <1>t, <2>1, <3>1 DEF CourseOrdersTypeOK
  <2>r. /\ \A x \in CourseOrderIds \ {o} : refund'[x] = refund[x]
        /\ refund'[o] \in {"PROVIDER_COMPLETED", "COMPLETED"}
        /\ refund'[o] = "COMPLETED" => order[o] = "REFUNDED"
    BY <1>t, <1>h, <2>1 DEF CourseOrdersTypeOK, RefundMade
  <2>n. /\ \A q \in CourseOrderIds \ {p} : Silent(q)' <=> Silent(q)
        /\ \A q \in CourseOrderIds : <<"REFUND", q>> \in notices' => <<"REFUND", q>> \in notices
        /\ Silent(p)' => order[o] = "REFUNDED"
    BY <1>h, <2>1, <2>p DEF Silent, RefundMade
  <2>4. RefundsHeard'
    <3> SUFFICES ASSUME NEW x \in CourseOrderIds PROVE RefundMade(x)' /\ RefundHeard(x)'
      BY DEF RefundsHeard
    <3>1. RefundMade(x)'
      <4>1. ~Google(x) => (Silent(x)' <=> Silent(x))
        BY <2>p, <2>n
      <4> QED
        BY <1>t, <1>h, <2>1, <2>p, <2>r, <4>1, CourseOrdersAssumption DEF RefundMade
    <3>2. RefundHeard(x)'
      BY <1>t, <1>h, <2>1, <2>p, <2>n DEF RefundHeard
    <3> QED
      BY <3>1, <3>2
  <2> QED
    BY <1>s, <2>1, <2>3, <2>4
<1> QED
  BY <1>1, <1>2, <1>3, <1>4, <1>5

\* What a verification leaves behind it when its order is paid.
LEMMA AfterPaymentSound ==
  ASSUME CourseInv, NEW v \in Verifiers, verifier[v].at \in {"paying", "completing"}
  PROVE  /\ \E w \in VerifierRows : /\ w = AfterPayment(v) /\ w.at \in {"idle", "superseding"}
                                   /\ VerifierSound(w) /\ VerifierSound(w)'
         /\ verifier[v] \in VerifierRows
         /\ verifier[v].target \in CourseOrderIds /\ verifier[v].purchase \in CourseOrderIds
         /\ bound[verifier[v].target] = verifier[v].purchase
<1>1. verifier[v] \in VerifierRows /\ VerifierSound(verifier[v])
  BY DEF CourseInv, CourseOrdersTypeOK, VerifierRows, Verifying
<1>2. verifier[v].order \in CourseOrderIds /\ verifier[v].target \in CourseOrderIds /\ verifier[v].purchase \in CourseOrderIds
      /\ bound[verifier[v].target] = verifier[v].purchase
  BY <1>1 DEF VerifierSound
<1>3. NotEnrolled \in Enrollments
  BY DEF Enrollments, NotEnrolled
<1>4. CASE verifier[v].target = verifier[v].order
  <2>1. AfterPayment(v) = IdleVerifier
    BY <1>4 DEF AfterPayment
  <2>2. IdleVerifier \in VerifierRows /\ IdleVerifier.at = "idle"
    BY <1>3 DEF IdleVerifier, VerifierRows, Stages
  <2> QED
    BY <1>1, <1>2, <2>1, <2>2 DEF VerifierSound, IdleVerifier
<1>5. CASE verifier[v].target # verifier[v].order
  <2>1. PICK w : w = [verifier[v] EXCEPT !.at = "superseding", !.read = NotEnrolled]
    OBVIOUS
  <2>2. AfterPayment(v) = w
    BY <1>5, <2>1 DEF AfterPayment
  <2>3. w \in VerifierRows /\ w.at = "superseding" /\ w.order = verifier[v].order /\ w.target = verifier[v].target
    BY <1>1, <1>3, <2>1 DEF VerifierRows, Stages
  <2>4. VerifierSound(w) /\ VerifierSound(w)'
    BY <1>2, <2>3 DEF VerifierSound
  <2> QED
    BY <1>1, <1>2, <2>2, <2>3, <2>4
<1> QED
  BY <1>4, <1>5

\* A PAID order is presented again: its subscription may extend the enrollment.
LEMMA ConfirmPaidInv ==
  ASSUME CourseInv, NEW v \in Verifiers, ConfirmPaid(v)
  PROVE  CourseInv'
<1>t. CourseOrdersTypeOK /\ UNCHANGED <<day, store, ends, notices, order, bound, grant, refund, refunding,
                                       decisions, missed>>
  BY DEF CourseInv, ConfirmPaid, storeVars, refundVars
<1>w. PICK w \in VerifierRows : w = AfterPayment(v) /\ w.at \in {"idle", "superseding"}
                                /\ VerifierSound(w) /\ VerifierSound(w)'
  BY AfterPaymentSound DEF ConfirmPaid
<1>p. PICK o \in CourseOrderIds, p \in CourseOrderIds :
        verifier[v].target = o /\ verifier[v].purchase = p /\ bound[o] = p /\ Paid(o)
  BY AfterPaymentSound DEF ConfirmPaid, Paid
<1>1. CASE enrollment.status = "none"
  <2>1. verifier' = [verifier EXCEPT ![v] = IdleVerifier] /\ UNCHANGED <<enrollment, until, excused>>
    BY <1>1 DEF ConfirmPaid, Done
  <2>2. IdleVerifier \in VerifierRows /\ VerifierSound(IdleVerifier) /\ IdleVerifier.at = "idle"
    BY DEF IdleVerifier, VerifierRows, VerifierSound, Stages, NotEnrolled, Enrollments
  <2>3. order' = [order EXCEPT ![o] = order[o]] /\ decisions' \in 0..MaxDecisions
        /\ order[o] \in {"none", "PENDING", "PROCESSING", "PAID", "REFUNDED", "FAILED", "CANCELLED"}
        /\ UNCHANGED <<day, storeVars, enrollment, bound, until, refundVars, history>>
    BY <1>t, <2>1 DEF CourseOrdersTypeOK, storeVars, refundVars, history
  <2> QED
    BY <2>1, <2>2, <2>3, VerificationMoves
<1>2. CASE enrollment.status # "none" /\ UNCHANGED <<enrollment, until, excused>>
  <2>1. verifier' = [verifier EXCEPT ![v] = w]
    BY <1>2, <1>w DEF ConfirmPaid
  <2>3. order' = [order EXCEPT ![o] = order[o]] /\ decisions' \in 0..MaxDecisions
        /\ order[o] \in {"none", "PENDING", "PROCESSING", "PAID", "REFUNDED", "FAILED", "CANCELLED"}
        /\ UNCHANGED <<day, storeVars, enrollment, bound, until, refundVars, history>>
    BY <1>t, <1>2 DEF CourseOrdersTypeOK, storeVars, refundVars, history
  <2> QED
    BY <1>w, <2>1, <2>3, VerificationMoves
<1>3. CASE enrollment.status # "none" /\ ~UNCHANGED <<enrollment, until, excused>>
  <2>1. /\ o \in TimedOrders /\ Google(o) /\ verifier' = [verifier EXCEPT ![v] = w]
        /\ enrollment' = [enrollment EXCEPT !.status = "ACTIVE", !.lifetime = FALSE, !.expires = ends[p]]
        /\ until' = [until EXCEPT ![o] = ends[p]]
        /\ excused' = (excused \/ enrollment.lifetime)
    BY <1>3, <1>w, <1>p DEF ConfirmPaid
  <2>2. until' = until /\ until[o] = ends[p] /\ ends[p] \in Nat
    <3>1. until[o] = ends[p]
      BY <1>p, <2>1 DEF CourseInv, OrdersBound
    <3>2. ends[p] \in Nat
      BY <1>t, CourseOrdersAssumption DEF CourseOrdersTypeOK, Days
    <3> QED
      BY <1>t, <2>1, <3>1, <3>2 DEF CourseOrdersTypeOK
  <2>e. /\ enrollment' \in Enrollments /\ enrollment'.order = enrollment.order
        /\ enrollment'.lifetime = FALSE /\ enrollment'.expires = until[o]
        /\ enrollment \in Enrollments
    BY <1>t, <2>1, <2>2 DEF CourseOrdersTypeOK, Enrollments
  <2>3. CourseOrdersTypeOK'
    <3>1. verifier' \in [Verifiers -> VerifierRows] /\ excused' \in BOOLEAN
      BY <1>t, <2>1, <2>e DEF CourseOrdersTypeOK, VerifierRows, Enrollments
    <3> QED
      BY <1>t, <2>2, <2>e, <3>1 DEF CourseOrdersTypeOK, VerifierRows
  <2>4. OrdersBound' /\ RefundsHeard'
    <3>1. OrdersBound'
      BY <1>t, <2>2 DEF CourseInv, OrdersBound, PurchaseFits, Paid, SettledOrder
    <3>2. RefundsHeard'
      BY <1>t, ZenonT(60) DEF CourseInv, RefundsHeard, RefundMade, RefundHeard, Silent
    <3> QED
      BY <3>1, <3>2
  <2>5. Verifying'
    <3>1. verifier'[v] = w /\ \A u \in Verifiers \ {v} : verifier'[u] = verifier[u]
      BY <1>t, <2>1 DEF CourseOrdersTypeOK
    <3>2. ASSUME NEW x, VerifierSound(x) PROVE VerifierSound(x)'
      BY <1>t, <3>2 DEF VerifierSound, PurchaseFits, SettledOrder
    <3>3. \A u \in Verifiers : VerifierSound(verifier[u])'
      BY <1>w, <3>1, <3>2 DEF CourseInv, Verifying
    <3> QED
      BY <1>w, <3>1, <3>3 DEF CourseInv, Verifying
  <2>6. EnrollmentRests'
    <3>1. RestsOnPaid' = RestsOnPaid
      BY <1>t, <2>e DEF RestsOnPaid, Paid
    <3>2. RestsOnPaid \/ until[o] <= day
      BY <1>p DEF CourseInv, EnrollmentRests
    <3>3. ~HasAccess(enrollment)' \/ RestsOnPaid
      BY <1>t, <2>e, <2>2, <3>2 DEF HasAccess, CourseOrdersTypeOK
    <3>4. enrollment'.order # NoCourseOrder => SettledOrder(enrollment.order)'
      BY <1>t, <2>e DEF CourseInv, EnrollmentRests, SettledOrder
    <3>5. \A x \in CourseOrderIds : Paid(x)' => RestsOnPaid' \/ (enrollment'.order # NoCourseOrder /\ x \in TimedOrders /\ until'[x] <= day')
      BY <1>t, <2>e, <2>2, <3>1 DEF CourseInv, EnrollmentRests, Paid
    <3>6. ~excused' => ~ \E x \in CourseOrderIds \ TimedOrders : Paid(x)'
      BY <1>t, <2>1 DEF CourseInv, EnrollmentRests, Paid
    <3> QED
      BY <3>1, <3>3, <3>4, <3>5, <3>6 DEF EnrollmentRests
  <2> QED
    BY <2>3, <2>4, <2>5, <2>6 DEF CourseInv
<1> QED
  BY <1>1, <1>2, <1>3

\* An order is refunded, or its refund is reversed.
LEMMA SettledMoves ==
  ASSUME CourseInv, NEW o \in CourseOrderIds, NEW s \in {"PAID", "REFUNDED"}, SettledOrder(o),
         order' = [order EXCEPT ![o] = s], s = "PAID" => Paid(o) \/ ~Google(o),
         UNCHANGED <<store, ends, bound, until, verifier>>
  PROVE  OrdersBound' /\ Verifying'
<1>o. /\ order'[o] = s /\ \A x \in CourseOrderIds \ {o} : order'[x] = order[x]
      /\ \A x \in CourseOrderIds : SettledOrder(x)' <=> SettledOrder(x)
      /\ \A x \in CourseOrderIds : Google(x) => (Paid(x)' => Paid(x))
  BY DEF CourseInv, CourseOrdersTypeOK, SettledOrder, Paid
<1>1. OrdersBound'
  BY <1>o DEF CourseInv, OrdersBound, PurchaseFits
<1>2. ASSUME NEW w \in VerifierRows, VerifierSound(w) PROVE VerifierSound(w)'
  <2>1. w.read.order \in CourseOrderIds \union {NoCourseOrder}
    BY <1>2 DEF VerifierRows, Enrollments
  <2>2. w.read.order # NoCourseOrder => (SettledOrder(w.read.order)' <=> SettledOrder(w.read.order))
    BY <1>o, <2>1
  <2>3. w.target \in CourseOrderIds /\ order[w.target] \in {"PENDING", "PROCESSING"} => order'[w.target] = order[w.target]
    BY <1>o DEF SettledOrder
  <2> QED
    BY <1>2, <2>2, <2>3 DEF VerifierSound, PurchaseFits
<1>3. \A u \in Verifiers : VerifierSound(verifier[u])'
  BY <1>2 DEF CourseInv, Verifying, CourseOrdersTypeOK, VerifierRows
<1> QED
  BY <1>1, <1>3 DEF CourseInv, Verifying

\* The enrollment of a refunded order goes to another PAID one, if there is one
\* that has not ended.
LEMMA RefundOrderRests ==
  ASSUME CourseInv, NEW o \in CourseOrderIds, Paid(o), NEW time \in 0..day, RefundOrder(o, time),
         UNCHANGED <<day, until, grant, excused>>
  PROVE  enrollment' \in Enrollments /\ EnrollmentRests'
<1>t. CourseOrdersTypeOK /\ enrollment \in Enrollments /\ until \in [CourseOrderIds -> Nat] /\ day \in Nat
  BY DEF CourseInv, CourseOrdersTypeOK
<1>o. /\ order'[o] = "REFUNDED" /\ \A x \in CourseOrderIds \ {o} : order'[x] = order[x]
  BY <1>t DEF CourseOrdersTypeOK, RefundOrder
<1>1. CASE enrollment.order # o
  <2>1. enrollment' = enrollment
    BY <1>1 DEF RefundOrder
  <2>2. RestsOnPaid => RestsOnPaid'
    BY <1>t, <1>o, <1>1, <2>1 DEF RestsOnPaid, Paid, Enrollments
  <2>3. enrollment.order # NoCourseOrder => SettledOrder(enrollment.order)'
    BY <1>t, <1>o, <1>1, <2>1 DEF CourseInv, EnrollmentRests, SettledOrder, Enrollments
  <2>4. \A x \in CourseOrderIds : Paid(x)' => Paid(x)
    BY <1>o DEF Paid
  <2>5. HasAccess(enrollment)' = HasAccess(enrollment)
    BY <2>1 DEF HasAccess
  <2> QED
    BY <1>t, <2>1, <2>2, <2>3, <2>4, <2>5 DEF CourseInv, EnrollmentRests
<1>2. CASE enrollment.order = o
  <2>1. PICK paid : paid = {x \in CourseOrderIds \ {o} : order[x] = "PAID"}
    OBVIOUS
  <2>2. PICK timed : timed = {x \in paid \intersect TimedOrders : until[x] > time}
    OBVIOUS
  <2>3. enrollment' \in IF paid \ TimedOrders # {}
          THEN {[status |-> "ACTIVE", order |-> x, lifetime |-> TRUE, expires |-> 0] : x \in paid \ TimedOrders}
          ELSE IF timed # {}
          THEN {[status |-> "ACTIVE", order |-> x, lifetime |-> FALSE, expires |-> until[x]] :
                 x \in {y \in timed : \A z \in timed : until[z] <= until[y]}}
          ELSE {[enrollment EXCEPT !.status = "REFUNDED"]}
    BY <1>2, <2>1, <2>2 DEF RefundOrder, Remaining
  <2>p. \A x \in paid : x \in CourseOrderIds /\ x # o /\ Paid(x)'
    BY <1>o, <2>1 DEF Paid
  <2>q. \A x \in CourseOrderIds : Paid(x)' => x \in paid
    BY <1>o, <2>1 DEF Paid
  <2>4. ASSUME NEW x \in paid, enrollment'.order = x, enrollment' \in Enrollments,
               (paid \ TimedOrders # {} => enrollment'.status = "ACTIVE" /\ enrollment'.lifetime)
        PROVE  EnrollmentRests'
    <3>1. RestsOnPaid' /\ SettledOrder(enrollment.order)'
      BY <2>p, <2>4, CourseOrdersAssumption DEF RestsOnPaid, SettledOrder, Paid
    <3> QED
      BY <2>q, <2>4, <3>1 DEF EnrollmentRests
  <2>5. CASE paid \ TimedOrders # {}
    <3>1. PICK x \in paid : enrollment' = [status |-> "ACTIVE", order |-> x, lifetime |-> TRUE, expires |-> 0]
      BY <2>3, <2>5
    <3>2. enrollment' \in Enrollments /\ enrollment'.order = x /\ enrollment'.status = "ACTIVE" /\ enrollment'.lifetime
      BY <2>p, <3>1 DEF Enrollments
    <3> QED
      BY <2>4, <3>2
  <2>6. CASE paid \ TimedOrders = {} /\ timed # {}
    <3>1. PICK x \in timed : enrollment' = [status |-> "ACTIVE", order |-> x, lifetime |-> FALSE, expires |-> until[x]]
      BY <2>3, <2>6
    <3>2. x \in paid
      BY <2>2
    <3>3. enrollment' \in Enrollments /\ enrollment'.order = x
      BY <1>t, <2>p, <3>1, <3>2 DEF Enrollments
    <3> QED
      BY <2>4, <2>6, <3>2, <3>3
  <2>7. CASE paid \ TimedOrders = {} /\ timed = {}
    <3>1. enrollment' = [enrollment EXCEPT !.status = "REFUNDED"]
      BY <2>3, <2>7
    <3>2. enrollment' \in Enrollments /\ enrollment'.order = o /\ ~HasAccess(enrollment)'
      BY <1>2, <1>t, <3>1 DEF Enrollments, HasAccess
    <3>3. o # NoCourseOrder /\ SettledOrder(o)'
      BY <1>o, CourseOrdersAssumption DEF SettledOrder
    <3>4. \A x \in CourseOrderIds : Paid(x)' => x \in TimedOrders /\ until[x] <= day
      BY <1>t, <2>2, <2>q, <2>7
    <3> QED
      BY <3>2, <3>3, <3>4 DEF EnrollmentRests
  <2> QED
    BY <2>5, <2>6, <2>7
<1> QED
  BY <1>1, <1>2


\* What save() makes of the enrollment, the copy and the row it finds.
LEMMA SavedEnrollment ==
  ASSUME NEW entity \in Enrollments, NEW found \in Enrollments, NEW row \in Enrollments, NEW saved,
         saved = [column \in DOMAIN entity |->
                    IF entity[column] # found[column] THEN entity[column] ELSE row[column]]
  PROVE  /\ saved \in Enrollments
         /\ entity.order # found.order => saved.order = entity.order
         /\ found = row => saved.status = entity.status /\ saved.lifetime = entity.lifetime
<1>1. DOMAIN entity = {"status", "order", "lifetime", "expires"}
  BY DEF Enrollments
<1>2. saved = [status |-> saved["status"], order |-> saved["order"],
               lifetime |-> saved["lifetime"], expires |-> saved["expires"]]
  BY <1>1
<1>3. /\ saved["status"] = (IF entity.status # found.status THEN entity.status ELSE row.status)
      /\ saved["order"] = (IF entity.order # found.order THEN entity.order ELSE row.order)
      /\ saved["lifetime"] = (IF entity.lifetime # found.lifetime THEN entity.lifetime ELSE row.lifetime)
      /\ saved["expires"] = (IF entity.expires # found.expires THEN entity.expires ELSE row.expires)
  BY <1>1
<1> QED
  BY <1>2, <1>3 DEF Enrollments

\* completePayment marks the order PAID and saves the enrollment it had read.
LEMMA FinishPaymentInv ==
  ASSUME CourseInv, NEW v \in Verifiers, FinishPayment(v)
  PROVE  CourseInv'
<1>t. CourseOrdersTypeOK /\ UNCHANGED <<day, store, ends, notices, bound, grant, refund, refunding, decisions, missed>>
  BY DEF CourseInv, FinishPayment, storeVars, refundVars
<1>w. PICK w \in VerifierRows : w = AfterPayment(v) /\ w.at \in {"idle", "superseding"}
                                /\ VerifierSound(w) /\ VerifierSound(w)'
  BY AfterPaymentSound DEF FinishPayment
<1>p. PICK o \in CourseOrderIds, p \in CourseOrderIds :
        verifier[v].target = o /\ verifier[v].purchase = p /\ bound[o] = p
  BY AfterPaymentSound DEF FinishPayment
<1>r. PICK read \in Enrollments : verifier[v].read = read
  BY <1>t DEF CourseOrdersTypeOK
<1>s. /\ verifier[v].at = "completing" /\ order[o] \in {"PENDING", "PROCESSING"}
      /\ read.order # NoCourseOrder => SettledOrder(read.order)
  BY <1>p, <1>r DEF CourseInv, Verifying, VerifierSound, FinishPayment
<1>1. CASE read.status = "none" /\ enrollment.status # "none"
  <2>1. verifier' = [verifier EXCEPT ![v] = IdleVerifier] /\ UNCHANGED <<order, enrollment, until, excused>>
    BY <1>1, <1>r DEF FinishPayment, Done, enrolledVars
  <2>2. IdleVerifier \in VerifierRows /\ VerifierSound(IdleVerifier) /\ IdleVerifier.at = "idle"
    BY DEF IdleVerifier, VerifierRows, VerifierSound, Stages, NotEnrolled, Enrollments
  <2>3. order' = [order EXCEPT ![o] = order[o]] /\ decisions' \in 0..MaxDecisions
        /\ order[o] \in {"none", "PENDING", "PROCESSING", "PAID", "REFUNDED", "FAILED", "CANCELLED"}
        /\ UNCHANGED <<day, storeVars, enrollment, bound, until, refundVars, history>>
    BY <1>t, <2>1 DEF CourseOrdersTypeOK, storeVars, refundVars, history
  <2> QED
    BY <2>1, <2>2, <2>3, VerificationMoves
<1>2. CASE ~(read.status = "none" /\ enrollment.status # "none")
  <2>1. PICK entity : entity = Completed(o, p, read)
    OBVIOUS
  <2>2. PICK found \in {read, enrollment} :
          enrollment' = [column \in DOMAIN entity |->
                           IF entity[column] # found[column] THEN entity[column] ELSE enrollment[column]]
    BY <1>2, <1>p, <1>r, <2>1 DEF FinishPayment
  <2>3. PICK end : end = EndOf(o, p, read)
    OBVIOUS
  <2>4. /\ order' = [order EXCEPT ![o] = "PAID"] /\ until' = [until EXCEPT ![o] = end]
        /\ verifier' = [verifier EXCEPT ![v] = w] /\ excused' = (excused \/ read # enrollment)
    BY <1>2, <1>p, <1>r, <1>w, <2>3 DEF FinishPayment
  <2>5. end \in Nat /\ (o \in TimedOrders /\ Google(o) => end = ends[p])
    <3>1. ends[p] \in Nat /\ Later(day, read.expires) + Length \in Nat
      BY <1>t, CourseOrdersAssumption DEF CourseOrdersTypeOK, Days, Later, Enrollments
    <3> QED
      BY <2>3, <3>1 DEF EndOf
  <2>6. entity \in Enrollments /\ entity.order = o /\ entity.status = "ACTIVE"
        /\ (read.status # "none" /\ read.lifetime => entity.lifetime) /\ (o \notin TimedOrders => entity.lifetime)
    BY <2>1, <2>3, <2>5 DEF Completed, Enrollments
  <2>7. enrollment \in Enrollments /\ found \in Enrollments /\ found.order # o
    <3>1. enrollment \in Enrollments
      BY <1>t DEF CourseOrdersTypeOK
    <3>2. enrollment.order # NoCourseOrder => SettledOrder(enrollment.order)
      BY DEF CourseInv, EnrollmentRests
    <3> QED
      BY <1>s, <2>2, <3>1, <3>2, CourseOrdersAssumption DEF SettledOrder
  <2>8. /\ enrollment' \in Enrollments /\ enrollment'.order = o
        /\ found = enrollment => enrollment'.status = "ACTIVE" /\ enrollment'.lifetime = entity.lifetime
    BY <2>2, <2>6, <2>7, SavedEnrollment
  <2>o. /\ order'[o] = "PAID" /\ until'[o] = end
        /\ \A x \in CourseOrderIds \ {o} : order'[x] = order[x] /\ until'[x] = until[x]
        /\ order' \in [CourseOrderIds -> {"none", "PENDING", "PROCESSING", "PAID", "REFUNDED", "FAILED", "CANCELLED"}]
        /\ until' \in [CourseOrderIds -> Nat]
    BY <1>t, <2>4, <2>5 DEF CourseOrdersTypeOK
  <2>9. CourseOrdersTypeOK'
    <3>1. verifier' \in [Verifiers -> VerifierRows] /\ excused' \in BOOLEAN
      BY <1>t, <2>4 DEF CourseOrdersTypeOK, VerifierRows
    <3> QED
      BY <1>t, <2>8, <2>o, <3>1 DEF CourseOrdersTypeOK, VerifierRows
  <2>10. OrdersBound'
    BY <1>t, <1>p, <2>5, <2>o, CourseOrdersAssumption DEF CourseInv, OrdersBound, PurchaseFits, Paid, SettledOrder
  <2>11. RefundsHeard'
    <3> SUFFICES ASSUME NEW x \in CourseOrderIds PROVE RefundMade(x)' /\ RefundHeard(x)'
      BY DEF RefundsHeard
    <3>1. RefundMade(x) /\ RefundHeard(x)
      BY DEF CourseInv, RefundsHeard
    <3>2. \A y \in CourseOrderIds : order'[y] = "REFUNDED" <=> order[y] = "REFUNDED"
      BY <1>s, <2>o
    <3>3. RefundMade(x)'
      BY <1>t, <3>1, <3>2 DEF RefundMade, Silent
    <3>4. RefundHeard(x)'
      BY <1>t, <3>1, <3>2 DEF RefundHeard, Silent
    <3> QED
      BY <3>3, <3>4
  <2>12. Verifying'
    <3>1. verifier'[v] = w /\ \A u \in Verifiers \ {v} : verifier'[u] = verifier[u]
      BY <1>t, <2>4 DEF CourseOrdersTypeOK
    <3>2. ASSUME NEW x \in VerifierRows, VerifierSound(x), x.at = "completing" => x.target # o PROVE VerifierSound(x)'
      <4>1. x.read.order \in CourseOrderIds \union {NoCourseOrder}
        BY <3>2 DEF VerifierRows, Enrollments
      <4>2. SettledOrder(x.read.order) /\ x.read.order # NoCourseOrder => SettledOrder(x.read.order)'
        BY <2>o, <4>1 DEF SettledOrder
      <4> QED
        BY <1>t, <2>o, <3>2, <4>2 DEF VerifierSound, PurchaseFits
    <3>3. \A u \in Verifiers \ {v} : VerifierSound(verifier[u]) /\ verifier[u] \in VerifierRows
                                   /\ (verifier[u].at = "completing" => verifier[u].target # o)
      BY <1>t, <1>p, <1>s DEF CourseInv, Verifying, CourseOrdersTypeOK, VerifierRows
    <3>4. \A u \in Verifiers : VerifierSound(verifier[u])'
      BY <1>w, <3>1, <3>2, <3>3
    <3> QED
      BY <1>w, <3>1, <3>4 DEF CourseInv, Verifying
  <2>13. EnrollmentRests'
    <3>1. RestsOnPaid' /\ SettledOrder(enrollment.order)'
      BY <2>8, <2>o, CourseOrdersAssumption DEF RestsOnPaid, Paid, SettledOrder
    <3>2. ASSUME ~excused', NEW x \in CourseOrderIds \ TimedOrders, Paid(x)'
          PROVE  enrollment'.status = "ACTIVE" /\ enrollment'.lifetime
      <4>1. ~excused /\ read = enrollment /\ found = enrollment
        BY <2>2, <2>4, <3>2
      <4>2. CASE x = o
        BY <2>6, <2>8, <4>1, <4>2
      <4>3. CASE x # o
        <5>1. enrollment.status = "ACTIVE" /\ enrollment.lifetime
          BY <2>o, <3>2, <4>1, <4>3 DEF CourseInv, EnrollmentRests, Paid
        <5> QED
          BY <2>6, <2>8, <4>1, <5>1
      <4> QED
        BY <4>2, <4>3
    <3> QED
      BY <3>1, <3>2 DEF EnrollmentRests
  <2> QED
    BY <2>9, <2>10, <2>11, <2>12, <2>13 DEF CourseInv
<1> QED
  BY <1>1, <1>2

\* Refunds that are applied, and Apple's reversals.
LEMMA RefundsInv ==
  ASSUME CourseInv, NEW o \in CourseOrderIds, ApplyRefund(o) \/ AppleRefund(o) \/ AppleReversal(o)
  PROVE  CourseInv'
<1>t. CourseOrdersTypeOK /\ UNCHANGED <<day, store, ends, bound, until, grant, refunding, verifier, decisions>>
  BY DEF CourseInv, ApplyRefund, AppleRefund, AppleReversal, refundVars
<1>h. \A x \in CourseOrderIds : RefundMade(x) /\ RefundHeard(x)
  BY DEF CourseInv, RefundsHeard
<1>k. \A x \in CourseOrderIds :
        /\ bound[x] # NoCourseOrder => bound[x] \in CourseOrderIds /\ PurchaseFits(x, bound[x])
        /\ SettledOrder(x) => bound[x] # NoCourseOrder
  BY <1>t DEF CourseInv, OrdersBound, CourseOrdersTypeOK
<1>u. \A x, y \in CourseOrderIds : bound[x] = bound[y] /\ bound[x] # NoCourseOrder => x = y
  BY DEF CourseInv, OrdersBound
<1>s. ASSUME NEW s \in {"PAID", "REFUNDED"}, SettledOrder(o), order' = [order EXCEPT ![o] = s],
             s = "PAID" => Paid(o) \/ ~Google(o)
      PROVE  OrdersBound' /\ Verifying'
  BY <1>t, <1>s, SettledMoves
<1>n. ASSUME UNCHANGED order PROVE OrdersBound' /\ Verifying'
  BY <1>t, <1>n, PurchasesStay
<1>1. CASE ApplyRefund(o)
  <2>1. /\ refund[o] = "PROVIDER_COMPLETED" /\ refund' = [refund EXCEPT ![o] = "COMPLETED"]
        /\ notices' \in {notices, notices \ {<<"REFUND", bound[o]>>}} /\ UNCHANGED <<excused, missed>>
        /\ \/ order[o] = "PAID" /\ RefundOrder(o, day)
           \/ order[o] = "REFUNDED" /\ UNCHANGED <<order, enrollment>>
    BY <1>1 DEF ApplyRefund, history, enrolledVars
  <2>p. PICK p \in CourseOrderIds : bound[o] = p /\ Google(o) /\ Google(p) /\ store[p] = "refunded"
    BY <1>h, <1>k, <2>1 DEF RefundMade, PurchaseFits
  <2>2. order' = [order EXCEPT ![o] = "REFUNDED"] /\ SettledOrder(o)
    BY <1>t, <2>1 DEF RefundOrder, SettledOrder, CourseOrdersTypeOK
  <2>o. order'[o] = "REFUNDED" /\ \A x \in CourseOrderIds \ {o} : order'[x] = order[x]
    BY <1>t, <2>2 DEF CourseOrdersTypeOK
  <2>3. enrollment' \in Enrollments /\ EnrollmentRests'
    <3>1. CASE order[o] = "PAID"
      <4>1. day \in 0..day
        BY <1>t DEF CourseOrdersTypeOK
      <4> QED
        BY <1>t, <2>1, <3>1, <4>1, RefundOrderRests DEF Paid
    <3>2. CASE order[o] = "REFUNDED"
      BY <1>t, <2>1, <3>2, EnrollmentStays DEF CourseOrdersTypeOK
    <3> QED
      BY <2>1, <3>1, <3>2
  <2>4. CourseOrdersTypeOK'
    <3>1. notices' \subseteq {"REFUND", "REFUND_REVERSED"} \X CourseOrderIds
      BY <1>t, <2>1 DEF CourseOrdersTypeOK
    <3> QED
      BY <1>t, <2>1, <2>2, <2>3, <3>1 DEF CourseOrdersTypeOK
  <2>n. /\ \A q \in CourseOrderIds \ {p} : Silent(q)' <=> Silent(q)
        /\ \A q \in CourseOrderIds : <<"REFUND", q>> \in notices' => <<"REFUND", q>> \in notices
    BY <2>1, <2>p DEF Silent
  <2>5. RefundsHeard'
    <3> SUFFICES ASSUME NEW x \in CourseOrderIds PROVE RefundMade(x)' /\ RefundHeard(x)'
      BY DEF RefundsHeard
    <3>1. RefundMade(x)'
      <4>1. ~Google(x) => (Silent(x)' <=> Silent(x))
        BY <2>p, <2>n
      <4>2. refund'[x] = IF x = o THEN "COMPLETED" ELSE refund[x]
        BY <1>t, <2>1 DEF CourseOrdersTypeOK
      <4> QED
        BY <1>t, <1>h, <2>1, <2>p, <2>o, <4>1, <4>2, CourseOrdersAssumption DEF RefundMade
    <3>2. RefundHeard(x)'
      BY <1>t, <1>h, <2>1, <2>p, <2>o, <2>n DEF RefundHeard
    <3> QED
      BY <3>1, <3>2
  <2>6. OrdersBound' /\ Verifying'
    BY <1>s, <2>2
  <2> QED
    BY <2>3, <2>4, <2>5, <2>6 DEF CourseInv
<1>2. CASE AppleRefund(o)
  <2>1. /\ ~Google(o) /\ UNCHANGED <<refund, excused>> /\ notices' \in {notices, notices \ {<<"REFUND", o>>}}
        /\ missed' = IF order[o] \notin {"PAID", "REFUNDED"} \/ store[o] = "owned" THEN missed \union {o} ELSE missed
        /\ IF order[o] = "PAID" THEN \E time \in 0..day : RefundOrder(o, time) ELSE UNCHANGED <<order, enrollment>>
    BY <1>2 DEF AppleRefund, refundVars, enrolledVars, Google
  <2>2. CASE order[o] \notin {"PAID", "REFUNDED"}
    <3>1. EnrollmentRests'
      BY <1>t, <2>1, <2>2, EnrollmentStays
    <3>2. CourseOrdersTypeOK'
      <4>1. notices' \subseteq {"REFUND", "REFUND_REVERSED"} \X CourseOrderIds
        BY <1>t, <2>1 DEF CourseOrdersTypeOK
      <4> QED
        BY <1>t, <2>1, <2>2, <4>1 DEF CourseOrdersTypeOK
    <3>3. RefundsHeard'
      <4> SUFFICES ASSUME NEW x \in CourseOrderIds PROVE RefundMade(x)' /\ RefundHeard(x)'
        BY DEF RefundsHeard
      <4>1. /\ x # o => (Silent(x)' <=> Silent(x)) /\ (x \in missed' <=> x \in missed)
            /\ <<"REFUND", x>> \in notices' => <<"REFUND", x>> \in notices
            /\ o \in missed'
        BY <2>1, <2>2 DEF Silent
      <4>2. RefundMade(x)'
        BY <1>t, <1>h, <2>1, <2>2, <4>1 DEF RefundMade
      <4>3. RefundHeard(x)'
        BY <1>t, <1>h, <2>1, <2>2, <4>1 DEF RefundHeard
      <4> QED
        BY <4>2, <4>3
    <3> QED
      BY <1>n, <2>1, <2>2, <3>1, <3>2, <3>3 DEF CourseInv
  <2>3. CASE order[o] \in {"PAID", "REFUNDED"}
    <3>p. bound[o] = o
      BY <1>k, <2>1, <2>3 DEF SettledOrder, PurchaseFits
    <3>2. order' = [order EXCEPT ![o] = "REFUNDED"] /\ SettledOrder(o)
      BY <1>t, <2>1, <2>3 DEF RefundOrder, SettledOrder, CourseOrdersTypeOK
    <3>o. order'[o] = "REFUNDED" /\ \A x \in CourseOrderIds \ {o} : order'[x] = order[x]
      BY <1>t, <3>2 DEF CourseOrdersTypeOK
    <3>3. enrollment' \in Enrollments /\ EnrollmentRests'
      <4>1. CASE order[o] = "PAID"
        BY <1>t, <2>1, <4>1, RefundOrderRests DEF Paid
      <4>2. CASE order[o] = "REFUNDED"
        BY <1>t, <2>1, <4>2, EnrollmentStays DEF CourseOrdersTypeOK
      <4> QED
        BY <2>3, <4>1, <4>2
    <3>4. CourseOrdersTypeOK'
      <4>1. notices' \subseteq {"REFUND", "REFUND_REVERSED"} \X CourseOrderIds /\ missed' \subseteq CourseOrderIds
        BY <1>t, <2>1 DEF CourseOrdersTypeOK
      <4> QED
        BY <1>t, <2>1, <3>2, <3>3, <4>1 DEF CourseOrdersTypeOK
    <3>m. store[o] \in {"owned", "refunded"} /\ (o \notin missed' => store[o] = "refunded")
      BY <1>t, <1>k, <2>1, <3>p, CourseOrdersAssumption DEF PurchaseFits, CourseOrdersTypeOK
    <3>5. RefundsHeard'
      <4> SUFFICES ASSUME NEW x \in CourseOrderIds PROVE RefundMade(x)' /\ RefundHeard(x)'
        BY DEF RefundsHeard
      <4>1. /\ x # o => (Silent(x)' <=> Silent(x))
            /\ <<"REFUND", x>> \in notices' => <<"REFUND", x>> \in notices
        BY <2>1 DEF Silent
      <4>m. x # o => (x \in missed' <=> x \in missed)
        BY <2>1
      <4>2. RefundMade(x)'
        BY <1>t, <1>h, <2>1, <3>o, <3>m, <4>1, <4>m DEF RefundMade
      <4>3. RefundHeard(x)'
        BY <1>t, <1>h, <2>1, <3>p, <3>o, <3>m, <4>1, <4>m DEF RefundHeard
      <4> QED
        BY <4>2, <4>3
    <3>6. OrdersBound' /\ Verifying'
      BY <1>s, <3>2
    <3> QED
      BY <3>3, <3>4, <3>5, <3>6 DEF CourseInv
  <2> QED
    BY <2>2, <2>3
<1>3. CASE AppleReversal(o)
  <2>1. /\ ~Google(o) /\ UNCHANGED refund /\ notices' \in {notices, notices \ {<<"REFUND_REVERSED", o>>}}
        /\ missed' = IF order[o] # "REFUNDED" \/ store[o] = "refunded" THEN missed \union {o} ELSE missed
        /\ excused' = (excused \/ (order[o] = "REFUNDED" /\ o \in TimedOrders /\ enrollment.lifetime))
    BY <1>3 DEF AppleReversal, refundVars, Google
  <2>2. CASE order[o] # "REFUNDED"
    <3>0. UNCHANGED <<order, enrollment>> /\ o \in missed' /\ (excused' <=> excused)
      BY <1>3, <2>1, <2>2 DEF AppleReversal, enrolledVars
    <3>1. EnrollmentRests'
      <4>1. excused \in BOOLEAN /\ excused' = excused
        BY <1>t, <2>1, <2>2 DEF CourseOrdersTypeOK
      <4> QED
        BY <1>t, <3>0, <4>1, EnrollmentStays
    <3>2. CourseOrdersTypeOK'
      <4>1. notices' \subseteq {"REFUND", "REFUND_REVERSED"} \X CourseOrderIds /\ missed' \subseteq CourseOrderIds
        BY <1>t, <2>1 DEF CourseOrdersTypeOK
      <4>2. excused' \in BOOLEAN
        BY <1>t, <2>1 DEF CourseOrdersTypeOK
      <4> QED
        BY <1>t, <2>1, <3>0, <4>1, <4>2 DEF CourseOrdersTypeOK
    <3>3. RefundsHeard'
      <4> SUFFICES ASSUME NEW x \in CourseOrderIds PROVE RefundMade(x)' /\ RefundHeard(x)'
        BY DEF RefundsHeard
      <4>1. /\ x # o => (Silent(x)' <=> Silent(x)) /\ (x \in missed' <=> x \in missed)
            /\ <<"REFUND", x>> \in notices' => <<"REFUND", x>> \in notices
        BY <2>1, <2>2 DEF Silent
      <4>2. RefundMade(x)'
        BY <1>t, <1>h, <2>1, <2>2, <3>0, <4>1 DEF RefundMade
      <4>3. RefundHeard(x)'
        BY <1>t, <1>h, <2>1, <2>2, <3>0, <4>1 DEF RefundHeard
      <4> QED
        BY <4>2, <4>3
    <3> QED
      BY <1>n, <3>0, <3>1, <3>2, <3>3 DEF CourseInv
  <2>3. CASE order[o] = "REFUNDED"
    <3>p. bound[o] = o
      BY <1>k, <2>1, <2>3 DEF SettledOrder, PurchaseFits
    <3>2. order' = [order EXCEPT ![o] = "PAID"] /\ SettledOrder(o)
      BY <1>3, <2>3 DEF AppleReversal, SettledOrder
    <3>o. order'[o] = "PAID" /\ \A x \in CourseOrderIds \ {o} : order'[x] = order[x]
      BY <1>t, <3>2 DEF CourseOrdersTypeOK
    <3>e. /\ enrollment' \in Enrollments /\ enrollment'.order = o
          /\ o \notin TimedOrders => enrollment'.status = "ACTIVE" /\ enrollment'.lifetime
      <4>1. until[o] \in Nat
        BY <1>t DEF CourseOrdersTypeOK
      <4>2. PICK status \in {"ACTIVE", "EXPIRED"}, expires \in Nat :
              /\ enrollment' = [status |-> status, order |-> o, lifetime |-> o \notin TimedOrders, expires |-> expires]
              /\ o \notin TimedOrders => status = "ACTIVE"
        <5>1. PICK time \in 0..day :
                enrollment' = [status |-> IF o \in TimedOrders /\ until[o] <= time THEN "EXPIRED" ELSE "ACTIVE",
                               order |-> o, lifetime |-> o \notin TimedOrders,
                               expires |-> IF o \in TimedOrders THEN until[o] ELSE 0]
          BY <1>3, <2>3 DEF AppleReversal
        <5>2. PICK status \in {"ACTIVE", "EXPIRED"} :
                status = IF o \in TimedOrders /\ until[o] <= time THEN "EXPIRED" ELSE "ACTIVE"
          OBVIOUS
        <5>3. PICK expires \in Nat : expires = IF o \in TimedOrders THEN until[o] ELSE 0
          BY <4>1
        <5> QED
          BY <5>1, <5>2, <5>3
      <4>3. PICK forEver \in BOOLEAN : forEver = (o \notin TimedOrders)
        OBVIOUS
      <4>4. [status |-> status, order |-> o, lifetime |-> forEver, expires |-> expires] \in Enrollments
        BY DEF Enrollments
      <4> QED
        BY <4>2, <4>3, <4>4
    <3>3. EnrollmentRests'
      <4>1. RestsOnPaid' /\ SettledOrder(enrollment.order)'
        BY <3>e, <3>o, CourseOrdersAssumption DEF RestsOnPaid, Paid, SettledOrder
      <4>2. ASSUME ~excused', NEW x \in CourseOrderIds \ TimedOrders, Paid(x)'
            PROVE  enrollment'.status = "ACTIVE" /\ enrollment'.lifetime
        <5>1. CASE o \notin TimedOrders
          BY <3>e, <5>1
        <5>2. CASE o \in TimedOrders
          <6>1. ~excused /\ ~enrollment.lifetime
            BY <2>1, <2>3, <4>2, <5>2
          <6>2. Paid(x)
            BY <3>o, <4>2, <5>2 DEF Paid
          <6> QED
            BY <4>2, <6>1, <6>2 DEF CourseInv, EnrollmentRests
        <5> QED
          BY <5>1, <5>2
      <4> QED
        BY <4>1, <4>2 DEF EnrollmentRests
    <3>4. CourseOrdersTypeOK'
      <4>1. notices' \subseteq {"REFUND", "REFUND_REVERSED"} \X CourseOrderIds /\ missed' \subseteq CourseOrderIds
        BY <1>t, <2>1 DEF CourseOrdersTypeOK
      <4>2. excused' \in BOOLEAN
        BY <1>t, <2>1 DEF CourseOrdersTypeOK
      <4> QED
        BY <1>t, <2>1, <3>2, <3>e, <4>1, <4>2 DEF CourseOrdersTypeOK
    <3>m. store[o] \in {"owned", "refunded"} /\ (o \notin missed' => store[o] = "owned")
      BY <1>t, <1>k, <2>1, <2>3, <3>p, CourseOrdersAssumption DEF PurchaseFits, CourseOrdersTypeOK
    <3>5. RefundsHeard'
      <4> SUFFICES ASSUME NEW x \in CourseOrderIds PROVE RefundMade(x)' /\ RefundHeard(x)'
        BY DEF RefundsHeard
      <4>1. /\ x # o => (Silent(x)' <=> Silent(x))
            /\ <<"REFUND", x>> \in notices' => <<"REFUND", x>> \in notices
        BY <2>1 DEF Silent
      <4>m. x # o => (x \in missed' <=> x \in missed)
        BY <2>1
      <4>2. RefundMade(x)'
        BY <1>t, <1>h, <2>1, <3>o, <3>m, <4>1, <4>m DEF RefundMade
      <4>b. \A y \in CourseOrderIds : bound[y] = x /\ order[y] = "REFUNDED" /\ x # o => y # o
        BY <3>p
      <4>3. RefundHeard(x)'
        BY <1>t, <1>h, <2>1, <3>p, <3>o, <3>m, <4>1, <4>b, <4>m DEF RefundHeard
      <4> QED
        BY <4>2, <4>3
    <3>6. OrdersBound' /\ Verifying'
      BY <1>s, <2>1, <3>2
    <3> QED
      BY <3>3, <3>4, <3>5, <3>6 DEF CourseInv
  <2> QED
    BY <2>2, <2>3
<1> QED
  BY <1>1, <1>2, <1>3

\* Every step keeps the invariant.
THEOREM CourseStepInv == CourseInv /\ [CourseOrdersNext]_courseOrderVars => CourseInv'
<1> SUFFICES ASSUME CourseInv, [CourseOrdersNext]_courseOrderVars PROVE CourseInv'
  OBVIOUS
<1>1. CASE CourseDayPasses \/ Expire \/ RevokeExternal \/ \E forEver \in BOOLEAN : GrantExternal(forEver)
  BY <1>1, ClockInv
<1>2. ASSUME NEW v \in Verifiers,
             \/ \E o, p \in CourseOrderIds : Verify(v, o, p)
             \/ \E o \in CourseOrderIds : PresentForeign(v, o)
             \/ FindExisting(v) \/ MarkVerified(v) \/ Reopen(v)
             \/ ConfirmPaid(v) \/ BeginPayment(v) \/ FinishPayment(v)
             \/ Supersede(v) \/ Fail(v) \/ CallDies(v)
      PROVE  CourseInv'
  BY <1>2, VerifyingInv, MarkVerifiedInv, ConfirmPaidInv, FinishPaymentInv
<1>3. ASSUME NEW o \in CourseOrderIds,
             \/ CreateOrder(o) \/ Charge(o) \/ StoreRefunds(o) \/ StoreReversesRefund(o)
             \/ PrepareRefund(o) \/ ProviderRefunds(o) \/ RefundFails(o) \/ RefundDies(o)
             \/ VoidArrives(o) \/ ApplyRefund(o)
             \/ AppleRefund(o) \/ AppleReversal(o)
      PROVE  CourseInv'
  BY <1>3, CreateOrderInv, StoresInv, RefundsInv
<1>4. CASE UNCHANGED courseOrderVars
  <2>1. UNCHANGED <<day, store, ends, notices, order, bound, until, enrollment, grant, refund, refunding,
                    verifier, decisions, excused, missed>>
    BY <1>4 DEF courseOrderVars, storeVars, enrolledVars, refundVars, history
  <2>2. CourseOrdersTypeOK' /\ OrdersBound' /\ Verifying' /\ RefundsHeard'
    BY <2>1, OrdersStay DEF CourseInv, CourseOrdersTypeOK, storeVars
  <2>3. EnrollmentRests'
    BY <2>1, EnrollmentStays
  <2> QED
    BY <2>2, <2>3 DEF CourseInv
<1> QED
  BY <1>1, <1>2, <1>3, <1>4 DEF CourseOrdersNext

\* The orders follow the store, and a purchase pays for one order, however many
\* orders of the product present it at the same time (markProviderTransactionVerified).
THEOREM CourseOrdersStayConsistent == CourseOrdersSpec => []CourseOrdersConsistent
<1>1. CourseOrdersInit => CourseInv
  BY CourseInitInv
<1>2. CourseInv /\ [CourseOrdersNext]_courseOrderVars => CourseInv'
  BY CourseStepInv
<1>3. CourseInv => CourseOrdersConsistent
  BY CourseInvImplies
<1> QED
  BY <1>1, <1>2, <1>3, PTL DEF CourseOrdersSpec

\* Access and payment agree, both ways (completePayment, the three refunds).
THEOREM AccessFollowsPaymentAlways == CourseOrdersSpec => []AccessFollowsPayment
<1>1. CourseOrdersInit => CourseInv
  BY CourseInitInv
<1>2. CourseInv /\ [CourseOrdersNext]_courseOrderVars => CourseInv'
  BY CourseStepInv
<1>3. CourseInv => AccessFollowsPayment
  BY CourseInvImplies
<1> QED
  BY <1>1, <1>2, <1>3, PTL DEF CourseOrdersSpec
=============================================================================
