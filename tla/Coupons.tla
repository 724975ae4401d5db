------------------------------- MODULE Coupons -------------------------------
(* The coupon of a product itself (influencer-hub): its row and its mappings   *)
(* to discounted store products are made when a checkout first uses them, and  *)
(* repaired when they no longer fit, without a lock or a transaction around    *)
(* the look-up. Coupons of partners are in Commissions.                        *)
EXTENDS Integers, FiniteSets

CONSTANTS
  Buyers,             \* checkouts, each of at most one order
  OfferIds            \* rows of the coupon's provider mappings

VARIABLES
  holder,             \* whose coupon has the code: unique for all coupons
  offers,             \* the mappings: the regular store product each is for
  sold,               \* the regular store product of the package
  native,             \* a store whose mappings are repaired when they are used
  buyer,              \* where a checkout is and what it has read
  charged,            \* the mapping's product on the order's attribution
  crowded             \* history: two checkouts wrote the mappings together

couponVars == <<holder, offers, sold, native, buyer, charged, crowded>>

StoreProducts == {"first", "second"}
Strolling == [at |-> "idle", wanted |-> "first", seen |-> {}, kept |-> {}]

CouponsInit ==
  /\ holder \in {"nobody", "partner"}
  /\ offers = <<>> /\ sold = "first" /\ native \in BOOLEAN
  /\ buyer = [b \in Buyers |-> Strolling]
  /\ charged = [b \in Buyers |-> {}]
  /\ crowded = FALSE
-----------------------------------------------------------------------------
Shops(b, state) ==
  /\ buyer' = [buyer EXCEPT ![b] = state]
  /\ UNCHANGED <<holder, sold, native>>

Leaves(b) == Shops(b, Strolling) /\ UNCHANGED charged

Offered == DOMAIN offers

\* Mutant of Discounts: a mapping of a product that is no longer sold will do.
DiscountsAny(product, wanted) == TRUE

(* "Coupon mapping does not match the regular store product configured"        *)
Discounts(product, wanted) == product = wanted

(* resolveStoredCoupon, and then recordPendingOrderAttribution in the          *)
(* transaction that creates the order: nothing can come between that matters.  *)
Uses(b, state, m) ==
  IF Discounts(offers[m], state.wanted)
  THEN /\ Shops(b, [Strolling EXCEPT !.at = "placed", !.wanted = state.wanted])
       /\ charged' = [charged EXCEPT ![b] = {offers[m]}]
  ELSE Leaves(b)

\* Mutant of FoundFor: only the mappings of the product that is sold now.
FoundForSold == {m \in Offered : offers[m] = sold}

FoundFor == Offered

(* resolveProductOwnCoupon: the package's product is known; the coupon and its *)
(* mappings are looked up, in no order. What is missing or wrong is put right  *)
(* in the steps below.                                                         *)
LookUpOwn(b) ==
  LET mine == [Strolling EXCEPT !.wanted = sold, !.seen = FoundFor]
  IN  /\ buyer[b] = Strolling /\ holder # "partner"
      /\ \/ /\ holder = "nobody"
            /\ Shops(b, [mine EXCEPT !.at = "creating"]) /\ UNCHANGED charged
         \/ /\ holder = "product" /\ FoundFor = {}
            /\ Shops(b, [mine EXCEPT !.at = "adding"]) /\ UNCHANGED charged
         \/ /\ holder = "product"
            /\ \E m \in FoundFor :
                 LET wrong == offers[m] # sold
                 IN  IF native /\ (wrong \/ FoundFor # {m})
                     THEN /\ Shops(b, [mine EXCEPT !.at = IF wrong THEN "repairing" ELSE "removing",
                                                   !.kept = {m}])
                          /\ UNCHANGED charged
                     ELSE Uses(b, mine, m)
      /\ UNCHANGED <<offers, crowded>>

(* The coupon and its first mapping, in one transaction.                       *)
CreateOwn(b) ==
  /\ buyer[b].at = "creating"
  /\ IF holder # "nobody" THEN Leaves(b) /\ UNCHANGED offers
     ELSE \E m \in OfferIds :
            /\ holder' = "product" /\ offers' = [n \in {m} |-> buyer[b].wanted]
            /\ buyer' = [buyer EXCEPT ![b] = [Strolling EXCEPT !.at = "placed", !.wanted = buyer[b].wanted]]
            /\ charged' = [charged EXCEPT ![b] = {buyer[b].wanted}]
            /\ UNCHANGED <<sold, native>>
  /\ UNCHANGED crowded

(* upsertDealWithManager: a partner gets the code, unless a coupon has it.     *)
PartnerTakesCode ==
  /\ holder = "nobody" /\ holder' = "partner"
  /\ UNCHANGED <<offers, sold, native, buyer, charged, crowded>>

Writing == {b \in Buyers : buyer[b].at \in {"adding", "repairing", "removing"}}

Writes(b, rows, next) ==
  /\ offers' = rows
  /\ Shops(b, [buyer[b] EXCEPT !.at = next])
  /\ crowded' = (crowded \/ Writing # {b})
  /\ UNCHANGED charged

AddMapping(b) ==
  /\ buyer[b].at = "adding"
  /\ \E m \in OfferIds \ (Offered \union UNION {buyer[c].seen : c \in Buyers}) :
       Writes(b, [n \in Offered \union {m} |-> IF n = m THEN buyer[b].wanted ELSE offers[n]], "rereading")

(* One mapping is put right, and inserted again if it was removed; the others  *)
(* that were found with it are removed.                                        *)
RepairMapping(b) ==
  /\ buyer[b].at = "repairing"
  /\ Writes(b, [n \in Offered \union buyer[b].kept |->
                  IF n \in buyer[b].kept THEN buyer[b].wanted ELSE offers[n]], "removing")

RemoveDuplicates(b) ==
  /\ buyer[b].at = "removing"
  /\ Writes(b, [n \in Offered \ (buyer[b].seen \ buyer[b].kept) |-> offers[n]], "rereading")

ReadAgain(b) ==
  /\ buyer[b].at = "rereading"
  /\ IF Offered = {} THEN Leaves(b) ELSE \E m \in Offered : Uses(b, buyer[b], m)
  /\ UNCHANGED <<offers, crowded>>

(* A request dies, and the mappings stay as it left them.                      *)
CheckoutDies(b) ==
  /\ buyer[b].at \in {"removing", "rereading"}
  /\ Leaves(b) /\ UNCHANGED <<offers, crowded>>

(* The package gets another store product, and may get the first one back (see *)
(* Catalogue).                                                                 *)
ReplaceProduct ==
  /\ sold' \in StoreProducts \ {sold}
  /\ UNCHANGED <<holder, offers, native, buyer, charged, crowded>>

CouponsNext ==
  \/ \E b \in Buyers :
       \/ LookUpOwn(b) \/ CreateOwn(b) \/ AddMapping(b) \/ RepairMapping(b) \/ RemoveDuplicates(b)
       \/ ReadAgain(b) \/ CheckoutDies(b)
  \/ PartnerTakesCode \/ ReplaceProduct

CouponsSpec == CouponsInit /\ [][CouponsNext]_couponVars
-----------------------------------------------------------------------------
(* The types of the variables.                                                 *)
CouponsTypeOK ==
  /\ holder \in {"nobody", "partner", "product"}
  /\ Offered \subseteq OfferIds /\ \A m \in Offered : offers[m] \in StoreProducts
  /\ sold \in StoreProducts /\ native \in BOOLEAN /\ crowded \in BOOLEAN
  /\ \A b \in Buyers :
       /\ buyer[b].at \in {"idle", "creating", "adding", "repairing", "removing", "rereading", "placed"}
       /\ buyer[b].wanted \in StoreProducts
       /\ buyer[b].seen \subseteq OfferIds /\ buyer[b].kept \subseteq OfferIds

(* The discounted product of an order belongs to the regular product its       *)
(* checkout was made for, though the package's product changes and other       *)
(* checkouts write the mappings.                                               *)
ChargedForWhatIsSold ==
  \A b \in Buyers : buyer[b].at = "placed" => charged[b] = {buyer[b].wanted}

(* The coupon has one mapping at most, unless two checkouts wrote its mappings *)
(* together; and once its first user made it, it has one.                      *)
OwnCouponIsUnambiguous ==
  ~crowded => /\ Cardinality(Offered) <= 1
              /\ holder = "product" => Offered # {}

CouponsConsistent == CouponsTypeOK /\ ChargedForWhatIsSold /\ OwnCouponIsUnambiguous
=============================================================================
