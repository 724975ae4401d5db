------------------------------ MODULE Catalogue ------------------------------
(* What is on sale: the store products of Google Play that stand for packages  *)
(* (package-store) and for courses (course-commerce), one package and one      *)
(* course here. Two admin services map products, each to its own table; an     *)
(* advisory lock on the product keeps one product from meaning two things.     *)
(* A mapping that an order refers to may not change. Requests load first,      *)
(* write later, and a package is saved with the mappings loaded with it.       *)
EXTENDS Integers, FiniteSets

CONSTANTS
  Mappings,           \* rows of the two tables
  Products,           \* store product ids
  Plans,              \* base plans of subscriptions
  NoPlan,             \* lifetime access, and consumable products
  ForCoupons,         \* the products and plans that are named for coupons
  Desks,              \* administrators' requests in flight
  Checkouts,          \* orders being created
  MaxOffers,          \* bound: changes of what the package costs and contains
  MaxDeskWork         \* bound: administrators' requests

ASSUME PlansAssumption ==
  /\ NoPlan \notin Plans /\ ForCoupons \subseteq Products \union Plans
  /\ "none" \notin Products
  /\ MaxOffers \in Nat

Owners == {"package", "course"}
Missing == [owner |-> "none", product |-> "none", plan |-> NoPlan, active |-> FALSE]
Offers == 0..MaxOffers

VARIABLES
  mapping,            \* the rows, Missing: none
  pack,               \* the package's row with its commerce and entitlement
  desk,               \* what a request has loaded and is about to write
  deskWork,           \* bounded by MaxDeskWork
  checkout,           \* what a checkout has loaded, and then its order
  slipped,            \* history: orders placed between the count of the orders of
                      \* a mapping and its change
  restored            \* history: mappings changed by a copy of the package

catalogueVars == <<mapping, pack, desk, deskWork, checkout, slipped, restored>>

Present == {m \in Mappings : mapping[m] # Missing}
Of(owner) == {m \in Present : mapping[m].owner = owner}
ForCoupon(row) == row.product \in ForCoupons \/ row.plan \in ForCoupons

Vacant == [at |-> "vacant", row |-> Missing, mappings |-> {}, orders |-> {},
           copy |-> <<>>, pack |-> <<>>]
Browsing == [at |-> "browsing", id |-> {}, row |-> Missing, offer |-> 0, coupon |-> FALSE]

CatalogueInit ==
  /\ mapping = [m \in Mappings |-> Missing]
  /\ pack = [status |-> "PUBLISHED", offer |-> 0]
  /\ desk = [d \in Desks |-> Vacant] /\ deskWork = 0
  /\ checkout = [o \in Checkouts |-> Browsing]
  /\ slipped = {} /\ restored = {}
-----------------------------------------------------------------------------
(* Mapping a product. A package sells consumable products, a course lifetime   *)
(* access without a plan and time-limited access with one.                     *)
Placed == {o \in Checkouts : checkout[o].at = "placed"}
OrdersOf(m) == {o \in Placed : m \in checkout[o].id}

Begins(d, state) ==
  /\ desk[d] = Vacant /\ deskWork < MaxDeskWork
  /\ deskWork' = deskWork + 1
  /\ desk' = [desk EXCEPT ![d] = state]
  /\ UNCHANGED <<mapping, pack, checkout, slipped, restored>>

RowsOf(owner) ==
  [owner : {owner}, product : Products,
   plan : IF owner = "package" THEN {NoPlan} ELSE Plans \union {NoPlan}, active : BOOLEAN]

CreateProviderProduct(d, m) ==
  /\ m \notin Present /\ \A e \in Desks : m \notin desk[e].mappings
  /\ \E owner \in Owners : \E row \in RowsOf(owner) :
       Begins(d, [Vacant EXCEPT !.at = "create", !.row = row, !.mappings = {m}])

SameIdentity(a, b) == a.product = b.product /\ a.plan = b.plan

\* Mutant of MayChange: only the product of a mapping in use is fixed.
MayChangePlan(m, row) == mapping[m].product = row.product \/ OrdersOf(m) = {}

MayChange(m, row) == SameIdentity(mapping[m], row) \/ OrdersOf(m) = {}

(* The row is loaded and the orders of it are counted.                         *)
UpdateProviderProduct(d, m) ==
  /\ m \in Present
  /\ \E row \in RowsOf(mapping[m].owner) :
       /\ row # mapping[m] /\ MayChange(m, row)
       /\ Begins(d, [Vacant EXCEPT !.at = "update", !.row = row, !.mappings = {m},
                                   !.orders = OrdersOf(m)])

DeleteProviderProduct(d, m) ==
  /\ m \in Present /\ OrdersOf(m) = {}
  /\ Begins(d, [Vacant EXCEPT !.at = "delete", !.mappings = {m}])

(* The unique indexes: a product of packages; a product and plan, and one      *)
(* duration, with and without a coupon, of a course.                           *)
FitsIndexes(m, row) ==
  \A n \in Of(row.owner) \ {m} :
    /\ row.owner = "package" => mapping[n].product # row.product
    /\ row.owner = "course" =>
         /\ ~SameIdentity(mapping[n], row)
         /\ row.plan # NoPlan /\ mapping[n].plan # NoPlan =>
              ForCoupon(mapping[n]) # ForCoupon(row)

(* What both services look for once they hold the lock: the indexes,           *)
(* assertProductNotMappedToPackage or -Course, and for courses                 *)
(* assertProviderProductFamilyMatches.                                         *)
Mappable(m, row) ==
  /\ FitsIndexes(m, row)
  /\ \A n \in Present \ {m} :
       mapping[n].product = row.product =>
         /\ mapping[n].owner = row.owner
         /\ (mapping[n].plan = NoPlan) = (row.plan = NoPlan)

\* Mutant of ProductLocked: each service has a lock of its own.
LockedPerOwner(product, owner) ==
  \E d \in Desks :
    desk[d].at = "locked" /\ desk[d].row.product = product /\ desk[d].row.owner = owner

(* lockProviderProductIdentity: pg_advisory_xact_lock of billing-product:...   *)
ProductLocked(product, owner) ==
  \E d \in Desks : desk[d].at = "locked" /\ desk[d].row.product = product

LockAndCheck(d) ==
  LET row == desk[d].row
      m == CHOOSE n \in desk[d].mappings : TRUE
  IN  /\ desk[d].at \in {"create", "update"}
      /\ ~ProductLocked(row.product, row.owner)
      /\ desk' = [desk EXCEPT ![d] = IF Mappable(m, row) THEN [@ EXCEPT !.at = "locked"]
                                     ELSE Vacant]
      /\ UNCHANGED <<mapping, pack, deskWork, checkout, slipped, restored>>

(* Orders of a row placed since its orders were counted.                       *)
Slips(d, m, row) ==
  slipped' = slipped \union
    IF SameIdentity(mapping[m], row) THEN {} ELSE OrdersOf(m) \ desk[d].orders

(* The whole row is saved, and inserted again if it was deleted; an index      *)
(* refuses it if it has to.                                                    *)
SaveMapping(d) ==
  LET row == desk[d].row
      m == CHOOSE n \in desk[d].mappings : TRUE
  IN  /\ desk[d].at = "locked"
      /\ IF FitsIndexes(m, row)
         THEN mapping' = [mapping EXCEPT ![m] = row] /\ Slips(d, m, row)
         ELSE UNCHANGED <<mapping, slipped>>
      /\ desk' = [desk EXCEPT ![d] = Vacant]
      /\ UNCHANGED <<pack, deskWork, checkout, restored>>

RemoveMapping(d) ==
  LET m == CHOOSE n \in desk[d].mappings : TRUE
  IN  /\ desk[d].at = "delete"
      /\ mapping' = [mapping EXCEPT ![m] = Missing] /\ Slips(d, m, Missing)
      /\ desk' = [desk EXCEPT ![d] = Vacant]
      /\ UNCHANGED <<pack, deskWork, checkout, restored>>
-----------------------------------------------------------------------------
(* Editing the package: updatePackage, archivePackage, restorePackage.         *)
EditPackage(d) ==
  \E next \in {[pack EXCEPT !.status = "ARCHIVED"], [pack EXCEPT !.status = "PUBLISHED"]}
                \union (IF pack.offer < MaxOffers THEN {[pack EXCEPT !.offer = @ + 1]} ELSE {}) :
    Begins(d, [Vacant EXCEPT !.at = "package", !.mappings = Of("package"),
                             !.copy = [m \in Of("package") |-> mapping[m]], !.pack = next])

(* The save cascades to the mappings loaded with the package: each is written  *)
(* as it was, or inserted again. A mapping of the package that was not loaded  *)
(* would lose its packageId, which the column forbids, and an index may refuse *)
(* a row: then nothing is saved.                                               *)
SavePackage(d) ==
  LET copy == desk[d].copy
      ids == desk[d].mappings
      saved == [m \in Mappings |-> IF m \in ids THEN copy[m] ELSE mapping[m]]
      changed == {m \in ids : mapping[m] # copy[m]}
      refused == \/ Of("package") \ ids # {}
                 \/ \E m, n \in ids : m # n /\ copy[m].product = copy[n].product
  IN  /\ desk[d].at = "package"
      /\ IF refused THEN UNCHANGED <<mapping, pack, restored, slipped>>
         ELSE /\ mapping' = saved /\ pack' = desk[d].pack
              /\ restored' = restored \union changed
              /\ UNCHANGED slipped
      /\ desk' = [desk EXCEPT ![d] = Vacant]
      /\ UNCHANGED <<deskWork, checkout>>
-----------------------------------------------------------------------------
(* createOrder of both services.                                               *)
Becomes(o, state) ==
  /\ checkout' = [checkout EXCEPT ![o] = state]
  /\ UNCHANGED <<mapping, pack, desk, deskWork, slipped, restored>>

(* The package or course is loaded with its mappings. With a coupon the        *)
(* product of the coupon is bought, next to a regular one; without, the        *)
(* product the client names.                                                   *)
LoadForSale(o, m) ==
  /\ checkout[o] = Browsing /\ m \in Present /\ mapping[m].active
  /\ mapping[m].owner = "package" => pack.status = "PUBLISHED"
  /\ \E coupon \in BOOLEAN :
       /\ coupon => /\ ForCoupon(mapping[m])
                    /\ \E n \in Of(mapping[m].owner) : mapping[n].active /\ ~ForCoupon(mapping[n])
       /\ Becomes(o, [at |-> "loaded", id |-> {m}, row |-> mapping[m], offer |-> pack.offer,
                      coupon |-> coupon])

NotMappedElsewhere(row) ==
  \A m \in Present : mapping[m].product = row.product => mapping[m].owner = row.owner

(* assertProductNotMappedToCourse, assertProductNotMappedToPackage             *)
CheckProduct(o) ==
  /\ checkout[o].at = "loaded"
  /\ Becomes(o, IF NotMappedElsewhere(checkout[o].row) THEN [checkout[o] EXCEPT !.at = "checked"]
                ELSE Browsing)

(* The order and its snapshots, in one transaction. Nothing refers to the      *)
(* mapping's row but its identifier.                                           *)
PlaceOrder(o) ==
  /\ checkout[o].at = "checked"
  /\ checkout' = [checkout EXCEPT ![o].at = "placed"]
  /\ slipped' = slipped \union
       IF \E m \in checkout[o].id : mapping[m].owner # checkout[o].row.owner
                                      \/ ~SameIdentity(mapping[m], checkout[o].row)
       THEN {o} ELSE {}
  /\ UNCHANGED <<mapping, pack, desk, deskWork, restored>>

CatalogueNext ==
  \/ \E d \in Desks :
       \/ \E m \in Mappings :
            CreateProviderProduct(d, m) \/ UpdateProviderProduct(d, m) \/ DeleteProviderProduct(d, m)
       \/ LockAndCheck(d) \/ SaveMapping(d) \/ RemoveMapping(d)
       \/ EditPackage(d) \/ SavePackage(d)
  \/ \E o \in Checkouts :
       \/ \E m \in Mappings : LoadForSale(o, m)
       \/ CheckProduct(o) \/ PlaceOrder(o)

CatalogueSpec == CatalogueInit /\ [][CatalogueNext]_catalogueVars
-----------------------------------------------------------------------------
Rows == RowsOf("package") \union RowsOf("course") \union {Missing}
(* The types of the variables.                                                 *)
CatalogueTypeOK ==
  /\ mapping \in [Mappings -> Rows]
  /\ pack.status \in {"PUBLISHED", "ARCHIVED"} /\ pack.offer \in Offers
  /\ \A d \in Desks :
       /\ desk[d].at \in {"vacant", "create", "update", "delete", "locked", "package"}
       /\ desk[d].row \in Rows /\ desk[d].mappings \subseteq Mappings
  /\ \A o \in Checkouts :
       /\ checkout[o].at \in {"browsing", "loaded", "checked", "placed"}
       /\ checkout[o].id \subseteq Mappings /\ checkout[o].row \in Rows
  /\ slipped \subseteq Checkouts /\ restored \subseteq Mappings

(* A store product stands for one thing: for packages or courses, and there    *)
(* for lifetime access or a subscription. Two services check this in tables of *)
(* their own and of each other; only a package saved with the mappings it was  *)
(* loaded with, which takes no lock, can undo it.                              *)
OneMeaning ==
  \A m, n \in Present \ restored :
    mapping[m].product = mapping[n].product =>
      /\ mapping[m].owner = mapping[n].owner
      /\ (mapping[m].plan = NoPlan) = (mapping[n].plan = NoPlan)

(* "A provider mapping used by an order is immutable": it is there and says    *)
(* what it said when the order was made, unless the order was placed after its *)
(* mapping's orders were counted or its mapping was restored.                  *)
UsedIsImmutable ==
  \A o \in Placed \ slipped : \A m \in checkout[o].id \ restored :
    mapping[m].owner = checkout[o].row.owner /\ SameIdentity(mapping[m], checkout[o].row)

CatalogueConsistent == CatalogueTypeOK /\ OneMeaning /\ UsedIsImmutable
=============================================================================
