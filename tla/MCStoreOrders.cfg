SPECIFICATION BillingSpec
CONSTANTS
  Orders = {o1, o2}
  Purchases = {p1, p2}
  Sessions = {s1, s2}
  NoOrder = NoOrder
  NoPurchase = NoPurchase
  MaxFaults = 2
  GoogleSubs = {g1}
  AppleSubs = {g2}
  SyncWorkers = {o1, o2}
  MaxLog = 3
  MaxHappenings = 4
  MaxDay = 2
  Mappings = {p1, p2}
  Products = {x, cx}
  Plans = {a, ca}
  NoPlan = NoPlan
  ForCoupons = {cx, ca}
  Desks = {o1, o2}
  Checkouts = {k1}
  MaxOffers = 1
  MaxDeskWork = 3
  Buyers = {s1, s2, s3}
  OfferIds = {f1, f2, f3}
  Referred = {p1}
  Converters = {o1, o2}
  Managers = {m1, m2}
  CouponCodes = {c1, c2}
  Shares = {10}
  MaxManaged = 2
  MaxMishaps = 1
SYMMETRY Symmetry
INVARIANTS OrdersConsistent GrantedExactlyOnce   CouponsConsistent CommissionsConsistent
PROPERTIES PaidOrderNotClosed
CHECK_DEADLOCK FALSE
