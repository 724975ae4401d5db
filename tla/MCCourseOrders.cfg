SPECIFICATION CourseOrdersSpec
CONSTANTS
  t1 = t1 t2 = t2 a = a b = b v1 = v1 v2 = v2
  CourseOrderIds = {t1, t2, a, b}
  TimedOrders = {t1, t2, b}
  AppleOrders = {a, b}
  Verifiers = {v1, v2}
  Length = 1
  MaxCourseOrders = 2
  LastDay = 1
  MaxDecisions = 2
  NoCourseOrder = NoCourseOrder
INVARIANTS CourseOrdersConsistent AccessFollowsPayment
CHECK_DEADLOCK FALSE
SYMMETRY MCSymmetry
