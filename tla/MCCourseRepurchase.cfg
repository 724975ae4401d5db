SPECIFICATION CourseOrdersSpec
CONSTANTS
  t1 = t1 t2 = t2 a = a b = b v1 = v1 v2 = v2
  CourseOrderIds = {t1, t2, a}
  TimedOrders = {t1, t2}
  AppleOrders = {a}
  Verifiers = {v1, v2}
  Length = 1
  MaxCourseOrders = 2
  LastDay = 1
  MaxDecisions = 2
  NoCourseOrder = NoCourseOrder
CHECK_DEADLOCK FALSE
INVARIANTS LaterRepurchasePreserved
