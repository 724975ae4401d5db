---- MODULE MCCourseOrders ----
EXTENDS CourseOrders, TLC
CONSTANTS t1, t2, a, b, v1, v2
MCSymmetry == Permutations({t1, t2}) \union Permutations({v1, v2})
====
