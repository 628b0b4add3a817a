SPECIFICATION Spec
CONSTANTS
    s1 = s1
    s2 = s2
    s3 = s3
    Station <- MCStation
    Lines <- MCLines
    Times <- MCTimes
    MaxPassengers = 0
INVARIANTS
    SameTimeOnEveryRoute
CHECK_DEADLOCK FALSE
