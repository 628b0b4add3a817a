SPECIFICATION Spec
CONSTANTS
    s1 = s1
    s2 = s2
    s3 = s3
    Station <- MCStation
    Lines <- MCLines
    Times <- MCTimes
    MaxPassengers = 1
INVARIANTS
    TypeOK
    GraphIsConsistent
    DirectionsAgree
    LinesArePrefixes
    ServingIsExact
    RouteTimeIsCumulative
    WholeWhenAccepted
PROPERTIES
    ImplementsAPI
CHECK_DEADLOCK FALSE
