SPECIFICATION PlanSpec
CONSTANTS
    a = a
    b = b
    c = c
    d = d
    e = e
    None = None
    Station <- MCStation
    Known <- MCKnown
    RouteStop <- MCRouteStop
    Arcs <- MCArcs
    Penalty = 3
    Modulus = 100
    Queries <- MCQueries
INVARIANTS
    PlanTypeOK
    NothingLeftToRelax
    ParentsAgree
    RouteIsConnected
    FastestIsLeast
    WayBackIsAcyclic
    NeverMuchSlower
    QuietIsQuietest
PROPERTIES
    PlanReturns
CHECK_DEADLOCK FALSE
