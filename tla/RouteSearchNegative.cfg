SPECIFICATION PlanSpec
CONSTANTS
    a = a
    b = b
    c = c
    d = d
    e = e
    None = None
    Station <- MCStation
    Known <- MCKnown
    RouteStop <- MCRouteStop
    Arcs <- MCArcs
    Penalty = 3
    Modulus = 16
    Queries <- NegativeQueries
INVARIANTS
    WayBackIsAcyclic
CHECK_DEADLOCK FALSE
