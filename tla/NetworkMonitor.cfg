SPECIFICATION Spec
CONSTANTS
    a = a
    b = b
    Station <- MCStation
    Layout <- MCLayout
    MaxPassengers = 1
    MaxSubscribes = 2
    Tokens = {t1, t2}
    NoToken = NoToken
INVARIANTS
    TypeOK
    CountsMatchServer
    OnlyBadInputEnds
    ReturnedDisconnected
PROPERTIES
    TimedRunEnds
    RunEndsWithConnection
CHECK_DEADLOCK FALSE
