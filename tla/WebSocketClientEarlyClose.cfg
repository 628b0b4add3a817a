SPECIFICATION Spec
CONSTANTS
    MaxConnects = 1
    MaxSends = 0
    MaxCloses = 2
    ConnectHandlers <- Always
    SendHandlers <- Always
INVARIANTS
    ClosedStaysClosed
CHECK_DEADLOCK FALSE
