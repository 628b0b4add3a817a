SPECIFICATION Spec
CONSTANTS
    MaxConnects = 1
    MaxSends = 1
    MaxCloses = 2
    ConnectHandlers <- Always
    SendHandlers <- Always
PROPERTIES
    SendIsAnswered
CHECK_DEADLOCK FALSE
