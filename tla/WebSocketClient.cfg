SPECIFICATION Spec
CONSTANTS
    MaxConnects = 2
    MaxSends = 2
    MaxCloses = 2
    ConnectHandlers <- Optional
    SendHandlers <- Optional
INVARIANTS
    TypeOK
    ListensWhileOpen
    DisconnectOnlyWhenLost
PROPERTIES
    LostIsReported
    ConnectIsAnswered
    CloseEndsAll
    ImplementsConnection
CHECK_DEADLOCK FALSE
