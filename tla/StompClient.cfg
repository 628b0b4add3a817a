SPECIFICATION Spec
CONSTANTS
    MaxConnects = 2
    MaxSubscribes = 2
    MaxCloses = 1
    Tokens = {t1, t2}
    NoToken = NoToken
INVARIANTS
    AgreesWithServer
    OnlyBadFramesCrash
PROPERTIES
    ReportedOnce
    EndIsNoticed
CHECK_DEADLOCK FALSE
