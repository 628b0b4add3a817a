SPECIFICATION LoadSpec
CONSTANTS
    s1 = s1
    s2 = s2
    s3 = s3
    Malformed = Malformed
    Station <- MCStation
    Lines <- MCLines
    Times <- MCTimes
    MaxPassengers = 0
    Documents <- MCDocuments
INVARIANTS
    LoadedIsDocument
    WellFormedLoads
CHECK_DEADLOCK FALSE
