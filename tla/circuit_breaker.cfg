CONSTANTS
    AsyncCallers = {"a1", "a2", "a3"}
    SyncCallers = {"t1"}
    Streams = {"s1"}
    Threshold = 5
    Timeout = 3
    MaxResets = 1
SPECIFICATION FairSpec
INVARIANT TypeOK
PROPERTY StaysShut
PROPERTY DeadServiceTrips
PROPERTY ProbesAgain
PROPERTY Recovers
