CONSTANTS
    c1 = c1
    c2 = c2
    c3 = c3
    Nobody = Nobody
    Clients = {c1, c2, c3}
    Slow = {c1, c2}
    MaxErrors = 2
    MaxFailures = 1
    MaxCrashes = 1
    MaxLapses = 1
SPECIFICATION FairSpec
CHECK_DEADLOCK FALSE
INVARIANT TypeOK
INVARIANT OneAtATime
INVARIANT RunsAreAccounted
INVARIANT AnswersAgree
PROPERTY EveryCallerAnswered
