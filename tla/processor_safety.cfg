CONSTANTS
    j1 = j1
    j2 = j2
    j3 = j3
    NoJob = NoJob
    Jobs = {j1, j2}
    Loops = {l1, l2}
    Submitters = {s1, s2}
    PriorityOf <- MCPriorityOf
    KindOf <- MCKindOf
    Slow = {j1}
    Expirable = {j1}
    MaxRetries = 2
    MaxErrors = 1
    MaxCrashes = 1
    MaxStops = 1
SPECIFICATION Spec
SYMMETRY MCSymmetry
INVARIANT TypeOK
INVARIANT AtMostOnePlace
INVARIANT FinishedStaysOut
INVARIANT FailedRunsWithinBudget
INVARIANT RunningIsRegistered
INVARIANT NoGhosts
INVARIANT NothingLost
