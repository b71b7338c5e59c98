CONSTANTS
    j1 = j1
    j2 = j2
    j3 = j3
    NoJob = NoJob
    Jobs = {j1, j3}
    Loops = {l1}
    Submitters = {s1}
    PriorityOf <- MCPriorityOf
    KindOf <- MCKindOf
    Slow = {}
    Expirable = {}
    MaxRetries = 2
    MaxErrors = 0
    MaxCrashes = 1
    MaxStops = 1
SPECIFICATION FairSpec
PROPERTY ImplementsJobPool
PROPERTY EveryJobSettles
PROPERTY PauseQuiesces
PROPERTY InterruptedRunIsRepeated
