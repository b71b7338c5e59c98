CONSTANTS
    a = a
    b = b
    None = None
    Machines = {a, b}
    Subjects = {s1}
    Forgets <- MCForgets
    Skew <- MCSkew
    Handlers = {"h1"}
    Asks <- MCMeets
    MaxAppends = 8
    MaxRequests = 4
    MaxFailures = 1
    MaxCrashes = 0
SPECIFICATION MCSpec
CHECK_DEADLOCK FALSE
INVARIANT PurgeWins
PROPERTY PurgeSpreads
