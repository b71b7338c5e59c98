CONSTANTS
    a = a
    b = b
    None = None
    Machines = {a}
    Subjects = {s1}
    Forgets <- MCForgets
    Skew <- MCSkew
    Handlers = {"h1", "h2"}
    Asks <- MCAlone
    MaxAppends = 12
    MaxRequests = 2
    MaxFailures = 1
    MaxCrashes = 1
SPECIFICATION FairSpec
CHECK_DEADLOCK FALSE
INVARIANT TypeOK
INVARIANT RecordedIsErased
PROPERTY ErasedOnlyIfAsked
PROPERTY StartedPurgeErases
