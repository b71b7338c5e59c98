CONSTANTS
    x = x
    y = y
    Blank = Blank
    None = None
    Contents = {x, y}
    Texts = {1, 2, 3}
    TextsOf <- MCTextsOf
    Files = {f1, f2}
    Threads = {t1}
    DeadletterMax = 1
    MaxRequests = 2
    MaxFaults = 3
    MaxCrashes = 1
SPECIFICATION FairSpec
CHECK_DEADLOCK FALSE
INVARIANT AnsweredIsKept
INVARIANT ListedIsStored
PROPERTY PendingResolves
