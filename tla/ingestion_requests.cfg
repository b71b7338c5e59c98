CONSTANTS
    x = x
    y = y
    Blank = Blank
    None = None
    Contents = {x, y}
    Texts = {1, 2, 3}
    TextsOf <- MCTextsOf
    Files = {f1, f2}
    Threads = {t1, t2}
    DeadletterMax = 2
    MaxRequests = 3
    MaxFaults = 1
    MaxCrashes = 1
SPECIFICATION Spec
SYMMETRY MCSymmetry
CHECK_DEADLOCK FALSE
INVARIANT StoresAgree
