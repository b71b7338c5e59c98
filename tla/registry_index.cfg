CONSTANTS
    a = a
    b = b
    None = None
    Machines = {a, b}
    Subjects = {s1}
    Forgets = {f1, f2}
    Faults = {"unmount", "stray", "unread", "gone", "restart"}
    Stamp <- MCStamp
    MaxFaults = 1
    MaxAppends = 3
SPECIFICATION Spec
CHECK_DEADLOCK FALSE
INVARIANT PurgedStaysForgotten
INVARIANT AnyLiveForgetCounts
INVARIANT ReaddBringsBack
