CONSTANTS
    a = a
    b = b
    None = None
    Machines = {a, b}
    Subjects = {s1}
    Forgets = {f1, f2}
    Faults = {"unmount", "stray", "unread", "gone", "restart"}
    Stamp <- MCStamp
    MaxFaults = 3
    MaxAppends = 2
SPECIFICATION FairSpec
CHECK_DEADLOCK FALSE
INVARIANT TypeOK
PROPERTY ForgetNeverLapses
PROPERTY MachinesConverge
