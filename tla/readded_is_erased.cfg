CONSTANTS
    a = a
    b = b
    None = None
    Machines = {a}
    Subjects = {s1}
    Forgets <- MCForgets
    Skew <- MCSkew
    Handlers = {"h1"}
    Asks <- MCAlone
    MaxAppends = 12
    MaxRequests = 2
    MaxFailures = 0
    MaxCrashes = 0
SPECIFICATION Spec
CHECK_DEADLOCK FALSE
PROPERTY ReaddLasts
