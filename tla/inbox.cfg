SPECIFICATION FairSpec
CONSTANTS
    Messages = {m1}
    Ids = {1, 2}
    Clients = {c1}
    Scheduler = triage
    Actions = {"keep"}
    MaxMishaps = 1
INVARIANT LedgerKnows
INVARIANT Once
PROPERTY QueuedIsSettled
