SPECIFICATION FairSpec
CONSTANTS
    c1 = c1
    c2 = c2
    id = id
    t = t
    u = u
    x = x
    y = y
    Caller = {c1, c2}
    Decider = {d1, d2}
    Rpc = {id}
    Tool = {t, u}
    Digest = {x, y}
    Sends <- MCSends
    MaxGeneration = 2
    MaxAsks = 2
    ProviderSays = {"ok", "error"}
    MaxUpsets = 1
INVARIANTS TypeOK OkMeansPerformed PerformedMeansAllowed WaitingMeansOpen
PROPERTIES ImplementsLedger ApprovalsAreDecided
CHECK_DEADLOCK FALSE
