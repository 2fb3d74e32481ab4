SPECIFICATION Spec
CONSTANTS
    Run = {r1}
    Dispatcher = {d1, d2}
    Projector = {p1}
    Request = {q1}
    NoRun = NoRun
    MaxRetries = 2
    MaxFaults = 2
    MaxRequests = 0
    Kinds = {}
PROPERTY OldHolderNeverOverwrites
CHECK_DEADLOCK FALSE
