SPECIFICATION FairSpec
CONSTANTS
    Run = {r1}
    Dispatcher = {d1, d2}
    Projector = {p1}
    Request = {q1}
    NoRun = NoRun
    MaxRetries = 2
    MaxFaults = 2
    MaxRequests = 1
    Kinds = {"cancel", "resume"}
INVARIANTS
    TypeOK
    DeliveredMeansCreated
    DeadLetterEndsTask
PROPERTIES
    ImplementsHandover
    EntrySettles
    TaskEnds
CHECK_DEADLOCK FALSE
