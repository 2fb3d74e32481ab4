SPECIFICATION Spec
CONSTANTS
    Nobody = Nobody
    Worker = {w1, w2}
    Member = {m1}
    ParseEnds = {"DONE", "EMPTY"}
    MaxVersions = 2
    MaxJobs = 3
    MaxRequests = 1
    MaxAttempts = 2
    MaxSlips = 1
INVARIANTS TypeOK ActiveWasParsed ActiveHasVersion
PROPERTY ImplementsPublishing
CHECK_DEADLOCK FALSE
