SPECIFICATION FairSpec
CONSTANTS
    Nobody = Nobody
    Worker = {w1, w2}
    Member = {m1}
    ParseEnds = {"DONE"}
    MaxVersions = 2
    MaxJobs = 2
    MaxRequests = 1
    MaxAttempts = 1
    MaxSlips = 1
PROPERTIES JobEnds SupersededGoesDark
CHECK_DEADLOCK FALSE
