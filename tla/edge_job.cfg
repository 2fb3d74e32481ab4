SPECIFICATION FairSpec
CONSTANTS
    Job = {j1}
    Handler = {h1, h2}
    NoJob = NoJob
    MaxDeliveries = 3
    MaxFaults = 2
INVARIANTS
    TypeOK
    EndedMeansReported
    CancelledMeansAsked
PROPERTIES
    ImplementsDelivery
    JobEnds
    SpoolDrains
