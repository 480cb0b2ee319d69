SPECIFICATION FairSpec
CONSTANTS
    Jobs = {j1, j2, j3}
    NoJob = NoJob
    IoFaults = TRUE
INVARIANTS
    FifoNoLoss
    QueueHolds
PROPERTIES
    ImplementsJobService
    JobEventuallyEnds
