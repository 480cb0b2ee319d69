SPECIFICATION PlaneSpec
CONSTANTS
    Jobs = {j1}
    TurnJobs = {j1, j2}
    TurnRequests = {r3}
    TurnRunners <- UpgradeRunners
    Requests = {r1, r2}
    Runners <- SingleRunners
    NoRunner = NoRunner
    DockerFaults = TRUE
INVARIANTS
    UpgradeRunsAloneInTurn
    GuardedJobsRunAloneInTurn
    UnreadOutcomeBlocksInTurn
PROPERTIES
    RunningIsNeverRemoved
    OutcomeNeedsAcknowledgement
SYMMETRY RequestSymmetry
