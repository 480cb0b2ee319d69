SPECIFICATION PlaneSpec
CONSTANTS
    Jobs = {j1}
    TurnJobs = {j1}
    TurnRequests = {r3}
    TurnRunners <- UpgradeRunners
    Requests = {r1, r2}
    Runners <- UpgradeRunners
    NoRunner = NoRunner
    DockerFaults = FALSE
INVARIANTS
    OneUpgrade
SYMMETRY RequestSymmetry
