SPECIFICATION Spec
CONSTANTS
    MaxRev = 4
    VersionOf <- MCVersionOf
    MAX_SNAPSHOTS = 2
    MaxQueue = 1
    Crashes = TRUE
INVARIANTS
    NameIsTheCommit
CONSTRAINT Followed
