SPECIFICATION FairSpec
CONSTANTS
    Uploads = {"u1"}
    Paths = {"a"}
    Starts = {1}
    Saves = {1}
    Passes = {"watcher"}
    MaxIngests = 2
    MaxKills = 1
PROPERTIES
    ConsumedWasEmbedded
    LimitSparesWorkingRun
    UploadsAreSettled
