SPECIFICATION PagesSpec
CONSTANTS
    Nothing = nothing
    Ids = {"job", "mgr"}
    Managed = {"mgr"}
    Conns = {"default", "other"}
    Default = "default"
    Slots = {p1, p2}
    MaxRequests = 2
    Visitors = {p1, p2}
    Langs = {en, de}
    Intervals = {1, 3}
    FailureTtl = 1
    Recheck = 1
    MailTtl = 1
    StaleMax = 2
    ShownFor = 2
    RunLimit = 1
    ReadingTime = 3
    Readers = {p1, p2}
    Services = {"web", "job"}
    Declared = {"web"}
    Kept = {"web"}
    CacheTtl = 1
    StatusTtl = 2
    MaxRuns = 1
    MaxMoves = 1
    StackTime = 2
    MaxLine = 2
    Chunk = 4
    MaxOutput = 8
    Editors = {p1, p2}
    Names = {"Name"}
    Logos = {"old", "new"}
    Widgets = {"clock", "disk"}
    Users = {p1, p2}
    Locales = {"de", "en"}
    MaxTiles = 3
    MaxSteps = 5
    AuditTime = 2
SYMMETRY Symmetry
INVARIANTS
    CatalogHolds
    ReadingsAreShared
    ShownIsSo
    LinesSurviveChunking
    FilesHold
    GapsAreDocumented
PROPERTIES
    OnlyItsOwnJob
    PurgeSparesTheFile
CHECK_DEADLOCK FALSE
