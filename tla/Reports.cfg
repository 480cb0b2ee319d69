SPECIFICATION ReportsSpec
CONSTANTS
    Services = {"litellm"}
    Addons = {"addon"}
    Recipients = {"r1"}
    Pages = {1}
    Versions = {"v1"}
    Window = 2
    ForgetAfter = 2
    MaxTime = 3
    MaxEdits = 1
    MaxChanges = 3
    Newest = 2
    PanelLines = 4
    MaxRuns = 2
INVARIANTS
    JobEndIsLookedAt
    PanelIsTrue
    WayBackIsShown
PROPERTIES
    ReportedOncePerOccurrence
    OncePerWindow
    NeededImagesStay
