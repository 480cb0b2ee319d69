SPECIFICATION Spec
CONSTANTS
    Ids = {"job", "mgr"}
    Managed = {"mgr"}
    Conns = {"default", "other"}
    Default = "default"
    Slots = {p1, p2}
    MaxRequests = 2
PROPERTY TypedTextWouldLoad
CHECK_DEADLOCK FALSE
