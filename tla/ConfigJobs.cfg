SPECIFICATION Spec
CONSTANTS
    Units = {"web-search", "rag", "mail"}
    Contents = {a, b}
    NoConf = NoConf
    Keep = 2
    MaxQueue = 2
    MaxEdits = 2
INVARIANTS
    StoredIsRunning
PROPERTIES
    DataGoesLast
    NothingLostUnsaved
SYMMETRY ContentSymmetry
