SPECIFICATION Spec
CONSTANTS
    c1 = c1
    c2 = c2
    c3 = c3
    MaxPresets = 2
    MaxNameLen = 2
    Calls = {c1, c2}
    Puts <- CutPuts
    OldFiles <- SomeOldFiles
    Storages = {"file"}
    MaxNow = 1
    MaxRestarts = 0
SYMMETRY AnyOrder
INVARIANTS SavedViewsReadBack
CHECK_DEADLOCK FALSE
