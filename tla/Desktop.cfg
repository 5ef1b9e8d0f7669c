SPECIFICATION DesktopSpec
CONSTANTS
    Ids = {a, b, c}
    Saved = {a, b}
    NoId = NoId
    MaxAsks = 3
    MaxCalls = 2
    A = A
    B = B
    General = General
    Prod = Prod
    s1 = s1
    s2 = s2
    s3 = s3
    Names = {A, B}
    Folders = {General, Prod}
    Sessions = {s1, s2}
    Layouts <- TheLayouts
    Starts <- TheStarts
    Files <- TheFiles
    MaxPresets = 3
    MaxEdits = 3
    NoName = NoName
    v1 = v1
    v2 = v2
    v3 = v3
    v4 = v4
    h1 = h1
    h2 = h2
    Hosts = {h1, h2}
    BadHost = BadHost
    Lists <- TheLists
    Stored <- TheStored
    ViewLayouts <- TheViewLayouts
    Transfers <- TheTransfers
    MaxItems = 3
    MaxFilters = 2
    MaxPresses = 3
SYMMETRY IdSymmetry
INVARIANTS SessionsAreTrue NothingStaleNothingLost
PROPERTIES BulkDeletesAreAnnounced MovesKeepTheRest
CHECK_DEADLOCK FALSE
