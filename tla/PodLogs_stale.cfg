SPECIFICATION PanelSpec
CONSTANTS
    Pods = {"p", "q"}
    NotAPod = "service"
    Containers <- TheContainers
    TailLines = 2
    MaxVisible = 2
    MaxLog = 5
    MaxFetches = 2
    MaxStreams = 2
    Lines = {}
    Ranges = {0, 4}
    MaxLogLines = 3
    Sections <- ThreeSections
    DefaultOpen = {"metadata", "relations"}
    JumpSections = {"safe", "relations"}
    Resources = {"web", "api"}
    NoResource = "none"
    Relations <- TheRelations
    Entries <- TheEntries
    MaxCollapsed = 2
    GridLimit = 1
    MaxRequests = 0
    EventResources = {"pod", "node"}
    Answers <- TheAnswers
    Controls <- TheControls
    DefaultControls <- TheDefaults
    MaxPins = 0
    MaxEventRequests = 1
    Filters = {"f1", "f2"}
    Lists <- TwoSnapshots
    Limit = 1
    LocalList <- TheLocalList
    MaxRenders = 0
    MaxPages = 0
INVARIANTS LinesMatchSelection
CHECK_DEADLOCK FALSE
