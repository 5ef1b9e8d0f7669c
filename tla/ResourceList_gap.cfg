SPECIFICATION PanelSpec
CONSTANTS
    Pods = {"p", "q"}
    NotAPod = "service"
    Containers <- TheContainers
    TailLines = 2
    MaxVisible = 2
    MaxLog = 4
    MaxFetches = 1
    MaxStreams = 1
    Lines = {}
    Ranges = {0, 4}
    MaxLogLines = 3
    Sections <- ThreeSections
    DefaultOpen = {"metadata", "relations"}
    JumpSections = {"safe", "relations"}
    Resources = {"web", "api"}
    NoResource = "none"
    Relations <- TheRelations
    Entries <- TheEntries
    MaxCollapsed = 2
    GridLimit = 1
    MaxRequests = 0
    EventResources = {"pod", "node"}
    Answers <- TheAnswers
    Controls <- TheControls
    DefaultControls <- TheDefaults
    MaxPins = 0
    MaxEventRequests = 1
    Filters = {"f1"}
    Lists <- OneSnapshot
    Limit = 1
    LocalList <- TheLocalList
    MaxRenders = 1
    MaxPages = 2
INVARIANTS PagesAreContiguous
CHECK_DEADLOCK FALSE
