SPECIFICATION PanelSpec
CONSTANTS
    Pods = {"p", "q"}
    NotAPod = "service"
    Containers <- TheContainers
    TailLines = 2
    MaxVisible = 2
    MaxLog = 4
    MaxFetches = 2
    MaxStreams = 2
    Lines <- ThreeLines
    Ranges = {0, 4}
    MaxLogLines = 3
    Sections <- ThreeSections
    DefaultOpen = {"metadata", "relations"}
    JumpSections = {"safe", "relations"}
    Resources = {"web", "api"}
    NoResource = "none"
    Relations <- TheRelations
    Entries <- TheEntries
    MaxCollapsed = 2
    GridLimit = 1
    MaxRequests = 1
    EventResources = {"pod", "node"}
    Answers <- TheAnswers
    Controls <- TheControls
    DefaultControls <- TheDefaults
    MaxPins = 1
    MaxEventRequests = 3
    Filters = {"f1", "f2"}
    Lists <- TwoSnapshots
    Limit = 1
    LocalList <- TheLocalList
    MaxRenders = 2
    MaxPages = 1
INVARIANTS OneStream AnswersMatchTheSelection SpinnersHaveRequests ListsAreWholeAndInOrder
PROPERTIES NewWarningsAreMarked ReaderStateIsTheResources
CHECK_DEADLOCK FALSE
