SPECIFICATION ViewsSpec
CONSTANTS
    c1 = c1
    c2 = c2
    c3 = c3
    MaxPresets = 2
    MaxNameLen = 2
    Calls = {c1, c2, c3}
    Puts <- PlainPuts
    OldFiles <- SomeOldFiles
    Storages = {"file", "memory"}
    MaxNow = 2
    MaxRestarts = 1
    MaxViews = 2
    ViewNames = {"c"}
    Groups = {"General", "Ops"}
    FilterSets = {"f"}
    SavedLists <- OneSaved
    TeamLists <- SomeTeams
    Files <- SomeFiles
    MaxEdits = 1
    MaxCalls = 2
    MaxMounts = 2
    MaxCollected = 3
    TypedNames = {"a", "d"}
    CollectedLists <- SomeCollected
    DefaultGroup = "General"
    AllResources = "all"
    Offered = {"all", "f"}
    Searches = {"Ops", "a"}
    MaxSteps = 3
SYMMETRY AnyOrder
INVARIANTS SavesDoNotMix OneViewPerName NothingWithoutConsent MergesKeepTheirPromise
    OthersStayPut
PROPERTIES ImplementsRegister
CHECK_DEADLOCK FALSE
