SPECIFICATION ShellSpec
CONSTANTS
    Views = {"topology", "resources", "compare"}
    Filters = {"all", "some"}
    Uploads = {"u1"}
    Tokens = {t1, t2}
    Starts <- TheStarts
    MaxHistory = 3
    MaxJobs = 2
    MaxMoves = 3
    ComparedSnapshots <- TheSnapshots
    Queries = {"", "inferred"}
    MaxDiffItems = 1
    MaxDiffFileBytes = 2
    MaxRelationTypes = 1
    FileBytes <- ReportBytes
    Unfit <- LongTexts
SYMMETRY TokensAlike
INVARIANTS ShownIsOfTheSource LockEndsTheSession ChangesAreComplete ReportsImport
PROPERTIES AddressFollowsTheScreen CapturesKeepTheSelection
CHECK_DEADLOCK FALSE
