SPECIFICATION PipelineSpec
CONSTANTS
    crds = crds
    services = services
    jobs = jobs
    c1 = c1
    c2 = c2
    c3 = c3
    Required = 2
    Tasks <- ThreeTasks
    Crds = crds
    CustomTasks <- ThreeCustom
    Listable <- TwoListable
    Concurrencies = {0, 2}
    Reasons = {"request_failed", "pagination_incomplete"}
    Versions <- GatewayVersions
    Collections <- SmallCollections
    MaxPages = 3
    MaxItems = 5
    MaxPageBytes = 2
    MaxTotalBytes = 5
    Optional = TRUE
    Size = 3
    nopod = nopod
    NoPod = nopod
    MaxVisits = 4
    MaxReferences = 2
    MaxComparisons = 1
    MaxIssues = 2
    Listings <- Clusters
    Slicings <- EndpointSlices
INVARIANTS AllOrNothing OnlyRefusalsAreSilent LimitsHold EveryObjectIsAccountedFor TheRelationsAreDrawn
PROPERTIES CallsEnd
CHECK_DEADLOCK FALSE
