SPECIFICATION FairSpec
CONSTANTS
    NoLoad = NoLoad
    Requests = {r1, r2, r3}
    ConfiguredTTLs <- OffDefaultAndTwo
    DefaultTTL = 1
    MaxClock = 2
INVARIANTS SingleFlight
PROPERTIES CacheNeverRegresses ImplementsService EveryCallReturns
CHECK_DEADLOCK FALSE
