SPECIFICATION FairSpec
CONSTANTS
    NoLoad = NoLoad
    Requests = {r1, r2}
    ConfiguredTTLs <- OffDefaultAndTwo
    DefaultTTL = 1
    MaxClock = 2
PROPERTIES PanicIsContained
CHECK_DEADLOCK FALSE
