SPECIFICATION FairDiscovery
CONSTANTS
    LeftPresence = {"none", "online", "offline"}
    MaxDrops = 2
    MaxUpdates = 2
INVARIANTS
    TypeOK
    OnlineHasWill
    AnnouncedHears
    DiscoveryTypeOK
    WhoKeepsUp
    WhoIsRight
    ListedIsVouched
PROPERTIES
    ImplementsPresence
    CrashIsSeen
    ComesOnline
    StatusSettles
CHECK_DEADLOCK FALSE
