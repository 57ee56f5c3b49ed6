SPECIFICATION FairSpec
CONSTANTS
    LeftPresence = {"none"}
    MaxDrops = 2
PROPERTIES
    PresenceEndsWithProcess
CHECK_DEADLOCK FALSE
