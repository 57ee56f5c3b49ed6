SPECIFICATION FairSpec
CONSTANTS
    LeftPresence = {"none"}
    MaxDrops = 2
PROPERTIES
    StdioCloseShutsDown
CHECK_DEADLOCK FALSE
