SPECIFICATION FairSpec
CONSTANTS
    vera = vera
    brix = brix
    router = router
    tool = tool
    other = other
    Processes = {vera, brix}
    Callers = {router, tool, other}
    ProcessOf <- MCProcessOf
    LogTopics = {}
    Topics <- MCTopics
    MaxWeek = 2
    MaxTime = 1
    MaxCalls = 3
    MaxCrashes = 1
INVARIANTS
    TypeOK
    HeaderFirst
    HeaderOnce
    Chronological
    EntryKept
PROPERTIES
    LogReturns
CHECK_DEADLOCK FALSE
