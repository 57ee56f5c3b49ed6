SPECIFICATION Spec
CONSTANTS
    who = who
    own = own
    byDefault = byDefault
    byTopic = byTopic
    NoCall = NoCall
    Queries = {}
    Requests = {byDefault, byTopic}
    FilterOf <- MCSameTopic
    SubscribeTopics <- MCSubscribeTopics
    LogTopics = {}
    RetainedTopics <- MCRetained
    TaskTopics <- MCTaskTopics
    MaxCalls = 2
    MaxOverlap = 2
    MaxTraffic = 0
    MaxDrops = 0
INVARIANTS
    RequestReturnsItsAnswer
CHECK_DEADLOCK FALSE
