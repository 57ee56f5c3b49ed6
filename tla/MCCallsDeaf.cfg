SPECIFICATION Spec
CONSTANTS
    who = who
    own = own
    byDefault = byDefault
    byTopic = byTopic
    NoCall = NoCall
    Queries = {who}
    Requests = {}
    FilterOf <- MCQueryAll
    SubscribeTopics <- MCSubscribeTopics
    LogTopics <- MCLogAll
    RetainedTopics <- MCRetained
    TaskTopics <- MCTaskTopics
    MaxCalls = 1
    MaxOverlap = 2
    MaxTraffic = 0
    MaxDrops = 0
INVARIANTS
    AgentStaysReachable
CHECK_DEADLOCK FALSE
