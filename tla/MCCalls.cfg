SPECIFICATION FairSpec
CONSTANTS
    who = who
    own = own
    byDefault = byDefault
    byTopic = byTopic
    NoCall = NoCall
    Queries = {who, own}
    Requests = {byDefault, byTopic}
    FilterOf <- MCFilterOf
    SubscribeTopics <- MCSubscribeTopics
    LogTopics = {}
    RetainedTopics <- MCRetained
    TaskTopics <- MCTaskTopics
    MaxCalls = 3
    MaxOverlap = 2
    MaxTraffic = 1
    MaxDrops = 1
INVARIANTS
    TypeOK
    AgentStaysReachable
    RetainedCollected
    AnswerNotMissed
    NothingLeftBehind
    OwnMessagesStayOut
PROPERTIES
    ImplementsConversation
    CallsReturn
CHECK_DEADLOCK FALSE
