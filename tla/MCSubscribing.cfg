SPECIFICATION Spec
CONSTANTS
    LogConfigs <- MCLogConfigs
    TopicConfigs <- MCTopicConfigs
    Topics <- MCTopics
INVARIANTS
    TypeOK
    CoveredTopicsReceived
    HandledOnce
