SPECIFICATION FairSpec
CONSTANTS
    ping = ping
    pingCopy = pingCopy
    task = task
    raw = raw
    presence = presence
    keyA = keyA
    keyB = keyB
    NoKey = NoKey
    Msgs <- MCMsgs
    Keys <- MCKeys
    KeyOf <- MCKeyOf
    PresenceMsgs <- MCPresenceMsgs
    QueueCap = 2
    NotifyInterval = 1
    DedupTTL = 2
    CleanPeriod = 3
    Jitter = 1
    MaxArrivals = 3
INVARIANTS
    TypeOK
    InOrder
    NoStaleKey
PROPERTIES
    NoRepeatWithinTTL
    Paced
    ImplementsLossyFifo
    QueuedIsDelivered
    ShutdownCompletes
