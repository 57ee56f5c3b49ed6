SPECIFICATION Spec
CONSTANTS
    ping = ping
    pingCopy = pingCopy
    task = task
    raw = raw
    presence = presence
    keyA = keyA
    keyB = keyB
    NoKey = NoKey
    Msgs <- MCMsgs
    Keys <- MCKeys
    KeyOf <- MCKeyOf
    PresenceMsgs <- MCPresenceMsgs
    QueueCap = 2
    NotifyInterval = 1
    DedupTTL = 2
    CleanPeriod = 4
    Jitter = 1
    MaxArrivals = 2
PROPERTIES
    RefusedOnlyWithinTTL
