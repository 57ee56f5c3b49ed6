SPECIFICATION Spec
CONSTANTS
    Characters <- MCCharacters
    Texts <- MCTexts
    Policies <- MCPolicies
    Responses <- MCResponses
    Defaults <- MCResponses
    ClientIDs <- MCClientIDs
INVARIANTS
    TypeOK
    OnlyWithinPolicy
    SenderIsNamed
    RefusedOnlyOutside
CHECK_DEADLOCK FALSE
