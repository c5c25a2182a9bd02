CONSTANTS
    Cases <- MCCases
    MaximumDocuments = 4
    MaximumLevels = 2
    MaximumGraphBytes = 5
    Loopback = {"localhost"}
    MalformedIds = {}
    MaximumActions = 2
    MaximumInline <- MCMaximumInline
SPECIFICATION Spec
CHECK_DEADLOCK FALSE
INVARIANTS
    TypeOK
    DetailsAreValidated
    EveryActionAccountedFor
