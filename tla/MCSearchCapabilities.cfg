CONSTANTS
    Cases <- MCCases
    MaximumPages = 3
    MaximumOf <- MCMaximumOf
    Loopback = {"localhost"}
    MalformedIds = {"c c"}
    MaximumActions = 2
    MaximumInline <- MCMaximumInline
SPECIFICATION Spec
CHECK_DEADLOCK FALSE
INVARIANTS
    TypeOK
    ExposedIsUnambiguous
