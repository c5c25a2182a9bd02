CONSTANTS
    Cases <- MCCases
    Answers <- MCAnswers
    Lists <- MCLists
    Headers <- MCHeaders
    Alterations <- MCAlterations
    MaxTime = 5
    MaxRestarts = 1
    MaxConfirms = 1
    Singletons = {"x"}
    MaximumHeaderEntries = 2
    Loopback = {"localhost"}
    MalformedIds = {"o 1"}
    MaximumPageItems = 2
    MaximumKeywords = 1
    Limits <- MCLimits
    DefaultPageLimit = 2
    PageLifetime = 2
    MaximumEdges = 1
SPECIFICATION Spec
CHECK_DEADLOCK FALSE
INVARIANTS
    TypeOK
    HierarchyJudgedRight
    PagesTileTheList
    RefusedOnlyWhenLost
    ServedIsAccepted
    ConfirmedIsCurrent
    SharedCachesStaySound
