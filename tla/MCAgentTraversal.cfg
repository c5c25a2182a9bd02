CONSTANTS
    a1 = a1
    a2 = a2
    b1 = b1
    A = A
    B = B
    color = color
    Refs <- MCRefs
    Targets <- MCTargets
    Resolve <- MCResolve
    Initial = Initial
    NoNext = NoNext
    Foreign = Foreign
    MaximumPages = 3
    MaximumItems = 3
    Options <- MCOptions
    Filters <- MCFilters
    Contents <- MCContents
SPECIFICATION Spec
INVARIANTS
    TypeOK
    ItemsFollowThePages
    NothingRequestedBeyondItemBudget
    NoReferenceRequestedTwice
    RefinementsOnlyWhereAsked
PROPERTIES
    ImplementsTraversal
