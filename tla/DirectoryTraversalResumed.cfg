CONSTANTS
    a1 = a1
    a2 = a2
    b1 = b1
    A = A
    B = B
    Refs <- MCRefs
    Targets <- MCTargets
    Resolve <- MCResolve
    Search = Search
    NoNext = NoNext
    Foreign = Foreign
    DefaultPages = 2
    MaximumPages = 3
    MaximumItems = 2
    MaximumRedirects = 2
    Options <- MCOptions
    Contents <- MCContents
SPECIFICATION Spec
INVARIANT NoPageRepeated
