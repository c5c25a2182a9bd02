CONSTANTS
    Requests <- MCRequests
    DefaultServices = 3
    MaximumServices = 3
    DefaultOfferings = 1
    MaximumOfferings = 1
    DefaultConcurrency = 2
    MaximumConcurrency = 2
SPECIFICATION FairSpec
INVARIANTS
    TypeOK
    ConcurrencyBound
    EventsInDirectoryOrder
    OfferingsOrOneIssue
    GivenUpOnlyWhenUnwanted
PROPERTY EverythingReturns
