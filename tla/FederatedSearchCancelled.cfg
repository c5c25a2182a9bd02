CONSTANTS
    Requests <- MCRequests
    DefaultServices = 2
    MaximumServices = 2
    DefaultOfferings = 1
    MaximumOfferings = 1
    DefaultConcurrency = 2
    MaximumConcurrency = 2
SPECIFICATION FairSpec
PROPERTY AlreadyCancelledIsReported
