CONSTANTS
    u = u
    v = v
    c1 = c1
    c2 = c2
    Callers <- MCCallers
    Mixes <- MCMixes
    Urls = {u, v}
    Foreign = Foreign
    NoPayload = NoPayload
    Replies <- MCReplies
    Layouts <- MCLayouts
    Fallback = 1
    MaxRedirects = 1
    Tagged = FALSE
    MaxTime = 1
    MaxRevision = 1
    Quota <- MCQuota
SPECIFICATION Spec
INVARIANT RevalidatedIsConfirmed
