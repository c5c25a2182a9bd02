CONSTANTS
    Refs = {r1, r2, r3}
    First = First
    NoNext = NoNext
    MaxTraversalPages = 2
    MaxSize = 1
SPECIFICATION Spec
INVARIANT QuietEndIsComplete
