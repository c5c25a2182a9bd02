CONSTANTS
    Refs = {r1, r2, r3}
    First = First
    NoNext = NoNext
    MaxTraversalPages = 2
    MaxSize = 2
SPECIFICATION Spec
INVARIANTS
    TypeOK
    ItemsFollowThePages
PROPERTIES
    ImplementsTraversal
