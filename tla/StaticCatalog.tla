--------------------------- MODULE StaticCatalog ---------------------------
(***************************************************************************)
(* The in-memory catalog (service/static_catalog.go): what NewStaticCatalog*)
(* accepts, the pages it cuts, and the continuations it signs.  A signed   *)
(* cursor is its payload and the key that signed it; nobody can make one   *)
(* without the key.                                                        *)
(***************************************************************************)
EXTENDS Integers, FiniteSets, FiniteSetsExt, SequencesExt

CONSTANTS
    DefaultPageLimit,   \* defaultPageLimit
    PageLifetime,       \* continuationLifetime, in ticks of the clock
    MaximumEdges        \* how many edges a path of the hierarchy may have

NoCursor == [signed |-> "nobody"]
NoNext == [rooted |-> FALSE]

-----------------------------------------------------------------------------
(* Mutants: the definitions below as a plausible slip would have them.     *)
ExpiryAfterOne(now) == (now \div PageLifetime) * PageLifetime + PageLifetime
LimitAlone(state, input, limit, path) == state.limit # limit
EdgesCountedLate(level) == level > MaximumEdges + 1

-----------------------------------------------------------------------------
(* validateRelationships.  depth walks from a Collection to its parents,   *)
(* and fails at a parent it is still visiting; the measure is the edges of *)
(* the longest path up.  A walk longer than the Collections are many has   *)
(* met one twice.                                                          *)
ParentsKnown(parents) == \A c \in DOMAIN parents : parents[c] \subseteq DOMAIN parents
MembersKnown(offerings, parents) ==
    \A o \in ToSet(offerings) : o.collections \subseteq DOMAIN parents

TooDeep(level) == level > MaximumEdges
Cyclic == -1

(* The depth of each Collection as the walk from it reports it: Cyclic when*)
(* it comes back to one of those in visiting.                              *)
DepthOf(parents) ==
    LET depth[walk \in {w \in (DOMAIN parents) \X (SUBSET DOMAIN parents) : w[1] \notin w[2]}] ==
            LET visiting == walk[2] \cup {walk[1]}
                above == {depth[<<p, visiting>>] : p \in parents[walk[1]] \ visiting}
            IN  IF parents[walk[1]] \cap visiting # {} \/ Cyclic \in above THEN Cyclic
                ELSE IF above = {} THEN 0 ELSE Max(above) + 1
    IN  [c \in DOMAIN parents |-> depth[<<c, {}>>]]

RelationshipsValid(offerings, parents) ==
    /\ MembersKnown(offerings, parents)
    /\ ParentsKnown(parents)
    /\ \A c \in DOMAIN parents :
          DepthOf(parents)[c] # Cyclic /\ ~TooDeep(DepthOf(parents)[c])

(* NewStaticCatalog: valid Full resources with distinct identifiers, and a *)
(* key that is long enough or left out.                                    *)
Distinct(resources) == IsInjective([i \in DOMAIN resources |-> resources[i].id])
Presentable(offerings, collections) ==
    /\ \A item \in ToSet(offerings \o collections) : item.valid /\ ~item.details
    /\ \A item \in ToSet(offerings) : IsInjective(item.actions)
    /\ Distinct(offerings) /\ Distinct(collections)
Accepted(offerings, collections, parents, keyLength) ==
    /\ Presentable(offerings, collections)
    /\ RelationshipsValid(offerings, parents)
    /\ keyLength = 0 \/ keyLength >= 32

-----------------------------------------------------------------------------
(* continuation.  Expiry is cut to the lifetime, so that two requests in   *)
(* one lifetime are answered with the same bytes.                          *)
Expiry(now) == (now \div PageLifetime) * PageLifetime + 2 * PageLifetime

Continuation(offset, input, limit, path, now, key) ==
    [signed |-> key,
     state |-> [expires |-> Expiry(now), language |-> input.language, limit |-> limit,
                offset |-> offset, representation |-> input.representation, target |-> path]]

(* Its reference: the path the request came to, and the parameters.        *)
NextReference(cursor, path) ==
    [scheme |-> "", host |-> "", rooted |-> TRUE, user |-> FALSE, fragment |-> FALSE,
     printable |-> TRUE, length |-> 1,
     location |-> [path |-> path,
                   query |-> [cursor |-> <<cursor>>, limit |-> <<cursor.state.limit>>,
                              representation |-> <<cursor.state.representation>>]]]

(* consumeCursor: a cursor that this key did not sign, or that has expired,*)
(* is gone; one made for another request is invalid.                       *)
Gone == [kind |-> "problem", status |-> 410, code |-> "CONTINUATION_EXPIRED", header |-> {}]
ContextChanged ==
    [kind |-> "problem", status |-> 400, code |-> "INVALID_REQUEST", header |-> {}]

Unavailable(cursor, now, key) == cursor.signed # key \/ cursor.state.expires < now
OtherContext(state, input, limit, path) ==
    \/ state.language # input.language
    \/ state.limit # limit
    \/ state.representation # input.representation
    \/ state.target # path

-----------------------------------------------------------------------------
(* terseOffering, terseCollection: what a Terse view keeps.                *)
Terse(item) == [item EXCEPT !.actions = <<>>, !.details = FALSE]
View(item, representation) == IF representation = "terse" THEN Terse(item) ELSE item

(* staticPage: the slice at the offset, clamped to the list, and a         *)
(* continuation when the list goes on.                                     *)
PageAt(values, offset, limit, input, path, now, key) ==
    LET from == Min({offset, Len(values)})
        end == Min({from + limit, Len(values)})
    IN  [items |-> [i \in 1..(end - from) |-> View(values[from + i], input.representation)],
         next |-> IF end < Len(values)
                  THEN NextReference(Continuation(end, input, limit, path, now, key), path)
                  ELSE NoNext,
         refinements |-> <<>>, authExpands |-> FALSE, bytes |-> 0, depth |-> 0]

StaticPage(values, input, path, now, key) ==
    LET limit == IF input.limit = 0 THEN DefaultPageLimit ELSE input.limit
        cursor == input.cursor
        page(offset) ==
            [kind |-> "page", page |-> PageAt(values, offset, limit, input, path, now, key)]
    IN  IF cursor = NoCursor THEN page(0)
        ELSE IF Unavailable(cursor, now, key) THEN Gone
        ELSE IF OtherContext(cursor.state, input, limit, path) THEN ContextChanged
        ELSE page(cursor.state.offset)

(* The catalog's functions.  Without Collections it has only the two       *)
(* required; it never searches.                                            *)
Handlers(collections) ==
    {"get-offering", "list-offerings"} \cup
    (IF collections = <<>> THEN {}
     ELSE {"get-collection", "list-collections", "list-collection-offerings"})

Resource(values, id, representation) ==
    LET found == {item \in ToSet(values) : item.id = id}
    IN  IF found = {} THEN [kind |-> "absent"]
        ELSE [kind |-> "resource",
              resource |-> [item |-> View(CHOOSE item \in found : TRUE, representation),
                            authExpands |-> FALSE, bytes |-> 0, depth |-> 0]]

Missing == [kind |-> "problem", status |-> 404, code |-> "NOT_FOUND", header |-> {}]

(* The Offerings of a Collection, in their order.                          *)
Members(offerings, id) ==
    LET members[n \in 0..Len(offerings)] ==
            IF n = 0 THEN <<>>
            ELSE IF id \in offerings[n].collections THEN Append(members[n - 1], offerings[n])
            ELSE members[n - 1]
    IN  members[Len(offerings)]

StaticAnswer(offerings, collections, call, path, now, key) ==
    LET members == Members(offerings, call.id)
        page(values) == StaticPage(values, call.input, path, now, key)
    IN  CASE call.operation = "list-offerings" -> page(offerings)
          [] call.operation = "list-collections" -> page(collections)
          [] call.operation = "list-collection-offerings" ->
                 IF call.id \in {c.id : c \in ToSet(collections)} THEN page(members) ELSE Missing
          [] call.operation = "get-offering" ->
                 Resource(offerings, call.id, call.input.representation)
          [] call.operation = "get-collection" ->
                 Resource(collections, call.id, call.input.representation)
=============================================================================
