------------------------- MODULE SearchCapabilities -------------------------
(***************************************************************************)
(* GetOfferingSearchCapabilities and GetCollectionSearchCapabilities       *)
(* (agent/capabilities.go): the filters and sorts a search may use, put    *)
(* together from the Service's and a Collection's, each source inline or   *)
(* linked, and then retrieved page by page from the Service's own origin.  *)
(*                                                                         *)
(* What the Service publishes may change at any time meanwhile, and it is  *)
(* inspected twice: once to get the Collection, once for its capabilities. *)
(***************************************************************************)
EXTENDS Integers, FiniteSets, SequencesExt

CONSTANTS
    Cases,            \* what is run: [id, origin, editions]
    MaximumPages,     \* maximumCapabilityPages
    MaximumOf,        \* maximumFilters and maximumSorts, by kind
    Loopback, MalformedIds, MaximumActions, MaximumInline   \* see AgentDocuments

INSTANCE AgentDocuments

Kinds == {"filters", "sorts"}
ASSUME BoundsAssumption ==
    /\ MaximumPages \in Nat \ {0}
    /\ MaximumOf \in [Kinds -> Nat \ {0}]

(* What a Service may publish: identifiers are numbers, in their order.    *)
IsList(values) == values \in Seq(ToSet(values))
AreDefinitions(values) == IsList(values) /\ \A v \in ToSet(values) : v.id \in Int
IsSource(source) ==
    \/ source = NoSource
    \/ /\ {"kind", "values"} \subseteq DOMAIN source
       /\ source.kind = "inline" /\ AreDefinitions(source.values)
    \/ source.kind = "linked"
AreCapabilities(capabilities) ==
    \/ capabilities = NoCapabilities
    \/ /\ {"filters", "sorts"} \subseteq DOMAIN capabilities
       /\ IsSource(capabilities.filters) /\ IsSource(capabilities.sorts)
ASSUME CasesAssumption ==
    \A case \in Cases :
        /\ IsList(case.editions) /\ case.editions # <<>>
        /\ \A e \in ToSet(case.editions) :
               /\ \A resource \in {e.document, e.collection} :
                      /\ "capabilities" \in DOMAIN resource
                      /\ AreCapabilities(resource.capabilities)
               /\ \A address \in DOMAIN e.pages :
                      /\ "items" \in DOMAIN e.pages[address]
                      /\ AreDefinitions(e.pages[address].items)

VARIABLES
    setting,     \* the case run
    edition,     \* which of its editions the Service publishes
    phase,       \* where the call is
    collection,  \* the Collection got, if one was asked for
    sources,     \* [scope, of, published], in the order they are taken
    position,    \* the one being taken
    next,        \* the reference to its next page
    taken,       \* the pages received, by position: [address, items, next]
    filters,     \* result.Filters: [definition, scope], by identifier
    sorts,       \* sorts, with sortScopes, likewise; in the end result.Sorts
    issues       \* result.Issues

call == <<setting, collection, sources>>
result == <<filters, sorts, issues>>
vars == <<setting, edition, phase, collection, sources, position, next, taken,
          filters, sorts, issues>>

NoCollection == [capabilities |-> NoCapabilities]
NoNext == NoReference
NoPage == [absent |-> "page"]
Empty == [id \in {} |-> NoPage]
Publishes == setting.editions[edition]
Source == sources[position]
Pages == taken[position]
Items(pages) == FlattenSeq([i \in DOMAIN pages |-> pages[i].items])
(* An issue says why a source is of no use, or names identifiers.          *)
Because(reason) == [reason |-> reason]
Naming(ids) == [ids |-> ids]
Issue(scope, kind, about) == [scope |-> scope, kind |-> kind, about |-> about]

Address(reference) ==
    LET r == Resolve(reference, setting.origin)
    IN  [scheme |-> r.scheme, host |-> r.host, location |-> r.location]

-----------------------------------------------------------------------------
(* Mutants: the definitions below as a plausible slip would have them.     *)
LaterWins(values, exposed) == {}
PagesUncounted(pages) == FALSE

-----------------------------------------------------------------------------
Init ==
    /\ setting \in Cases
    /\ edition = 1
    /\ phase = IF setting.id = NoId THEN "inspecting" ELSE "getting"
    /\ collection = NoCollection
    /\ sources = <<>> /\ position = 1 /\ next = NoNext /\ taken = <<>>
    /\ filters = Empty /\ sorts = Empty /\ issues = <<>>

(* The Service publishes something else.                                   *)
Republish ==
    /\ phase \notin {"failed", "returned"}
    /\ edition < Len(setting.editions)
    /\ edition' = edition + 1
    /\ UNCHANGED <<call, phase, position, next, taken, result>>

(* GetCollection: the inspection says whether it may be asked for.  The    *)
(* Service may have changed by the time it answers, and again by the next  *)
(* inspection.                                                             *)
InspectedNow == NormalDocument(Publishes.document)

AskForCollection ==
    LET possible == /\ DocumentParses(InspectedNow)
                    /\ Supports(InspectedNow, "get-collection")
                    /\ IsLocalResourceIdentifier(setting.id)
    IN  /\ phase = "getting"
        /\ phase' = IF possible THEN "fetching" ELSE "failed"
        /\ UNCHANGED <<call, edition, position, next, taken, result>>

GetCollection ==
    LET got == NormalCollection(Publishes.collection)
    IN  /\ phase = "fetching"
        /\ IF CollectionTaken(got, setting.id)
           THEN phase' = "inspecting" /\ collection' = got
           ELSE phase' = "failed" /\ UNCHANGED collection
        /\ UNCHANGED <<setting, edition, sources, position, next, taken, result>>

RequestFails ==
    /\ phase \in {"getting", "fetching", "inspecting"}
    /\ phase' = "failed"
    /\ UNCHANGED <<call, edition, position, next, taken, result>>

(* The second inspection: the Service's filters and sorts come before the  *)
(* Collection's.  Without search-offerings there is nothing to search.     *)
SourceOf(scope, kind, published) ==
    IF published.kind = "none" THEN <<>>
    ELSE <<[scope |-> scope, of |-> kind, published |-> published]>>
SourcesOf(scope, capabilities) ==
    IF capabilities = NoCapabilities THEN <<>>
    ELSE SourceOf(scope, "filters", capabilities.filters)
         \o SourceOf(scope, "sorts", capabilities.sorts)

Inspect ==
    LET document == InspectedNow
        all == SourcesOf("service", document.capabilities)
               \o SourcesOf("collection", collection.capabilities)
    IN  /\ phase = "inspecting"
        /\ IF ~DocumentParses(document)
           THEN phase' = "failed" /\ UNCHANGED <<sources, taken, issues>>
           ELSE IF ~Supports(document, "search-offerings")
           THEN /\ phase' = "returned"
                /\ issues' = IF collection.capabilities = NoCapabilities THEN <<>>
                             ELSE <<Issue("collection", "filters", Because("search-offerings"))>>
                /\ UNCHANGED <<sources, taken>>
           ELSE /\ phase' = "composing"
                /\ sources' = all
                /\ taken' = [i \in DOMAIN all |-> <<>>]
                /\ UNCHANGED issues
        /\ UNCHANGED <<setting, edition, collection, position, next, filters, sorts>>

-----------------------------------------------------------------------------
(* addFilters and addSorts, once the definitions of a source are all there.*)
Exposed(kind) == IF kind = "filters" THEN filters ELSE sorts
Identifiers(values) == {values[i].id : i \in DOMAIN values}
Repeats(values) == Cardinality(Identifiers(values)) < Len(values)
Exceeds(values, exposed, kind) ==
    Cardinality(DOMAIN exposed) + Len(values) > MaximumOf[kind]

(* An identifier two sources publish is no longer exposed by either.       *)
Conflicts(values, exposed) == Identifiers(values) \cap DOMAIN exposed

Composed(values, exposed, scope) ==
    LET added == Identifiers(values) \ Conflicts(values, exposed)
        kept == DOMAIN exposed \ Conflicts(values, exposed)
    IN  [id \in kept \cup added |->
            IF id \in added
            THEN [definition |-> CHOOSE v \in ToSet(values) : v.id = id, scope |-> scope]
            ELSE exposed[id]]

Expose(kind, exposed) ==
    IF kind = "filters" THEN filters' = exposed /\ UNCHANGED sorts
    ELSE sorts' = exposed /\ UNCHANGED filters

NextSource == position' = position + 1 /\ next' = NoNext /\ phase' = "composing"

(* The source is of no use: nothing of it is exposed, and an issue says why*)
Discard(reason) ==
    /\ issues' = Append(issues, Issue(Source.scope, Source.of, Because(reason)))
    /\ NextSource
    /\ UNCHANGED <<filters, sorts>>

Add(values) ==
    LET exposed == Exposed(Source.of)
        conflicts == Conflicts(values, exposed)
    IN  IF Repeats(values) THEN Discard("repeats")
        ELSE IF Exceeds(values, exposed, Source.of) THEN Discard("exceeds")
        ELSE /\ Expose(Source.of, Composed(values, exposed, Source.scope))
             /\ issues' = IF conflicts = {} THEN issues
                          ELSE Append(issues, Issue(Source.scope, Source.of, Naming(conflicts)))
             /\ NextSource

TakeInline ==
    /\ phase = "composing"
    /\ position <= Len(sources)
    /\ Source.published.kind = "inline"
    /\ Add(Source.published.values)
    /\ UNCHANGED <<call, edition, taken>>

StartLinked ==
    /\ phase = "composing"
    /\ position <= Len(sources)
    /\ Source.published.kind = "linked"
    /\ next' = Source.published.href
    /\ phase' = "loading"
    /\ UNCHANGED <<call, edition, position, taken, result>>

-----------------------------------------------------------------------------
(* loadCapabilityPages: a page at a time, on the Service's origin only.    *)
PageParses(page) == (\A v \in ToSet(page.items) : v.valid) /\ ReferenceParses(page.next)

Visited(pages) == {pages[i].address : i \in DOMAIN pages}
TooManyPages(pages) == Len(pages) >= MaximumPages
Budget(kind) == MaximumOf[kind] - Cardinality(DOMAIN Exposed(kind))

(* Before it asks, it gives up on a source that has too many pages, leaves *)
(* the origin, or comes back to a page it has.                             *)
GiveUp ==
    LET why == IF TooManyPages(Pages) THEN "pages"
               ELSE IF ~ResolvesContinuation(next, setting.origin) THEN "origin" ELSE "loop"
    IN  /\ phase = "loading"
        /\ next # NoNext
        /\ \/ TooManyPages(Pages)
           \/ ~ResolvesContinuation(next, setting.origin)
           \/ Address(next) \in Visited(Pages)
        /\ Discard(why)
        /\ UNCHANGED <<call, edition, taken>>

(* And once it has asked, on one that cannot be had or cannot fit.         *)
LoadPage ==
    /\ phase = "loading"
    /\ next # NoNext
    /\ ~TooManyPages(Pages)
    /\ ResolvesContinuation(next, setting.origin)
    /\ Address(next) \notin Visited(Pages)
    /\ \E failed \in BOOLEAN :
          LET address == Address(next)
              answered == ~failed /\ address \in DOMAIN Publishes.pages
              page == IF answered THEN NormalPage(Source.of, Publishes.pages[address]) ELSE NoPage
              pages == Append(Pages, [address |-> address, items |-> page.items, next |-> page.next])
          IN  IF ~answered \/ ~PageParses(page)
              THEN Discard("retrieval") /\ UNCHANGED taken
              ELSE /\ taken' = [taken EXCEPT ![position] = pages]
                   /\ IF Len(Items(pages)) > Budget(Source.of) THEN Discard("exceeds")
                      ELSE next' = page.next /\ UNCHANGED <<phase, position, result>>
    /\ UNCHANGED <<call, edition>>

TakeLinked ==
    /\ phase = "loading"
    /\ next = NoNext
    /\ Add(Items(Pages))
    /\ UNCHANGED <<call, edition, taken>>

-----------------------------------------------------------------------------
(* In the end each sort is resolved against the filters, by identifier.    *)
Resolvable(sort) == \A k \in ToSet(sort.definition.keys) : k.filter \in DOMAIN filters
InOrder(ids) ==
    CHOOSE order \in [1..Cardinality(ids) -> ids] :
        \A i, j \in 1..Cardinality(ids) : i < j => order[i] < order[j]

Return ==
    LET whole == {id \in DOMAIN sorts : Resolvable(sorts[id])}
        missing == InOrder(DOMAIN sorts \ whole)
    IN  /\ phase = "composing"
        /\ position > Len(sources)
        /\ phase' = "returned"
        /\ sorts' = Restrict(sorts, whole)
        /\ issues' = issues \o [i \in DOMAIN missing |->
                                   Issue(sorts[missing[i]].scope, "sorts", Naming({missing[i]}))]
        /\ UNCHANGED <<call, edition, position, next, taken, filters>>

Next ==
    \/ Republish \/ AskForCollection \/ GetCollection \/ RequestFails \/ Inspect
    \/ TakeInline \/ StartLinked \/ GiveUp \/ LoadPage \/ TakeLinked \/ Return

Spec == Init /\ [][Next]_vars

-----------------------------------------------------------------------------
(* Type invariant: a source is asked for no more than it can be used for.  *)
TypeOK ==
    /\ edition \in DOMAIN setting.editions
    /\ phase \in {"getting", "fetching", "inspecting", "composing", "loading", "returned", "failed"}
    /\ position \in 1..(Len(sources) + 1)
    /\ DOMAIN taken = DOMAIN sources
    /\ \A i \in DOMAIN taken : Len(taken[i]) <= MaximumPages
    /\ \A kind \in Kinds : Cardinality(DOMAIN Exposed(kind)) <= MaximumOf[kind]
    /\ \A issue \in ToSet(issues) : issue.scope \in {"service", "collection"} /\ issue.kind \in Kinds

(* What is exposed, said of the sources as they were received.  A source is*)
(* atomic: it is usable when it was received to its end, with no page twice*)
(* and no identifier twice, and fits with the usable source before it.     *)
(* A filter is exposed when exactly one usable source publishes it, as that*)
(* source defines it; a sort when moreover all its filters are.  So a      *)
(* caller never searches by a definition the Service did not mean.  And    *)
(* nothing is left out in silence: an unusable source, a conflict and an   *)
(* unresolvable sort are each reported under the scope they came from.     *)
(* README of the agent: "Duplicate definitions and Sorts that reference    *)
(* unavailable Filters are omitted and reported".                          *)
ValuesOf(i) ==
    IF sources[i].published.kind = "inline" THEN sources[i].published.values ELSE Items(taken[i])
Received(i) ==
    sources[i].published.kind = "inline" \/
        (taken[i] # <<>> /\ Last(taken[i]).next = NoNext
            /\ Cardinality(Visited(taken[i])) = Len(taken[i]))
Whole(i) == Received(i) /\ ~Repeats(ValuesOf(i)) /\ Len(ValuesOf(i)) <= MaximumOf[sources[i].of]
Fits(i) ==
    \A j \in DOMAIN sources :
        j < i /\ sources[j].of = sources[i].of /\ Whole(j) =>
            Len(ValuesOf(j)) + Len(ValuesOf(i)) <= MaximumOf[sources[i].of]
UsableSources(kind) == {i \in DOMAIN sources : sources[i].of = kind /\ Whole(i) /\ Fits(i)}
Publishers(kind, id) == {i \in UsableSources(kind) : id \in Identifiers(ValuesOf(i))}
Published(kind) == UNION {Identifiers(ValuesOf(i)) : i \in UsableSources(kind)}
Unambiguous(kind) == {id \in Published(kind) : Cardinality(Publishers(kind, id)) = 1}
AsPublished(kind, id, entry) ==
    \E i \in Publishers(kind, id) :
        entry.definition \in ToSet(ValuesOf(i)) /\ entry.scope = sources[i].scope
ResolvedSorts ==
    {id \in Unambiguous("sorts") : \A v \in UNION {ToSet(ValuesOf(i)) : i \in Publishers("sorts", id)} :
        v.id = id => \A k \in ToSet(v.keys) : k.filter \in Unambiguous("filters")}

ExposedIsUnambiguous ==
    phase = "returned" =>
        /\ DOMAIN filters = Unambiguous("filters")
        /\ DOMAIN sorts = ResolvedSorts
        /\ \A kind \in Kinds : \A id \in DOMAIN Exposed(kind) :
               AsPublished(kind, id, Exposed(kind)[id])
        /\ \A i \in DOMAIN sources :
               i \in UsableSources(sources[i].of) \/
                   \E issue \in ToSet(issues) :
                       /\ issue.scope = sources[i].scope /\ issue.kind = sources[i].of
                       /\ "reason" \in DOMAIN issue.about
        /\ \A kind \in Kinds : Published(kind) \ Unambiguous(kind) # {} =>
               Issue("collection", kind, Naming(Published(kind) \ Unambiguous(kind))) \in ToSet(issues)
        /\ \A id \in Unambiguous("sorts") \ ResolvedSorts : \E i \in Publishers("sorts", id) :
               Issue(sources[i].scope, "sorts", Naming({id})) \in ToSet(issues)
=============================================================================
