--------------------------- MODULE AgentDocuments ---------------------------
(***************************************************************************)
(* What an Agent makes of a document a Service sent (validation.go): first *)
(* it is normalised, which leaves out what the SDK does not know, so that a*)
(* Service may speak a later vocabulary; what is left must pass the schema *)
(* of its kind, and what the schema leaves open.                           *)
(*                                                                         *)
(* Leaving something out can be what makes a document fail: an Offering    *)
(* keeps its attributes when its schema is left out, and is refused.       *)
(***************************************************************************)
EXTENDS Integers, FiniteSets, SequencesExt

CONSTANTS
    Loopback, MalformedIds,   \* see References
    MaximumActions,           \* Actions of an Offering
    MaximumInline             \* inline definitions, by kind: "filters", "sorts"

INSTANCE References

NoReference == [absent |-> "reference"]
NoTarget == [absent |-> "target"]
NoSource == [kind |-> "none"]
NoCapabilities == [absent |-> "search_capabilities"]

Authentications == {"not-required", "optional", "required"}
EnrollmentProtocols == {"aep"}
PriceTypes == {"fixed", "free", "metered", "quote", "range", "starting_at"}
ActionMethods == {"GET", "POST"}
FilterTypes == {"boolean", "date", "date-time", "decimal", "integer", "number", "string"}
FilterOperators == {"eq", "exists", "gt", "gte", "in", "lt", "lte"}
FilterUnits == {"none", "service", "ucum"}
Directions == {"ascending", "descending"}
MissingOrders == {"first", "last"}

(* resource-reference.schema.json.                                         *)
ReferenceParses(reference) ==
    reference = NoReference \/ (Spelled(reference) /\ ~reference.user /\ ~reference.fragment)

-----------------------------------------------------------------------------
(* Search capabilities: one source of filters and one of sorts at most,    *)
(* each inline or linked.                                                  *)
KnownFilter(filter) ==
    /\ filter.type \in FilterTypes
    /\ filter.operators \subseteq FilterOperators
    /\ filter.unit \in FilterUnits

KnownSort(sort) ==
    \A k \in ToSet(sort.keys) : k.direction \in Directions /\ k.missing \in MissingOrders

(* filterDefinitions: of a kind, filters or sorts, those the SDK knows, in *)
(* the order they came.                                                    *)
Kept(values, known) ==
    LET kept[n \in 0..Len(values)] ==
            IF n = 0 THEN <<>>
            ELSE IF values[n] \in known THEN Append(kept[n - 1], values[n])
            ELSE kept[n - 1]
    IN  kept[Len(values)]
Known(kind, values) ==
    Kept(values, {v \in ToSet(values) : IF kind = "filters" THEN KnownFilter(v) ELSE KnownSort(v)})
NormalPage(kind, page) == [page EXCEPT !.items = Known(kind, @)]

NormalSource(kind, source) ==
    LET kept == Known(kind, source.values)
    IN  IF source.kind # "inline" THEN source
        ELSE IF kept = <<>> THEN NoSource ELSE [source EXCEPT !.values = kept]

(* normalizeSearchCapabilities: a member the SDK does not know stays.      *)
NormalCapabilities(capabilities) ==
    LET filters == NormalSource("filters", capabilities.filters)
        sorts == NormalSource("sorts", capabilities.sorts)
    IN  IF capabilities = NoCapabilities \/ (filters = NoSource /\ sorts = NoSource
                                             /\ ~capabilities.unknownMember)
        THEN NoCapabilities
        ELSE [capabilities EXCEPT !.filters = filters, !.sorts = sorts]

SourceParses(source, maximum) ==
    CASE source.kind = "none" -> TRUE
      [] source.kind = "inline" ->
             Len(source.values) <= maximum /\ \A v \in ToSet(source.values) : v.valid
      [] source.kind = "linked" -> source.href # NoReference /\ ReferenceParses(source.href)

CapabilitiesParse(capabilities) ==
    \/ capabilities = NoCapabilities
    \/ /\ capabilities.filters # NoSource \/ capabilities.sorts # NoSource
       /\ SourceParses(capabilities.filters, MaximumInline.filters)
       /\ SourceParses(capabilities.sorts, MaximumInline.sorts)

-----------------------------------------------------------------------------
(* ParseAgentServiceDocument.                                              *)
KnownOperation(descriptor) ==
    /\ descriptor.name \in Operations
    /\ descriptor.authentication \in Authentications
    /\ ~descriptor.unknownMember

NormalDocument(document) ==
    [document EXCEPT
        !.operations = SelectSeq(@, KnownOperation),
        !.enrollment = SelectSeq(@, LAMBDA name : name \in EnrollmentProtocols),
        !.capabilities = NormalCapabilities(@)]

OperationNames(document) == {d.name : d \in ToSet(document.operations)}
Supports(document, operation) == operation \in OperationNames(document)

DocumentParses(document) ==
    /\ document.valid
    /\ {"get-offering", "list-offerings"} \subseteq OperationNames(document)
    /\ Len(document.operations) = Cardinality(OperationNames(document))
    /\ (\E d \in ToSet(document.operations) : d.authentication # "not-required") =>
           document.enrollment # <<>>
    /\ ReferenceParses(document.openapi)
    /\ CapabilitiesParse(document.capabilities)
    /\ document.capabilities # NoCapabilities => Supports(document, "search-offerings")

-----------------------------------------------------------------------------
(* parseAgentCollection, asked for in full by its identifier.              *)
NormalCollection(collection) ==
    [collection EXCEPT !.capabilities = NormalCapabilities(@)]

CollectionTaken(collection, id) ==
    /\ collection.valid
    /\ CapabilitiesParse(collection.capabilities)
    /\ ~collection.details
    /\ collection.id = id

-----------------------------------------------------------------------------
(* parseAgentOffering, asked for in full by its identifier.  unknownMember *)
(* is a member outside the vocabulary, anywhere in the Action.             *)
KnownAction(action) ==
    /\ action.authentication \in Authentications
    /\ ~action.unknownMember
    /\ action.http # NoTarget => action.http.method \in ActionMethods

NormalOffering(offering) ==
    [offering EXCEPT
        !.schema = IF offering.schemaUnknownMember THEN NoReference ELSE @,
        !.price = IF @ \in PriceTypes THEN @ ELSE "none",
        !.actions = SelectSeq(@, KnownAction)]

ActionParses(action) ==
    /\ (action.http = NoTarget) # (action.openapi = NoTarget)
    /\ action.http # NoTarget =>
           /\ action.http.href # NoReference /\ ReferenceParses(action.http.href)
           /\ ReferenceParses(action.http.schema)
    /\ action.openapi # NoTarget => ReferenceParses(action.openapi.url)

OfferingTaken(offering, id) ==
    /\ offering.valid
    /\ offering.attributes # "none" => offering.schema # NoReference
    /\ ReferenceParses(offering.schema)
    /\ Len(offering.actions) <= MaximumActions
    /\ \A a \in ToSet(offering.actions) : ActionParses(a)
    /\ ~offering.details
    /\ offering.id = id
=============================================================================
