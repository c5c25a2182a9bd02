-------------------------- MODULE OfferingDetails --------------------------
(***************************************************************************)
(* GetOfferingDetails and ResolveAction (agent/offerings.go): an inspection*)
(* and an Offering, its Actions made usable, and the schemas and OpenAPI   *)
(* documents they link to, whose servers owe the Service nothing.  A schema*)
(* is a graph: resolveSchema (agent/schemas.go) walks it depth first, one  *)
(* document at a time, in the order of the URLs, within limits.            *)
(*                                                                         *)
(* supportingJSON is AgentTransport's; here it comes to the document a URL *)
(* serves, or a failure at any time.  A reference within one schema        *)
(* document never leaves it and is left out.                               *)
(***************************************************************************)
EXTENDS Integers, FiniteSets, SequencesExt

CONSTANTS
    Cases,               \* what is run: [document, origin, offering, published, call]
    MaximumDocuments,    \* maximumAttributeDocuments
    MaximumLevels,       \* maximumAttributeDepth
    MaximumGraphBytes,   \* maximumAttributeGraphSize
    Loopback, MalformedIds, MaximumActions, MaximumInline   \* see AgentDocuments

INSTANCE AgentDocuments

ASSUME LimitsAssumption ==
    MaximumDocuments \in Nat \ {0} /\ {MaximumLevels, MaximumGraphBytes} \subseteq Nat

VARIABLES
    setting,   \* the case run
    phase,     \* where the call is
    document,  \* the inspection's Service Document
    details,   \* what GetOfferingDetails returns: [actions, issues, schema, attributes]
    graph,     \* the graph being walked: [purpose, root, stack, loaded, requested, bytes, outcome]
    resolved   \* what ResolveAction returns

vars == <<setting, phase, document, details, graph, resolved>>

NoDocument == [operations |-> <<>>]
NoSchema == [absent |-> "schema"]
NoAction == "no action"
NoResolution == [kind |-> "none"]
NoGraph == [outcome |-> "none"]
NoDetails == [actions |-> <<>>, issues |-> <<>>, schema |-> NoSchema, attributes |-> "none"]

AttributesRefused == "Offering attributes do not match their Attribute Schema"
Issue(scope, about) == [scope |-> scope, about |-> about]

(* The first check that fails, or "none".                                  *)
FirstFailed(checks) ==
    LET failed == SelectSeq(checks, LAMBDA check : check[1])
    IN  IF failed = <<>> THEN "none" ELSE Head(failed)[2]

-----------------------------------------------------------------------------
(* URLs.  resolveHTTPReference asks for a scheme and a host, which any     *)
(* reference that parsed comes to; resolveHTTPSReference for https.        *)
Url(reference, base) ==
    LET r == Resolve(reference, base)
    IN  [scheme |-> r.scheme, host |-> r.host, location |-> r.location]
ResolvesHTTP(reference) ==
    LET u == Url(reference, setting.origin) IN u.scheme \in {"http", "https"} /\ u.host # ""
ResolvesHTTPS(reference) ==
    ResolvesHTTP(reference) /\ Url(reference, setting.origin).scheme = "https"
Precedes(u, v) == u.location < v.location

(* What a URL serves to supportingJSON: nothing that may be used, when     *)
(* served is FALSE.                                                        *)
Nothing == [served |-> FALSE]
Served(url) == IF url \in DOMAIN setting.published THEN setting.published[url] ELSE Nothing

-----------------------------------------------------------------------------
(* Mutants: the definitions below as a plausible slip would have them.     *)
LevelsUnchecked(level) == FALSE
LastOfItsId(actions, i) == \A j \in DOMAIN actions : actions[j].id = actions[i].id => j <= i
ShownAnyway(failed, attributes) == attributes

-----------------------------------------------------------------------------
(* normalizeActions: an identifier given twice is no use to anyone, and is *)
(* reported once; an Action whose target does not resolve is reported.     *)
IsOnly(actions, i) == \A j \in DOMAIN actions : actions[j].id = actions[i].id => j = i
IsFirst(actions, i) == \A j \in 1..(i - 1) : actions[j].id # actions[i].id

OpenAPIOf(action) ==
    IF action.openapi.url = NoReference THEN document.openapi ELSE action.openapi.url
TargetOf(action) == IF action.http # NoTarget THEN action.http.href ELSE OpenAPIOf(action)
Usable(action) ==
    /\ TargetOf(action) # NoReference
    /\ IF action.http # NoTarget THEN ResolvesHTTP(TargetOf(action))
       ELSE ResolvesHTTPS(TargetOf(action))

Discovered(action) == [id |-> action.id, of |-> action,
                       url |-> Url(TargetOf(action), setting.origin)]
Chosen(actions, indices) ==
    LET order == SetToSortSeq(indices, <)
    IN  [k \in DOMAIN order |-> actions[order[k]]]

NormalizeActions(actions) ==
    LET usable == {i \in DOMAIN actions : IsOnly(actions, i) /\ Usable(actions[i])}
        reported == {i \in DOMAIN actions : IF IsOnly(actions, i) THEN ~Usable(actions[i])
                                            ELSE IsFirst(actions, i)}
        chosen == Chosen(actions, usable)
        refused == Chosen(actions, reported)
    IN  [actions |-> [k \in DOMAIN chosen |-> Discovered(chosen[k])],
         issues |-> [k \in DOMAIN refused |-> Issue("action", refused[k].id)]]

-----------------------------------------------------------------------------
(* A schema document is made of resources, each with references; $id       *)
(* renames a resource, and is what its references are relative to.  What a *)
(* document calls itself need not be fetched.                              *)
BaseOf(part, url) == IF part.id = NoReference THEN url ELSE Url(part.id, url)
LocalUrls(schema, url) == {url} \cup {BaseOf(part, url) : part \in schema.resources}
Targets(schema, url) ==
    UNION {{Url(r, BaseOf(part, url)) : r \in part.references} : part \in schema.resources}
SchemaReferences(schema, url) == Targets(schema, url) \ LocalUrls(schema, url)

TooDeep(level) == level > MaximumLevels

(* load, for one URL that is not loaded: what is wrong with it, in order.  *)
Fault(url, level, failed) ==
    LET body == Served(url)
        limits == FirstFailed(<< <<Len(graph.loaded) >= MaximumDocuments, "documents">>,
                                 <<TooDeep(level), "levels">>,
                                 <<failed \/ ~body.served, "retrieval">> >>)
    IN  IF limits # "none" THEN limits
        ELSE FirstFailed(<< <<~body.dialect, "dialect">>,
                            <<~body.fragmentOnly, "dynamicRef">>,
                            <<graph.bytes + body.bytes > MaximumGraphBytes, "bytes">>,
                            <<~body.vocabularies, "vocabulary">>,
                            <<\E u \in LocalUrls(body, url) \cup Targets(body, url) :
                                  u.scheme # "https" \/ u.host = "", "reference">> >>)

Entries(urls, level) ==
    [i \in DOMAIN SetToSortSeq(urls, Precedes) |->
        [url |-> SetToSortSeq(urls, Precedes)[i], level |-> level]]

GraphFrom(purpose, root) ==
    [purpose |-> purpose, root |-> root, stack |-> <<[url |-> root, level |-> 0]>>,
     loaded |-> <<>>, requested |-> <<>>, bytes |-> 0, outcome |-> "walking"]

(* The bundle: the root, and the others under its $defs, each known by what*)
(* it calls itself, or else by its URL.  It compiles when every reference  *)
(* is to something in it, nothing is called the same, and it is a schema.  *)
NamesIn(url) ==
    {BaseOf(part, url) : part \in Served(url).resources}
    \cup (IF url = graph.root THEN {url} ELSE {})
Compiles(loaded) ==
    /\ \A u \in loaded : Served(u).compiles
    /\ \A u \in loaded : Targets(Served(u), u) \subseteq UNION {NamesIn(v) : v \in loaded}
    /\ \A u, v \in loaded : u # v => NamesIn(u) \cap NamesIn(v) = {}

-----------------------------------------------------------------------------
Init ==
    /\ setting \in Cases
    /\ phase = "inspecting"
    /\ document = NoDocument /\ details = NoDetails
    /\ graph = NoGraph /\ resolved = NoResolution

(* Anything the call has yet to ask the Service for may fail.              *)
CallFails ==
    /\ phase \in {"inspecting", "reading"}
    /\ phase' = "failed"
    /\ UNCHANGED <<setting, document, details, graph, resolved>>

Inspect ==
    LET normal == NormalDocument(setting.document) IN
    /\ phase = "inspecting"
    /\ IF DocumentParses(normal) THEN phase' = "reading" /\ document' = normal
       ELSE phase' = "failed" /\ UNCHANGED document
    /\ UNCHANGED <<setting, details, graph, resolved>>

(* getWithInspection, then GetOfferingDetails up to the schema it needs.   *)
GetOffering ==
    LET offering == NormalOffering(setting.offering)
        taken == /\ Supports(document, "get-offering")
                 /\ IsLocalResourceIdentifier(setting.call.id)
                 /\ OfferingTaken(offering, setting.call.id)
        normal == NormalizeActions(offering.actions)
        refused == normal.issues \o <<Issue("attribute-schema", "https")>>
        plain == [NoDetails EXCEPT !.actions = normal.actions, !.issues = normal.issues,
                                   !.attributes = offering.attributes]
    IN  /\ phase = "reading"
        /\ IF ~taken THEN phase' = "failed" /\ UNCHANGED <<details, graph>>
           ELSE IF offering.schema = NoReference
           THEN phase' = "detailed" /\ details' = plain /\ UNCHANGED graph
           ELSE IF ~ResolvesHTTPS(offering.schema)
           THEN /\ phase' = "detailed" /\ UNCHANGED graph
                /\ details' = [plain EXCEPT !.attributes = "none", !.issues = refused]
           ELSE /\ phase' = "walking" /\ details' = plain
                /\ graph' = GraphFrom("attributes", Url(offering.schema, setting.origin))
        /\ UNCHANGED <<setting, document, resolved>>

-----------------------------------------------------------------------------
(* One turn of load.                                                       *)
Skip ==
    /\ phase = "walking"
    /\ graph.stack # <<>>
    /\ Head(graph.stack).url \in ToSet(graph.loaded)
    /\ graph' = [graph EXCEPT !.stack = Tail(@)]
    /\ UNCHANGED <<setting, phase, document, details, resolved>>

Asked(fault, url) ==
    IF fault \in {"documents", "levels"} THEN graph.requested ELSE Append(graph.requested, url)

Load ==
    /\ phase = "walking"
    /\ graph.stack # <<>>
    /\ Head(graph.stack).url \notin ToSet(graph.loaded)
    /\ \E failed \in BOOLEAN :
          LET url == Head(graph.stack).url
              level == Head(graph.stack).level
              fault == Fault(url, level, failed)
              next == Entries(SchemaReferences(Served(url), url), level + 1)
          IN  IF fault # "none"
              THEN /\ graph' = [graph EXCEPT !.outcome = fault, !.requested = Asked(fault, url)]
                   /\ phase' = "walked"
              ELSE /\ graph' = [graph EXCEPT
                                   !.stack = next \o Tail(@),
                                   !.loaded = Append(@, url), !.requested = Append(@, url),
                                   !.bytes = @ + Served(url).bytes]
                   /\ UNCHANGED phase
    /\ UNCHANGED <<setting, document, details, resolved>>

Compile ==
    /\ phase = "walking"
    /\ graph.stack = <<>>
    /\ phase' = "walked"
    /\ graph' = [graph EXCEPT
                    !.outcome = IF Compiles(ToSet(graph.loaded)) THEN "accepted" ELSE "compile"]
    /\ UNCHANGED <<setting, document, details, resolved>>

(* GetOfferingDetails takes the schema, and judges the attributes by it.   *)
Withheld(failed, attributes) == IF failed THEN "none" ELSE attributes

TakeAttributeSchema ==
    LET accepted == graph.outcome = "accepted"
        mismatched == accepted /\ details.attributes = "mismatched"
        problem == IF mismatched THEN Issue("attributes", AttributesRefused)
                   ELSE Issue("attribute-schema", graph.outcome)
    IN  /\ phase = "walked"
        /\ graph.purpose = "attributes"
        /\ details' = [details EXCEPT
                          !.schema = IF accepted THEN [bundled |-> graph.loaded] ELSE @,
                          !.attributes = Withheld(~accepted \/ mismatched, @),
                          !.issues = IF accepted /\ ~mismatched THEN @ ELSE Append(@, problem)]
        /\ phase' = "detailed"
        /\ UNCHANGED <<setting, document, graph, resolved>>

-----------------------------------------------------------------------------
(* ResolveAction, when that is what was called.                            *)
Resolving == phase = "detailed" /\ setting.call.action # NoAction
Wanted == SelectSeq(details.actions, LAMBDA a : a.id = setting.call.action)
Resolution(kind) == [kind |-> kind, action |-> Head(Wanted)]

Return ==
    /\ phase = "detailed"
    /\ setting.call.action = NoAction
    /\ phase' = "returned"
    /\ UNCHANGED <<setting, document, details, graph, resolved>>

ResolveNothing ==
    /\ Resolving
    /\ Wanted = <<>>
    /\ phase' = "failed"
    /\ UNCHANGED <<setting, document, details, graph, resolved>>

ResolveHTTP ==
    LET schema == Head(Wanted).of.http.schema IN
    /\ Resolving
    /\ Wanted # <<>>
    /\ Head(Wanted).of.http # NoTarget
    /\ IF schema = NoReference
       THEN phase' = "returned" /\ resolved' = Resolution("http") /\ UNCHANGED graph
       ELSE IF ~ResolvesHTTPS(schema)
       THEN phase' = "failed" /\ UNCHANGED <<resolved, graph>>
       ELSE /\ phase' = "walking" /\ UNCHANGED resolved
            /\ graph' = GraphFrom("request", Url(schema, setting.origin))
    /\ UNCHANGED <<setting, document, details>>

TakeRequestSchema ==
    /\ phase = "walked"
    /\ graph.purpose = "request"
    /\ IF graph.outcome = "accepted"
       THEN phase' = "returned" /\ resolved' = Resolution("http")
       ELSE phase' = "failed" /\ UNCHANGED resolved
    /\ UNCHANGED <<setting, document, details, graph>>

(* resolveOpenAPI: an OpenAPI 3.1 document with exactly one such operation,*)
(* over every method of every path.                                        *)
Matches(api, operation) == {o \in api.operations : o.id = operation}
OpenAPIUsable(api, operation) ==
    api.served /\ api.version /\ api.valid /\ Cardinality(Matches(api, operation)) = 1

ResolveOpenAPI ==
    /\ Resolving
    /\ Wanted # <<>>
    /\ Head(Wanted).of.http = NoTarget
    /\ \E failed \in BOOLEAN :
          LET action == Head(Wanted) IN
          IF ~failed /\ OpenAPIUsable(Served(action.url), action.of.openapi.operation)
          THEN phase' = "returned" /\ resolved' = Resolution("openapi")
          ELSE phase' = "failed" /\ UNCHANGED resolved
    /\ UNCHANGED <<setting, document, details, graph>>

Next ==
    \/ CallFails \/ Inspect \/ GetOffering
    \/ Skip \/ Load \/ Compile \/ TakeAttributeSchema
    \/ Return \/ ResolveNothing \/ ResolveHTTP \/ TakeRequestSchema \/ ResolveOpenAPI

Spec == Init /\ [][Next]_vars

-----------------------------------------------------------------------------
(* Type invariant: where a walk is, and what it holds, stay within limits. *)
Outcomes == {"walking", "accepted", "documents", "levels", "retrieval", "dialect", "dynamicRef",
             "bytes", "vocabulary", "reference", "compile"}
TypeOK ==
    /\ phase \in {"inspecting", "reading", "walking", "walked", "detailed", "returned", "failed"}
    /\ document \in {NoDocument, NormalDocument(setting.document)}
    /\ details.attributes \in {"none", "matching", "mismatched"}
    /\ phase \in {"walking", "walked"} =>
           /\ graph.purpose \in {"attributes", "request"}
           /\ graph.outcome \in Outcomes
           /\ \A e \in ToSet(graph.stack) : e.level \in 0..(MaximumLevels + 1)
           /\ Len(graph.loaded) <= MaximumDocuments
           /\ graph.bytes <= MaximumGraphBytes
    /\ resolved.kind \in {"none", "http", "openapi"}

(* The walk keeps no account of paths; what it must come to is about them. *)
(* A graph is accepted whole: every document it refers to is loaded, within*)
(* the limits, at most the allowed number of references from the root.  It *)
(* is refused for its levels only when references lead on that long without*)
(* turning back, and for its number only when it has that many documents.  *)
(* No document is asked for twice, and none that nothing refers to.        *)
(* README of the agent: "16 documents, eight reference levels, and one MiB *)
(* for the complete graph".                                                *)
Loaded == ToSet(graph.loaded)
Edges(u) == Targets(Served(u), u) \ LocalUrls(Served(u), u)
Within ==
    LET within[n \in 0..MaximumLevels] ==
            IF n = 0 THEN {graph.root}
            ELSE within[n - 1] \cup UNION {Edges(u) : u \in within[n - 1] \cap Loaded}
    IN  within[MaximumLevels]
LongChains ==
    LET chains[n \in 0..(MaximumLevels + 1)] ==
            IF n = 0 THEN {<<graph.root>>}
            ELSE UNION {{Append(c, v) : v \in Edges(Last(c)) \ ToSet(c)} :
                        c \in {d \in chains[n - 1] : Last(d) \in Loaded}}
    IN  chains[MaximumLevels + 1]

GraphJudgedRight ==
    /\ IsInjective(graph.requested)
    /\ ToSet(graph.requested) \subseteq {graph.root} \cup UNION {Edges(u) : u \in Loaded}
    /\ graph.outcome = "accepted" =>
           /\ \A u \in Loaded : Edges(u) \subseteq Loaded
           /\ Cardinality(Loaded) <= MaximumDocuments
           /\ Loaded \subseteq Within
           /\ FoldSet(LAMBDA u, sum : sum + Served(u).bytes, 0, Loaded) <= MaximumGraphBytes
    /\ graph.outcome = "levels" => LongChains # {}
    /\ graph.outcome = "documents" =>
           Cardinality(Loaded \cup UNION {Edges(u) : u \in Loaded}) > MaximumDocuments

(* Attributes are shown only when the whole graph of their schema was      *)
(* accepted and they match it; otherwise they are withheld, and an issue   *)
(* says which of the two went wrong.  The Offering stays available.        *)
DetailsAreValidated ==
    /\ graph # NoGraph => GraphJudgedRight
    /\ phase \in {"detailed", "returned"} =>
           LET offering == NormalOffering(setting.offering)
               told(scope) == \E i \in ToSet(details.issues) : i.scope = scope
           IN  /\ details.attributes # "none" =>
                      details.schema # NoSchema /\ offering.attributes = "matching"
               /\ details.schema # NoSchema <=>
                      offering.schema # NoReference /\ ~told("attribute-schema")
               /\ offering.attributes # "none" /\ details.attributes = "none" =>
                      told("attribute-schema") \/ told("attributes")
               /\ told("attributes") => offering.attributes = "mismatched"

(* Every Action of the Offering the Agent parsed is accounted for: it is   *)
(* discovered, under an identifier no other Action has and with the target *)
(* it states or the Service's OpenAPI document, or one issue names it.     *)
(* README of the agent: "unusable Actions are omitted from the             *)
(* corresponding enriched fields and reported".  What ResolveAction returns*)
(* is one of the discovered, its schema accepted or its operation unique.  *)
HasOwnTarget(found) ==
    LET stated == IF found.of.http # NoTarget THEN found.of.http.href ELSE found.of.openapi.url
    IN  /\ found.url = Url(IF stated = NoReference THEN setting.document.openapi ELSE stated,
                           setting.origin)
        /\ found.of.http = NoTarget => found.url.scheme = "https"

ResolvedIsDiscovered ==
    LET action == resolved.action.of IN
    /\ resolved.action \in ToSet(details.actions) /\ action.id = setting.call.action
    /\ resolved.kind = "http" => action.http # NoTarget
    /\ resolved.kind = "http" /\ action.http.schema # NoReference =>
           graph.purpose = "request" /\ graph.outcome = "accepted"
    /\ resolved.kind = "openapi" =>
           \E o \in Served(resolved.action.url).operations :
              Matches(Served(resolved.action.url), action.openapi.operation) = {o}

EveryActionAccountedFor ==
    phase \in {"walking", "walked", "detailed", "returned"} =>
        LET offered == NormalOffering(setting.offering).actions
            identifiers == {a.id : a \in ToSet(offered)}
            issues == SelectSeq(details.issues, LAMBDA i : i.scope = "action")
        IN  /\ \A id \in identifiers :
                   LET given == SelectSeq(offered, LAMBDA a : a.id = id)
                       found == SelectSeq(details.actions, LAMBDA a : a.id = id)
                       told == SelectSeq(issues, LAMBDA i : i.about = id)
                   IN  /\ Len(found) + Len(told) = 1
                       /\ found # <<>> => /\ given = <<found[1].of>>
                                          /\ HasOwnTarget(found[1])
            /\ {a.id : a \in ToSet(details.actions)} \cup {i.about : i \in ToSet(issues)}
                   = identifiers
            /\ resolved # NoResolution => ResolvedIsDiscovered
=============================================================================
