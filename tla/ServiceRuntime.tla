--------------------------- MODULE ServiceRuntime ---------------------------
(***************************************************************************)
(* The Service runtime (service/service.go): what New makes of its options *)
(* and what the handler makes of a request, before and after the one       *)
(* catalog function it calls.  Reading gives that call, or the problem the *)
(* request is refused with; Answering gives the response for what the      *)
(* catalog function returned.  The runtime keeps no state between requests,*)
(* so these are operators; ServedCatalog takes the steps.                  *)
(***************************************************************************)
EXTENDS Integers, FiniteSets, SequencesExt

CONSTANTS
    Singletons, MaximumHeaderEntries,   \* see Negotiation
    Loopback, MalformedIds,             \* see References
    MaximumPageItems,                   \* maximumPageItems
    MaximumKeywords,                    \* the code points all keywords may have
    Limits                              \* bytes and depth: documents, resources, requests, next

INSTANCE Negotiation
INSTANCE References

NoNext == [rooted |-> FALSE]       \* the absent member next
NoCursor == [signed |-> "nobody"]   \* the absent parameter cursor
NoBody == [bytes |-> 0]             \* the absent body
NoEntityTag == [body |-> NoBody]    \* the absent header ETag
AnyEntityTag == [any |-> TRUE]      \* If-None-Match: *
MalformedCode == "malformed"
NoStore == "no-store"
Representations == {"terse", "full"}

(* requestError; an *Error whose header the runtime or the catalog chose.  *)
ProblemWith(status, code, header) ==
    [kind |-> "problem", status |-> status, code |-> code, header |-> header]
Problem(status, code) == ProblemWith(status, code, {})
Invalid == Problem(400, "INVALID_REQUEST")
NotFound == Problem(404, "NOT_FOUND")
(* Any other error: reported to OnError, answered as a generic failure.    *)
Unexpected == [kind |-> "unexpected"]

(* The first check that fails gives the outcome, or else the last value.   *)
FirstOf(checks, otherwise) ==
    LET failed == {i \in DOMAIN checks : checks[i][1]}
    IN  IF failed = {} THEN otherwise ELSE checks[Min(failed)][2]

-----------------------------------------------------------------------------
(* Mutants: the definitions below as a plausible slip would have them.     *)
TagOfTheBody(language, body) == [language |-> NoTag, body |-> body]
ContinuationOfAnyOrigin(next, r) ==
    \/ next = NoNext
    \/ next.length <= Limits.next /\ next.printable /\ next.location # r.location
VaryByAcceptAlone(authenticated) == {"Accept"}
ProblemAsGiven(p) ==
    [kind |-> "response", status |-> p.status, body |-> NoBody, code |-> p.code,
     language |-> NoTag, tag |-> NoEntityTag, vary |-> {}, cache |-> NoStore,
     header |-> p.header]

-----------------------------------------------------------------------------
(* serviceDocumentIssues, what the schema of a Service Document leaves open*)
(* (tags are folded, so equal ones differ in case at most), and the one    *)
(* thing the schema asks of the runtime's own part: who may authenticate   *)
(* must be told how to enrol.                                              *)
DocumentIssues(document, operations) ==
    \/ ~document.valid    \* a tag is no language tag, or it has an id or a web_url
    \/ document.language \notin ToSet(document.localizations)
    \/ ~IsInjective(document.localizations)
    \/ document.keywords > MaximumKeywords
    \/ document.searchCapabilities /\ "search-offerings" \notin operations

(* New: the operations are those the catalog has functions for.            *)
Required == {"get-offering", "list-offerings"}
Advertised(options) == options.handlers
AuthenticationOf(options) ==
    [operation \in Advertised(options) |->
        IF operation \in DOMAIN options.authentication
        THEN options.authentication[operation] ELSE "not-required"]

CanServe(options) ==
    /\ Required \subseteq options.handlers
    /\ DOMAIN options.authentication \subseteq Advertised(options)
    /\ ~DocumentIssues(options.document, Advertised(options))
    /\ (\E o \in Advertised(options) : AuthenticationOf(options)[o] # "not-required") =>
           options.document.enrollment
    /\ options.document.bytes <= Limits.document.bytes
    /\ options.document.depth <= Limits.document.depth

New(options) ==
    [operations |-> Advertised(options), authentication |-> AuthenticationOf(options),
     document |-> options.document]

-----------------------------------------------------------------------------
(* Routing: the path as it arrived, under the endpoint base.  The segments *)
(* search and offerings are read before an identifier is.                  *)
Call(operation, id) == [kind |-> "call", operation |-> operation, id |-> id]
WellKnown == <<"well-known">>
UnderBase(path) == <<"base">> \o path

(* identifier; resourceID and collectionOfferingID hold one segment.       *)
Identified(operation, id) ==
    IF id = "" THEN NotFound
    ELSE IF IsLocalResourceIdentifier(id) THEN Call(operation, id) ELSE Invalid

Route(path) ==
    LET under == Tail(path)
    IN  IF path = <<>> \/ Head(path) # "base" THEN NotFound
        ELSE IF under \in {OperationPath(o, NoId) : o \in Operations \ {p \in Operations : TakesId(p)}}
        THEN Call(CHOOSE o \in Operations : ~TakesId(o) /\ OperationPath(o, NoId) = under, NoId)
        ELSE CASE Len(under) = 2 /\ under[1] = "offerings" -> Identified("get-offering", under[2])
               [] Len(under) = 3 /\ under[1] = "collections" /\ under[3] = "offerings" ->
                      Identified("list-collection-offerings", under[2])
               [] Len(under) = 2 /\ under[1] = "collections" ->
                      Identified("get-collection", under[2])
               [] OTHER -> NotFound

(* HEAD is answered as the GET it is.                                      *)
Method(r) == IF r.method = "HEAD" THEN "GET" ELSE r.method

(* requireMethod.                                                          *)
Takes(operation, method) ==
    method = "GET" \/ (method = "POST" /\ operation \in SearchOperations)
MethodNotAllowed == ProblemWith(405, "METHOD_NOT_ALLOWED", {"Allow"})

(* A query parameter is the sequence of its values.                        *)
ValueOf(values, otherwise) == IF values = <<>> THEN otherwise ELSE Head(values)

DefaultRepresentation(operation) == IF operation \in GetOperations THEN "full" ELSE "terse"

(* queryLimit: a POST search carries its limit in the body.                *)
LimitRefused(r) ==
    LET values == r.location.query.limit
    IN  IF Method(r) = "POST" THEN values # <<>>
        ELSE Len(values) > 1 \/ (values # <<>> /\ Head(values) \notin 1..MaximumPageItems)

(* catalogRequest.                                                         *)
RequestRefused(r) ==
    LET query == r.location.query
    IN  \/ Len(query.representation) > 1
        \/ query.representation # <<>> /\ Head(query.representation) \notin Representations
        \/ LimitRefused(r)
        \/ Len(query.cursor) > 1

CatalogRequest(s, r, operation) ==
    [cursor |-> ValueOf(r.location.query.cursor, NoCursor),
     language |-> SelectLanguage(r.languages, s.document.language, s.document.localizations),
     limit |-> ValueOf(r.location.query.limit, 0),
     representation |-> ValueOf(r.location.query.representation, DefaultRepresentation(operation))]

(* readRequestBody and the parse of the search request.                    *)
BodyProblem(r) ==
    FirstOf(<< <<~r.typed, Problem(415, "UNSUPPORTED_MEDIA_TYPE")>>,
               <<r.body.bytes > Limits.request.bytes, Problem(413, "REQUEST_TOO_LARGE")>>,
               <<~r.body.text, Invalid>>,
               <<r.body.depth > Limits.request.depth, Invalid>>,
               <<~r.body.valid, Invalid>> >>, NoBody)

(* What a handler hands the catalog function.                              *)
CatalogCall(call, input, query, requested) ==
    [kind |-> "call", operation |-> call.operation, id |-> call.id,
     input |-> input, query |-> query, requested |-> requested]

(* The search handlers: a POST carries the search and may carry a limit, a *)
(* GET continues one and must carry a cursor.                              *)
Searching(s, r, call) ==
    LET input == CatalogRequest(s, r, call.operation)
        posted == r.body.limit
    IN  IF Method(r) = "GET"
        THEN IF input.cursor = NoCursor THEN Invalid
             ELSE CatalogCall(call, input, NoBody, {})
        ELSE IF BodyProblem(r) # NoBody THEN BodyProblem(r)
        ELSE CatalogCall(call, IF posted = 0 THEN input ELSE [input EXCEPT !.limit = posted],
                         r.body, r.body.refinements)

(* serve, up to the catalog function: Accept, the route, whether the       *)
(* operation is advertised, its method, its query, its body.               *)
Reading(s, r) ==
    LET call == Route(r.location.path)
    IN  IF ~AcceptsODP(r.accept) THEN Problem(406, "NOT_ACCEPTABLE")
        ELSE IF r.location.path = WellKnown
        THEN IF Method(r) # "GET" THEN MethodNotAllowed ELSE [kind |-> "document"]
        ELSE IF call.kind = "problem" THEN call
        ELSE FirstOf(<< <<call.operation \notin s.operations, NotFound>>,
                        <<~Takes(call.operation, Method(r)), MethodNotAllowed>>,
                        <<RequestRefused(r), Invalid>> >>,
                     IF call.operation \in SearchOperations THEN Searching(s, r, call)
                     ELSE CatalogCall(call, CatalogRequest(s, r, call.operation), NoBody, {}))

-----------------------------------------------------------------------------
(* validateOffering and validateCollection; a Collection has no Actions.   *)
ValidItem(item, representation) ==
    /\ item.valid
    /\ representation = "terse" => item.actions = <<>>
    /\ IsInjective(item.actions)
    /\ representation = "full" => ~item.details

ValidItems(items, representation) ==
    /\ Len(items) <= MaximumPageItems
    /\ \A item \in ToSet(items) : ValidItem(item, representation)

(* currentURL, with sameAuthority, and requireContinuation.                *)
CurrentURL(r) == [scheme |-> r.wire, host |-> r.host]

ContinuationAllowed(next, r) ==
    \/ next = NoNext
    \/ LET resolved == Resolve(next, CurrentURL(r))
       IN  /\ next.length <= Limits.next
           /\ next.printable
           /\ ~resolved.user
           /\ resolved.host = r.host
           /\ resolved.scheme \in {"https", r.wire}
           /\ resolved.location # r.location

(* requireRefinements: only asked for, once each, never on a continuation. *)
RefinementsAllowed(groups, input, requested) ==
    \/ groups = <<>>
    \/ /\ input.cursor = NoCursor
       /\ ToSet(groups) \subseteq requested
       /\ IsInjective(groups)

(* The schemas of a page: next is a resource reference, and only an        *)
(* Offering search has refinements at all.                                 *)
PageParses(page) ==
    page.next = NoNext \/ (Spelled(page.next) /\ ~page.next.user /\ ~page.next.fragment)

(* offeringPage, collectionPage, offeringSearchPage.                       *)
ValidPage(page, call, r) ==
    /\ ValidItems(page.items, call.input.representation)
    /\ ContinuationAllowed(page.next, r)
    /\ call.operation = "search-offerings" =>
           RefinementsAllowed(page.refinements, call.input, call.requested)
    /\ PageParses(page)

-----------------------------------------------------------------------------
(* entityTag: a digest of the language and the bytes.                      *)
EntityTag(language, body) == [language |-> language, body |-> body]

(* matchesEntityTag: a listed tag, weak or strong, or *.                   *)
Matches(conditions, tag) == AnyEntityTag \in conditions \/ tag \in conditions

(* What a representation varies by, when it may be caller-specific.        *)
Vary(authenticated) ==
    {"Accept", "Accept-Language"} \cup (IF authenticated THEN {"Authorization"} ELSE {})

(* respond: over-limit documents fail here; a matched If-None-Match is 304 *)
(* for GET and HEAD and 412 for POST.                                      *)
Respond(body, limits, language, authentication, r) ==
    LET tag == EntityTag(language, body)
        matched == Matches(r.conditions, tag)
        authenticated == body.authExpands \/ authentication \in {"optional", "required"}
    IN  FirstOf(<< <<body.bytes > limits.bytes \/ body.depth > limits.depth, Unexpected>>,
                   <<matched /\ Method(r) # "GET", Problem(412, "PRECONDITION_FAILED")>> >>,
                [kind |-> "response", status |-> IF matched THEN 304 ELSE 200,
                 body |-> IF matched THEN NoBody ELSE body,
                 language |-> language, tag |-> tag, header |-> {},
                 vary |-> Vary(authenticated),
                 cache |-> IF authenticated THEN "private" ELSE "unstated"])

(* The document is served in its default language, whatever was asked.     *)
ServeDocument(s, r) ==
    Respond(s.document, Limits.document, s.document.language, "not-required", r)

(* What is made of the catalog's answer: a page, a resource, none, or an   *)
(* error of its own.                                                       *)
Answering(s, r, call, answer) ==
    LET language(declared) ==
            RepresentationLanguage(declared, call.input.language, s.document.language)
        serve(body, declared) ==
            Respond(body, Limits.resource, language(declared),
                    s.authentication[call.operation], r)
    IN  CASE answer.kind \in {"problem", "unexpected"} -> answer
          [] answer.kind = "absent" -> NotFound
          [] answer.kind = "page" ->
                 IF ValidPage(answer.page, call, r) THEN serve(answer.page, NoTag) ELSE Unexpected
          [] answer.kind = "resource" ->
                 IF /\ ValidItem(answer.resource.item, call.input.representation)
                    /\ answer.resource.item.id = call.id
                 THEN serve(answer.resource, answer.resource.item.language) ELSE Unexpected

-----------------------------------------------------------------------------
(* writeProblem: a status that is no failure, or a code outside the grammar*)
(* is replaced, and the headers chosen for it are not sent.                *)
WriteProblem(p) ==
    LET describable == p.status \in 400..599
        status == IF describable THEN p.status ELSE 500
        code == IF describable /\ p.code # MalformedCode THEN p.code ELSE "INTERNAL_ERROR"
        kept == IF status = p.status /\ code = p.code THEN p.header ELSE {}
    IN  [kind |-> "response", status |-> status, body |-> NoBody, code |-> code,
         language |-> NoTag, tag |-> NoEntityTag, vary |-> {}, cache |-> NoStore,
         header |-> kept \cup (IF status \in {429, 503} THEN {"Retry-After"} ELSE {})]

(* ServeHTTP: every failure becomes a problem.                             *)
ServeHTTP(outcome) ==
    CASE outcome.kind = "problem" -> WriteProblem(outcome)
      [] outcome.kind = "unexpected" -> WriteProblem(Problem(500, "INTERNAL_ERROR"))
      [] OTHER -> outcome
=============================================================================
