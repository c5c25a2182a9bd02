--------------------------- MODULE ServedCatalog ---------------------------
(***************************************************************************)
(* A Service at work: the runtime (ServiceRuntime) over a catalog, either  *)
(* the static one (StaticCatalog) or an application's, which answers with  *)
(* whatever its functions return, and one Agent that asks, confirms what it*)
(* holds by its entity tag, and follows continuations.  Time passes, and   *)
(* the process restarts, with its key or a new one, perhaps over another   *)
(* list; what it was answering is then lost.                               *)
(*                                                                         *)
(* The Agent may speak another language on the way, and alter the limit or *)
(* the representation in a continuation it was given.                      *)
(***************************************************************************)
EXTENDS Integers, FiniteSets, SequencesExt

CONSTANTS
    Cases,        \* what is run: [options, catalog, requests]
    Answers,      \* what an application's functions may return, by operation
    Lists,        \* the lists of Offerings a restarted process may publish
    Headers,      \* what the Agent may send later: [accept, languages, authorization]
    Alterations,  \* what the Agent may make of a query: [limit, representation]
    MaxTime, MaxRestarts, MaxConfirms,   \* bounds: clock, restarts, confirmations
    \* see the modules instantiated below
    Singletons, MaximumHeaderEntries, Loopback, MalformedIds, MaximumPageItems,
    MaximumKeywords, Limits, DefaultPageLimit, PageLifetime, MaximumEdges

INSTANCE ServiceRuntime
Static == INSTANCE StaticCatalog

ASSUME ConstantsAssumption ==
    /\ {MaxTime, MaxRestarts, MaxConfirms, MaximumEdges} \subseteq Nat
    /\ {PageLifetime, DefaultPageLimit, MaximumPageItems} \subseteq Nat \ {0}
    /\ DefaultPageLimit <= MaximumPageItems
    /\ {Limits.resource.bytes, Limits.resource.depth} \subseteq Nat
    /\ Limits.next \in Nat \ {0}

(* What a case is made of.  Requests have the parts the runtime reads; one *)
(* made for an operation goes where operationPath says, and a get is a GET *)
(* and carries no cursor.  The functions of a static catalog are those     *)
(* NewStaticCatalog sets, the Collections it is given have no Actions, and *)
(* nobody but the catalog makes a cursor of its.  What an application      *)
(* returns has a size, and its continuations the parts of a reference.     *)
IsList(list) == list \in Seq(ToSet(list))
AreItems(list) ==
    IsList(list) /\ \A item \in ToSet(list) : {"valid", "actions", "details"} \subseteq DOMAIN item
RequestParts ==
    {"purpose", "method", "asked", "location", "body", "typed", "accept", "languages",
     "conditions", "authorization", "wire", "published", "host"}
AgentAsks(r) ==
    LET operation == r.asked.operation IN
    /\ operation \in Operations /\ Buildable(operation, r.asked.id)
    /\ r.location.path = UnderBase(OperationPath(operation, r.asked.id))
    /\ operation \in GetOperations => r.location.query.cursor = <<>> /\ Method(r) = "GET"
    /\ Secure([scheme |-> r.published, host |-> r.host])
IsRequest(r) ==
    /\ RequestParts \subseteq DOMAIN r
    /\ {"path", "query"} \subseteq DOMAIN r.location
    /\ {"cursor", "limit", "representation"} \subseteq DOMAIN r.location.query
    /\ r.asked.kind = "call" => AgentAsks(r)
IsStaticCase(case) ==
    /\ case.options.handlers \subseteq Static!Handlers(case.catalog.collections)
    /\ AreItems(case.catalog.offerings) /\ AreItems(case.catalog.collections)
    /\ \A item \in ToSet(case.catalog.collections) : item.actions = <<>>
    /\ IsFiniteSet(DOMAIN case.catalog.parents) /\ case.catalog.keyLength \in Nat
    /\ \A r \in case.requests : r.location.query.cursor = <<>>
ReferenceParts == {"scheme", "host", "user", "fragment", "location"}
IsAnswer(answer) ==
    /\ answer.kind = "resource" => {answer.resource.bytes, answer.resource.depth} \subseteq Nat
    /\ answer.kind = "page" =>
          /\ {answer.page.bytes, answer.page.depth} \subseteq Nat
          /\ answer.page.next # NoNext => ReferenceParts \subseteq DOMAIN answer.page.next

ASSUME CasesAssumption ==
    /\ \A case \in Cases :
          /\ \A r \in case.requests : IsRequest(r)
          /\ case.options.handlers \subseteq Operations
          /\ \A operation \in DOMAIN case.options.authentication :
                case.options.authentication[operation] \in {"not-required", "optional", "required"}
          /\ IF case.catalog.kind = "static" THEN IsStaticCase(case)
             ELSE case.catalog.offerings = <<>>
    /\ \A list \in Lists : AreItems(list)
    /\ \A answer \in Answers : IsAnswer(answer)

VARIABLES
    setting,    \* the case run
    service,    \* what New made of it
    offerings,  \* the list of Offerings the process publishes
    now,        \* time.Now()
    key,        \* the key that signs continuations
    restarts,   \* how often the process has restarted
    phase,      \* where the Agent is
    request,    \* what it last asked, and why
    response,   \* the answer, with what it was made from
    held,       \* the answer it holds, and what it had asked for it
    collected,  \* the pages it has, each with the list it was cut from
    confirms    \* confirmations asked for

world == <<setting, service>>
process == <<offerings, key, restarts>>
agent == <<held, collected, confirms>>
vars == <<setting, service, offerings, now, key, restarts, phase, request, response,
          held, collected, confirms>>

NoRequest == [purpose |-> "none"]
NoResponse == [kind |-> "none"]
NoHeld == [kind |-> "nothing"]
IsStatic == setting.catalog.kind = "static"

-----------------------------------------------------------------------------
(* A process over a list comes to nothing when New or NewStaticCatalog     *)
(* refuses what it is given.                                               *)
Started(case, list) ==
    /\ CanServe(case.options)
    /\ case.catalog.kind = "static" =>
           Static!Accepted(list, case.catalog.collections, case.catalog.parents,
                           case.catalog.keyLength)

(* Without a configured key each process draws its own.                    *)
KeyOf(case, started) ==
    IF case.catalog.kind = "static" /\ case.catalog.keyLength = 0 THEN started ELSE -1

Init ==
    /\ setting \in Cases
    /\ service = New(setting.options)
    /\ offerings = IF IsStatic THEN setting.catalog.offerings ELSE <<>>
    /\ now = 0 /\ restarts = 0 /\ confirms = 0
    /\ key = KeyOf(setting, 0)
    /\ phase = IF Started(setting, offerings) THEN "idle" ELSE "refused to start"
    /\ request = NoRequest /\ response = NoResponse /\ held = NoHeld
    /\ collected = <<>>

Send(r, purpose) ==
    /\ request' = [r EXCEPT !.purpose = purpose]
    /\ phase' = "asked"
    /\ response' = NoResponse

(* The request an Agent makes for an operation (getWithInspection,         *)
(* initialRequest): it states the representation, and the limit outside a  *)
(* search, whose limit is in the body.                                     *)
AgentRequest(operation, id, representation, limit, refinements) ==
    LET search == operation \in SearchOperations IN
    [purpose |-> "ask", method |-> OperationMethod(operation), asked |-> Call(operation, id),
     location |-> [path |-> UnderBase(OperationPath(operation, id)),
                   query |-> [representation |-> <<representation>>, cursor |-> <<>>,
                              limit |-> IF operation \in ListOperations THEN <<limit>> ELSE <<>>]],
     body |-> [bytes |-> 0, depth |-> 0, text |-> TRUE, valid |-> TRUE,
               limit |-> IF search THEN limit ELSE 0, refinements |-> refinements],
     typed |-> TRUE, accept |-> <<[range |-> "application/odp+json", q |-> <<>>]>>,
     languages |-> <<>>, conditions |-> {}, authorization |-> "alice",
     wire |-> "https", published |-> "https", host |-> "service"]

(* The first request of a case; again when its answer was lost.            *)
Ask ==
    /\ phase = "idle"
    /\ \E r \in setting.requests : Send(r, "ask")
    /\ UNCHANGED <<world, process, now, agent>>

-----------------------------------------------------------------------------
(* The process handles the request.  Nothing it reads is shared with other *)
(* requests, so this is one step.  Kept with what is sent: the call it came*)
(* to, when and with which key and list it was made, and what it would have*)
(* been without the conditions of the request.                             *)
Answer(outcome, call, unconditional) ==
    /\ response' = [sent |-> ServeHTTP(outcome), call |-> call, made |-> unconditional,
                    madeAt |-> now, madeBy |-> key, list |-> offerings]
    /\ phase' = "answered"

Unconditional == [request EXCEPT !.conditions = {}]
Handle(call, answer) ==
    Answer(Answering(service, request, call, answer), call,
           Answering(service, Unconditional, call, answer))

Refuse ==
    LET read == Reading(service, request) IN
    /\ phase = "asked"
    /\ read.kind = "problem"
    /\ Answer(read, read, read)
    /\ UNCHANGED <<world, process, now, request, agent>>

Describe ==
    LET read == Reading(service, request) IN
    /\ phase = "asked"
    /\ read.kind = "document"
    /\ Answer(ServeDocument(service, request), read, ServeDocument(service, Unconditional))
    /\ UNCHANGED <<world, process, now, request, agent>>

StaticServes ==
    LET read == Reading(service, request) IN
    /\ phase = "asked"
    /\ read.kind = "call"
    /\ IsStatic
    /\ Handle(read, Static!StaticAnswer(offerings, setting.catalog.collections, read,
                                        request.location.path, now, key))
    /\ UNCHANGED <<world, process, now, request, agent>>

(* What the type of a catalog function lets it return.                     *)
MayReturn(operation, answer) ==
    \/ answer.kind \in {"problem", "unexpected"}
    \/ answer.kind \in {"resource", "absent"} /\ operation \in GetOperations
    \/ /\ answer.kind = "page" /\ operation \notin GetOperations
       /\ operation = "search-offerings" \/ answer.page.refinements = <<>>

ApplicationServes ==
    LET read == Reading(service, request) IN
    /\ phase = "asked"
    /\ read.kind = "call"
    /\ ~IsStatic
    /\ \E answer \in Answers :
          /\ MayReturn(read.operation, answer)
          /\ Handle(read, answer)
    /\ UNCHANGED <<world, process, now, request, agent>>

-----------------------------------------------------------------------------
(* The Agent takes the answer: a representation it holds from now on, the  *)
(* news that what it holds is current, or a failure that ends its call.    *)
IsPage(answer) == answer.call.kind = "call" /\ answer.call.operation \notin GetOperations
PageOf(answer) ==
    IF IsPage(answer)
    THEN <<[page |-> answer.sent.body, list |-> answer.list,
           language |-> answer.sent.language]>>
    ELSE <<>>

TakeRepresentation ==
    /\ phase = "answered"
    /\ response.sent.status = 200
    /\ held' = [kind |-> "held", request |-> request, answer |-> response]
    /\ collected' = (IF request.purpose = "confirm" /\ IsPage(response) THEN Front(collected)
                     ELSE collected) \o PageOf(response)
    /\ phase' = "holding"
    /\ UNCHANGED <<world, process, now, request, response, confirms>>

TakeConfirmation ==
    /\ phase = "answered"
    /\ response.sent.status = 304
    /\ held' = IF held = NoHeld THEN held
               ELSE [held EXCEPT !.answer = [held.answer EXCEPT !.madeAt = response.madeAt,
                                                                !.madeBy = response.madeBy]]
    /\ phase' = IF held = NoHeld THEN "ended" ELSE "holding"
    /\ UNCHANGED <<world, process, now, request, response, collected, confirms>>

TakeFailure ==
    /\ phase = "answered"
    /\ response.sent.status >= 400
    /\ phase' = "ended"
    /\ UNCHANGED <<world, process, now, request, response, agent>>

(* The Agent asks again for what it holds, naming its tag; perhaps in      *)
(* another language, or with another authorization.                        *)
Confirm ==
    /\ phase = "holding"
    /\ confirms < MaxConfirms
    /\ confirms' = confirms + 1
    /\ \E h \in Headers :
          Send([held.request EXCEPT
                    !.conditions = {held.answer.sent.tag}, !.accept = h.accept,
                    !.languages = h.languages, !.authorization = h.authorization], "confirm")
    /\ UNCHANGED <<world, process, now, held, collected>>

(* It follows the continuation it holds, as it was given or altered.       *)
Continues == IsPage(held.answer) /\ held.answer.sent.body.next # NoNext
Unaltered == [limit |-> <<>>, representation |-> <<>>]
Altered(location, alteration) ==
    IF alteration = Unaltered THEN location
    ELSE [location EXCEPT !.query = [location.query EXCEPT
             !.limit = alteration.limit, !.representation = alteration.representation]]

FollowNext ==
    /\ phase = "holding"
    /\ IsStatic
    /\ Continues
    /\ \E h \in Headers, alteration \in {Unaltered} \cup Alterations :
          Send([held.request EXCEPT
                    !.method = "GET", !.conditions = {}, !.languages = h.languages,
                    !.location = Altered(held.answer.sent.body.next.location, alteration)],
               "follow")
    /\ UNCHANGED <<world, process, now, agent>>

-----------------------------------------------------------------------------
(* Time passes while there is something to wait for.                       *)
Tick ==
    /\ phase \notin {"refused to start", "ended"}
    /\ IsStatic
    /\ now < MaxTime
    /\ now' = now + 1
    /\ UNCHANGED <<world, process, phase, request, response, agent>>

(* The process ends and another starts: what was asked is not answered.    *)
Restart ==
    /\ phase \in {"asked", "answered", "holding"}
    /\ IsStatic
    /\ restarts < MaxRestarts
    /\ restarts' = restarts + 1
    /\ key' = KeyOf(setting, restarts + 1)
    /\ offerings' \in {offerings} \cup {list \in Lists : Started(setting, list)}
    /\ phase' = IF phase # "asked" THEN phase ELSE IF held = NoHeld THEN "idle" ELSE "holding"
    /\ UNCHANGED <<world, now, request, response, agent>>

Next ==
    \/ Ask \/ Refuse \/ Describe \/ StaticServes \/ ApplicationServes
    \/ TakeRepresentation \/ TakeConfirmation \/ TakeFailure
    \/ Confirm \/ FollowNext \/ Tick \/ Restart

Spec == Init /\ [][Next]_vars

-----------------------------------------------------------------------------
(* Type invariant.                                                         *)
TypeOK ==
    /\ setting \in Cases
    /\ service = New(setting.options)
    /\ offerings \in Lists \cup {<<>>, setting.catalog.offerings}
    /\ now \in 0..MaxTime /\ restarts \in 0..MaxRestarts /\ confirms \in 0..MaxConfirms
    /\ key \in -1..MaxRestarts
    /\ phase \in {"refused to start", "idle", "asked", "answered", "holding", "ended"}
    /\ phase \in {"asked", "answered", "holding"} =>
           request.purpose \in {"ask", "confirm", "follow"}
    /\ phase = "answered" => response.sent.kind = "response" /\ response.sent.status \in 200..599
    /\ phase = "holding" => held.kind = "held" /\ held.answer.sent.tag # NoEntityTag
    /\ \A page \in ToSet(collected) : page.list \in Lists \cup {setting.catalog.offerings}

(* validateRelationships runs a depth-first walk with a visiting set.  What*)
(* it must come to is simple: a static catalog with nothing else amiss     *)
(* starts exactly when every parent and every membership is known and      *)
(* nobody can climb one edge more than the bound, as on a cycle.           *)
Climb(parents) ==
    LET up[n \in 0..(MaximumEdges + 1)] ==
            IF n = 0 THEN DOMAIN parents ELSE UNION {parents[c] : c \in up[n - 1]}
    IN  up[MaximumEdges + 1]

HierarchyJudgedRight ==
    IsStatic /\ CanServe(setting.options) /\ setting.catalog.keyLength \notin 1..31 /\
    Static!Presentable(setting.catalog.offerings, setting.catalog.collections) =>
        LET parents == setting.catalog.parents IN
        (phase # "refused to start") <=>
            /\ \A o \in ToSet(setting.catalog.offerings) : o.collections \subseteq DOMAIN parents
            /\ \A c \in DOMAIN parents : parents[c] \subseteq DOMAIN parents
            /\ Climb(parents) = {}

(* The pages of a static list, followed from continuation to continuation, *)
(* tile it: each begins where those before it ended, in the list its       *)
(* process published, all in one language and one view, and the last is the*)
(* one with which that list ends.  So a list that never changes is         *)
(* collected whole, once, in order, whatever the Agent confirms, alters, or*)
(* asks in other languages on the way, and whoever restarts.               *)
CountBefore(i) == Len(FlattenSeq([j \in 1..(i - 1) |-> collected[j].page.items]))
Values(list, call) ==
    CASE call.operation = "list-offerings" -> list
      [] call.operation = "list-collections" -> setting.catalog.collections
      [] OTHER -> Static!Members(list, call.id)

PagesTileTheList ==
    IsStatic /\ collected # <<>> =>
        LET call == held.answer.call
            view(values) == [i \in DOMAIN values |->
                                Static!View(values[i], call.input.representation)]
        IN \A i \in DOMAIN collected :
              LET values == Values(collected[i].list, call)
                  page == collected[i].page
                  from == CountBefore(i)
              IN  /\ page.items = SubSeq(view(values), from + 1, from + Len(page.items))
                  /\ collected[i].language = held.answer.sent.language
                  /\ page.next = NoNext => from + Len(page.items) >= Len(values)
                  /\ i < Len(collected) => page.next # NoNext

(* An Agent that follows a static continuation is refused only for what it *)
(* did or for what was lost: 410 when another key signs by then, or when it*)
(* waited longer than one lifetime after the page was last served or       *)
(* confirmed; 400 when it altered the query or came to another language.   *)
(* README: cursors "expire between one and two hours after they are        *)
(* minted", and a configured key "survives a restart".                     *)
SelectedLanguage(r) == SelectLanguage(r.languages, service.document.language,
                                      service.document.localizations)
RefusedOnlyWhenLost ==
    phase = "answered" /\ request.purpose = "follow" /\ response.sent.status # 200 =>
        \/ /\ response.sent.status = 410
           /\ \/ response.madeBy # held.answer.madeBy
              \/ response.madeAt - held.answer.madeAt > PageLifetime
        \/ /\ response.sent.status = 400
           /\ \/ request.location # held.answer.sent.body.next.location
              \/ SelectedLanguage(request) # SelectedLanguage(held.request)

(* Whatever an application's functions return, a 200 is the operation the  *)
(* Agent asked for and an answer it can take: validateOfferingPage and     *)
(* parseCollectionPage, getWithInspection, and ResolveContinuation for the *)
(* next page, which also is another page.  Otherwise the answer is 500     *)
(* "rather than ... a document a conformant Agent would reject" (README).  *)
(* One reference is beyond what the runtime can know: an absolute one that *)
(* states another scheme than the Service is published under.              *)
Permitted(r) == IF r.method = "POST" THEN r.body.refinements ELSE {}
StatesOtherScheme(next, r) == next.scheme \notin {"", r.published}

AgentTakesItem(item, representation) ==
    /\ item.valid
    /\ representation = "terse" => item.actions = <<>>
    /\ representation = "full" => ~item.details

AgentTakesPage(r, page, representation) ==
    /\ Len(page.items) <= MaximumPageItems
    /\ \A item \in ToSet(page.items) : AgentTakesItem(item, representation)
    /\ ToSet(page.refinements) \subseteq Permitted(r) /\ IsInjective(page.refinements)
    /\ page.next # NoNext =>
          /\ page.next.location # r.location
          /\ \/ ResolvesContinuation(page.next, [scheme |-> r.published, host |-> r.host])
             \/ StatesOtherScheme(page.next, r)

AgentTakes(r, answer) ==
    LET representation == answer.call.input.representation IN
    /\ answer.sent.body.bytes <= Limits.resource.bytes /\ answer.sent.body.depth <= Limits.resource.depth
    /\ IF IsPage(answer) THEN AgentTakesPage(r, answer.sent.body, representation)
       ELSE /\ answer.sent.body.item.id = r.asked.id
            /\ AgentTakesItem(answer.sent.body.item, representation)

ServedIsAccepted ==
    phase = "answered" /\ response.sent.status = 200 /\ request.asked.kind = "call" =>
        /\ response.call.operation = request.asked.operation
        /\ response.call.id = request.asked.id
        /\ AgentTakes(request, response)

(* A 304 tells the Agent that what it holds is what it would be sent now:  *)
(* the same body, in the same language; and only GET and HEAD are told so, *)
(* POST is refused instead.  An application may refuse with 412 itself.    *)
AnsweredItself(status) ==
    response.call.kind = "call" /\ response.made.kind = "problem" /\ response.made.status = status
ConfirmedIsCurrent ==
    phase = "answered" /\ request.purpose = "confirm" =>
        LET current == /\ response.call.kind # "problem"
                       /\ response.made.kind = "response"
                       /\ response.made.body = held.answer.sent.body
                       /\ response.made.language = held.answer.sent.language
        IN  /\ response.sent.status = 304 <=> current /\ request.method # "POST"
            /\ response.sent.status = 412 <=> \/ current /\ request.method = "POST"
                                         \/ AnsweredItself(412)

(* A cache shared by callers may reuse a stored answer for a request that  *)
(* agrees with the one it answered on the headers Vary names, unless it is *)
(* private or not to be stored.  Such a request would have been answered   *)
(* too, from the same body in the same language, and under the same        *)
(* authorization where the operation or the document minds it.  README: so *)
(* "a shared cache cannot reuse one authentication context's representation*)
(* for another", nor a failure at all.                                     *)
Agrees(r1, r2, vary) ==
    /\ r1.location = r2.location /\ Method(r1) = "GET" /\ Method(r2) = "GET"
    /\ "Accept" \in vary => r1.accept = r2.accept
    /\ "Accept-Language" \in vary => r1.languages = r2.languages
    /\ "Authorization" \in vary => r1.authorization = r2.authorization
Shareable(answer) == answer.sent.cache \notin {NoStore, "private"}
Minds(answer) ==
    answer.call.kind = "call" /\ (answer.sent.body.authExpands
        \/ service.authentication[answer.call.operation] # "not-required")

SharedCachesStaySound ==
    phase = "answered" =>
        /\ response.sent.status >= 400 => ~Shareable(response) /\ response.sent.tag = NoEntityTag
        /\ held.kind = "held" /\ Shareable(held.answer)
           /\ Agrees(held.request, request, held.answer.sent.vary) =>
               /\ response.sent.status \in {200, 304} /\ response.made.body = held.answer.sent.body =>
                      response.sent.language = held.answer.sent.language
               /\ response.sent.status = 406 => AnsweredItself(406)
               /\ Minds(held.answer) => request.authorization = held.request.authorization
=============================================================================
