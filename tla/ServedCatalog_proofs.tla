------------------------ MODULE ServedCatalog_proofs ------------------------
(***************************************************************************)
(* Proofs about a Service at work.                                         *)
(***************************************************************************)
EXTENDS ServedCatalog, SequenceLemmas

-----------------------------------------------------------------------------
(* What comes of a list of checks.                                         *)
LEMMA FirstOfTwo ==
    ASSUME NEW p \in BOOLEAN, NEW q \in BOOLEAN, NEW a, NEW b, NEW o
    PROVE  FirstOf(<< <<p, a>>, <<q, b>> >>, o) = IF p THEN a ELSE IF q THEN b ELSE o
<1>1. {i \in {1, 2} : << <<p, a>>, <<q, b>> >>[i][1]}
         = (IF p THEN {1} ELSE {}) \cup (IF q THEN {2} ELSE {}) OBVIOUS
<1>2. QED BY <1>1 DEF FirstOf, Min

LEMMA FirstOfThree ==
    ASSUME NEW p \in BOOLEAN, NEW q \in BOOLEAN, NEW w \in BOOLEAN, NEW a, NEW b, NEW c, NEW o
    PROVE  FirstOf(<< <<p, a>>, <<q, b>>, <<w, c>> >>, o)
               = IF p THEN a ELSE IF q THEN b ELSE IF w THEN c ELSE o
<1>1. {i \in {1, 2, 3} : << <<p, a>>, <<q, b>>, <<w, c>> >>[i][1]}
         = (IF p THEN {1} ELSE {}) \cup (IF q THEN {2} ELSE {}) \cup (IF w THEN {3} ELSE {})
  OBVIOUS
<1>2. QED BY <1>1 DEF FirstOf, Min

(* Whatever fails first, the outcome is one of those listed.               *)
LEMMA FirstOfAny ==
    ASSUME NEW checks, DOMAIN checks \subseteq Nat, NEW o
    PROVE  FirstOf(checks, o) = o \/ \E i \in DOMAIN checks : FirstOf(checks, o) = checks[i][2]
<1> DEFINE failed == {i \in DOMAIN checks : checks[i][1]}
<1>1. CASE failed = {} BY <1>1 DEF FirstOf
<1>2. CASE failed # {}
  <2>1. \E m \in failed : \A k \in failed : m <= k BY <1>2, LeastElement
  <2>2. Min(failed) \in failed BY <2>1 DEF Min
  <2>3. FirstOf(checks, o) = checks[Min(failed)][2] BY <1>2 DEF FirstOf
  <2>4. QED BY <2>2, <2>3
<1>3. QED BY <1>1, <1>2

-----------------------------------------------------------------------------
(* What a request is read as.                                              *)
NotAcceptable == Problem(406, "NOT_ACCEPTABLE")
Refusals ==
    {MethodNotAllowed, NotFound, Invalid,
     Problem(415, "UNSUPPORTED_MEDIA_TYPE"), Problem(413, "REQUEST_TOO_LARGE")}

LEMMA RouteKinds ==
    ASSUME NEW path
    PROVE  \/ Route(path) \in {NotFound, Invalid}
           \/ \E operation, id : Route(path) = Call(operation, id)
<1>1. ASSUME NEW operation, NEW id
      PROVE  Identified(operation, id) \in {NotFound, Invalid, Call(operation, id)}
  BY DEF Identified
<1> DEFINE under == Tail(path)
           plain == CHOOSE o \in Operations : ~TakesId(o) /\ OperationPath(o, NoId) = under
           fixed == {OperationPath(o, NoId) : o \in Operations \ {p \in Operations : TakesId(p)}}
<1>2. Route(path) \in {NotFound, Call(plain, NoId), Identified("get-offering", under[2]),
                      Identified("list-collection-offerings", under[2]),
                      Identified("get-collection", under[2])}
  <2>1. Route(path) = IF path = <<>> \/ Head(path) # "base" THEN NotFound
                      ELSE IF under \in fixed THEN Call(plain, NoId)
                      ELSE CASE Len(under) = 2 /\ under[1] = "offerings" ->
                                    Identified("get-offering", under[2])
                             [] Len(under) = 3 /\ under[1] = "collections" /\ under[3] = "offerings" ->
                                    Identified("list-collection-offerings", under[2])
                             [] Len(under) = 2 /\ under[1] = "collections" ->
                                    Identified("get-collection", under[2])
                             [] OTHER -> NotFound
    BY DEF Route
  <2> HIDE DEF under, plain, fixed
  <2>2. QED BY <2>1
<1>3. QED BY <1>1, <1>2

LEMMA BodyProblems ==
    ASSUME NEW r PROVE BodyProblem(r) = NoBody \/ BodyProblem(r) \in Refusals
<1> DEFINE checks == << <<~r.typed, Problem(415, "UNSUPPORTED_MEDIA_TYPE")>>,
               <<r.body.bytes > Limits.request.bytes, Problem(413, "REQUEST_TOO_LARGE")>>,
               <<~r.body.text, Invalid>>,
               <<r.body.depth > Limits.request.depth, Invalid>>,
               <<~r.body.valid, Invalid>> >>
<1>1. DOMAIN checks = 1..5 OBVIOUS
<1>2. \A i \in DOMAIN checks : checks[i][2] \in Refusals
  <2>1. checks[1][2] \in Refusals BY DEF Refusals
  <2>2. checks[2][2] \in Refusals BY DEF Refusals
  <2>3. checks[3][2] \in Refusals /\ checks[4][2] \in Refusals /\ checks[5][2] \in Refusals
    BY DEF Refusals
  <2>4. QED
    <3> HIDE DEF checks
    <3>1. QED BY <1>1, <2>1, <2>2, <2>3
<1>3. BodyProblem(r) = FirstOf(checks, NoBody) BY DEF BodyProblem
<1>4. QED
  <2> HIDE DEF checks
  <2>1. QED BY <1>1, <1>2, <1>3, FirstOfAny

LanguageFor(s, r) ==
    SelectLanguage(r.languages, s.document.language, s.document.localizations)

LEMMA SearchingCases ==
    ASSUME NEW s, NEW r, NEW call
    PROVE  \/ Searching(s, r, call) \in Refusals
           \/ \E input, query, requested :
                 /\ Searching(s, r, call) = CatalogCall(call, input, query, requested)
                 /\ input.language = LanguageFor(s, r)
<1> DEFINE input == CatalogRequest(s, r, call.operation)
           posted == r.body.limit
           limited == IF posted = 0 THEN input ELSE [input EXCEPT !.limit = posted]
<1>1. Invalid \in Refusals BY DEF Refusals
<1>2. BodyProblem(r) # NoBody => BodyProblem(r) \in Refusals BY BodyProblems
<1>3. input.language = LanguageFor(s, r) /\ limited.language = LanguageFor(s, r)
  BY DEF CatalogRequest, LanguageFor
<1>4. \/ Searching(s, r, call) = Invalid
      \/ BodyProblem(r) # NoBody /\ Searching(s, r, call) = BodyProblem(r)
      \/ Searching(s, r, call) = CatalogCall(call, input, NoBody, {})
      \/ Searching(s, r, call) = CatalogCall(call, limited, r.body, r.body.refinements)
  BY DEF Searching
<1> HIDE DEF input, limited
<1>5. QED BY <1>1, <1>2, <1>3, <1>4

(* The cases of a reading: a refusal, the document, or a call that the     *)
(* Service advertises, under a method it takes, with a sound query.        *)
Reads(s, r) ==
    LET call == Route(r.location.path) IN
    /\ AcceptsODP(r.accept)
    /\ \E id : call = Call(call.operation, id)
    /\ call.operation \in s.operations
    /\ Takes(call.operation, Method(r))
    /\ ~RequestRefused(r)
    /\ \E input, query, requested :
          /\ Reading(s, r) = CatalogCall(call, input, query, requested)
          /\ input.language = LanguageFor(s, r)
    /\ call.operation \notin SearchOperations =>
           Reading(s, r) = CatalogCall(call, CatalogRequest(s, r, call.operation), NoBody, {})
    /\ call.operation \in SearchOperations => Reading(s, r) = Searching(s, r, call)

LEMMA ReadingCases ==
    ASSUME NEW s, NEW r
    PROVE  \/ Reading(s, r) \in Refusals
           \/ Reading(s, r) = NotAcceptable /\ ~AcceptsODP(r.accept)
           \/ /\ Reading(s, r) = [kind |-> "document"]
              /\ r.location.path = WellKnown /\ Method(r) = "GET" /\ AcceptsODP(r.accept)
           \/ r.location.path # WellKnown /\ Reads(s, r)
<1> DEFINE call == Route(r.location.path)
           served == IF call.operation \in SearchOperations THEN Searching(s, r, call)
                     ELSE CatalogCall(call, CatalogRequest(s, r, call.operation), NoBody, {})
           checked == FirstOf(<< <<call.operation \notin s.operations, NotFound>>,
                                 <<~Takes(call.operation, Method(r)), MethodNotAllowed>>,
                                 <<RequestRefused(r), Invalid>> >>, served)
<1>1. Reading(s, r) =
        IF ~AcceptsODP(r.accept) THEN NotAcceptable
        ELSE IF r.location.path = WellKnown
        THEN IF Method(r) # "GET" THEN MethodNotAllowed ELSE [kind |-> "document"]
        ELSE IF call.kind = "problem" THEN call ELSE checked
  BY DEF Reading, NotAcceptable
<1>2. /\ MethodNotAllowed \in Refusals /\ NotFound \in Refusals /\ Invalid \in Refusals
  BY DEF Refusals
<1>3. (call.operation \notin s.operations) \in BOOLEAN
      /\ (~Takes(call.operation, Method(r))) \in BOOLEAN /\ RequestRefused(r) \in BOOLEAN
  BY DEF RequestRefused
<1>4. checked = IF call.operation \notin s.operations THEN NotFound
                ELSE IF ~Takes(call.operation, Method(r)) THEN MethodNotAllowed
                ELSE IF RequestRefused(r) THEN Invalid ELSE served
  <2> DEFINE p == call.operation \notin s.operations
             q == ~Takes(call.operation, Method(r))
             w == RequestRefused(r)
  <2>1. p \in BOOLEAN /\ q \in BOOLEAN /\ w \in BOOLEAN BY <1>3
  <2> HIDE DEF p, q, w, served, call
  <2>2. FirstOf(<< <<p, NotFound>>, <<q, MethodNotAllowed>>, <<w, Invalid>> >>, served)
            = IF p THEN NotFound ELSE IF q THEN MethodNotAllowed
              ELSE IF w THEN Invalid ELSE served
    BY <2>1, FirstOfThree
  <2>3. QED BY <2>2 DEF p, q, w
<1>5. ASSUME call \in {NotFound, Invalid}, AcceptsODP(r.accept), r.location.path # WellKnown
      PROVE  Reading(s, r) \in Refusals
  <2>1. call.kind = "problem" BY <1>5 DEF NotFound, Invalid, Problem, ProblemWith
  <2> HIDE DEF checked, call
  <2>2. QED BY <1>1, <1>2, <1>5, <2>1
<1>6. ASSUME NEW operation, NEW id, call = Call(operation, id),
             Reading(s, r) \notin Refusals, AcceptsODP(r.accept),
             r.location.path # WellKnown
      PROVE  Reads(s, r)
  <2>1. call.kind = "call" /\ call.operation = operation BY <1>6 DEF Call
  <2>2. AcceptsODP(r.accept) /\ Reading(s, r) = checked
    <3> HIDE DEF checked, call
    <3>1. QED BY <1>1, <1>2, <1>6, <2>1
  <2>3. /\ call.operation \in s.operations /\ Takes(call.operation, Method(r))
        /\ ~RequestRefused(r) /\ Reading(s, r) = served
    <3> HIDE DEF checked, call, served
    <3>1. QED BY <1>2, <1>4, <1>6, <2>2
  <2>4. \E input, query, requested :
            /\ served = CatalogCall(call, input, query, requested)
            /\ input.language = LanguageFor(s, r)
    <3>1. CASE call.operation \in SearchOperations
      <4>1. served = Searching(s, r, call) BY <3>1
      <4> HIDE DEF served, call
      <4>2. QED BY <2>3, <1>6, <4>1, SearchingCases
    <3>2. CASE call.operation \notin SearchOperations
      <4>1. CatalogRequest(s, r, call.operation).language = LanguageFor(s, r)
        BY DEF CatalogRequest, LanguageFor
      <4>2. served = CatalogCall(call, CatalogRequest(s, r, call.operation), NoBody, {})
        BY <3>2
      <4> HIDE DEF served, call
      <4>3. QED BY <4>1, <4>2
    <3>3. QED BY <3>1, <3>2
  <2>5. call.operation \notin SearchOperations =>
            served = CatalogCall(call, CatalogRequest(s, r, call.operation), NoBody, {})
    OBVIOUS
  <2>7. call.operation \in SearchOperations => served = Searching(s, r, call) OBVIOUS
  <2> HIDE DEF served
  <2>6. QED BY <1>6, <2>1, <2>2, <2>3, <2>4, <2>5, <2>7 DEF Reads
<1>7. ASSUME r.location.path = WellKnown, Reading(s, r) \notin Refusals, AcceptsODP(r.accept)
      PROVE  Reading(s, r) = [kind |-> "document"] /\ Method(r) = "GET"
  <2> HIDE DEF checked, call
  <2>1. QED BY <1>1, <1>2, <1>7
<1>8. ~AcceptsODP(r.accept) => Reading(s, r) = NotAcceptable
  <2> HIDE DEF checked, call
  <2>1. QED BY <1>1
<1>9. QED BY <1>5, <1>6, <1>7, <1>8, RouteKinds

-----------------------------------------------------------------------------
(* What is answered.  A representation in full; what a request with        *)
(* conditions is answered instead is made of that.                         *)
Representation(body, language, authentication) ==
    LET authenticated == body.authExpands \/ authentication \in {"optional", "required"} IN
    [kind |-> "response", status |-> 200, body |-> body, language |-> language,
     tag |-> EntityTag(language, body), header |-> {}, vary |-> Vary(authenticated),
     cache |-> IF authenticated THEN "private" ELSE "unstated"]

PreconditionFailed == Problem(412, "PRECONDITION_FAILED")
NotModified(full) ==
    [kind |-> "response", status |-> 304, body |-> NoBody, language |-> full.language,
     tag |-> full.tag, header |-> full.header, vary |-> full.vary, cache |-> full.cache]
Conditional(full, r) ==
    IF ~Matches(r.conditions, full.tag) THEN full
    ELSE IF Method(r) # "GET" THEN PreconditionFailed ELSE NotModified(full)

LEMMA RespondCases ==
    ASSUME NEW body, NEW limits, NEW language, NEW authentication, NEW r
    PROVE  Respond(body, limits, language, authentication, r)
               = IF body.bytes > limits.bytes \/ body.depth > limits.depth THEN Unexpected
                 ELSE Conditional(Representation(body, language, authentication), r)
<1> DEFINE tag == EntityTag(language, body)
           full == Representation(body, language, authentication)
           authenticated == body.authExpands \/ authentication \in {"optional", "required"}
           p == body.bytes > limits.bytes \/ body.depth > limits.depth
           q == Matches(r.conditions, tag) /\ Method(r) # "GET"
           sent == [kind |-> "response",
                    status |-> IF Matches(r.conditions, tag) THEN 304 ELSE 200,
                    body |-> IF Matches(r.conditions, tag) THEN NoBody ELSE body,
                    language |-> language, tag |-> tag, header |-> {},
                    vary |-> Vary(authenticated),
                    cache |-> IF authenticated THEN "private" ELSE "unstated"]
<1>1. Respond(body, limits, language, authentication, r)
        = FirstOf(<< <<p, Unexpected>>, <<q, PreconditionFailed>> >>, sent)
  BY DEF Respond, PreconditionFailed
<1>2. p \in BOOLEAN /\ q \in BOOLEAN OBVIOUS
<1>3. FirstOf(<< <<p, Unexpected>>, <<q, PreconditionFailed>> >>, sent)
        = IF p THEN Unexpected ELSE IF q THEN PreconditionFailed ELSE sent
  <2> HIDE DEF p, q, sent
  <2>1. QED BY <1>2, FirstOfTwo
<1>4. full.tag = tag BY DEF Representation
<1>5. CASE ~Matches(r.conditions, tag)
  <2>1. sent = full BY <1>5 DEF Representation
  <2>2. ~q BY <1>5
  <2> HIDE DEF p, q, sent, tag, full
  <2>3. Conditional(full, r) = full BY <1>4, <1>5 DEF Conditional
  <2>4. QED BY <1>1, <1>3, <2>1, <2>2, <2>3 DEF p, full
<1>6. CASE Matches(r.conditions, tag)
  <2>1. sent = NotModified(full)
    <3> DEFINE v == Vary(authenticated)
               c == IF authenticated THEN "private" ELSE "unstated"
    <3>1. full = [kind |-> "response", status |-> 200, body |-> body, language |-> language,
                  tag |-> tag, header |-> {}, vary |-> v, cache |-> c]
      BY DEF Representation
    <3>2. sent = [kind |-> "response", status |-> 304, body |-> NoBody, language |-> language,
                  tag |-> tag, header |-> {}, vary |-> v, cache |-> c]
      BY <1>6
    <3> HIDE DEF v, c, tag, full, sent
    <3>3. QED BY <3>1, <3>2 DEF NotModified
  <2>2. q <=> Method(r) # "GET" BY <1>6
  <2> HIDE DEF p, q, sent, tag, full
  <2>3. Conditional(full, r) = IF Method(r) # "GET" THEN PreconditionFailed ELSE NotModified(full)
    BY <1>4, <1>6 DEF Conditional
  <2>4. QED BY <1>1, <1>3, <2>1, <2>2, <2>3 DEF p, full
<1>7. QED BY <1>5, <1>6

(* What the runtime makes of an answer of each kind.                       *)
AnswerKinds == {"problem", "unexpected", "absent", "page", "resource"}
Serves(s, r, call, body, declared) ==
    Respond(body, Limits.resource,
            RepresentationLanguage(declared, call.input.language, s.document.language),
            s.authentication[call.operation], r)
ValidResource(resource, call) ==
    ValidItem(resource.item, call.input.representation) /\ resource.item.id = call.id

LEMMA AnsweringCases ==
    ASSUME NEW s, NEW r, NEW call, NEW answer, answer.kind \in AnswerKinds
    PROVE  /\ answer.kind \in {"problem", "unexpected"} => Answering(s, r, call, answer) = answer
           /\ answer.kind = "absent" => Answering(s, r, call, answer) = NotFound
           /\ answer.kind = "page" =>
                  Answering(s, r, call, answer)
                      = IF ValidPage(answer.page, call, r)
                        THEN Serves(s, r, call, answer.page, NoTag) ELSE Unexpected
           /\ answer.kind = "resource" =>
                  Answering(s, r, call, answer)
                      = IF ValidResource(answer.resource, call)
                        THEN Serves(s, r, call, answer.resource, answer.resource.item.language)
                        ELSE Unexpected
<1>1. CASE answer.kind \in {"problem", "unexpected"} BY <1>1 DEF Answering
<1>2. CASE answer.kind = "absent" BY <1>2 DEF Answering
<1>3. CASE answer.kind = "page" BY <1>3 DEF Answering, Serves
<1>4. CASE answer.kind = "resource" BY <1>4 DEF Answering, Serves, ValidResource
<1>5. QED BY <1>1, <1>2, <1>3, <1>4 DEF AnswerKinds

(* Without its conditions a request is what it was in everything else.     *)
Freely(r) == [r EXCEPT !.conditions = {}]
LEMMA FreelyTheSame ==
    ASSUME NEW r, RequestParts \subseteq DOMAIN r
    PROVE  /\ Freely(r).conditions = {}
           /\ \A part \in RequestParts \ {"conditions"} : Freely(r)[part] = r[part]
           /\ \A page, call : ValidPage(page, call, Freely(r)) <=> ValidPage(page, call, r)
<1>1. /\ Freely(r).conditions = {}
      /\ \A part \in RequestParts \ {"conditions"} : Freely(r)[part] = r[part]
  BY DEF RequestParts, Freely
<1>2. /\ Freely(r).wire = r.wire /\ Freely(r).host = r.host
      /\ Freely(r).location = r.location
  BY <1>1 DEF RequestParts
<1>3. ASSUME NEW page, NEW call
      PROVE  ValidPage(page, call, Freely(r)) <=> ValidPage(page, call, r)
  <2>1. CurrentURL(Freely(r)) = CurrentURL(r) BY <1>2 DEF CurrentURL
  <2>2. ContinuationAllowed(page.next, Freely(r)) <=> ContinuationAllowed(page.next, r)
    BY <1>2, <2>1 DEF ContinuationAllowed
  <2>3. QED BY <2>2 DEF ValidPage
<1>4. QED BY <1>1, <1>3

(* An outcome beside what it would be without the conditions: a failure is *)
(* the same; a representation is conditioned.                              *)
IsFull(full) ==
    /\ full.kind = "response" /\ full.status = 200
    /\ full.tag = EntityTag(full.language, full.body)
    /\ full.cache \in {"private", "unstated"}
Conditioned(outcome, free, r) ==
    \/ outcome = free /\ free.kind \in {"problem", "unexpected"}
    \/ outcome = Conditional(free, r) /\ IsFull(free)

LEMMA RespondConditioned ==
    ASSUME NEW r, RequestParts \subseteq DOMAIN r,
           NEW body, NEW limits, NEW language, NEW authentication
    PROVE  LET free == Respond(body, limits, language, authentication, Freely(r)) IN
           /\ Conditioned(Respond(body, limits, language, authentication, r), free, r)
           /\ free = Unexpected \/ free = Representation(body, language, authentication)
<1> DEFINE full == Representation(body, language, authentication)
<1>1. ~Matches(Freely(r).conditions, full.tag) BY FreelyTheSame DEF Matches
<1>2. Conditional(full, Freely(r)) = full BY <1>1 DEF Conditional
<1>3. IsFull(full) BY DEF IsFull, Representation
<1>4. Unexpected.kind = "unexpected" BY DEF Unexpected
<1> HIDE DEF full
<1>5. QED BY <1>2, <1>3, <1>4, RespondCases DEF Conditioned, full

LEMMA AnsweringConditioned ==
    ASSUME NEW s, NEW r, RequestParts \subseteq DOMAIN r, NEW call,
           NEW answer, answer.kind \in AnswerKinds
    PROVE  Conditioned(Answering(s, r, call, answer), Answering(s, Freely(r), call, answer), r)
<1> DEFINE out == Answering(s, r, call, answer)
           free == Answering(s, Freely(r), call, answer)
<1>1. ASSUME NEW body, NEW declared
      PROVE  Conditioned(Serves(s, r, call, body, declared),
                         Serves(s, Freely(r), call, body, declared), r)
  BY RespondConditioned DEF Serves
<1>2. /\ NotFound.kind = "problem" /\ Unexpected.kind = "unexpected"
      /\ Conditioned(NotFound, NotFound, r) /\ Conditioned(Unexpected, Unexpected, r)
  BY DEF NotFound, Unexpected, Problem, ProblemWith, Conditioned
<1>3. CASE answer.kind \in {"problem", "unexpected"}
  <2>1. out = answer /\ free = answer BY <1>3, AnsweringCases
  <2>2. QED BY <1>3, <2>1 DEF Conditioned
<1>4. CASE answer.kind = "absent" BY <1>2, <1>4, AnsweringCases
<1>5. CASE answer.kind = "page"
  <2>1. ValidPage(answer.page, call, Freely(r)) <=> ValidPage(answer.page, call, r)
    BY FreelyTheSame
  <2>2. QED BY <1>1, <1>2, <1>5, <2>1, AnsweringCases
<1>6. CASE answer.kind = "resource" BY <1>1, <1>2, <1>6, AnsweringCases
<1>7. QED BY <1>3, <1>4, <1>5, <1>6 DEF AnswerKinds

LEMMA DocumentConditioned ==
    ASSUME NEW s, NEW r, RequestParts \subseteq DOMAIN r
    PROVE  Conditioned(ServeDocument(s, r), ServeDocument(s, Freely(r)), r)
BY RespondConditioned DEF ServeDocument

(* What is sent for an outcome.                                            *)
LEMMA SentProblem ==
    ASSUME NEW p, p.kind = "problem"
    PROVE  /\ ServeHTTP(p).kind = "response"
           /\ ServeHTTP(p).status \in 400..599
           /\ p.status \in 400..599 => ServeHTTP(p).status = p.status
           /\ p.status \notin 400..599 => ServeHTTP(p).status = 500
           /\ ServeHTTP(p).tag = NoEntityTag /\ ServeHTTP(p).cache = NoStore
<1>1. ServeHTTP(p) = WriteProblem(p) BY DEF ServeHTTP
<1>2. QED BY <1>1 DEF WriteProblem

LEMMA SentUnexpected ==
    ASSUME NEW p, p.kind = "unexpected"
    PROVE  /\ ServeHTTP(p).kind = "response" /\ ServeHTTP(p).status = 500
           /\ ServeHTTP(p).tag = NoEntityTag /\ ServeHTTP(p).cache = NoStore
<1>1. ServeHTTP(p) = WriteProblem(Problem(500, "INTERNAL_ERROR")) BY DEF ServeHTTP
<1>2. QED BY <1>1 DEF WriteProblem, Problem, ProblemWith

LEMMA SentResponse ==
    ASSUME NEW p, p.kind = "response" PROVE ServeHTTP(p) = p
BY DEF ServeHTTP

(* What is sent for a conditioned outcome.                                 *)
Sent(sent, free, r) ==
    \/ /\ free.kind \in {"problem", "unexpected"}
       /\ sent = ServeHTTP(free)
    \/ /\ IsFull(free)
       /\ ~Matches(r.conditions, free.tag) /\ sent = free
    \/ /\ IsFull(free)
       /\ Matches(r.conditions, free.tag) /\ Method(r) = "GET" /\ sent = NotModified(free)
    \/ /\ IsFull(free)
       /\ Matches(r.conditions, free.tag) /\ Method(r) # "GET"
       /\ sent = ServeHTTP(PreconditionFailed)

LEMMA ConditionedSent ==
    ASSUME NEW outcome, NEW free, NEW r, Conditioned(outcome, free, r)
    PROVE  Sent(ServeHTTP(outcome), free, r)
<1>1. NotModified(free).kind = "response" BY DEF NotModified
<1>2. CASE outcome = free /\ free.kind \in {"problem", "unexpected"} BY <1>2 DEF Sent
<1>3. CASE outcome = Conditional(free, r) /\ IsFull(free)
  <2>1. free.kind = "response" BY <1>3 DEF IsFull
  <2>2. QED BY <1>1, <1>3, <2>1, SentResponse DEF Sent, Conditional
<1>4. QED BY <1>2, <1>3 DEF Conditioned

(* The statuses this can have.                                             *)
LEMMA SentStatus ==
    ASSUME NEW sent, NEW free, NEW r, Sent(sent, free, r)
    PROVE  /\ sent.kind = "response"
           /\ sent.status \in {200, 304} \cup 400..599
           /\ sent.status = 200 => IsFull(free) /\ sent = free
           /\ sent.status = 304 => IsFull(free) /\ Method(r) = "GET" /\ sent = NotModified(free)
           /\ sent.status >= 400 => sent.tag = NoEntityTag /\ sent.cache = NoStore
           /\ sent.status = 412 =>
                  \/ IsFull(free) /\ Matches(r.conditions, free.tag) /\ Method(r) # "GET"
                  \/ free.kind = "problem" /\ free.status = 412
<1>1. CASE free.kind = "problem" /\ sent = ServeHTTP(free) BY <1>1, SentProblem
<1>2. CASE free.kind = "unexpected" /\ sent = ServeHTTP(free) BY <1>2, SentUnexpected
<1>3. CASE IsFull(free) /\ sent = free BY <1>3 DEF IsFull
<1>4. CASE IsFull(free) /\ sent = NotModified(free) /\ Method(r) = "GET"
  BY <1>4 DEF NotModified
<1>5. CASE /\ IsFull(free) /\ sent = ServeHTTP(PreconditionFailed)
           /\ Matches(r.conditions, free.tag) /\ Method(r) # "GET"
  <2>1. PreconditionFailed.kind = "problem" /\ PreconditionFailed.status = 412
    BY DEF PreconditionFailed, Problem, ProblemWith
  <2>2. QED BY <1>5, <2>1, SentProblem
<1>6. QED BY <1>1, <1>2, <1>3, <1>4, <1>5 DEF Sent

-----------------------------------------------------------------------------
(* The answers of a static catalog are of the kinds an application's are.  *)
LEMMA StaticKinds ==
    ASSUME NEW list, NEW collections, NEW call, NEW path, NEW t, NEW k,
           call.operation \in Static!Handlers(collections)
    PROVE  LET answer == Static!StaticAnswer(list, collections, call, path, t, k) IN
           answer.kind \in AnswerKinds /\ MayReturn(call.operation, answer)
<1> DEFINE answer == Static!StaticAnswer(list, collections, call, path, t, k)
<1>1. ASSUME NEW values
      PROVE  LET page == Static!StaticPage(values, call.input, path, t, k) IN
             page.kind = "problem" \/ (page.kind = "page" /\ page.page.refinements = <<>>)
  BY DEF Static!StaticPage, Static!Gone, Static!ContextChanged, Static!PageAt
<1>2. ASSUME NEW values, NEW id, NEW representation
      PROVE  Static!Resource(values, id, representation).kind \in {"absent", "resource"}
  BY DEF Static!Resource
<1>3. Static!Missing.kind = "problem" BY DEF Static!Missing
<1>4. call.operation \in {"list-offerings", "list-collections", "list-collection-offerings",
                          "get-offering", "get-collection"}
  BY DEF Static!Handlers
<1>5. CASE call.operation = "list-offerings"
  BY <1>1, <1>5 DEF Static!StaticAnswer, AnswerKinds, MayReturn, GetOperations
<1>6. CASE call.operation = "list-collections"
  BY <1>1, <1>6 DEF Static!StaticAnswer, AnswerKinds, MayReturn, GetOperations
<1>7. CASE call.operation = "list-collection-offerings"
  BY <1>1, <1>3, <1>7 DEF Static!StaticAnswer, AnswerKinds, MayReturn, GetOperations
<1>8. CASE call.operation = "get-offering"
  BY <1>2, <1>8 DEF Static!StaticAnswer, AnswerKinds, MayReturn, GetOperations
<1>9. CASE call.operation = "get-collection"
  BY <1>2, <1>9 DEF Static!StaticAnswer, AnswerKinds, MayReturn, GetOperations
<1>10. QED BY <1>4, <1>5, <1>6, <1>7, <1>8, <1>9

(* An answer to a request, and how it came about.                          *)
CameOf(s, made, call, r) ==
    \/ call.kind = "problem" /\ made = call
    \/ call.kind = "document" /\ made = ServeDocument(s, Freely(r))
    \/ /\ call.kind = "call"
       /\ \E answer : /\ answer.kind \in AnswerKinds
                      /\ MayReturn(call.operation, answer)
                      /\ made = Answering(s, Freely(r), call, answer)

AnswersTo(s, a, r) ==
    /\ a = [sent |-> a.sent, call |-> a.call, made |-> a.made,
            madeAt |-> a.madeAt, madeBy |-> a.madeBy, list |-> a.list]
    /\ a.call = Reading(s, r)
    /\ CameOf(s, a.made, a.call, r)
    /\ Sent(a.sent, a.made, r)

(* Where things are.                                                       *)
Published == Lists \cup {setting.catalog.offerings}
WorldInv ==
    /\ setting \in Cases
    /\ service = New(setting.options)
    /\ offerings \in Published
    /\ now \in 0..MaxTime /\ restarts \in 0..MaxRestarts /\ confirms \in 0..MaxConfirms
    /\ key \in -1..MaxRestarts
    /\ phase \in {"refused to start", "idle", "asked", "answered", "holding", "ended"}

(* What the Agent asked and why, what it was answered, and what it holds.  *)
AskedInv ==
    /\ phase \in {"asked", "answered", "holding"} =>
           request.purpose \in {"ask", "confirm", "follow"}
    /\ phase \in {"asked", "answered"} =>
           /\ RequestParts \subseteq DOMAIN request
           /\ request.purpose = "ask" => held = NoHeld
           /\ request.purpose = "confirm" =>
                  held.kind = "held" /\ request.conditions = {held.answer.sent.tag}
           /\ request.purpose = "follow" => held.kind = "held"
AnsweredInv ==
    phase = "answered" => AnswersTo(service, response, request) /\ response.list \in Published
HeldInv ==
    /\ phase = "idle" => held = NoHeld
    /\ phase = "holding" => held.kind = "held"
    /\ held # NoHeld =>
           /\ held = [kind |-> "held", request |-> held.request, answer |-> held.answer]
           /\ RequestParts \subseteq DOMAIN held.request
           /\ AnswersTo(service, held.answer, held.request)
           /\ held.answer.sent.status = 200 /\ held.answer.list \in Published
CollectedInv ==
    IsList(collected) /\ \A page \in ToSet(collected) : page.list \in Published

AgentInv == WorldInv /\ AskedInv /\ AnsweredInv /\ HeldInv /\ CollectedInv

(* A reading is a refusal, the document or a call.                         *)
LEMMA ReadingKinds ==
    ASSUME NEW s, NEW r
    PROVE  /\ Reading(s, r).kind \in {"problem", "document", "call"}
           /\ Reading(s, r).kind = "problem" =>
                  \/ Reading(s, r) \in Refusals
                  \/ Reading(s, r) = NotAcceptable /\ ~AcceptsODP(r.accept)
           /\ Reading(s, r).kind = "document" =>
                  /\ Reading(s, r) = [kind |-> "document"]
                  /\ r.location.path = WellKnown /\ Method(r) = "GET" /\ AcceptsODP(r.accept)
           /\ Reading(s, r).kind = "call" => r.location.path # WellKnown /\ Reads(s, r)
<1>1. \A p \in Refusals \cup {NotAcceptable} : p.kind = "problem"
  BY DEF Refusals, NotAcceptable, Problem, ProblemWith, MethodNotAllowed, NotFound, Invalid
<1>2. Reads(s, r) => Reading(s, r).kind = "call" BY DEF Reads, CatalogCall
<1>3. QED BY <1>1, <1>2, ReadingCases

(* The four actions that answer, as one.                                   *)
AnswersNow ==
    /\ phase = "asked" /\ phase' = "answered"
    /\ UNCHANGED <<world, process, now, request, agent>>
    /\ response'.madeAt = now /\ response'.madeBy = key /\ response'.list = offerings
    /\ AnswersTo(service, response', request)

LEMMA AnswerMakes ==
    ASSUME NEW outcome, NEW call, NEW free, Answer(outcome, call, free),
           call = Reading(service, request),
           CameOf(service, free, call, request), Conditioned(outcome, free, request)
    PROVE  /\ phase' = "answered"
           /\ response'.madeAt = now /\ response'.madeBy = key /\ response'.list = offerings
           /\ AnswersTo(service, response', request)
<1>1. Sent(ServeHTTP(outcome), free, request) BY ConditionedSent
<1>2. response' = [sent |-> ServeHTTP(outcome), call |-> call, made |-> free,
                   madeAt |-> now, madeBy |-> key, list |-> offerings]
  BY DEF Answer
<1>3. QED BY <1>1, <1>2 DEF AnswersTo, Answer

LEMMA RefuseAnswers ==
    ASSUME Refuse PROVE AnswersNow
<1> DEFINE read == Reading(service, request)
<1>1. read.kind = "problem" /\ Answer(read, read, read) BY DEF Refuse
<1>2. CameOf(service, read, read, request) BY <1>1 DEF CameOf
<1>3. Conditioned(read, read, request) BY <1>1 DEF Conditioned
<1>4. QED BY <1>1, <1>2, <1>3, AnswerMakes DEF Refuse, AnswersNow

LEMMA DescribeAnswers ==
    ASSUME Describe, RequestParts \subseteq DOMAIN request PROVE AnswersNow
<1> DEFINE read == Reading(service, request)
<1>1. /\ read.kind = "document"
      /\ Answer(ServeDocument(service, request), read, ServeDocument(service, Freely(request)))
  BY DEF Describe, Unconditional, Freely
<1>2. CameOf(service, ServeDocument(service, Freely(request)), read, request)
  BY <1>1 DEF CameOf
<1>3. QED BY <1>1, <1>2, AnswerMakes, DocumentConditioned DEF Describe, AnswersNow

LEMMA HandleAnswers ==
    ASSUME NEW answer, Handle(Reading(service, request), answer),
           RequestParts \subseteq DOMAIN request,
           Reading(service, request).kind = "call", answer.kind \in AnswerKinds,
           MayReturn(Reading(service, request).operation, answer)
    PROVE  /\ phase' = "answered"
           /\ response'.madeAt = now /\ response'.madeBy = key /\ response'.list = offerings
           /\ AnswersTo(service, response', request)
<1> DEFINE read == Reading(service, request)
<1>1. Answer(Answering(service, request, read, answer), read,
             Answering(service, Freely(request), read, answer))
  BY DEF Handle, Unconditional, Freely
<1>2. CameOf(service, Answering(service, Freely(request), read, answer), read, request)
  BY DEF CameOf
<1> HIDE DEF read
<1>3. QED BY <1>1, <1>2, AnswerMakes, AnsweringConditioned DEF read

(* The operations of a Service over a static catalog are the catalog's.    *)
LEMMA StaticOperations ==
    ASSUME WorldInv, IsStatic, NEW r, Reading(service, r).kind = "call"
    PROVE  Reading(service, r).operation \in Static!Handlers(setting.catalog.collections)
<1>1. setting.options.handlers \subseteq Static!Handlers(setting.catalog.collections)
  BY CasesAssumption DEF WorldInv, IsStatic, IsStaticCase
<1>2. service.operations = setting.options.handlers BY DEF WorldInv, New, Advertised
<1>3. Reads(service, r) BY ReadingKinds
<1>4. Reading(service, r).operation \in service.operations
  BY <1>3 DEF Reads, CatalogCall
<1>5. QED BY <1>1, <1>2, <1>4

LEMMA AnsweringSteps ==
    ASSUME WorldInv, RequestParts \subseteq DOMAIN request,
           Refuse \/ Describe \/ StaticServes \/ ApplicationServes
    PROVE  AnswersNow
<1>1. CASE Refuse BY <1>1, RefuseAnswers
<1>2. CASE Describe BY <1>2, DescribeAnswers
<1>3. CASE StaticServes
  <2> DEFINE answer == Static!StaticAnswer(offerings, setting.catalog.collections,
                           Reading(service, request), request.location.path, now, key)
  <2>1. answer.kind \in AnswerKinds /\ MayReturn(Reading(service, request).operation, answer)
    BY <1>3, StaticKinds, StaticOperations DEF StaticServes
  <2>2. Handle(Reading(service, request), answer) BY <1>3 DEF StaticServes
  <2> HIDE DEF answer
  <2>3. QED BY <1>3, <2>1, <2>2, HandleAnswers DEF StaticServes, AnswersNow
<1>4. CASE ApplicationServes
  <2>1. PICK answer \in Answers :
            MayReturn(Reading(service, request).operation, answer)
            /\ Handle(Reading(service, request), answer)
    BY <1>4 DEF ApplicationServes
  <2>2. answer.kind \in AnswerKinds BY <2>1 DEF MayReturn, AnswerKinds
  <2>3. QED BY <1>4, <2>1, <2>2, HandleAnswers DEF ApplicationServes, AnswersNow
<1>5. QED BY <1>1, <1>2, <1>3, <1>4

-----------------------------------------------------------------------------
(* The invariant holds at first, and every step keeps it.                  *)
LEMMA NothingYet == NoHeld.kind = "nothing" /\ NoHeld # NoRequest
BY DEF NoHeld, NoRequest

LEMMA Bounds ==
    MaxTime \in Nat /\ MaxRestarts \in Nat /\ MaxConfirms \in Nat
BY ConstantsAssumption

LEMMA NoneListed == ToSet(<<>>) = {} /\ IsList(<<>>)
<1>1. ToSet(<<>>) = {} BY DEF ToSet
<1>2. QED BY <1>1 DEF IsList

LEMMA Starts == Init => AgentInv
<1> SUFFICES ASSUME Init PROVE AgentInv OBVIOUS
<1> USE DEF Init
<1>1. offerings \in Published
  <2>1. ~IsStatic => setting.catalog.offerings = <<>> BY CasesAssumption DEF IsStatic
  <2>2. QED BY <2>1 DEF Published
<1>2. key \in -1..MaxRestarts
  <2>1. key \in {-1, 0} BY DEF KeyOf
  <2> HIDE DEF Init
  <2>2. QED BY <2>1, Bounds
<1>3. WorldInv
  <2>1. now \in 0..MaxTime /\ restarts \in 0..MaxRestarts /\ confirms \in 0..MaxConfirms
    <3>1. now = 0 /\ restarts = 0 /\ confirms = 0 OBVIOUS
    <3> HIDE DEF Init
    <3>2. QED BY <3>1, Bounds
  <2>2. QED BY <1>1, <1>2, <2>1 DEF WorldInv
<1>4. phase \in {"idle", "refused to start"} OBVIOUS
<1>5. AskedInv BY <1>4 DEF AskedInv
<1>6. AnsweredInv BY <1>4 DEF AnsweredInv
<1>7. HeldInv BY <1>4, NothingYet DEF HeldInv
<1>8. CollectedInv BY NoneListed DEF CollectedInv
<1>9. QED BY <1>3, <1>5, <1>6, <1>7, <1>8 DEF AgentInv

LEMMA WorldKept ==
    ASSUME WorldInv, [Next]_vars PROVE WorldInv'
<1> USE DEF WorldInv
<1>1. CASE UNCHANGED vars BY <1>1 DEF vars, Published
<1>2. CASE Ask BY <1>2 DEF Ask, Send, world, process, agent, Published
<1>3. CASE Refuse BY <1>3 DEF Refuse, Answer, world, process, agent, Published
<1>4. CASE Describe BY <1>4 DEF Describe, Answer, world, process, agent, Published
<1>5. CASE StaticServes
  BY <1>5 DEF StaticServes, Handle, Answer, world, process, agent, Published
<1>6. CASE ApplicationServes
  BY <1>6 DEF ApplicationServes, Handle, Answer, world, process, agent, Published
<1>7. CASE TakeRepresentation BY <1>7 DEF TakeRepresentation, world, process, Published
<1>8. CASE TakeConfirmation BY <1>8 DEF TakeConfirmation, world, process, Published
<1>9. CASE TakeFailure BY <1>9 DEF TakeFailure, world, process, agent, Published
<1>10. CASE Confirm
  BY <1>10, Bounds DEF Confirm, Send, world, process, Published
<1>11. CASE FollowNext BY <1>11 DEF FollowNext, Send, world, process, agent, Published
<1>12. CASE Tick
  <2>1. now' \in 0..MaxTime
    <3>1. now < MaxTime /\ now' = now + 1 BY <1>12 DEF Tick
    <3>2. now \in 0..MaxTime OBVIOUS
    <3> HIDE DEF WorldInv
    <3>3. QED BY <3>1, <3>2, Bounds
  <2>2. QED BY <1>12, <2>1 DEF Tick, world, process, agent, Published
<1>13. CASE Restart
  <2>1. restarts + 1 \in 0..MaxRestarts
    <3>1. restarts < MaxRestarts BY <1>13 DEF Restart
    <3>2. restarts \in 0..MaxRestarts OBVIOUS
    <3> HIDE DEF WorldInv
    <3>3. QED BY <3>1, <3>2, Bounds
  <2>2. key' \in -1..MaxRestarts
    <3>1. key' \in {-1, restarts + 1} BY <1>13 DEF Restart, KeyOf
    <3> HIDE DEF WorldInv
    <3>2. QED BY <2>1, <3>1, Bounds
  <2>3. offerings' \in Published' BY <1>13 DEF Restart, Published, world
  <2>4. QED BY <1>13, <2>1, <2>2, <2>3 DEF Restart, world, agent
<1>14. QED BY <1>1, <1>2, <1>3, <1>4, <1>5, <1>6, <1>7, <1>8, <1>9, <1>10, <1>11, <1>12, <1>13
       DEF Next

(* What an Agent holds is a representation with the tag of what it says.   *)
LEMMA HeldIsFull ==
    ASSUME HeldInv, held # NoHeld
    PROVE  IsFull(held.answer.made) /\ held.answer.sent = held.answer.made
<1>1. Sent(held.answer.sent, held.answer.made, held.request) /\ held.answer.sent.status = 200
  BY DEF HeldInv, AnswersTo
<1>2. QED BY <1>1, SentStatus

(* TakeConfirmation changes when and by whom what is held was made alone.  *)
LEMMA ConfirmedAnswer ==
    ASSUME HeldInv, held # NoHeld, TakeConfirmation
    PROVE  /\ held' = [kind |-> "held", request |-> held.request,
                       answer |-> [held.answer EXCEPT !.madeAt = response.madeAt,
                                                      !.madeBy = response.madeBy]]
           /\ held'.answer.madeAt = response.madeAt /\ held'.answer.madeBy = response.madeBy
           /\ held'.answer.sent = held.answer.sent /\ held'.answer.call = held.answer.call
           /\ held'.answer.made = held.answer.made /\ held'.answer.list = held.answer.list
           /\ \A s, r : AnswersTo(s, held.answer, r) => AnswersTo(s, held'.answer, r)
<1> DEFINE a == held.answer
           b == [a EXCEPT !.madeAt = response.madeAt, !.madeBy = response.madeBy]
<1>1. held = [kind |-> "held", request |-> held.request, answer |-> a] BY DEF HeldInv
<1>2. a = [sent |-> a.sent, call |-> a.call, made |-> a.made,
           madeAt |-> a.madeAt, madeBy |-> a.madeBy, list |-> a.list]
  BY DEF HeldInv, AnswersTo
<1>3. held' = [held EXCEPT !.answer = b] BY DEF TakeConfirmation
<1>4. held' = [kind |-> "held", request |-> held.request, answer |-> b]
  <2> HIDE DEF a, b
  <2>1. QED BY <1>1, <1>3
<1>5. b = [sent |-> a.sent, call |-> a.call, made |-> a.made,
           madeAt |-> response.madeAt, madeBy |-> response.madeBy, list |-> a.list]
  <2> DEFINE x == response.madeAt
             y == response.madeBy
             c == [a EXCEPT !.madeAt = x]
  <2>1. b = [c EXCEPT !.madeBy = y] OBVIOUS
  <2> HIDE DEF a, b, x, y
  <2>2. c = [sent |-> a.sent, call |-> a.call, made |-> a.made,
             madeAt |-> x, madeBy |-> a.madeBy, list |-> a.list]
    BY <1>2
  <2> HIDE DEF c
  <2>3. b = [sent |-> a.sent, call |-> a.call, made |-> a.made,
             madeAt |-> x, madeBy |-> y, list |-> a.list]
    BY <2>1, <2>2
  <2>4. QED BY <2>3 DEF x, y
<1>6. held'.answer = b BY <1>4
<1> HIDE DEF a, b
<1>7. QED BY <1>4, <1>5, <1>6 DEF AnswersTo, a, b

LEMMA AskedKept ==
    ASSUME AgentInv, [Next]_vars PROVE AskedInv'
<1> USE DEF AgentInv
<1>1. ASSUME UNCHANGED <<phase, request, held>> PROVE AskedInv' BY <1>1 DEF AskedInv
<1>2. ASSUME phase' \in {"idle", "ended", "refused to start"} PROVE AskedInv'
  BY <1>2 DEF AskedInv
<1>3. ASSUME phase' = "holding", request' = request,
             phase \in {"asked", "answered"}
      PROVE  AskedInv'
  BY <1>3 DEF AskedInv
<1>4. CASE Ask
  <2>1. PICK r \in setting.requests : Send(r, "ask") BY <1>4 DEF Ask
  <2>2. phase = "idle" /\ held' = held BY <1>4 DEF Ask, agent
  <2>3. held = NoHeld BY <2>2 DEF HeldInv
  <2>4. RequestParts \subseteq DOMAIN r BY CasesAssumption DEF WorldInv, IsRequest
  <2>5. request' = [r EXCEPT !.purpose = "ask"] /\ phase' = "asked" BY <2>1 DEF Send
  <2>6. RequestParts \subseteq DOMAIN request' /\ request'.purpose = "ask"
    BY <2>4, <2>5 DEF RequestParts
  <2>7. QED BY <2>2, <2>3, <2>5, <2>6 DEF AskedInv
<1>5. CASE Refuse \/ Describe \/ StaticServes \/ ApplicationServes
  <2>1. phase = "asked" /\ phase' = "answered" /\ request' = request /\ held' = held
    BY <1>5 DEF Refuse, Describe, StaticServes, ApplicationServes, Handle, Answer, agent
  <2>2. QED BY <2>1 DEF AskedInv
<1>6. CASE TakeRepresentation BY <1>3, <1>6 DEF TakeRepresentation
<1>7. CASE TakeConfirmation BY <1>2, <1>3, <1>7 DEF TakeConfirmation
<1>8. CASE TakeFailure BY <1>2, <1>8 DEF TakeFailure
<1>9. CASE Confirm
  <2> DEFINE asked(h) == [held.request EXCEPT
                    !.conditions = {held.answer.sent.tag}, !.accept = h.accept,
                    !.languages = h.languages, !.authorization = h.authorization]
  <2>1. PICK h \in Headers : Send(asked(h), "confirm") BY <1>9 DEF Confirm
  <2>2. phase = "holding" /\ held' = held BY <1>9 DEF Confirm
  <2>3. held.kind = "held" /\ RequestParts \subseteq DOMAIN held.request
    BY <2>2, NothingYet DEF HeldInv
  <2>4. RequestParts \subseteq DOMAIN asked(h) /\ asked(h).conditions = {held.answer.sent.tag}
    BY <2>3 DEF RequestParts
  <2>5. request' = [asked(h) EXCEPT !.purpose = "confirm"] /\ phase' = "asked"
    BY <2>1 DEF Send
  <2> HIDE DEF asked
  <2>6. /\ RequestParts \subseteq DOMAIN request' /\ request'.purpose = "confirm"
        /\ request'.conditions = {held.answer.sent.tag}
    BY <2>4, <2>5 DEF RequestParts
  <2>7. QED BY <2>2, <2>3, <2>5, <2>6 DEF AskedInv
<1>10. CASE FollowNext
  <2> DEFINE next == held.answer.sent.body.next
             asked(h, alteration) == [held.request EXCEPT
                    !.method = "GET", !.conditions = {}, !.languages = h.languages,
                    !.location = Altered(next.location, alteration)]
  <2>1. PICK h \in Headers, alteration \in {Unaltered} \cup Alterations :
            Send(asked(h, alteration), "follow")
    BY <1>10 DEF FollowNext
  <2>2. phase = "holding" /\ held' = held BY <1>10 DEF FollowNext, agent
  <2>3. held.kind = "held" /\ RequestParts \subseteq DOMAIN held.request
    BY <2>2, NothingYet DEF HeldInv
  <2>4. RequestParts \subseteq DOMAIN asked(h, alteration) BY <2>3
  <2>5. request' = [asked(h, alteration) EXCEPT !.purpose = "follow"] /\ phase' = "asked"
    BY <2>1 DEF Send
  <2> HIDE DEF asked
  <2>6. RequestParts \subseteq DOMAIN request' /\ request'.purpose = "follow"
    BY <2>4, <2>5 DEF RequestParts
  <2>7. QED BY <2>2, <2>3, <2>5, <2>6 DEF AskedInv
<1>11. CASE Tick BY <1>1, <1>11 DEF Tick, agent
<1>12. CASE Restart
  <2>1. /\ request' = request /\ held' = held
        /\ \/ phase' = phase
           \/ phase' = "idle"
           \/ phase = "asked" /\ phase' = "holding"
    BY <1>12 DEF Restart, agent
  <2>2. QED BY <1>1, <1>2, <1>3, <2>1
<1>13. CASE UNCHANGED vars BY <1>1, <1>13 DEF vars
<1>14. QED
  BY <1>4, <1>5, <1>6, <1>7, <1>8, <1>9, <1>10, <1>11, <1>12, <1>13 DEF Next

LEMMA AnsweredKept ==
    ASSUME AgentInv, [Next]_vars PROVE AnsweredInv'
<1> USE DEF AgentInv
<1>1. ASSUME UNCHANGED <<phase, request, response, world>> PROVE AnsweredInv'
  BY <1>1 DEF AnsweredInv, world, Published
<1>2. ASSUME phase' # "answered" PROVE AnsweredInv' BY <1>2 DEF AnsweredInv
<1>3. CASE Refuse \/ Describe \/ StaticServes \/ ApplicationServes
  <2>1. phase = "asked"
    BY <1>3 DEF Refuse, Describe, StaticServes, ApplicationServes
  <2>2. RequestParts \subseteq DOMAIN request BY <2>1 DEF AskedInv
  <2>3. AnswersNow BY <1>3, <2>2, AnsweringSteps
  <2>4. /\ AnswersTo(service, response', request) /\ response'.list = offerings
        /\ request' = request /\ service' = service /\ setting' = setting
    BY <2>3 DEF AnswersNow, world
  <2>5. response'.list \in Published' BY <2>4 DEF WorldInv, Published
  <2>6. QED BY <2>4, <2>5 DEF AnsweredInv
<1>4. CASE Ask \/ Confirm \/ FollowNext BY <1>2, <1>4 DEF Ask, Confirm, FollowNext, Send
<1>5. CASE TakeRepresentation \/ TakeConfirmation \/ TakeFailure
  BY <1>2, <1>5 DEF TakeRepresentation, TakeConfirmation, TakeFailure
<1>6. CASE Tick BY <1>1, <1>6 DEF Tick
<1>7. CASE Restart
  <2>1. /\ UNCHANGED <<request, response, world>>
        /\ phase' = phase \/ phase' \in {"idle", "holding"}
    BY <1>7 DEF Restart
  <2>2. QED BY <1>1, <1>2, <2>1
<1>8. CASE UNCHANGED vars BY <1>1, <1>8 DEF vars, world
<1>9. QED BY <1>3, <1>4, <1>5, <1>6, <1>7, <1>8 DEF Next

LEMMA HeldKept ==
    ASSUME AgentInv, [Next]_vars PROVE HeldInv'
<1> USE DEF AgentInv
<1>1. ASSUME UNCHANGED <<held, world>>,
             phase' = phase \/ phase' \in {"asked", "answered", "ended", "refused to start"}
      PROVE  HeldInv'
  BY <1>1 DEF HeldInv, world, Published
<1>2. CASE Ask \/ Confirm \/ FollowNext
  BY <1>1, <1>2 DEF Ask, Confirm, FollowNext, Send, agent
<1>3. CASE Refuse \/ Describe \/ StaticServes \/ ApplicationServes
  BY <1>1, <1>3 DEF Refuse, Describe, StaticServes, ApplicationServes, Handle, Answer, agent
<1>4. CASE TakeRepresentation
  <2>1. /\ phase = "answered" /\ response.sent.status = 200 /\ phase' = "holding"
        /\ held' = [kind |-> "held", request |-> request, answer |-> response]
        /\ UNCHANGED <<setting, service>>
    BY <1>4 DEF TakeRepresentation, world
  <2>2. /\ AnswersTo(service, response, request) /\ response.list \in Published
        /\ RequestParts \subseteq DOMAIN request
    BY <2>1 DEF AnsweredInv, AskedInv
  <2>3. /\ held'.kind = "held" /\ held'.request = request /\ held'.answer = response
    BY <2>1
  <2>4. QED BY <2>1, <2>2, <2>3 DEF HeldInv, Published
<1>5. CASE TakeConfirmation
  <2>1. CASE held = NoHeld
    BY <1>1, <1>5, <2>1 DEF TakeConfirmation
  <2>2. CASE held # NoHeld
    <3>1. phase' = "holding" /\ UNCHANGED <<setting, service>>
      BY <1>5, <2>2 DEF TakeConfirmation, world
    <3>2. /\ held'.kind = "held" /\ held'.request = held.request
          /\ held' = [kind |-> "held", request |-> held'.request, answer |-> held'.answer]
      BY <1>5, <2>2, ConfirmedAnswer
    <3>3. /\ RequestParts \subseteq DOMAIN held.request
          /\ AnswersTo(service, held.answer, held.request)
          /\ held.answer.sent.status = 200 /\ held.answer.list \in Published
      BY <2>2 DEF HeldInv
    <3>4. /\ AnswersTo(service, held'.answer, held.request)
          /\ held'.answer.sent.status = 200 /\ held'.answer.list \in Published
      BY <1>5, <2>2, <3>3, ConfirmedAnswer
    <3>5. QED BY <3>1, <3>2, <3>3, <3>4 DEF HeldInv, Published
  <2>3. QED BY <2>1, <2>2
<1>6. CASE TakeFailure BY <1>1, <1>6 DEF TakeFailure, agent
<1>7. CASE Tick BY <1>1, <1>7 DEF Tick, agent
<1>8. CASE Restart
  <2>1. /\ UNCHANGED <<held, world>>
        /\ phase' = IF phase # "asked" THEN phase ELSE IF held = NoHeld THEN "idle" ELSE "holding"
    BY <1>8 DEF Restart, agent
  <2>2. held # NoHeld => held.kind = "held" BY DEF HeldInv
  <2>3. QED BY <1>1, <2>1, <2>2 DEF HeldInv, world, Published
<1>9. CASE UNCHANGED vars BY <1>1, <1>9 DEF vars, world
<1>10. QED BY <1>2, <1>3, <1>4, <1>5, <1>6, <1>7, <1>8, <1>9 DEF Next

(* The lists of the pages collected.                                       *)
LEMMA ListOfItsOwn == ASSUME NEW S, NEW s \in Seq(S) PROVE IsList(s)
<1>1. s \in [1..Len(s) -> S] /\ Len(s) \in Nat /\ DOMAIN s = 1..Len(s) OBVIOUS
<1>2. \A i \in 1..Len(s) : s[i] \in ToSet(s) BY <1>1 DEF ToSet
<1>3. s \in [1..Len(s) -> ToSet(s)] BY <1>1, <1>2
<1>4. QED BY <1>1, <1>3 DEF IsList

LEMMA ListsJoined ==
    ASSUME NEW s, IsList(s), NEW t, IsList(t)
    PROVE  IsList(s \o t) /\ ToSet(s \o t) \subseteq ToSet(s) \cup ToSet(t)
<1> DEFINE S == ToSet(s) \cup ToSet(t)
<1>1. s \in Seq(S) /\ t \in Seq(S) BY DEF IsList
<1>2. s \o t \in Seq(S) BY <1>1
<1>3. ToSet(s \o t) \subseteq S BY <1>2 DEF ToSet
<1>4. QED BY <1>2, <1>3, ListOfItsOwn

LEMMA FrontListed ==
    ASSUME NEW s, IsList(s) PROVE IsList(Front(s)) /\ ToSet(Front(s)) \subseteq ToSet(s)
<1>1. s \in Seq(ToSet(s)) BY DEF IsList
<1>2. Front(s) \in Seq(ToSet(s)) BY <1>1 DEF Front
<1>3. ToSet(Front(s)) \subseteq ToSet(s) BY <1>2 DEF ToSet
<1>4. QED BY <1>2, <1>3, ListOfItsOwn

LEMMA CollectedKept ==
    ASSUME AgentInv, [Next]_vars PROVE CollectedInv'
<1> USE DEF AgentInv
<1>1. ASSUME UNCHANGED <<collected, world>> PROVE CollectedInv'
  BY <1>1 DEF CollectedInv, world, Published
<1>2. CASE TakeRepresentation
  <2>1. /\ phase = "answered" /\ UNCHANGED world
        /\ collected' = (IF request.purpose = "confirm" /\ IsPage(response)
                         THEN Front(collected) ELSE collected) \o PageOf(response)
    BY <1>2 DEF TakeRepresentation
  <2>2. IsList(PageOf(response)) /\ \A page \in ToSet(PageOf(response)) : page.list \in Published
    <3>1. CASE ~IsPage(response) BY <3>1, NoneListed DEF PageOf
    <3>2. CASE IsPage(response)
      <4> DEFINE page == [page |-> response.sent.body, list |-> response.list,
                          language |-> response.sent.language]
      <4>1. PageOf(response) = <<page>> BY <3>2 DEF PageOf
      <4>2. page.list \in Published BY <2>1 DEF AnsweredInv
      <4> HIDE DEF page
      <4>3. ToSet(<<page>>) = {page} BY DEF ToSet
      <4>4. QED BY <4>1, <4>2, <4>3 DEF IsList
    <3>3. QED BY <3>1, <3>2
  <2>3. CollectedInv BY DEF AgentInv
  <2> DEFINE kept == IF request.purpose = "confirm" /\ IsPage(response)
                     THEN Front(collected) ELSE collected
  <2>4. IsList(kept) /\ \A page \in ToSet(kept) : page.list \in Published
    BY <2>3, FrontListed DEF CollectedInv
  <2> HIDE DEF kept
  <2>5. IsList(kept \o PageOf(response))
        /\ \A page \in ToSet(kept \o PageOf(response)) : page.list \in Published
    BY <2>2, <2>4, ListsJoined
  <2>6. collected' = kept \o PageOf(response) BY <2>1 DEF kept
  <2>7. QED BY <2>1, <2>5, <2>6 DEF CollectedInv, world, Published
<1>3. CASE Ask \/ Confirm \/ FollowNext
  BY <1>1, <1>3 DEF Ask, Confirm, FollowNext, agent
<1>4. CASE Refuse \/ Describe \/ StaticServes \/ ApplicationServes
  BY <1>1, <1>4 DEF Refuse, Describe, StaticServes, ApplicationServes, agent
<1>5. CASE TakeConfirmation \/ TakeFailure
  BY <1>1, <1>5 DEF TakeConfirmation, TakeFailure, agent
<1>6. CASE Tick \/ Restart BY <1>1, <1>6 DEF Tick, Restart, agent
<1>7. CASE UNCHANGED vars BY <1>1, <1>7 DEF vars, world
<1>8. QED BY <1>2, <1>3, <1>4, <1>5, <1>6, <1>7 DEF Next

THEOREM Invariant == Spec => []AgentInv
<1>1. Init => AgentInv BY Starts
<1>2. AgentInv /\ [Next]_vars => AgentInv'
  BY WorldKept, AskedKept, AnsweredKept, HeldKept, CollectedKept DEF AgentInv
<1>3. QED BY <1>1, <1>2, PTL DEF Spec

(* Type correctness.                                                       *)
THEOREM TypeCorrect == Spec => []TypeOK
<1>1. ASSUME AgentInv PROVE TypeOK
  <2> USE <1>1 DEF AgentInv
  <2>1. phase = "answered" => response.sent.kind = "response" /\ response.sent.status \in 200..599
    <3>1. SUFFICES ASSUME phase = "answered"
                   PROVE  response.sent.kind = "response" /\ response.sent.status \in 200..599
      OBVIOUS
    <3>2. Sent(response.sent, response.made, request) BY <3>1 DEF AnsweredInv, AnswersTo
    <3>3. QED BY <3>2, SentStatus
  <2>2. phase = "holding" => held.kind = "held" /\ held.answer.sent.tag # NoEntityTag
    <3>1. SUFFICES ASSUME phase = "holding"
                   PROVE  held.kind = "held" /\ held.answer.sent.tag # NoEntityTag
      OBVIOUS
    <3>2. held.kind = "held" /\ held # NoHeld BY <3>1, NothingYet DEF HeldInv
    <3>3. held.answer.sent.tag = EntityTag(held.answer.sent.language, held.answer.sent.body)
      BY <3>2, HeldIsFull DEF IsFull
    <3>4. \A x, y : EntityTag(x, y) # NoEntityTag
      <4>1. ASSUME NEW x, NEW y PROVE DOMAIN EntityTag(x, y) # DOMAIN NoEntityTag
        BY DEF EntityTag, NoEntityTag
      <4>2. QED BY <4>1
    <3>5. QED BY <3>2, <3>3, <3>4
  <2>3. QED BY <2>1, <2>2 DEF TypeOK, WorldInv, AskedInv, CollectedInv, Published
<1>2. QED BY <1>1, Invariant, PTL

-----------------------------------------------------------------------------
(* A confirmation is true: 304 exactly when the Agent would be sent what it*)
(* holds, in the same language; 412 exactly when it POSTs then, or the     *)
(* application says so itself.                                             *)
LEMMA TagTells ==
    ASSUME NEW l1, NEW b1, NEW l2, NEW b2
    PROVE  /\ EntityTag(l1, b1) = EntityTag(l2, b2) <=> l1 = l2 /\ b1 = b2
           /\ EntityTag(l1, b1) # AnyEntityTag
<1>1. EntityTag(l1, b1).language = l1 /\ EntityTag(l1, b1).body = b1 BY DEF EntityTag
<1>2. EntityTag(l2, b2).language = l2 /\ EntityTag(l2, b2).body = b2 BY DEF EntityTag
<1>3. DOMAIN EntityTag(l1, b1) = {"language", "body"} BY DEF EntityTag
<1>4. DOMAIN AnyEntityTag = {"any"} BY DEF AnyEntityTag
<1>5. QED BY <1>1, <1>2, <1>3, <1>4

LEMMA MethodsRead ==
    ASSUME NEW s, NEW r, Reading(s, r).kind # "problem"
    PROVE  /\ Method(r) \in {"GET", "POST"}
           /\ Method(r) = "POST" <=> r.method = "POST"
<1>1. CASE Reading(s, r).kind = "document" BY <1>1, ReadingKinds DEF Method
<1>2. CASE Reading(s, r).kind = "call" BY <1>2, ReadingKinds DEF Reads, Takes, Method
<1>3. QED BY <1>1, <1>2, ReadingKinds

THEOREM ConfirmationsTrue == Spec => []ConfirmedIsCurrent
<1>1. ASSUME AgentInv PROVE ConfirmedIsCurrent
  <2> SUFFICES ASSUME phase = "answered", request.purpose = "confirm"
               PROVE  LET current == /\ response.call.kind # "problem"
                                     /\ response.made.kind = "response"
                                     /\ response.made.body = held.answer.sent.body
                                     /\ response.made.language = held.answer.sent.language
                      IN  /\ response.sent.status = 304 <=> current /\ request.method # "POST"
                          /\ response.sent.status = 412 <=> \/ current /\ request.method = "POST"
                                                            \/ AnsweredItself(412)
    BY DEF ConfirmedIsCurrent
  <2> USE <1>1 DEF AgentInv
  <2> DEFINE made == response.made
             what == held.answer.sent
             current == /\ response.call.kind # "problem"
                        /\ made.kind = "response"
                        /\ made.body = what.body /\ made.language = what.language
  <2>1. held # NoHeld /\ request.conditions = {what.tag}
    BY NothingYet DEF AskedInv
  <2>2. what.tag = EntityTag(what.language, what.body) BY <2>1, HeldIsFull DEF IsFull
  <2>3. /\ Sent(response.sent, made, request)
        /\ response.call = Reading(service, request)
        /\ CameOf(service, made, response.call, request)
    BY DEF AnsweredInv, AnswersTo
  <2>4. IsFull(made) => made.tag = EntityTag(made.language, made.body) /\ made.kind = "response"
    BY DEF IsFull
  <2>5. made.kind = "response" => IsFull(made) BY <2>3 DEF Sent
  <2>6. IsFull(made) =>
            (Matches(request.conditions, made.tag)
                <=> made.body = what.body /\ made.language = what.language)
    BY <2>1, <2>2, <2>4, TagTells DEF Matches
  <2>7. response.call.kind = "problem" => made.kind = "problem" BY <2>3 DEF CameOf
  <2>8. current <=> IsFull(made) /\ Matches(request.conditions, made.tag)
    BY <2>4, <2>5, <2>6, <2>7
  <2>9. response.call.kind # "problem" =>
            /\ Method(request) \in {"GET", "POST"}
            /\ Method(request) = "POST" <=> request.method = "POST"
    BY <2>3, MethodsRead
  <2>10. response.call.kind = "problem" => made.status # 412
    <3>1. ASSUME response.call.kind = "problem" PROVE made \in Refusals \cup {NotAcceptable}
      BY <2>3, <3>1, ReadingKinds DEF CameOf
    <3>2. \A p \in Refusals \cup {NotAcceptable} : p.status # 412
      BY DEF Refusals, NotAcceptable, Problem, ProblemWith, MethodNotAllowed, NotFound, Invalid
    <3>3. QED BY <3>1, <3>2
  <2>11. response.call.kind \in {"problem", "document", "call"} BY <2>3, ReadingKinds
  <2>12. response.call.kind = "document" => made.kind # "problem"
    <3>1. SUFFICES ASSUME response.call.kind = "document" PROVE made.kind # "problem" OBVIOUS
    <3>2. made = ServeDocument(service, Freely(request)) BY <2>3, <3>1 DEF CameOf
    <3>3. RequestParts \subseteq DOMAIN request BY DEF AskedInv
    <3>4. made = Unexpected \/ made = Representation(service.document,
              service.document.language, "not-required")
      BY <3>2, <3>3, RespondConditioned DEF ServeDocument
    <3>5. QED BY <3>4 DEF Unexpected, Representation
  <2> HIDE DEF made, what, current
  <2>13. response.sent.status = 304 <=> current /\ request.method # "POST"
    <3>1. ASSUME response.sent.status = 304 PROVE current /\ request.method # "POST"
      BY <2>3, <2>4, <2>8, <2>9, <2>7, <3>1, SentStatus DEF Sent, NotModified, current, IsFull
    <3>2. ASSUME current, request.method # "POST" PROVE response.sent.status = 304
      <4>1. Method(request) = "GET" BY <2>9, <3>2 DEF current
      <4>2. response.sent = NotModified(made)
        BY <2>3, <2>4, <2>8, <3>2, <4>1 DEF Sent
      <4>3. QED BY <4>2 DEF NotModified
    <3>3. QED BY <3>1, <3>2
  <2>14. response.sent.status = 412 => (current /\ request.method = "POST") \/ AnsweredItself(412)
    <3>1. SUFFICES ASSUME response.sent.status = 412
                   PROVE  (current /\ request.method = "POST") \/ AnsweredItself(412)
      OBVIOUS
    <3>2. CASE IsFull(made) /\ Matches(request.conditions, made.tag) /\ Method(request) # "GET"
      BY <2>8, <2>9, <3>2 DEF current
    <3>3. CASE made.kind = "problem" /\ made.status = 412
      BY <2>10, <2>11, <2>12, <3>3 DEF AnsweredItself, made
    <3>4. QED BY <2>3, <3>1, <3>2, <3>3, SentStatus
  <2>15. ASSUME current, request.method = "POST" PROVE response.sent.status = 412
    <3>1. Method(request) # "GET" BY <2>9, <2>15 DEF current
    <3>2. response.sent = ServeHTTP(PreconditionFailed)
      BY <2>3, <2>4, <2>8, <2>15, <3>1 DEF Sent
    <3>3. PreconditionFailed.kind = "problem" /\ PreconditionFailed.status = 412
      BY DEF PreconditionFailed, Problem, ProblemWith
    <3>4. QED BY <3>2, <3>3, SentProblem
  <2>16. ASSUME AnsweredItself(412) PROVE response.sent.status = 412
    <3>1. made.kind = "problem" /\ made.status = 412 BY <2>16 DEF AnsweredItself, made
    <3>2. response.sent = ServeHTTP(made) BY <2>3, <2>4, <3>1 DEF Sent
    <3>3. QED BY <3>1, <3>2, SentProblem
  <2>17. QED BY <2>13, <2>14, <2>15, <2>16 DEF current, made, what
<1>2. QED BY <1>1, Invariant, PTL

-----------------------------------------------------------------------------
(* What a representation is made of: the document, or what the catalog     *)
(* returned for the operation, valid and within its limits.                *)
IsGet(call) == call.operation \in GetOperations
Declared(call, body) == IF IsGet(call) THEN body.item.language ELSE NoTag
IsOf(s, made, call, r) ==
    /\ made = Representation(made.body,
                  RepresentationLanguage(Declared(call, made.body), call.input.language,
                                         s.document.language),
                  s.authentication[call.operation])
    /\ ~(made.body.bytes > Limits.resource.bytes) /\ ~(made.body.depth > Limits.resource.depth)
    /\ IF IsGet(call) THEN ValidResource(made.body, call) ELSE ValidPage(made.body, call, r)
    /\ ~IsGet(call) => call.operation = "search-offerings" \/ made.body.refinements = <<>>
IsDocument(s, made) == made = Representation(s.document, s.document.language, "not-required")

LEMMA RepresentationsCameOf ==
    ASSUME NEW s, NEW r, RequestParts \subseteq DOMAIN r, NEW made, NEW call,
           CameOf(s, made, call, r), IsFull(made)
    PROVE  \/ call.kind = "document" /\ IsDocument(s, made)
           \/ call.kind = "call" /\ IsOf(s, made, call, r)
<1>1. made.kind = "response" BY DEF IsFull
<1>2. call.kind # "problem" BY <1>1 DEF CameOf
<1>3. ASSUME made = Unexpected PROVE FALSE BY <1>1, <1>3 DEF Unexpected
<1>4. CASE call.kind = "document" /\ made = ServeDocument(s, Freely(r))
  BY <1>3, <1>4, RespondConditioned DEF ServeDocument, IsDocument
<1>5. ASSUME call.kind = "call",
             NEW answer, answer.kind \in AnswerKinds, MayReturn(call.operation, answer),
             made = Answering(s, Freely(r), call, answer)
      PROVE  IsOf(s, made, call, r)
  <2>1. NotFound.kind = "problem" BY DEF NotFound, Problem, ProblemWith
  <2>2. answer.kind \in {"page", "resource"}
    BY <1>1, <1>5, <2>1, AnsweringCases DEF AnswerKinds
  <2>3. ASSUME NEW body, NEW declared, made = Serves(s, Freely(r), call, body, declared)
        PROVE  /\ made = Representation(body,
                             RepresentationLanguage(declared, call.input.language, s.document.language),
                             s.authentication[call.operation])
               /\ made.body = body
               /\ ~(body.bytes > Limits.resource.bytes)
               /\ ~(body.depth > Limits.resource.depth)
    <3> DEFINE language == RepresentationLanguage(declared, call.input.language, s.document.language)
               full == Representation(body, language, s.authentication[call.operation])
    <3>1. made = full BY <1>3, <2>3, RespondConditioned DEF Serves
    <3>2. full.body = body BY DEF Representation
    <3>3. made = IF body.bytes > Limits.resource.bytes \/ body.depth > Limits.resource.depth
                 THEN Unexpected ELSE Conditional(full, Freely(r))
      BY <2>3, RespondCases DEF Serves
    <3>4. QED BY <1>3, <3>1, <3>2, <3>3
  <2>4. CASE answer.kind = "page"
    <3>1. ~IsGet(call) /\ (call.operation = "search-offerings" \/ answer.page.refinements = <<>>)
      BY <1>5, <2>4 DEF MayReturn, IsGet
    <3>2. ValidPage(answer.page, call, Freely(r))
          /\ made = Serves(s, Freely(r), call, answer.page, NoTag)
      BY <1>3, <1>5, <2>4, AnsweringCases
    <3>3. ValidPage(answer.page, call, r) BY <3>2, FreelyTheSame
    <3>4. QED BY <2>3, <3>1, <3>2, <3>3 DEF IsOf, Declared
  <2>5. CASE answer.kind = "resource"
    <3>1. IsGet(call) BY <1>5, <2>5 DEF MayReturn, IsGet
    <3>2. ValidResource(answer.resource, call)
          /\ made = Serves(s, Freely(r), call, answer.resource, answer.resource.item.language)
      BY <1>3, <1>5, <2>5, AnsweringCases
    <3>3. QED BY <2>3, <3>1, <3>2 DEF IsOf, Declared
  <2>6. QED BY <2>2, <2>4, <2>5
<1>6. QED BY <1>2, <1>4, <1>5 DEF CameOf

(* Requests for one location, read as calls, are calls of one operation;   *)
(* the language of a call is the one selected for the request.             *)
LEMMA CallsOfOneLocation ==
    ASSUME NEW s, NEW r1, NEW r2, r1.location.path = r2.location.path,
           Reading(s, r1).kind # "problem", Reading(s, r2).kind # "problem"
    PROVE  /\ Reading(s, r1).kind = Reading(s, r2).kind
           /\ Reading(s, r1).kind = "call" =>
                  /\ Reading(s, r1).operation = Reading(s, r2).operation
                  /\ Reading(s, r1).input.language = LanguageFor(s, r1)
                  /\ Reading(s, r2).input.language = LanguageFor(s, r2)
                  /\ Reading(s, r1).operation \in s.operations
<1>1. Reading(s, r1).kind = "document" <=> r1.location.path = WellKnown BY ReadingKinds
<1>2. Reading(s, r2).kind = "document" <=> r2.location.path = WellKnown BY ReadingKinds
<1>3. ASSUME NEW r, Reading(s, r).kind = "call"
      PROVE  /\ Reading(s, r).operation = Route(r.location.path).operation
             /\ Reading(s, r).input.language = LanguageFor(s, r)
             /\ Reading(s, r).operation \in s.operations
  BY <1>3, ReadingKinds DEF Reads, CatalogCall
<1>4. QED BY <1>1, <1>2, <1>3, ReadingKinds

(* The document is never refused by the catalog.                           *)
LEMMA DocumentNoProblem ==
    ASSUME NEW s, NEW r, RequestParts \subseteq DOMAIN r
    PROVE  ServeDocument(s, Freely(r)).kind # "problem"
<1>1. \/ ServeDocument(s, Freely(r)) = Unexpected
      \/ ServeDocument(s, Freely(r))
            = Representation(s.document, s.document.language, "not-required")
  BY RespondConditioned DEF ServeDocument
<1>2. QED BY <1>1 DEF Unexpected, Representation

LEMMA SentNotAcceptable ==
    ASSUME NEW sent, NEW free, NEW r, Sent(sent, free, r), sent.status = 406
    PROVE  free.kind = "problem" /\ free.status = 406
<1>1. CASE free.kind = "problem" /\ sent = ServeHTTP(free) BY <1>1, SentProblem
<1>2. CASE free.kind = "unexpected" /\ sent = ServeHTTP(free) BY <1>2, SentUnexpected
<1>3. CASE IsFull(free) /\ sent = free BY <1>3 DEF IsFull
<1>4. CASE sent = NotModified(free) BY <1>4 DEF NotModified
<1>5. CASE sent = ServeHTTP(PreconditionFailed)
  <2>1. PreconditionFailed.kind = "problem" /\ PreconditionFailed.status = 412
    BY DEF PreconditionFailed, Problem, ProblemWith
  <2>2. QED BY <1>5, <2>1, SentProblem
<1>6. QED BY <1>1, <1>2, <1>3, <1>4, <1>5 DEF Sent

(* A shared cache stays sound: failures are not stored, and a request that *)
(* agrees with one whose answer is has the same answer coming.             *)
LEMMA Requirements ==
    ASSUME WorldInv, NEW operation \in service.operations
    PROVE  service.authentication[operation] \in {"not-required", "optional", "required"}
<1>1. service.operations = Advertised(setting.options)
      /\ service.authentication = AuthenticationOf(setting.options)
  BY DEF WorldInv, New
<1>2. \A o \in DOMAIN setting.options.authentication :
          setting.options.authentication[o] \in {"not-required", "optional", "required"}
  BY CasesAssumption DEF WorldInv
<1>3. QED BY <1>1, <1>2 DEF AuthenticationOf

LEMMA ShareableAreOpen ==
    ASSUME NEW body, NEW language, NEW authentication,
           Representation(body, language, authentication).cache # "private"
    PROVE  /\ ~body.authExpands /\ authentication \notin {"optional", "required"}
           /\ {"Accept", "Accept-Language"}
                  \subseteq Representation(body, language, authentication).vary
<1> DEFINE authenticated == body.authExpands \/ authentication \in {"optional", "required"}
<1>1. Representation(body, language, authentication).cache
        = IF authenticated THEN "private" ELSE "unstated"
  BY DEF Representation
<1>2. Representation(body, language, authentication).vary = Vary(authenticated)
  BY DEF Representation
<1>3. QED BY <1>1, <1>2 DEF Vary

THEOREM SharedCachesSound == Spec => []SharedCachesStaySound
<1>1. ASSUME AgentInv PROVE SharedCachesStaySound
  <2> SUFFICES ASSUME phase = "answered"
               PROVE  /\ response.sent.status >= 400 =>
                             ~Shareable(response) /\ response.sent.tag = NoEntityTag
                      /\ held.kind = "held" /\ Shareable(held.answer)
                         /\ Agrees(held.request, request, held.answer.sent.vary) =>
                             /\ response.sent.status \in {200, 304}
                                /\ response.made.body = held.answer.sent.body =>
                                    response.sent.language = held.answer.sent.language
                             /\ response.sent.status = 406 => AnsweredItself(406)
                             /\ Minds(held.answer) =>
                                    request.authorization = held.request.authorization
    BY DEF SharedCachesStaySound
  <2> USE <1>1 DEF AgentInv
  <2>1. /\ Sent(response.sent, response.made, request)
        /\ response.call = Reading(service, request)
        /\ CameOf(service, response.made, response.call, request)
        /\ RequestParts \subseteq DOMAIN request
    BY DEF AnsweredInv, AnswersTo, AskedInv
  <2>2. response.sent.status >= 400 => ~Shareable(response) /\ response.sent.tag = NoEntityTag
    BY <2>1, SentStatus DEF Shareable
  <2>3. ASSUME held.kind = "held", Shareable(held.answer),
               Agrees(held.request, request, held.answer.sent.vary)
        PROVE  /\ response.sent.status \in {200, 304}
                  /\ response.made.body = held.answer.sent.body =>
                       response.sent.language = held.answer.sent.language
               /\ response.sent.status = 406 => AnsweredItself(406)
               /\ ~Minds(held.answer)
    <3> DEFINE made == held.answer.made
               call == held.answer.call
    <3>1. held # NoHeld BY <2>3, NothingYet
    <3>2. IsFull(made) /\ held.answer.sent = made BY <3>1, HeldIsFull
    <3>3. /\ call = Reading(service, held.request)
          /\ CameOf(service, made, call, held.request)
          /\ RequestParts \subseteq DOMAIN held.request
      BY <3>1 DEF HeldInv, AnswersTo
    <3>4. \/ call.kind = "document" /\ IsDocument(service, made)
          \/ call.kind = "call" /\ IsOf(service, made, call, held.request)
      BY <3>2, <3>3, RepresentationsCameOf
    <3>5. made.cache # "private" BY <2>3, <3>2 DEF Shareable
    <3>6. {"Accept", "Accept-Language"} \subseteq made.vary
      BY <3>4, <3>5, ShareableAreOpen DEF IsDocument, IsOf
    <3>7. /\ held.request.location = request.location
          /\ held.request.accept = request.accept
          /\ held.request.languages = request.languages
      BY <2>3, <3>2, <3>6 DEF Agrees
    <3>8. AcceptsODP(request.accept)
      BY <3>3, <3>4, <3>7, ReadingKinds DEF Reads
    <3>9. ASSUME response.sent.status = 406 PROVE AnsweredItself(406)
      <4>1. response.made.kind = "problem" /\ response.made.status = 406
        BY <2>1, <3>9, SentNotAcceptable
      <4>2. response.call.kind # "document" BY <2>1, <4>1, DocumentNoProblem DEF CameOf
      <4>3. response.call.kind # "problem"
        <5>1. ASSUME response.call.kind = "problem" PROVE response.made \in Refusals
          BY <2>1, <3>8, <5>1, ReadingKinds DEF CameOf
        <5>2. \A p \in Refusals : p.status # 406
          BY DEF Refusals, Problem, ProblemWith, MethodNotAllowed, NotFound, Invalid
        <5>3. QED BY <4>1, <5>1, <5>2
      <4>4. QED BY <2>1, <4>1, <4>2, <4>3, ReadingKinds DEF AnsweredItself
    <3>10. ~Minds(held.answer)
      <4>1. SUFFICES ASSUME call.kind = "call" PROVE ~Minds(held.answer) BY DEF Minds
      <4>2. IsOf(service, made, call, held.request) BY <3>4, <4>1
      <4>3. call.operation \in service.operations
        BY <3>3, <4>1, CallsOfOneLocation, ReadingKinds
      <4>4. ~made.body.authExpands /\ service.authentication[call.operation] = "not-required"
        BY <3>5, <4>2, <4>3, ShareableAreOpen, Requirements DEF IsOf
      <4>5. QED BY <3>2, <4>4 DEF Minds
    <3>11. ASSUME response.sent.status \in {200, 304},
                  response.made.body = held.answer.sent.body
           PROVE  response.sent.language = held.answer.sent.language
      <4> DEFINE new == response.made
      <4>1. IsFull(new) /\ response.sent.language = new.language
        BY <2>1, <3>11, SentStatus DEF NotModified
      <4>2. \/ response.call.kind = "document" /\ IsDocument(service, new)
            \/ response.call.kind = "call" /\ IsOf(service, new, response.call, request)
        BY <2>1, <4>1, RepresentationsCameOf
      <4>3. /\ call.kind = response.call.kind
            /\ call.kind = "call" =>
                  /\ call.operation = response.call.operation
                  /\ call.input.language = LanguageFor(service, held.request)
                  /\ response.call.input.language = LanguageFor(service, request)
        <5>1. call.kind # "problem" /\ response.call.kind # "problem" BY <3>4, <4>2
        <5> HIDE DEF call
        <5>2. QED BY <2>1, <3>3, <3>7, <5>1, CallsOfOneLocation
      <4>4. LanguageFor(service, held.request) = LanguageFor(service, request)
        BY <3>7 DEF LanguageFor
      <4>5. new.body = made.body BY <3>2, <3>11
      <4>6. \A body, language, authentication :
                Representation(body, language, authentication).language = language
        BY DEF Representation
      <4>7. CASE call.kind = "document" BY <3>2, <3>4, <4>1, <4>2, <4>3, <4>6, <4>7 DEF IsDocument
      <4>8. CASE call.kind = "call"
        <5>1. made.language = RepresentationLanguage(Declared(call, made.body),
                                  call.input.language, service.document.language)
          BY <3>4, <4>6, <4>8 DEF IsOf
        <5>2. new.language = RepresentationLanguage(Declared(response.call, new.body),
                                  response.call.input.language, service.document.language)
          BY <4>2, <4>3, <4>6, <4>8 DEF IsOf
        <5>3. Declared(call, made.body) = Declared(response.call, new.body)
          BY <4>3, <4>5, <4>8 DEF Declared, IsGet
        <5> HIDE DEF made, call, new
        <5>4. new.language = made.language BY <4>3, <4>4, <4>8, <5>1, <5>2, <5>3
        <5>5. QED BY <3>2, <4>1, <5>4
      <4>9. QED BY <3>4, <4>7, <4>8
    <3>12. QED BY <3>9, <3>10, <3>11
  <2>4. QED BY <2>2, <2>3
<1>2. QED BY <1>1, Invariant, PTL

-----------------------------------------------------------------------------
(* The pages a static catalog cuts.                                        *)
LimitOf(input) == IF input.limit = 0 THEN DefaultPageLimit ELSE input.limit
OffsetOf(input) == IF input.cursor = NoCursor THEN 0 ELSE input.cursor.state.offset
Least(a, b) == IF a <= b THEN a ELSE b

LEMMA SameNothing == Static!NoCursor = NoCursor /\ Static!NoNext = NoNext
BY DEF Static!NoCursor, NoCursor, Static!NoNext, NoNext

LEMMA LeastOfTwo == ASSUME NEW a \in Nat, NEW b \in Nat PROVE Static!Min({a, b}) = Least(a, b)
BY DEF Static!Min, Least

(* A continuation this catalog takes back for a request.                   *)
Taken(input, path, t, k) ==
    \/ input.cursor = NoCursor
    \/ /\ ~Static!Unavailable(input.cursor, t, k)
       /\ ~Static!OtherContext(input.cursor.state, input, LimitOf(input), path)

(* The page for an input, and where it begins and ends.                    *)
CutPage(values, input, path, t, k) ==
    Static!PageAt(values, OffsetOf(input), LimitOf(input), input, path, t, k)
Begin(values, input) == Least(OffsetOf(input), Len(values))
End(values, input) == Least(Begin(values, input) + LimitOf(input), Len(values))

LEMMA StaticPageCases ==
    ASSUME NEW values, NEW input, NEW path, NEW t, NEW k
    PROVE  LET answer == Static!StaticPage(values, input, path, t, k) IN
           \/ /\ answer = Static!Gone
              /\ input.cursor # NoCursor /\ Static!Unavailable(input.cursor, t, k)
           \/ /\ answer = Static!ContextChanged
              /\ input.cursor # NoCursor /\ ~Static!Unavailable(input.cursor, t, k)
              /\ Static!OtherContext(input.cursor.state, input, LimitOf(input), path)
           \/ /\ Taken(input, path, t, k)
              /\ answer = [kind |-> "page", page |-> CutPage(values, input, path, t, k)]
BY SameNothing DEF Static!StaticPage, LimitOf, OffsetOf, Taken, CutPage

(* What a page is, for the list and the offset it was cut from.            *)
NextFrom(values, end, input, path, t, k) ==
    IF end < Len(values)
    THEN Static!NextReference(Static!Continuation(end, input, LimitOf(input), path, t, k), path)
    ELSE NoNext

LEMMA PageEnds ==
    ASSUME NEW values, IsList(values), NEW input, LimitOf(input) \in Nat \ {0},
           OffsetOf(input) \in Nat
    PROVE  /\ Begin(values, input) \in Nat /\ End(values, input) \in Nat
           /\ Begin(values, input) <= End(values, input) /\ End(values, input) <= Len(values)
           /\ End(values, input) - Begin(values, input) <= LimitOf(input)
           /\ Len(values) \in Nat
           /\ End(values, input) < Len(values) =>
                  /\ Begin(values, input) = OffsetOf(input)
                  /\ End(values, input) = OffsetOf(input) + LimitOf(input)
<1>1. Len(values) \in Nat BY DEF IsList
<1>2. QED BY <1>1 DEF Least, Begin, End

LEMMA PageCut ==
    ASSUME NEW values, IsList(values), NEW input, LimitOf(input) \in Nat \ {0},
           OffsetOf(input) \in Nat, NEW path, NEW t, NEW k
    PROVE  CutPage(values, input, path, t, k)
               = [items |-> [i \in 1..(End(values, input) - Begin(values, input)) |->
                                Static!View(values[Begin(values, input) + i],
                                            input.representation)],
                  next |-> NextFrom(values, End(values, input), input, path, t, k),
                  refinements |-> <<>>, authExpands |-> FALSE, bytes |-> 0, depth |-> 0]
<1> DEFINE from == Begin(values, input)
           end == End(values, input)
<1>1. Len(values) \in Nat /\ from + LimitOf(input) \in Nat BY PageEnds
<1>2. Static!Min({OffsetOf(input), Len(values)}) = from BY <1>1, LeastOfTwo DEF Begin
<1>3. Static!Min({from + LimitOf(input), Len(values)}) = end
  <2> HIDE DEF from
  <2>1. QED BY <1>1, LeastOfTwo DEF End, from
<1> HIDE DEF from, end
<1>4. QED BY <1>2, <1>3, SameNothing DEF CutPage, Static!PageAt, NextFrom, from, end

LEMMA PageNext ==
    ASSUME NEW values, IsList(values), NEW input, LimitOf(input) \in Nat \ {0},
           OffsetOf(input) \in Nat, NEW path, NEW t, NEW k
    PROVE  CutPage(values, input, path, t, k).next
               = NextFrom(values, End(values, input), input, path, t, k)
<1>1. CutPage(values, input, path, t, k)
          = [items |-> [i \in 1..(End(values, input) - Begin(values, input)) |->
                           Static!View(values[Begin(values, input) + i], input.representation)],
             next |-> NextFrom(values, End(values, input), input, path, t, k),
             refinements |-> <<>>, authExpands |-> FALSE, bytes |-> 0, depth |-> 0]
  BY PageCut, Zenon
<1>2. QED BY <1>1

LEMMA PageItems ==
    ASSUME NEW values, IsList(values), NEW input, LimitOf(input) \in Nat \ {0},
           OffsetOf(input) \in Nat, NEW path, NEW t, NEW k
    PROVE  /\ DOMAIN CutPage(values, input, path, t, k).items
                  = 1..(End(values, input) - Begin(values, input))
           /\ \A i \in 1..(End(values, input) - Begin(values, input)) :
                 CutPage(values, input, path, t, k).items[i]
                     = Static!View(values[Begin(values, input) + i], input.representation)
           /\ Len(CutPage(values, input, path, t, k).items)
                  = End(values, input) - Begin(values, input)
<1>1. CutPage(values, input, path, t, k)
          = [items |-> [i \in 1..(End(values, input) - Begin(values, input)) |->
                           Static!View(values[Begin(values, input) + i], input.representation)],
             next |-> NextFrom(values, End(values, input), input, path, t, k),
             refinements |-> <<>>, authExpands |-> FALSE, bytes |-> 0, depth |-> 0]
  BY PageCut, Zenon
<1>2. CutPage(values, input, path, t, k).items
          = [i \in 1..(End(values, input) - Begin(values, input)) |->
                Static!View(values[Begin(values, input) + i], input.representation)]
  BY <1>1
<1>3. End(values, input) - Begin(values, input) \in Nat BY PageEnds
<1>4. QED BY <1>2, <1>3

LEMMA PageRest ==
    ASSUME NEW values, IsList(values), NEW input, LimitOf(input) \in Nat \ {0},
           OffsetOf(input) \in Nat, NEW path, NEW t, NEW k
    PROVE  /\ CutPage(values, input, path, t, k).refinements = <<>>
           /\ CutPage(values, input, path, t, k).bytes = 0
           /\ CutPage(values, input, path, t, k).depth = 0
BY DEF CutPage, Static!PageAt

(* What Accepted asks of every resource; a view of it is then valid.       *)
GoodItems(values) ==
    \A item \in ToSet(values) : item.valid /\ ~item.details /\ IsInjective(item.actions)

LEMMA ViewsValid ==
    ASSUME NEW values, AreItems(values), GoodItems(values), NEW item \in ToSet(values),
           NEW representation
    PROVE  ValidItem(Static!View(item, representation), representation)
<1>1. /\ item.valid /\ ~item.details /\ IsInjective(item.actions)
      /\ {"valid", "actions", "details"} \subseteq DOMAIN item
  BY DEF AreItems, GoodItems
<1>2. IsInjective(<<>>) BY DEF IsInjective
<1>3. CASE representation = "terse"
  <2>1. /\ Static!View(item, representation).valid = item.valid
        /\ Static!View(item, representation).actions = <<>>
    BY <1>1, <1>3 DEF Static!View, Static!Terse
  <2>2. QED BY <1>1, <1>2, <1>3, <2>1 DEF ValidItem
<1>4. CASE representation # "terse" BY <1>1, <1>4 DEF ValidItem, Static!View
<1>5. QED BY <1>3, <1>4

(* The query of a request becomes the input of its call.                   *)
LEMMA InputOf ==
    ASSUME NEW s, NEW r, NEW operation
    PROVE  LET input == CatalogRequest(s, r, operation) IN
           /\ input.cursor = ValueOf(r.location.query.cursor, NoCursor)
           /\ input.language = LanguageFor(s, r)
           /\ input.limit = ValueOf(r.location.query.limit, 0)
           /\ input.representation
                  = ValueOf(r.location.query.representation, DefaultRepresentation(operation))
BY DEF CatalogRequest, LanguageFor

LEMMA NextSpelled ==
    ASSUME NEW cursor, NEW path
    PROVE  /\ Static!NextReference(cursor, path).scheme = ""
           /\ Static!NextReference(cursor, path).host = ""
           /\ Static!NextReference(cursor, path).rooted
           /\ ~Static!NextReference(cursor, path).user
           /\ ~Static!NextReference(cursor, path).fragment
           /\ Static!NextReference(cursor, path).printable
           /\ Static!NextReference(cursor, path).length = 1
BY DEF Static!NextReference

LEMMA NextParts ==
    ASSUME NEW cursor, NEW path
    PROVE  {"scheme", "host", "user", "location"}
               \subseteq DOMAIN Static!NextReference(cursor, path)
BY DEF Static!NextReference

LEMMA NextIsSomething ==
    ASSUME NEW cursor, NEW path
    PROVE  Static!NextReference(cursor, path) # NoNext
<1>1. DOMAIN NoNext = {"rooted"} BY DEF NoNext
<1>2. QED BY <1>1, NextParts

LEMMA NextAsks ==
    ASSUME NEW cursor, NEW path
    PROVE  /\ Static!NextReference(cursor, path).location.path = path
           /\ Static!NextReference(cursor, path).location.query.cursor = <<cursor>>
           /\ Static!NextReference(cursor, path).location.query.limit = <<cursor.state.limit>>
           /\ Static!NextReference(cursor, path).location.query.representation
                  = <<cursor.state.representation>>
BY DEF Static!NextReference

(* A continuation names another page than the one it came with.            *)
LEMMA NextElsewhere ==
    ASSUME NEW s, NEW r, NEW operation, NEW input, input = CatalogRequest(s, r, operation),
           NEW values, IsList(values), NEW path, NEW t, NEW k,
           LimitOf(input) \in Nat \ {0}, OffsetOf(input) \in Nat
    PROVE  LET next == CutPage(values, input, path, t, k).next IN
           next # NoNext => next.location # r.location
<1> DEFINE next == CutPage(values, input, path, t, k).next
           end == End(values, input)
           cursor == Static!Continuation(end, input, LimitOf(input), path, t, k)
<1>1. /\ next = NextFrom(values, end, input, path, t, k)
      /\ end < Len(values) => end = OffsetOf(input) + LimitOf(input)
  <2>1. next = NextFrom(values, end, input, path, t, k) BY PageNext, Zenon
  <2>2. QED BY <2>1, PageEnds
<1>2. SUFFICES ASSUME next # NoNext, next.location = r.location PROVE FALSE OBVIOUS
<1>3. next = Static!NextReference(cursor, path) /\ end < Len(values)
  BY <1>1, <1>2 DEF NextFrom
<1>4. next.location.query.cursor = <<cursor>>
  <2> HIDE DEF next, cursor
  <2>1. QED BY <1>3, NextAsks
<1>5. input.cursor = cursor
  <2>1. r.location.query.cursor = <<cursor>> BY <1>2, <1>4
  <2> HIDE DEF cursor
  <2>2. input.cursor = ValueOf(<<cursor>>, NoCursor) BY <2>1, InputOf
  <2>3. QED BY <2>2 DEF ValueOf
<1>6. cursor # NoCursor /\ cursor.state.offset = end
  <2>1. cursor.state.offset = end BY DEF Static!Continuation
  <2>2. DOMAIN cursor = {"signed", "state"} BY DEF Static!Continuation
  <2>3. DOMAIN NoCursor = {"signed"} BY DEF NoCursor
  <2>4. QED BY <2>1, <2>2, <2>3
<1>7. OffsetOf(input) = end
  <2> HIDE DEF cursor, end
  <2>1. QED BY <1>5, <1>6 DEF OffsetOf
<1>8. QED
  <2> HIDE DEF end, next, cursor
  <2>1. QED BY <1>1, <1>3, <1>7

LEMMA StaticPageValid ==
    ASSUME NEW s, NEW r, NEW call, call.operation # "search-offerings",
           call.input = CatalogRequest(s, r, call.operation),
           NEW values, AreItems(values), GoodItems(values), NEW path, NEW t, NEW k,
           LimitOf(call.input) \in 1..MaximumPageItems, OffsetOf(call.input) \in Nat
    PROVE  ValidPage(CutPage(values, call.input, path, t, k), call, r)
<1> DEFINE input == call.input
           page == CutPage(values, input, path, t, k)
           from == Begin(values, input)
           end == End(values, input)
           next == page.next
<1>1. MaximumPageItems \in Nat /\ DefaultPageLimit \in Nat BY ConstantsAssumption
<1>2. /\ IsList(values) /\ LimitOf(input) \in Nat \ {0} /\ LimitOf(input) <= MaximumPageItems
      /\ OffsetOf(input) \in Nat
  BY <1>1 DEF AreItems
<1> HIDE DEF input
<1>3. /\ next = NextFrom(values, end, input, path, t, k)
      /\ from \in Nat /\ end \in Nat /\ from <= end /\ end <= Len(values)
      /\ end - from <= LimitOf(input) /\ Len(values) \in Nat
  <2>1. next = NextFrom(values, end, input, path, t, k) BY <1>2, PageNext
  <2>2. QED BY <1>2, <2>1, PageEnds
<1>4. ValidItems(page.items, input.representation)
  <2>1. /\ DOMAIN page.items = 1..(end - from) /\ Len(page.items) = end - from
        /\ \A i \in 1..(end - from) :
              page.items[i] = Static!View(values[from + i], input.representation)
    BY <1>2, PageItems
  <2> HIDE DEF from, end, page
  <2>2. ASSUME NEW item \in ToSet(page.items) PROVE ValidItem(item, input.representation)
    <3>1. PICK i \in 1..(end - from) : item = Static!View(values[from + i], input.representation)
      BY <2>1 DEF ToSet
    <3>2. values[from + i] \in ToSet(values) BY <1>2, <1>3 DEF IsList, ToSet
    <3>3. QED BY <3>1, <3>2, ViewsValid
  <2>3. end - from <= MaximumPageItems BY <1>1, <1>2, <1>3
  <2>4. QED BY <2>1, <2>2, <2>3 DEF ValidItems
<1>5. next # NoNext => next.location # r.location
  <2>1. input = CatalogRequest(s, r, call.operation) BY DEF input
  <2>2. QED BY <1>2, <2>1, NextElsewhere
<1> HIDE DEF next, page
<1>6. next # NoNext =>
          /\ next.scheme = "" /\ next.host = "" /\ next.rooted /\ ~next.user
          /\ ~next.fragment /\ next.printable /\ next.length = 1
          /\ {"scheme", "host", "user", "location"} \subseteq DOMAIN next
  <2> DEFINE cursor == Static!Continuation(end, input, LimitOf(input), path, t, k)
  <2>1. next # NoNext => next = Static!NextReference(cursor, path) BY <1>3 DEF NextFrom
  <2> HIDE DEF cursor
  <2>2. QED BY <2>1, NextSpelled, NextParts
<1>7. ContinuationAllowed(next, r)
  <2>1. SUFFICES ASSUME next # NoNext PROVE ContinuationAllowed(next, r)
    BY DEF ContinuationAllowed
  <2> DEFINE base == CurrentURL(r)
             resolved == Resolve(next, base)
  <2>2. base.scheme = r.wire /\ base.host = r.host BY DEF CurrentURL
  <2> HIDE DEF base
  <2>3. resolved = [next EXCEPT !.scheme = base.scheme, !.host = base.host]
    BY <1>6, <2>1 DEF Resolve
  <2>4. /\ resolved.scheme = base.scheme /\ resolved.host = base.host
        /\ resolved.user = next.user /\ resolved.location = next.location
    <3>1. {"scheme", "host", "user", "location"} \subseteq DOMAIN next BY <1>6, <2>1
    <3> HIDE DEF resolved
    <3>2. QED BY <2>3, <3>1
  <2>5. next.length <= Limits.next
    <3>1. Limits.next \in Nat \ {0} BY ConstantsAssumption
    <3>2. \A n \in Nat \ {0} : 1 <= n OBVIOUS
    <3>3. QED BY <1>6, <2>1, <3>1, <3>2
  <2> HIDE DEF resolved
  <2>6. QED BY <1>5, <1>6, <2>1, <2>2, <2>4, <2>5 DEF ContinuationAllowed, resolved, base
<1>8. PageParses(page) BY <1>6 DEF PageParses, Spelled, next
<1>9. QED BY <1>4, <1>7, <1>8 DEF ValidPage, next, page, input

-----------------------------------------------------------------------------
(* What holds of a Service over a static catalog beside AgentInv: it       *)
(* publishes what NewStaticCatalog accepts; the Agent asks with the cursors*)
(* it was given; an answer is made of the list, at the time and with the   *)
(* key it says; and a page it holds was cut there and then.                *)
Publishable(list) == AreItems(list) /\ GoodItems(list)
PublishedInv ==
    IsStatic /\ phase # "refused to start" =>
        Publishable(offerings) /\ Publishable(setting.catalog.collections)

CursorOf(r) == ValueOf(r.location.query.cursor, NoCursor)
CursorSound(r) == CursorOf(r) = NoCursor \/ CursorOf(r).state.offset \in Nat

StaticAskedInv ==
    IsStatic /\ phase \in {"asked", "answered"} =>
        /\ CursorSound(request)
        /\ request.purpose = "ask" => CursorOf(request) = NoCursor
        /\ request.purpose = "confirm" => request.location = held.request.location
        /\ request.purpose = "follow" =>
              /\ IsPage(held.answer) /\ held.answer.sent.body.next # NoNext
              /\ request.method = "GET" /\ request.conditions = {}
              /\ request.accept = held.request.accept
              /\ \E alteration \in {Unaltered} \cup Alterations :
                    request.location = Altered(held.answer.sent.body.next.location, alteration)

StaticMade(a, r) ==
    a.call.kind = "call" =>
        /\ Publishable(a.list)
        /\ a.made = Answering(service, Freely(r), a.call,
                        Static!StaticAnswer(a.list, setting.catalog.collections, a.call,
                                            r.location.path, a.madeAt, a.madeBy))
StaticAnsweredInv ==
    IsStatic /\ phase = "answered" => StaticMade(response, request) /\ response.madeAt \in Nat

(* A continuation made for another request is not taken.                   *)
InContext(input, path) ==
    \/ input.cursor = NoCursor
    \/ ~Static!OtherContext(input.cursor.state, input, LimitOf(input), path)
Known(call) ==
    call.operation = "list-collection-offerings" =>
        call.id \in {c.id : c \in ToSet(setting.catalog.collections)}
IsCut(a, r) ==
    /\ a.call.operation \in ListOperations /\ Known(a.call)
    /\ Publishable(Values(a.list, a.call))
    /\ OffsetOf(a.call.input) \in Nat
    /\ LimitOf(a.call.input) \in 1..MaximumPageItems
    /\ a.call.input.representation \in Representations
    /\ InContext(a.call.input, r.location.path)
    /\ a.sent.body = CutPage(Values(a.list, a.call), a.call.input, r.location.path,
                             a.madeAt, a.madeBy)
    /\ a.sent.language
          = RepresentationLanguage(NoTag, a.call.input.language, service.document.language)
StaticHeldInv ==
    IsStatic /\ held # NoHeld =>
        /\ CursorSound(held.request) /\ held.answer.madeAt \in Nat
        /\ IsPage(held.answer) => IsCut(held.answer, held.request)

OnlyStaticFollowed ==
    phase \in {"asked", "answered"} /\ request.purpose = "follow" => IsStatic

StaticInv ==
    /\ PublishedInv /\ StaticAskedInv /\ StaticAnsweredInv /\ StaticHeldInv
    /\ OnlyStaticFollowed

(* The pages collected: the last is the one held, it begins where those    *)
(* before it end, and each is where it should be in its list.              *)
Before(pages, i) == Len(FlattenSeq([j \in 1..(i - 1) |-> pages[j].page.items]))
Viewed(values, representation) == [i \in DOMAIN values |-> Static!View(values[i], representation)]
Tile(pages, i, call, language) ==
    LET values == Values(pages[i].list, call)
        items == pages[i].page.items
    IN  /\ IsList(items)
        /\ items = SubSeq(Viewed(values, call.input.representation), Before(pages, i) + 1,
                          Before(pages, i) + Len(items))
        /\ pages[i].language = language
        /\ pages[i].page.next = NoNext => Before(pages, i) + Len(items) >= Len(values)
        /\ i < Len(pages) => pages[i].page.next # NoNext
Tiled(pages, a) ==
    LET n == Len(pages) IN
    /\ n > 0
    /\ pages[n] = [page |-> a.sent.body, list |-> a.list, language |-> a.sent.language]
    /\ Before(pages, n) = OffsetOf(a.call.input)
    /\ n > 1 => a.call.input.cursor # NoCursor
    /\ \A i \in 1..n : Tile(pages, i, a.call, a.sent.language)
TilesInv ==
    IsStatic => IF held # NoHeld /\ IsPage(held.answer) THEN Tiled(collected, held.answer)
                ELSE collected = <<>>

(* The Offerings of a Collection are some of the list.                     *)
Picks(list, id, n, f) ==
    f = [k \in 0..n |-> IF k = 0 THEN <<>>
                        ELSE IF id \in list[k].collections THEN Append(f[k - 1], list[k])
                        ELSE f[k - 1]]

LEMMA PickingExists ==
    ASSUME NEW list, NEW id, NEW n \in Nat PROVE \E f : Picks(list, id, n, f)
<1> DEFINE T == {k \in Nat : \E f : Picks(list, id, k, f)}
<1>1. 0 \in T
  <2>1. Picks(list, id, 0, [k \in 0..0 |-> <<>>]) BY DEF Picks
  <2>2. QED BY <2>1
<1>2. ASSUME NEW m \in Nat, m \in T PROVE m + 1 \in T
  <2>1. PICK f : Picks(list, id, m, f) BY <1>2
  <2> DEFINE step(e, k) == IF id \in list[k].collections THEN Append(e, list[k]) ELSE e
             g == [k \in 0..(m + 1) |-> IF k <= m THEN f[k] ELSE step(f[m], k)]
  <2>2. f[0] = <<>> /\ \A k \in 1..m : f[k] = step(f[k - 1], k)
    <3>1. \A k \in 0..m : f[k] = IF k = 0 THEN <<>> ELSE step(f[k - 1], k)
      BY <2>1 DEF Picks
    <3>2. 0 \in 0..m /\ \A k \in 1..m : k \in 0..m /\ k # 0 OBVIOUS
    <3> HIDE DEF step
    <3>3. QED BY <3>1, <3>2
  <2> HIDE DEF step
  <2>3. \A k \in 0..(m + 1) : g[k] = IF k = 0 THEN <<>> ELSE step(g[k - 1], k)
    <3>1. g[0] = <<>> BY <2>2
    <3>2. \A k \in 1..m : g[k] = f[k] /\ g[k - 1] = f[k - 1] OBVIOUS
    <3>3. g[m + 1] = step(f[m], m + 1) /\ g[(m + 1) - 1] = f[m] OBVIOUS
    <3>4. \A k \in 0..(m + 1) : k = 0 \/ k \in 1..m \/ k = m + 1 OBVIOUS
    <3> HIDE DEF g
    <3>5. QED BY <2>2, <3>1, <3>2, <3>3, <3>4
  <2>4. g = [k \in 0..(m + 1) |-> IF k = 0 THEN <<>> ELSE step(g[k - 1], k)]
    <3>1. g = [k \in 0..(m + 1) |-> g[k]] OBVIOUS
    <3> HIDE DEF g
    <3>2. QED BY <2>3, <3>1
  <2>5. Picks(list, id, m + 1, g) BY <2>4 DEF Picks, step
  <2>6. QED BY <2>5
<1>3. QED
  <2> HIDE DEF T
  <2>1. Nat \subseteq T BY <1>1, <1>2, SetInduction
  <2>2. QED BY <2>1 DEF T

LEMMA MembersListed ==
    ASSUME NEW list, IsList(list), NEW id
    PROVE  IsList(Static!Members(list, id)) /\ ToSet(Static!Members(list, id)) \subseteq ToSet(list)
<1> DEFINE n == Len(list)
           F == CHOOSE f : Picks(list, id, n, f)
           T == {k \in Nat : k <= n => F[k] \in Seq(ToSet(list))}
<1>1. n \in Nat /\ \A k \in 1..n : list[k] \in ToSet(list) BY DEF IsList
<1>2. Static!Members(list, id) = F[n] BY DEF Static!Members, Picks
<1>3. Picks(list, id, n, F) BY <1>1, PickingExists
<1>4. 0 \in T
  <2>1. 0 \in 0..n BY <1>1
  <2> HIDE DEF F, n
  <2>2. F[0] = <<>> BY <1>3, <2>1 DEF Picks
  <2>3. <<>> \in Seq(ToSet(list)) OBVIOUS
  <2>4. QED BY <2>2, <2>3
<1>5. ASSUME NEW k \in Nat, k \in T PROVE k + 1 \in T
  <2> SUFFICES ASSUME k + 1 <= n PROVE F[k + 1] \in Seq(ToSet(list)) OBVIOUS
  <2>1. F[k] \in Seq(ToSet(list)) BY <1>1, <1>5
  <2>2. F[k + 1] = IF id \in list[k + 1].collections THEN Append(F[k], list[k + 1]) ELSE F[k]
    <3>1. k + 1 \in 0..n /\ k + 1 # 0 /\ (k + 1) - 1 = k BY <1>1
    <3> HIDE DEF F, n
    <3>2. QED BY <1>3, <3>1 DEF Picks
  <2>3. list[k + 1] \in ToSet(list) BY <1>1
  <2> HIDE DEF F
  <2>4. QED BY <2>1, <2>2, <2>3
<1>6. F[n] \in Seq(ToSet(list))
  <2> HIDE DEF T, F
  <2>1. Nat \subseteq T BY <1>4, <1>5, SetInduction
  <2>2. QED BY <1>1, <2>1 DEF T
<1>7. ToSet(F[n]) \subseteq ToSet(list)
  <2> HIDE DEF F
  <2>1. QED BY <1>6 DEF ToSet
<1> HIDE DEF F
<1>8. QED BY <1>2, <1>6, <1>7, ListOfItsOwn

(* The lists pages are cut from are publishable when the catalog's are.    *)
LEMMA SubsetPublishable ==
    ASSUME NEW list, Publishable(list), NEW part, IsList(part), ToSet(part) \subseteq ToSet(list)
    PROVE  Publishable(part)
BY DEF Publishable, AreItems, GoodItems

LEMMA SameLists ==
    ASSUME NEW list
    PROVE  Static!ToSet(list) = ToSet(list) /\ (Static!IsInjective(list) <=> IsInjective(list))
<1>1. Static!ToSet(list) = ToSet(list) BY DEF Static!ToSet, ToSet
<1>2. Static!IsInjective(list) <=> IsInjective(list) BY DEF Static!IsInjective, IsInjective
<1>3. QED BY <1>1, <1>2

LEMMA CollectionsPublishable ==
    ASSUME WorldInv, IsStatic, NEW list, Started(setting, list), AreItems(list)
    PROVE  Publishable(list) /\ Publishable(setting.catalog.collections)
<1> DEFINE collections == setting.catalog.collections
<1>1. /\ AreItems(collections) /\ \A item \in ToSet(collections) : item.actions = <<>>
  BY CasesAssumption DEF WorldInv, IsStatic, IsStaticCase
<1>2. /\ \A item \in ToSet(list \o collections) : item.valid /\ ~item.details
      /\ \A item \in ToSet(list) : IsInjective(item.actions)
  <2>1. Static!Accepted(list, collections, setting.catalog.parents, setting.catalog.keyLength)
    BY DEF Started, IsStatic
  <2> HIDE DEF collections
  <2>2. QED BY <2>1, SameLists DEF Static!Accepted, Static!Presentable
<1>3. \A item \in ToSet(list) \cup ToSet(collections) : item \in ToSet(list \o collections)
  <2> HIDE DEF collections
  <2>1. list \in Seq(ToSet(list)) /\ collections \in Seq(ToSet(collections))
    BY <1>1 DEF AreItems, IsList
  <2>2. ASSUME NEW i \in DOMAIN list PROVE list[i] \in ToSet(list \o collections)
    <3>1. i \in DOMAIN (list \o collections) /\ (list \o collections)[i] = list[i]
      BY <2>1, <2>2
    <3>2. QED BY <3>1 DEF ToSet
  <2>3. ASSUME NEW i \in DOMAIN collections PROVE collections[i] \in ToSet(list \o collections)
    <3>1. PICK k : k = Len(list) + i OBVIOUS
    <3>2. k \in DOMAIN (list \o collections) /\ (list \o collections)[k] = collections[i]
      BY <2>1, <2>3, <3>1
    <3>3. QED BY <3>2 DEF ToSet
  <2>4. QED BY <2>2, <2>3 DEF ToSet
<1>4. IsInjective(<<>>) BY DEF IsInjective
<1>5. QED BY <1>1, <1>2, <1>3, <1>4 DEF Publishable, GoodItems

LEMMA ValuesPublishable ==
    ASSUME NEW list, Publishable(list), Publishable(setting.catalog.collections), NEW call
    PROVE  Publishable(Values(list, call))
<1>1. Publishable(Static!Members(list, call.id))
  BY MembersListed, SubsetPublishable DEF Publishable, AreItems
<1>2. QED BY <1>1 DEF Values

LEMMA PublishedFirst == ASSUME Init, WorldInv PROVE PublishedInv
<1> SUFFICES ASSUME IsStatic, phase # "refused to start"
             PROVE  Publishable(offerings) /\ Publishable(setting.catalog.collections)
  BY DEF PublishedInv
<1>1. Started(setting, offerings) BY DEF Init
<1>2. offerings = setting.catalog.offerings BY DEF Init
<1>3. AreItems(setting.catalog.offerings)
  BY CasesAssumption DEF WorldInv, IsStatic, IsStaticCase
<1>4. QED BY <1>1, <1>2, <1>3, CollectionsPublishable

LEMMA PublishedKept == ASSUME WorldInv, PublishedInv, [Next]_vars PROVE PublishedInv'
<1>1. ASSUME UNCHANGED <<setting, offerings>>, phase = "refused to start" => phase' = phase
      PROVE  PublishedInv'
  BY <1>1 DEF PublishedInv, IsStatic, Publishable, AreItems, GoodItems, IsList
<1>2. CASE Ask \/ Confirm \/ FollowNext
  BY <1>1, <1>2 DEF Ask, Confirm, FollowNext, Send, world, process
<1>3. CASE Refuse \/ Describe \/ StaticServes \/ ApplicationServes
  BY <1>1, <1>3 DEF Refuse, Describe, StaticServes, ApplicationServes, world, process
<1>4. CASE TakeRepresentation \/ TakeConfirmation \/ TakeFailure
  BY <1>1, <1>4 DEF TakeRepresentation, TakeConfirmation, TakeFailure, world, process
<1>5. CASE Tick BY <1>1, <1>5 DEF Tick, world, process
<1>6. CASE Restart
  <2>1. /\ UNCHANGED setting /\ phase # "refused to start" /\ IsStatic
        /\ offerings' \in {offerings} \cup {list \in Lists : Started(setting, list)}
    BY <1>6 DEF Restart, world
  <2>2. Publishable(offerings) /\ Publishable(setting.catalog.collections)
    BY <2>1 DEF PublishedInv
  <2>3. ASSUME NEW list \in Lists, Started(setting, list) PROVE Publishable(list)
    BY <2>1, <2>3, CasesAssumption, CollectionsPublishable
  <2>4. QED BY <2>1, <2>2, <2>3 DEF PublishedInv
<1>7. CASE UNCHANGED vars BY <1>1, <1>7 DEF vars
<1>8. QED BY <1>2, <1>3, <1>4, <1>5, <1>6, <1>7 DEF Next

LEMMA StaticAnswerKept ==
    ASSUME AgentInv, PublishedInv, StaticAnsweredInv, [Next]_vars PROVE StaticAnsweredInv'
<1> USE DEF AgentInv
<1>1. ASSUME UNCHANGED <<phase, request, response, world>> PROVE StaticAnsweredInv'
  BY <1>1 DEF StaticAnsweredInv, StaticMade, IsStatic, world, Publishable, AreItems, GoodItems,
              IsList
<1>2. ASSUME phase' # "answered" PROVE StaticAnsweredInv' BY <1>2 DEF StaticAnsweredInv
<1>3. now \in Nat
  <2>1. now \in 0..MaxTime BY DEF WorldInv
  <2>2. QED BY <2>1, Bounds
<1>4. ASSUME UNCHANGED <<request, world>>, response'.call.kind # "call", response'.madeAt = now
      PROVE  StaticAnsweredInv'
  BY <1>3, <1>4 DEF StaticAnsweredInv, StaticMade
<1>5. CASE Refuse \/ Describe
  <2>1. /\ UNCHANGED <<request, world>> /\ Reading(service, request).kind # "call"
        /\ \E outcome, free : Answer(outcome, Reading(service, request), free)
    BY <1>5 DEF Refuse, Describe
  <2>2. response'.call = Reading(service, request) /\ response'.madeAt = now
    BY <2>1 DEF Answer
  <2>3. QED BY <1>4, <2>1, <2>2
<1>6. CASE StaticServes
  <2> DEFINE read == Reading(service, request)
             answer == Static!StaticAnswer(offerings, setting.catalog.collections, read,
                                           request.location.path, now, key)
             free == Answering(service, Freely(request), read, answer)
  <2>1. /\ UNCHANGED <<request, world>> /\ IsStatic /\ phase = "asked"
        /\ Handle(read, answer)
    BY <1>6 DEF StaticServes
  <2>2. Answer(Answering(service, request, read, answer), read, free)
    BY <2>1 DEF Handle, Unconditional, Freely
  <2> HIDE DEF read, answer, free
  <2>3. /\ response'.call = read /\ response'.made = free /\ response'.madeAt = now
        /\ response'.madeBy = key /\ response'.list = offerings
    BY <2>2 DEF Answer
  <2>4. Publishable(offerings) BY <2>1 DEF PublishedInv
  <2>5. StaticMade(response', request)
    BY <2>3, <2>4 DEF StaticMade, read, answer, free
  <2>7. QED BY <1>3, <2>1, <2>3, <2>5 DEF StaticAnsweredInv, StaticMade, world
<1>7. CASE ApplicationServes
  BY <1>7 DEF ApplicationServes, StaticAnsweredInv, IsStatic, world
<1>8. CASE Ask \/ Confirm \/ FollowNext BY <1>2, <1>8 DEF Ask, Confirm, FollowNext, Send
<1>9. CASE TakeRepresentation \/ TakeConfirmation \/ TakeFailure
  BY <1>2, <1>9 DEF TakeRepresentation, TakeConfirmation, TakeFailure
<1>10. CASE Tick BY <1>1, <1>10 DEF Tick
<1>11. CASE Restart
  <2>1. /\ UNCHANGED <<request, response, world>>
        /\ phase' = phase \/ phase' \in {"idle", "holding"}
    BY <1>11 DEF Restart
  <2>2. QED BY <1>1, <1>2, <2>1
<1>12. CASE UNCHANGED vars BY <1>1, <1>12 DEF vars, world
<1>13. QED BY <1>5, <1>6, <1>7, <1>8, <1>9, <1>10, <1>11, <1>12 DEF Next

-----------------------------------------------------------------------------
(* What a request of a page comes to.                                      *)
LEMMA StaticReads ==
    ASSUME WorldInv, IsStatic, NEW r, Reading(service, r).kind = "call"
    PROVE  LET call == Reading(service, r) IN
           /\ call.operation \in GetOperations \cup ListOperations
           /\ call.input = CatalogRequest(service, r, call.operation)
           /\ call.operation = Route(r.location.path).operation
           /\ call.id = Route(r.location.path).id
           /\ ~RequestRefused(r)
<1> DEFINE call == Reading(service, r)
           route == Route(r.location.path)
<1>1. call.operation \in GetOperations \cup ListOperations
  BY StaticOperations DEF Static!Handlers, GetOperations, ListOperations
<1>2. Reads(service, r) BY ReadingKinds
<1>3. call.operation = route.operation BY <1>2 DEF Reads, CatalogCall
<1>4. route.operation \notin SearchOperations
  BY <1>1, <1>3 DEF GetOperations, ListOperations, SearchOperations
<1>5. call = CatalogCall(route, CatalogRequest(service, r, route.operation), NoBody, {})
      /\ ~RequestRefused(r)
  BY <1>2, <1>4 DEF Reads
<1>6. call.input = CatalogRequest(service, r, route.operation) /\ call.id = route.id
  <2> HIDE DEF call, route
  <2>1. QED BY <1>5 DEF CatalogCall
<1>7. QED BY <1>1, <1>3, <1>5, <1>6

LEMMA InputSound ==
    ASSUME NEW s, NEW r, NEW operation, ~RequestRefused(r)
    PROVE  LET input == CatalogRequest(s, r, operation) IN
           LimitOf(input) \in 1..MaximumPageItems /\ input.representation \in Representations
<1> DEFINE input == CatalogRequest(s, r, operation)
           limits == r.location.query.limit
           views == r.location.query.representation
<1>1. /\ input.limit = ValueOf(limits, 0)
      /\ input.representation = ValueOf(views, DefaultRepresentation(operation))
  BY InputOf
<1>2. /\ limits = <<>> \/ Head(limits) \in 1..MaximumPageItems
      /\ views = <<>> \/ Head(views) \in Representations
  BY DEF RequestRefused, LimitRefused
<1>3. DefaultRepresentation(operation) \in Representations
  BY DEF DefaultRepresentation, Representations
<1>4. DefaultPageLimit \in 1..MaximumPageItems
  <2>1. /\ DefaultPageLimit \in Nat \ {0} /\ MaximumPageItems \in Nat
        /\ DefaultPageLimit <= MaximumPageItems
    BY ConstantsAssumption
  <2>2. \A m, n \in Nat : m # 0 /\ m <= n => m \in 1..n OBVIOUS
  <2>3. QED BY <2>1, <2>2
<1> HIDE DEF input, limits, views
<1>5. LimitOf(input) \in 1..MaximumPageItems
  BY <1>1, <1>2, <1>4 DEF LimitOf, ValueOf
<1>6. input.representation \in Representations BY <1>1, <1>2, <1>3 DEF ValueOf
<1>7. QED BY <1>5, <1>6 DEF input

LEMMA StaticPages ==
    ASSUME NEW list, NEW call, call.operation \in ListOperations, NEW path, NEW t, NEW k
    PROVE  Static!StaticAnswer(list, setting.catalog.collections, call, path, t, k)
               = IF Known(call) THEN Static!StaticPage(Values(list, call), call.input, path, t, k)
                 ELSE Static!Missing
<1>1. CASE call.operation = "list-offerings"
  BY <1>1 DEF Static!StaticAnswer, Known, Values
<1>2. CASE call.operation = "list-collections"
  BY <1>2 DEF Static!StaticAnswer, Known, Values
<1>3. CASE call.operation = "list-collection-offerings"
  BY <1>3, SameLists DEF Static!StaticAnswer, Known, Values
<1>4. QED BY <1>1, <1>2, <1>3 DEF ListOperations

Cut(a, r) ==
    CutPage(Values(a.list, a.call), a.call.input, r.location.path, a.madeAt, a.madeBy)
Made(a, page) ==
    Representation(page, RepresentationLanguage(NoTag, a.call.input.language,
                                                service.document.language),
                   service.authentication[a.call.operation])
StaticOutcome(a, r) ==
    \/ a.made = Static!Missing /\ ~Known(a.call)
    \/ /\ Known(a.call)
       /\ a.made = Static!Gone /\ a.call.input.cursor # NoCursor
       /\ Static!Unavailable(a.call.input.cursor, a.madeAt, a.madeBy)
    \/ /\ Known(a.call)
       /\ a.made = Static!ContextChanged /\ a.call.input.cursor # NoCursor
       /\ Static!OtherContext(a.call.input.cursor.state, a.call.input,
                              LimitOf(a.call.input), r.location.path)
    \/ /\ Known(a.call)
       /\ Taken(a.call.input, r.location.path, a.madeAt, a.madeBy)
       /\ a.made = Made(a, Cut(a, r))
SoundInput(a) ==
    /\ a.call.operation \in ListOperations
    /\ OffsetOf(a.call.input) \in Nat
    /\ LimitOf(a.call.input) \in 1..MaximumPageItems
    /\ a.call.input.representation \in Representations
    /\ Publishable(Values(a.list, a.call))

LEMMA PageServed ==
    ASSUME NEW r, RequestParts \subseteq DOMAIN r, NEW a, SoundInput(a),
           a.call.input = CatalogRequest(service, r, a.call.operation)
    PROVE  Answering(service, Freely(r), a.call, [kind |-> "page", page |-> Cut(a, r)])
               = Made(a, Cut(a, r))
<1> DEFINE answer == [kind |-> "page", page |-> Cut(a, r)]
           free == Freely(r)
<1>1. answer.kind = "page" /\ answer.page = Cut(a, r) OBVIOUS
<1>2. ValidPage(Cut(a, r), a.call, r)
  <2>1. a.call.operation # "search-offerings" BY DEF SoundInput, ListOperations
  <2>2. QED BY <2>1, StaticPageValid DEF SoundInput, Publishable, Cut
<1>3. ValidPage(Cut(a, r), a.call, free) BY <1>2, FreelyTheSame
<1> HIDE DEF answer
<1>4. Answering(service, free, a.call, answer) = Serves(service, free, a.call, Cut(a, r), NoTag)
  BY <1>1, <1>3, AnsweringCases DEF AnswerKinds
<1>5. Cut(a, r).bytes = 0 /\ Cut(a, r).depth = 0 BY DEF Cut, CutPage, Static!PageAt
<1>6. ~(0 > Limits.resource.bytes) /\ ~(0 > Limits.resource.depth)
  <2>1. Limits.resource.bytes \in Nat /\ Limits.resource.depth \in Nat BY ConstantsAssumption
  <2>2. \A n \in Nat : ~(0 > n) OBVIOUS
  <2>3. QED BY <2>1, <2>2
<1>7. Serves(service, free, a.call, Cut(a, r), NoTag) = Conditional(Made(a, Cut(a, r)), free)
  BY <1>5, <1>6, RespondCases DEF Serves, Made
<1>8. Conditional(Made(a, Cut(a, r)), free) = Made(a, Cut(a, r))
  BY FreelyTheSame DEF Conditional, Matches
<1>9. QED BY <1>4, <1>7, <1>8 DEF answer

LEMMA StaticOutcomes ==
    ASSUME WorldInv, IsStatic, Publishable(setting.catalog.collections),
           NEW r, RequestParts \subseteq DOMAIN r, CursorSound(r),
           NEW a, a.call = Reading(service, r), StaticMade(a, r), IsPage(a)
    PROVE  SoundInput(a) /\ StaticOutcome(a, r)
<1> DEFINE answer == Static!StaticAnswer(a.list, setting.catalog.collections, a.call,
                                         r.location.path, a.madeAt, a.madeBy)
<1>1. a.call.kind = "call" /\ a.call.operation \notin GetOperations BY DEF IsPage
<1>2. /\ a.call.operation \in ListOperations
      /\ a.call.input = CatalogRequest(service, r, a.call.operation)
      /\ ~RequestRefused(r)
  BY <1>1, StaticReads
<1>3. SoundInput(a)
  <2>1. a.call.input.cursor = CursorOf(r) BY <1>2, InputOf DEF CursorOf
  <2>2. OffsetOf(a.call.input) \in Nat BY <2>1 DEF OffsetOf, CursorSound
  <2>3. Publishable(Values(a.list, a.call)) BY <1>1, ValuesPublishable DEF StaticMade
  <2>4. QED BY <1>2, <2>2, <2>3, InputSound DEF SoundInput
<1>4. a.made = Answering(service, Freely(r), a.call, answer) BY <1>1 DEF StaticMade
<1>5. ASSUME answer.kind = "problem" PROVE a.made = answer
  BY <1>4, <1>5, AnsweringCases DEF AnswerKinds
<1>6. Static!Missing.kind = "problem" /\ Static!Gone.kind = "problem"
      /\ Static!ContextChanged.kind = "problem"
  BY DEF Static!Missing, Static!Gone, Static!ContextChanged
<1>7. CASE ~Known(a.call)
  <2>1. answer = Static!Missing BY <1>2, <1>7, StaticPages
  <2> HIDE DEF answer
  <2>2. QED BY <1>3, <1>5, <1>6, <1>7, <2>1 DEF StaticOutcome
<1>8. CASE Known(a.call)
  <2> DEFINE page == Static!StaticPage(Values(a.list, a.call), a.call.input,
                                       r.location.path, a.madeAt, a.madeBy)
  <2>1. answer = page BY <1>2, <1>8, StaticPages
  <2>2. \/ /\ page = Static!Gone
           /\ a.call.input.cursor # NoCursor
           /\ Static!Unavailable(a.call.input.cursor, a.madeAt, a.madeBy)
        \/ /\ page = Static!ContextChanged
           /\ a.call.input.cursor # NoCursor
           /\ Static!OtherContext(a.call.input.cursor.state, a.call.input,
                                  LimitOf(a.call.input), r.location.path)
        \/ /\ Taken(a.call.input, r.location.path, a.madeAt, a.madeBy)
           /\ page = [kind |-> "page", page |-> Cut(a, r)]
    BY StaticPageCases DEF Cut
  <2> HIDE DEF answer, page
  <2>3. CASE answer = [kind |-> "page", page |-> Cut(a, r)]
             /\ Taken(a.call.input, r.location.path, a.madeAt, a.madeBy)
    <3>1. a.made = Made(a, Cut(a, r)) BY <1>2, <1>3, <1>4, <2>3, PageServed
    <3>2. QED BY <1>3, <1>8, <2>3, <3>1 DEF StaticOutcome
  <2>4. QED BY <1>3, <1>5, <1>6, <1>8, <2>1, <2>2, <2>3 DEF StaticOutcome
<1>9. QED BY <1>7, <1>8

LEMMA CutsTaken ==
    ASSUME WorldInv, IsStatic, Publishable(setting.catalog.collections),
           NEW r, RequestParts \subseteq DOMAIN r, CursorSound(r),
           NEW a, AnswersTo(service, a, r), StaticMade(a, r), IsPage(a), a.sent.status = 200
    PROVE  IsCut(a, r)
<1>1. Sent(a.sent, a.made, r) /\ a.call = Reading(service, r) BY DEF AnswersTo
<1>2. IsFull(a.made) /\ a.sent = a.made BY <1>1, SentStatus
<1>3. a.made.kind = "response" BY <1>2 DEF IsFull
<1>4. SoundInput(a) /\ StaticOutcome(a, r) BY <1>1, StaticOutcomes
<1>5. /\ Known(a.call) /\ Taken(a.call.input, r.location.path, a.madeAt, a.madeBy)
      /\ a.made = Made(a, Cut(a, r))
  BY <1>3, <1>4 DEF StaticOutcome, Static!Missing, Static!Gone, Static!ContextChanged
<1>6. a.sent.body = Cut(a, r)
      /\ a.sent.language = RepresentationLanguage(NoTag, a.call.input.language,
                                                  service.document.language)
  BY <1>2, <1>5 DEF Made, Representation
<1>7. InContext(a.call.input, r.location.path) BY <1>5 DEF Taken, InContext
<1>8. QED BY <1>4, <1>5, <1>6, <1>7 DEF SoundInput, IsCut, Cut

(* Where a page goes on.                                                   *)
NextCursor(a, r) ==
    Static!Continuation(End(Values(a.list, a.call), a.call.input), a.call.input,
                        LimitOf(a.call.input), r.location.path, a.madeAt, a.madeBy)

LEMMA CursorParts ==
    ASSUME NEW offset, NEW input, NEW limit, NEW path, NEW t, NEW k
    PROVE  LET c == Static!Continuation(offset, input, limit, path, t, k) IN
           /\ c.signed = k /\ c.state.expires = Static!Expiry(t)
           /\ c.state.language = input.language /\ c.state.limit = limit
           /\ c.state.offset = offset /\ c.state.representation = input.representation
           /\ c.state.target = path
           /\ c # NoCursor
<1> DEFINE c == Static!Continuation(offset, input, limit, path, t, k)
<1>1. DOMAIN c = {"signed", "state"} BY DEF Static!Continuation
<1>2. DOMAIN NoCursor = {"signed"} BY DEF NoCursor
<1>3. c # NoCursor BY <1>1, <1>2
<1>4. /\ c.signed = k /\ c.state.expires = Static!Expiry(t)
      /\ c.state.language = input.language /\ c.state.limit = limit
      /\ c.state.offset = offset /\ c.state.representation = input.representation
      /\ c.state.target = path
  BY DEF Static!Continuation
<1>5. QED BY <1>3, <1>4

LEMMA CutEnds ==
    ASSUME NEW a, NEW r, IsCut(a, r)
    PROVE  LET values == Values(a.list, a.call)
               input == a.call.input
           IN  /\ IsList(values) /\ OffsetOf(input) \in Nat /\ LimitOf(input) \in Nat \ {0}
               /\ Begin(values, input) \in Nat /\ End(values, input) \in Nat
               /\ Begin(values, input) <= End(values, input) /\ End(values, input) <= Len(values)
               /\ Len(values) \in Nat
               /\ a.sent.body.next = NextFrom(values, End(values, input), input,
                                              r.location.path, a.madeAt, a.madeBy)
               /\ Len(a.sent.body.items) = End(values, input) - Begin(values, input)
<1>1. MaximumPageItems \in Nat BY ConstantsAssumption
<1>2. /\ IsList(Values(a.list, a.call)) /\ OffsetOf(a.call.input) \in Nat
      /\ LimitOf(a.call.input) \in Nat \ {0}
  BY <1>1 DEF IsCut, Publishable, AreItems
<1>3. a.sent.body = CutPage(Values(a.list, a.call), a.call.input, r.location.path,
                            a.madeAt, a.madeBy)
  BY DEF IsCut
<1>4. a.sent.body.next = NextFrom(Values(a.list, a.call), End(Values(a.list, a.call), a.call.input),
                                  a.call.input, r.location.path, a.madeAt, a.madeBy)
  BY <1>2, <1>3, PageNext
<1>5. Len(a.sent.body.items)
        = End(Values(a.list, a.call), a.call.input) - Begin(Values(a.list, a.call), a.call.input)
  BY <1>2, <1>3, PageItems
<1>6. QED BY <1>2, <1>4, <1>5, PageEnds

LEMMA CutNext ==
    ASSUME NEW a, NEW r, IsCut(a, r), a.sent.body.next # NoNext
    PROVE  /\ a.sent.body.next = Static!NextReference(NextCursor(a, r), r.location.path)
           /\ NextCursor(a, r) # NoCursor
           /\ NextCursor(a, r).state.offset
                  = OffsetOf(a.call.input) + Len(a.sent.body.items)
           /\ NextCursor(a, r).state.offset \in Nat
<1> DEFINE values == Values(a.list, a.call)
           input == a.call.input
<1>1. /\ a.sent.body.next = NextFrom(values, End(values, input), input,
                                     r.location.path, a.madeAt, a.madeBy)
      /\ Len(a.sent.body.items) = End(values, input) - Begin(values, input)
      /\ IsList(values) /\ OffsetOf(input) \in Nat /\ LimitOf(input) \in Nat \ {0}
      /\ End(values, input) \in Nat
  BY CutEnds
<1> HIDE DEF values, input
<1>2. End(values, input) < Len(values) BY <1>1 DEF NextFrom
<1>3. End(values, input) = OffsetOf(input) + Len(a.sent.body.items)
  BY <1>1, <1>2, PageEnds
<1>4. NextCursor(a, r).state.offset = End(values, input) /\ NextCursor(a, r) # NoCursor
  BY CursorParts DEF NextCursor, values, input
<1>5. a.sent.body.next = Static!NextReference(NextCursor(a, r), r.location.path)
  BY <1>1, <1>2 DEF NextFrom, NextCursor, values, input
<1>6. QED BY <1>1, <1>3, <1>4, <1>5 DEF input

LEMMA AlteredParts ==
    ASSUME NEW cursor, NEW path, NEW alteration
    PROVE  /\ Altered(Static!NextReference(cursor, path).location, alteration).path = path
           /\ Altered(Static!NextReference(cursor, path).location, alteration).query.cursor
                  = <<cursor>>
<1> DEFINE given == Static!NextReference(cursor, path).location
<1>1. given = [path |-> path,
               query |-> [cursor |-> <<cursor>>, limit |-> <<cursor.state.limit>>,
                          representation |-> <<cursor.state.representation>>]]
  BY DEF Static!NextReference
<1>2. given.path = path /\ given.query.cursor = <<cursor>> BY <1>1
<1>3. CASE alteration = Unaltered BY <1>2, <1>3 DEF Altered
<1>4. CASE alteration # Unaltered
  <2> DEFINE query == [given.query EXCEPT !.limit = alteration.limit,
                                          !.representation = alteration.representation]
  <2>1. Altered(given, alteration) = [given EXCEPT !.query = query] BY <1>4 DEF Altered
  <2>2. query.cursor = <<cursor>> BY <1>1
  <2> HIDE DEF query
  <2>3. [given EXCEPT !.query = query] = [path |-> path, query |-> query] BY <1>1
  <2>4. QED BY <2>1, <2>2, <2>3
<1>5. QED BY <1>3, <1>4

(* A page that is cut twice alike could have been cut the first way at the *)
(* second time.                                                            *)
LEMMA CutAgain ==
    ASSUME NEW v1, IsList(v1), NEW i1, LimitOf(i1) \in Nat \ {0}, OffsetOf(i1) \in Nat,
           NEW v2, IsList(v2), NEW i2, LimitOf(i2) \in Nat \ {0}, OffsetOf(i2) \in Nat,
           NEW path, NEW t1, NEW k1, NEW t2, NEW k2,
           CutPage(v1, i1, path, t1, k1) = CutPage(v2, i2, path, t2, k2)
    PROVE  CutPage(v1, i1, path, t2, k2) = CutPage(v1, i1, path, t1, k1)
<1> DEFINE c(t, k) == Static!Continuation(End(v1, i1), i1, LimitOf(i1), path, t, k)
           d == Static!Continuation(End(v2, i2), i2, LimitOf(i2), path, t2, k2)
           next(t, k) == NextFrom(v1, End(v1, i1), i1, path, t, k)
<1>1. next(t1, k1) = NextFrom(v2, End(v2, i2), i2, path, t2, k2)
  <2>1. CutPage(v1, i1, path, t1, k1).next = next(t1, k1) BY PageNext
  <2>2. CutPage(v2, i2, path, t2, k2).next = NextFrom(v2, End(v2, i2), i2, path, t2, k2)
    BY PageNext
  <2>3. QED BY <2>1, <2>2
<1>2. next(t2, k2) = next(t1, k1)
  <2>1. CASE ~(End(v1, i1) < Len(v1)) BY <2>1 DEF NextFrom
  <2>2. CASE End(v1, i1) < Len(v1)
    <3>1. \A t, k : next(t, k) = Static!NextReference(c(t, k), path) BY <2>2 DEF NextFrom
    <3>2. next(t1, k1) # NoNext BY <3>1, NextIsSomething
    <3>3. next(t1, k1) = Static!NextReference(d, path) BY <1>1, <3>2 DEF NextFrom
    <3>4. c(t1, k1) = d
      <4> HIDE DEF c, d, next
      <4>1. Static!NextReference(c(t1, k1), path).location.query.cursor = <<c(t1, k1)>>
            /\ Static!NextReference(d, path).location.query.cursor = <<d>>
        BY NextAsks
      <4>2. <<c(t1, k1)>> = <<d>> BY <3>1, <3>3, <4>1
      <4>3. <<c(t1, k1)>>[1] = c(t1, k1) /\ <<d>>[1] = d OBVIOUS
      <4>4. QED BY <4>2, <4>3
    <3>5. k1 = k2 /\ Static!Expiry(t1) = Static!Expiry(t2)
      <4>1. c(t1, k1).signed = k1 /\ c(t1, k1).state.expires = Static!Expiry(t1)
        BY CursorParts
      <4>2. d.signed = k2 /\ d.state.expires = Static!Expiry(t2) BY CursorParts
      <4> HIDE DEF c, d
      <4>3. QED BY <3>4, <4>1, <4>2
    <3>6. c(t2, k2) = c(t1, k1) BY <3>5 DEF Static!Continuation
    <3> HIDE DEF c, next
    <3>7. QED BY <3>1, <3>6
  <2>3. QED BY <2>1, <2>2
<1>3. \A t, k : CutPage(v1, i1, path, t, k)
          = [items |-> [i \in 1..(End(v1, i1) - Begin(v1, i1)) |->
                           Static!View(v1[Begin(v1, i1) + i], i1.representation)],
             next |-> next(t, k),
             refinements |-> <<>>, authExpands |-> FALSE, bytes |-> 0, depth |-> 0]
  BY PageCut, Zenon
<1> DEFINE items == [i \in 1..(End(v1, i1) - Begin(v1, i1)) |->
                        Static!View(v1[Begin(v1, i1) + i], i1.representation)]
<1> HIDE DEF next, items
<1>4. \A t, k : CutPage(v1, i1, path, t, k)
          = [items |-> items, next |-> next(t, k),
             refinements |-> <<>>, authExpands |-> FALSE, bytes |-> 0, depth |-> 0]
  BY <1>3 DEF items
<1>5. QED BY <1>2, <1>4

(* Requests of one path ask for one thing.                                 *)
LEMMA SamePath ==
    ASSUME WorldInv, IsStatic, NEW r1, NEW r2, r1.location.path = r2.location.path,
           Reading(service, r1).kind = "call", Reading(service, r2).kind # "problem"
    PROVE  /\ Reading(service, r2).kind = "call"
           /\ Reading(service, r1).operation = Reading(service, r2).operation
           /\ Reading(service, r1).id = Reading(service, r2).id
<1>1. Reading(service, r2).kind = "call" BY CallsOfOneLocation
<1>2. QED BY <1>1, StaticReads

(* What the Agent asks for again, or next, is where it was.                *)
LEMMA AsksOn ==
    ASSUME AgentInv, StaticAskedInv, StaticHeldInv, IsStatic,
           phase \in {"asked", "answered"}, request.purpose # "ask"
    PROVE  /\ held # NoHeld /\ request.purpose \in {"confirm", "follow"}
           /\ request.location.path = held.request.location.path
           /\ request.purpose = "confirm" => request.location = held.request.location
           /\ request.purpose = "follow" =>
                  /\ IsPage(held.answer) /\ held.answer.sent.body.next # NoNext
                  /\ CursorOf(request) = NextCursor(held.answer, held.request)
<1>1. held # NoHeld /\ request.purpose \in {"confirm", "follow"}
  BY NothingYet DEF AgentInv, AskedInv
<1>2. CASE request.purpose = "confirm" BY <1>1, <1>2 DEF StaticAskedInv
<1>3. CASE request.purpose = "follow"
  <2> DEFINE next == held.answer.sent.body.next
             c == NextCursor(held.answer, held.request)
             path == held.request.location.path
  <2>1. PICK alteration \in {Unaltered} \cup Alterations :
            request.location = Altered(next.location, alteration)
    BY <1>3 DEF StaticAskedInv
  <2>2. IsPage(held.answer) /\ next # NoNext BY <1>3 DEF StaticAskedInv
  <2>3. next = Static!NextReference(c, path) BY <1>1, <2>2, CutNext DEF StaticHeldInv
  <2> HIDE DEF next, c, path
  <2>4. request.location.path = path /\ request.location.query.cursor = <<c>>
    <3>1. request.location = Altered(Static!NextReference(c, path).location, alteration)
      BY <2>1, <2>3
    <3>2. /\ Altered(Static!NextReference(c, path).location, alteration).path = path
          /\ Altered(Static!NextReference(c, path).location, alteration).query.cursor = <<c>>
      BY AlteredParts
    <3>3. QED BY <3>1, <3>2
  <2>5. CursorOf(request) = c BY <2>4 DEF CursorOf, ValueOf
  <2>6. QED BY <1>1, <1>3, <2>2, <2>4, <2>5 DEF next, c, path
<1>4. QED BY <1>1, <1>2, <1>3

LEMMA SentNotModified ==
    ASSUME NEW sent, NEW free, NEW r, Sent(sent, free, r), sent.status = 304
    PROVE  IsFull(free) /\ Matches(r.conditions, free.tag)
<1>1. CASE free.kind = "problem" /\ sent = ServeHTTP(free) BY <1>1, SentProblem
<1>2. CASE free.kind = "unexpected" /\ sent = ServeHTTP(free) BY <1>2, SentUnexpected
<1>3. CASE IsFull(free) /\ sent = free BY <1>3 DEF IsFull
<1>4. CASE sent = ServeHTTP(PreconditionFailed)
  <2>1. PreconditionFailed.kind = "problem" BY DEF PreconditionFailed, Problem, ProblemWith
  <2>2. QED BY <1>4, <2>1, SentProblem
<1>5. QED BY <1>1, <1>2, <1>3, <1>4 DEF Sent

(* A page that is confirmed was cut again, and alike.                      *)
LEMMA ConfirmedCut ==
    ASSUME AgentInv, StaticInv, IsStatic, phase = "answered", held # NoHeld,
           response.sent.status = 304, IsPage(held.answer)
    PROVE  held.answer.sent.body
               = CutPage(Values(held.answer.list, held.answer.call), held.answer.call.input,
                         held.request.location.path, response.madeAt, response.madeBy)
<1> USE DEF AgentInv, StaticInv
<1> DEFINE a == held.answer
           r == held.request
<1>1. /\ Sent(response.sent, response.made, request)
      /\ response.call = Reading(service, request)
      /\ CameOf(service, response.made, response.call, request)
      /\ RequestParts \subseteq DOMAIN request /\ CursorSound(request)
      /\ StaticMade(response, request)
  BY DEF AnsweredInv, AnswersTo, AskedInv, StaticAskedInv, StaticAnsweredInv
<1>2. IsFull(response.made) /\ Matches(request.conditions, response.made.tag)
  BY <1>1, SentNotModified
<1>3. request.purpose = "confirm"
  <2>1. request.purpose \in {"ask", "confirm", "follow"} /\ request.purpose # "ask"
    BY DEF AskedInv
  <2>2. request.purpose = "follow" => request.conditions = {} BY DEF StaticAskedInv
  <2>3. QED BY <1>2, <2>1, <2>2 DEF Matches
<1>4. request.conditions = {a.sent.tag} /\ request.location = r.location
  BY <1>3 DEF AskedInv, StaticAskedInv
<1>5. response.made.body = a.sent.body
  <2>1. a.sent.tag = EntityTag(a.sent.language, a.sent.body) BY HeldIsFull DEF IsFull
  <2>2. response.made.tag = EntityTag(response.made.language, response.made.body)
    BY <1>2 DEF IsFull
  <2>3. a.sent.tag = response.made.tag BY <1>2, <1>4, <2>1, TagTells DEF Matches
  <2>4. EntityTag(a.sent.language, a.sent.body)
            = EntityTag(response.made.language, response.made.body)
    BY <2>1, <2>2, <2>3
  <2> HIDE DEF a
  <2>5. QED BY <2>4, TagTells
<1>6. a.call = Reading(service, r) /\ a.call.kind = "call" /\ a.call.operation \notin GetOperations
  BY DEF HeldInv, AnswersTo, IsPage
<1>7. response.call.kind # "problem" BY <1>1, <1>2 DEF CameOf, IsFull
<1>8. IsPage(response)
  BY <1>1, <1>4, <1>6, <1>7, SamePath DEF IsPage
<1>9. SoundInput(response) /\ StaticOutcome(response, request)
  <2>1. Publishable(setting.catalog.collections) BY DEF PublishedInv
  <2>2. QED BY <1>1, <1>8, <2>1, StaticOutcomes
<1>10. response.made = Made(response, Cut(response, request))
  <2>1. response.made.kind = "response" BY <1>2 DEF IsFull
  <2>2. QED BY <1>9, <2>1
        DEF StaticOutcome, Static!Missing, Static!Gone, Static!ContextChanged
<1>11. a.sent.body = CutPage(Values(response.list, response.call), response.call.input,
                             r.location.path, response.madeAt, response.madeBy)
  <2>1. response.made.body = Cut(response, request) BY <1>10 DEF Made, Representation
  <2>2. QED BY <1>4, <1>5, <2>1 DEF Cut
<1>12. IsCut(a, r) BY DEF StaticHeldInv
<1>13. a.sent.body = CutPage(Values(a.list, a.call), a.call.input, r.location.path,
                             a.madeAt, a.madeBy)
  BY <1>12 DEF IsCut
<1>14. /\ IsList(Values(a.list, a.call)) /\ LimitOf(a.call.input) \in Nat \ {0}
       /\ OffsetOf(a.call.input) \in Nat
  BY <1>12, CutEnds
<1>15. /\ IsList(Values(response.list, response.call))
       /\ LimitOf(response.call.input) \in Nat \ {0} /\ OffsetOf(response.call.input) \in Nat
  <2>1. MaximumPageItems \in Nat BY ConstantsAssumption
  <2>2. QED BY <1>9, <2>1 DEF SoundInput, Publishable, AreItems
<1> HIDE DEF a, r
<1>16. CutPage(Values(a.list, a.call), a.call.input, r.location.path, a.madeAt, a.madeBy)
       = CutPage(Values(response.list, response.call), response.call.input,
                 r.location.path, response.madeAt, response.madeBy)
  BY <1>11, <1>13
<1>17. CutPage(Values(a.list, a.call), a.call.input, r.location.path,
               response.madeAt, response.madeBy)
       = CutPage(Values(a.list, a.call), a.call.input, r.location.path, a.madeAt, a.madeBy)
  BY <1>14, <1>15, <1>16, CutAgain
<1>18. QED BY <1>13, <1>17 DEF a, r

LEMMA StaticFirst == ASSUME Init, AgentInv PROVE StaticInv
<1>1. PublishedInv BY PublishedFirst DEF AgentInv
<1>2. phase \in {"idle", "refused to start"} /\ held = NoHeld BY DEF Init
<1>3. QED
  BY <1>1, <1>2
  DEF StaticInv, StaticAskedInv, StaticAnsweredInv, StaticHeldInv, OnlyStaticFollowed

LEMMA StaticAskedKept ==
    ASSUME AgentInv, StaticInv, [Next]_vars PROVE StaticAskedInv'
<1> USE DEF AgentInv, StaticInv
<1>1. ASSUME UNCHANGED <<phase, request, held, world>> PROVE StaticAskedInv'
  BY <1>1 DEF StaticAskedInv, IsStatic, world, CursorSound, CursorOf, IsPage
<1>2. ASSUME phase' \notin {"asked", "answered"} PROVE StaticAskedInv'
  BY <1>2 DEF StaticAskedInv
<1>3. CASE Ask
  <2>1. PICK r \in setting.requests : Send(r, "ask") BY <1>3 DEF Ask
  <2>2. SUFFICES ASSUME IsStatic PROVE StaticAskedInv'
    BY <1>3 DEF Ask, StaticAskedInv, IsStatic, world
  <2>3. /\ r.location.query.cursor = <<>> /\ RequestParts \subseteq DOMAIN r
    BY <2>2, CasesAssumption DEF WorldInv, IsStatic, IsStaticCase, IsRequest
  <2>4. request' = [r EXCEPT !.purpose = "ask"] BY <2>1 DEF Send
  <2>5. request'.purpose = "ask" /\ request'.location = r.location
    BY <2>3, <2>4 DEF RequestParts
  <2>6. CursorOf(request') = NoCursor BY <2>3, <2>5 DEF CursorOf, ValueOf
  <2>7. QED BY <2>5, <2>6 DEF StaticAskedInv, CursorSound, CursorOf
<1>4. CASE Refuse \/ Describe \/ StaticServes \/ ApplicationServes
  <2>1. phase = "asked" /\ UNCHANGED <<request, held, world>>
    BY <1>4 DEF Refuse, Describe, StaticServes, ApplicationServes, agent
  <2>2. QED BY <2>1 DEF StaticAskedInv, IsStatic, world, CursorSound, CursorOf, IsPage
<1>5. CASE TakeRepresentation \/ TakeConfirmation \/ TakeFailure
  BY <1>2, <1>5 DEF TakeRepresentation, TakeConfirmation, TakeFailure
<1>6. CASE Confirm
  <2> DEFINE asked(h) == [held.request EXCEPT
                    !.conditions = {held.answer.sent.tag}, !.accept = h.accept,
                    !.languages = h.languages, !.authorization = h.authorization]
  <2>1. PICK h \in Headers : Send(asked(h), "confirm") BY <1>6 DEF Confirm
  <2>2. phase = "holding" /\ held' = held /\ UNCHANGED world BY <1>6 DEF Confirm
  <2>3. held # NoHeld /\ RequestParts \subseteq DOMAIN held.request
    BY <2>2, NothingYet DEF HeldInv
  <2>4. RequestParts \subseteq DOMAIN asked(h) /\ asked(h).location = held.request.location
    BY <2>3 DEF RequestParts
  <2>5. request' = [asked(h) EXCEPT !.purpose = "confirm"] BY <2>1 DEF Send
  <2> HIDE DEF asked
  <2>6. request'.purpose = "confirm" /\ request'.location = held.request.location
    BY <2>4, <2>5 DEF RequestParts
  <2>7. IsStatic => CursorSound(held.request) BY <2>3 DEF StaticHeldInv
  <2>8. QED BY <2>2, <2>6, <2>7 DEF StaticAskedInv, IsStatic, world, CursorSound, CursorOf
<1>7. CASE FollowNext
  <2> DEFINE next == held.answer.sent.body.next
             asked(h, alteration) == [held.request EXCEPT
                    !.method = "GET", !.conditions = {}, !.languages = h.languages,
                    !.location = Altered(next.location, alteration)]
  <2>1. PICK h \in Headers, alteration \in {Unaltered} \cup Alterations :
            Send(asked(h, alteration), "follow")
    BY <1>7 DEF FollowNext
  <2>2. /\ phase = "holding" /\ held' = held /\ UNCHANGED world /\ IsStatic
        /\ IsPage(held.answer) /\ next # NoNext
    BY <1>7 DEF FollowNext, agent, Continues
  <2>3. held # NoHeld /\ RequestParts \subseteq DOMAIN held.request
    BY <2>2, NothingYet DEF HeldInv
  <2>4. /\ RequestParts \subseteq DOMAIN asked(h, alteration)
        /\ asked(h, alteration).method = "GET" /\ asked(h, alteration).conditions = {}
        /\ asked(h, alteration).accept = held.request.accept
        /\ asked(h, alteration).location = Altered(next.location, alteration)
    BY <2>3 DEF RequestParts
  <2>5. request' = [asked(h, alteration) EXCEPT !.purpose = "follow"] BY <2>1 DEF Send
  <2> HIDE DEF asked
  <2>6. /\ request'.purpose = "follow" /\ request'.method = "GET" /\ request'.conditions = {}
        /\ request'.accept = held.request.accept
        /\ request'.location = Altered(next.location, alteration)
    BY <2>4, <2>5 DEF RequestParts
  <2>7. CursorSound(request')
    <3> DEFINE c == NextCursor(held.answer, held.request)
               path == held.request.location.path
    <3>1. IsCut(held.answer, held.request) BY <2>2, <2>3 DEF StaticHeldInv
    <3>2. next = Static!NextReference(c, path) /\ c.state.offset \in Nat
      BY <2>2, <3>1, CutNext
    <3> HIDE DEF c, path, next
    <3>3. request'.location = Altered(Static!NextReference(c, path).location, alteration)
      BY <2>6, <3>2
    <3>4. Altered(Static!NextReference(c, path).location, alteration).query.cursor = <<c>>
      BY AlteredParts
    <3>5. CursorOf(request') = c BY <3>3, <3>4 DEF CursorOf, ValueOf
    <3>6. QED BY <3>2, <3>5 DEF CursorSound
  <2>8. QED BY <2>2, <2>6, <2>7 DEF StaticAskedInv, IsStatic, world, CursorSound, CursorOf, IsPage
<1>8. CASE Tick BY <1>1, <1>8 DEF Tick, agent
<1>9. CASE Restart
  <2>1. /\ UNCHANGED <<request, held, world>>
        /\ phase' = phase \/ phase' \in {"idle", "holding"}
    BY <1>9 DEF Restart, agent
  <2>2. QED BY <1>1, <1>2, <2>1
<1>10. CASE UNCHANGED vars BY <1>1, <1>10 DEF vars, world
<1>11. QED BY <1>3, <1>4, <1>5, <1>6, <1>7, <1>8, <1>9, <1>10 DEF Next

LEMMA StaticHeldKept ==
    ASSUME AgentInv, StaticInv, [Next]_vars PROVE StaticHeldInv'
<1> USE DEF AgentInv, StaticInv
<1>1. ASSUME UNCHANGED <<held, world>> PROVE StaticHeldInv'
  BY <1>1 DEF StaticHeldInv, IsCut, Known, Values, IsPage, IsStatic, world, CursorSound,
              CursorOf, Publishable, AreItems, GoodItems, IsList
<1>2. CASE TakeRepresentation
  <2>1. /\ phase = "answered" /\ response.sent.status = 200 /\ UNCHANGED world
        /\ held' = [kind |-> "held", request |-> request, answer |-> response]
    BY <1>2 DEF TakeRepresentation
  <2>2. held'.request = request /\ held'.answer = response BY <2>1
  <2>3. SUFFICES ASSUME IsStatic PROVE StaticHeldInv'
    BY <2>1 DEF StaticHeldInv, IsStatic, world
  <2>4. /\ CursorSound(request) /\ response.madeAt \in Nat /\ StaticMade(response, request)
        /\ Publishable(setting.catalog.collections) /\ AnswersTo(service, response, request)
        /\ RequestParts \subseteq DOMAIN request
    BY <2>1, <2>3
       DEF StaticAskedInv, StaticAnsweredInv, PublishedInv, AnsweredInv, AskedInv
  <2>5. IsPage(response) => IsCut(response, request) BY <2>1, <2>3, <2>4, CutsTaken
  <2>6. QED
    BY <2>1, <2>2, <2>4, <2>5
    DEF StaticHeldInv, IsCut, Known, Values, IsPage, world, CursorSound, CursorOf,
        Publishable, AreItems, GoodItems, IsList
<1>3. CASE TakeConfirmation
  <2>1. CASE held = NoHeld BY <1>1, <1>3, <2>1 DEF TakeConfirmation
  <2>2. CASE held # NoHeld
    <3>1. SUFFICES ASSUME IsStatic PROVE StaticHeldInv'
      BY <1>3 DEF TakeConfirmation, StaticHeldInv, IsStatic, world
    <3>2. phase = "answered" /\ response.sent.status = 304 /\ UNCHANGED world
      BY <1>3 DEF TakeConfirmation
    <3>3. /\ held'.answer.madeAt = response.madeAt /\ held'.answer.madeBy = response.madeBy
          /\ held'.answer.sent = held.answer.sent /\ held'.answer.call = held.answer.call
          /\ held'.answer.list = held.answer.list /\ held'.request = held.request
      BY <1>3, <2>2, ConfirmedAnswer
    <3>4. response.madeAt \in Nat BY <3>1, <3>2 DEF StaticAnsweredInv
    <3>5. CursorSound(held.request) BY <2>2, <3>1 DEF StaticHeldInv
    <3>6. IsPage(held.answer) =>
              /\ IsCut(held.answer, held.request)
              /\ held.answer.sent.body
                    = CutPage(Values(held.answer.list, held.answer.call), held.answer.call.input,
                              held.request.location.path, response.madeAt, response.madeBy)
      BY <2>2, <3>1, <3>2, ConfirmedCut DEF StaticHeldInv
    <3>7. CursorSound(held.request)' BY <3>3, <3>5 DEF CursorSound, CursorOf
    <3>8. ASSUME IsPage(held'.answer) PROVE IsCut(held.answer, held.request)'
      <4>1. IsPage(held.answer) BY <3>3, <3>8 DEF IsPage
      <4>2. \A list, call : Values(list, call)' = Values(list, call) BY <3>2 DEF Values, world
      <4>3. /\ Known(held.answer.call)' <=> Known(held.answer.call)
            /\ Publishable(Values(held.answer.list, held.answer.call))'
                   <=> Publishable(Values(held.answer.list, held.answer.call))
        BY <3>2, <3>3, <4>2 DEF Known, Publishable, AreItems, GoodItems, IsList, world
      <4>4. /\ Known(held.answer.call)'
            /\ Publishable(Values(held.answer.list, held.answer.call))'
        BY <3>6, <4>1, <4>3 DEF IsCut
      <4>5. Values(held.answer.list, held.answer.call)'
                = Values(held.answer.list, held.answer.call)
        BY <3>3, <4>2
      <4>6. IsCut(held.answer, held.request) BY <3>6, <4>1
      <4>7. /\ held'.answer.call.operation \in ListOperations
            /\ OffsetOf(held'.answer.call.input) \in Nat
            /\ LimitOf(held'.answer.call.input) \in 1..MaximumPageItems
            /\ held'.answer.call.input.representation \in Representations
            /\ InContext(held'.answer.call.input, held'.request.location.path)
            /\ held'.answer.sent.language
                   = RepresentationLanguage(NoTag, held'.answer.call.input.language,
                                            service'.document.language)
        BY <3>2, <3>3, <4>6 DEF IsCut, world
      <4>8. held'.answer.sent.body
                = CutPage(Values(held.answer.list, held.answer.call)', held'.answer.call.input,
                          held'.request.location.path, held'.answer.madeAt, held'.answer.madeBy)
        BY <3>3, <3>6, <4>1, <4>5
      <4>9. QED BY <4>4, <4>7, <4>8 DEF IsCut
    <3>9. QED BY <3>3, <3>4, <3>7, <3>8 DEF StaticHeldInv, IsPage
  <2>3. QED BY <2>1, <2>2
<1>4. CASE Ask \/ Confirm \/ FollowNext BY <1>1, <1>4 DEF Ask, Confirm, FollowNext, agent
<1>5. CASE Refuse \/ Describe \/ StaticServes \/ ApplicationServes
  BY <1>1, <1>5 DEF Refuse, Describe, StaticServes, ApplicationServes, agent
<1>6. CASE TakeFailure \/ Tick \/ Restart BY <1>1, <1>6 DEF TakeFailure, Tick, Restart, agent
<1>7. CASE UNCHANGED vars BY <1>1, <1>7 DEF vars, world
<1>8. QED BY <1>2, <1>3, <1>4, <1>5, <1>6, <1>7 DEF Next

LEMMA FollowedKept ==
    ASSUME AgentInv, OnlyStaticFollowed, [Next]_vars PROVE OnlyStaticFollowed'
<1> USE DEF AgentInv
<1>1. ASSUME UNCHANGED <<request, world>>,
             phase' \notin {"asked", "answered"} \/ phase \in {"asked", "answered"}
      PROVE  OnlyStaticFollowed'
  BY <1>1 DEF OnlyStaticFollowed, IsStatic, world
<1>2. ASSUME NEW r, RequestParts \subseteq DOMAIN r, NEW purpose, Send(r, purpose),
             purpose # "follow"
      PROVE  OnlyStaticFollowed'
  <2>1. request' = [r EXCEPT !.purpose = purpose] BY <1>2 DEF Send
  <2>2. request'.purpose = purpose BY <1>2, <2>1 DEF RequestParts
  <2>3. QED BY <1>2, <2>2 DEF OnlyStaticFollowed
<1>3. CASE Ask
  <2>1. PICK r \in setting.requests : Send(r, "ask") BY <1>3 DEF Ask
  <2>2. RequestParts \subseteq DOMAIN r BY CasesAssumption DEF WorldInv, IsRequest
  <2>3. QED BY <1>2, <2>1, <2>2
<1>4. CASE Confirm
  <2> DEFINE asked(h) == [held.request EXCEPT
                    !.conditions = {held.answer.sent.tag}, !.accept = h.accept,
                    !.languages = h.languages, !.authorization = h.authorization]
  <2>1. PICK h \in Headers : Send(asked(h), "confirm") BY <1>4 DEF Confirm
  <2>2. RequestParts \subseteq DOMAIN held.request
    BY <1>4, NothingYet DEF Confirm, HeldInv
  <2>3. RequestParts \subseteq DOMAIN asked(h) BY <2>2
  <2> HIDE DEF asked
  <2>4. QED BY <1>2, <2>1, <2>3
<1>5. CASE FollowNext BY <1>5 DEF FollowNext, OnlyStaticFollowed, IsStatic, world
<1>6. CASE Refuse \/ Describe \/ StaticServes \/ ApplicationServes
  BY <1>1, <1>6 DEF Refuse, Describe, StaticServes, ApplicationServes
<1>7. CASE TakeRepresentation \/ TakeConfirmation \/ TakeFailure
  BY <1>1, <1>7 DEF TakeRepresentation, TakeConfirmation, TakeFailure
<1>8. CASE Tick
  <2>1. UNCHANGED <<request, world, phase>> BY <1>8 DEF Tick
  <2>2. QED BY <1>1, <2>1
<1>9. CASE Restart
  <2>1. /\ UNCHANGED <<request, world>>
        /\ phase' = phase \/ phase' \in {"idle", "holding"}
    BY <1>9 DEF Restart
  <2>2. QED BY <1>1, <2>1
<1>10. CASE UNCHANGED vars
  <2>1. UNCHANGED <<request, world, phase>> BY <1>10 DEF vars, world
  <2>2. QED BY <1>1, <2>1
<1>11. QED BY <1>3, <1>4, <1>5, <1>6, <1>7, <1>8, <1>9, <1>10 DEF Next

THEOREM StaticInvariant == Spec => [](AgentInv /\ StaticInv)
<1>1. Init => AgentInv /\ StaticInv BY Starts, StaticFirst
<1>2. AgentInv /\ StaticInv /\ [Next]_vars => (AgentInv /\ StaticInv)'
  <2>1. SUFFICES ASSUME AgentInv, StaticInv, [Next]_vars PROVE AgentInv' /\ StaticInv'
    OBVIOUS
  <2>2. AgentInv'
    BY <2>1, WorldKept, AskedKept, AnsweredKept, HeldKept, CollectedKept DEF AgentInv
  <2>3. StaticInv'
    BY <2>1, PublishedKept, StaticAskedKept, StaticAnswerKept, StaticHeldKept, FollowedKept
    DEF AgentInv, StaticInv
  <2>4. QED BY <2>2, <2>3
<1>3. QED BY <1>1, <1>2, PTL DEF Spec

-----------------------------------------------------------------------------
(* A continuation is refused for what was done or what was lost alone.     *)
LEMMA OutlivesALifetime ==
    ASSUME NEW t \in Nat
    PROVE  Static!Expiry(t) \in Nat /\ t + PageLifetime < Static!Expiry(t)
<1>1. PageLifetime \in Nat \ {0} BY ConstantsAssumption
<1>2. \A l \in Nat \ {0} : (t \div l) * l + 2 * l \in Nat /\ t + l < (t \div l) * l + 2 * l
  <2>1. SUFFICES ASSUME NEW l \in Nat \ {0}
                 PROVE  (t \div l) * l + 2 * l \in Nat /\ t + l < (t \div l) * l + 2 * l
    OBVIOUS
  <2>2. t \div l \in Nat /\ t < (t \div l) * l + l OBVIOUS
  <2>3. (t \div l) * l \in Nat BY <2>2
  <2>4. QED BY <2>2, <2>3
<1>3. QED BY <1>1, <1>2 DEF Static!Expiry

(* A request the Service has an operation for is refused for its query.    *)
LEMMA RefusedForItsQuery ==
    ASSUME NEW s, NEW r, AcceptsODP(r.accept), r.location.path # WellKnown,
           NEW call, call = Route(r.location.path), call.kind # "problem",
           call.operation \in s.operations, call.operation \notin SearchOperations,
           Takes(call.operation, Method(r))
    PROVE  Reading(s, r)
               = IF RequestRefused(r) THEN Invalid
                 ELSE CatalogCall(call, CatalogRequest(s, r, call.operation), NoBody, {})
<1> DEFINE served == CatalogCall(call, CatalogRequest(s, r, call.operation), NoBody, {})
           p == call.operation \notin s.operations
           q == ~Takes(call.operation, Method(r))
           w == RequestRefused(r)
<1>1. Reading(s, r) = FirstOf(<< <<p, NotFound>>, <<q, MethodNotAllowed>>, <<w, Invalid>> >>,
                              IF call.operation \in SearchOperations THEN Searching(s, r, call)
                              ELSE served)
  BY DEF Reading
<1>2. p \in BOOLEAN /\ q \in BOOLEAN /\ w \in BOOLEAN BY DEF RequestRefused
<1>3. ~p /\ ~q OBVIOUS
<1> HIDE DEF p, q, w, served
<1>4. FirstOf(<< <<p, NotFound>>, <<q, MethodNotAllowed>>, <<w, Invalid>> >>, served)
        = IF p THEN NotFound ELSE IF q THEN MethodNotAllowed ELSE IF w THEN Invalid ELSE served
  BY <1>2, FirstOfThree
<1>5. QED BY <1>1, <1>3, <1>4 DEF w, served

(* The continuation as it was given asks for the same view of the list.    *)
LEMMA UnalteredAsksTheSame ==
    ASSUME NEW a, NEW r, IsCut(a, r), a.sent.body.next # NoNext,
           NEW q, q.location = a.sent.body.next.location, q.method = "GET", NEW operation
    PROVE  /\ ~RequestRefused(q)
           /\ CatalogRequest(service, q, operation).representation
                  = a.call.input.representation
           /\ LimitOf(CatalogRequest(service, q, operation)) = LimitOf(a.call.input)
<1> DEFINE c == NextCursor(a, r)
           path == r.location.path
           input == CatalogRequest(service, q, operation)
           limit == LimitOf(a.call.input)
           view == a.call.input.representation
<1>1. c.state.limit = limit /\ c.state.representation = view
  BY CursorParts DEF NextCursor
<1>2. a.sent.body.next = Static!NextReference(c, path) BY CutNext
<1>3. limit \in 1..MaximumPageItems /\ view \in Representations BY DEF IsCut
<1>4. input.limit = ValueOf(q.location.query.limit, 0)
      /\ input.representation
            = ValueOf(q.location.query.representation, DefaultRepresentation(operation))
  BY InputOf
<1> HIDE DEF c, path, limit, view, input
<1>5. /\ q.location.query.cursor = <<c>> /\ q.location.query.limit = <<limit>>
      /\ q.location.query.representation = <<view>>
  BY <1>1, <1>2, NextAsks
<1>6. Method(q) = "GET" BY DEF Method
<1>s. \A x : <<x>> # <<>> /\ Head(<<x>>) = x /\ Len(<<x>>) = 1 OBVIOUS
<1>7. ~LimitRefused(q)
  <2>1. /\ Len(q.location.query.limit) = 1 /\ Head(q.location.query.limit) = limit
    BY <1>5, <1>s
  <2>2. Head(q.location.query.limit) \in 1..MaximumPageItems BY <1>3, <2>1
  <2>3. ~(Len(q.location.query.limit) > 1) BY <2>1
  <2>4. QED BY <1>6, <2>2, <2>3 DEF LimitRefused
<1>8. ~RequestRefused(q)
  <2>1. /\ Len(q.location.query.representation) = 1
        /\ Head(q.location.query.representation) = view /\ Len(q.location.query.cursor) = 1
    BY <1>5, <1>s
  <2>2. QED BY <1>3, <1>7, <2>1 DEF RequestRefused
<1>v. \A x, d : ValueOf(<<x>>, d) = x BY <1>s DEF ValueOf
<1>9. input.limit = limit /\ input.representation = view BY <1>4, <1>5, <1>v
<1>10. limit # 0
  <2>1. MaximumPageItems \in Nat BY ConstantsAssumption
  <2>2. \A n \in Nat : 0 \notin 1..n OBVIOUS
  <2>3. QED BY <1>3, <2>1, <2>2
<1>11. LimitOf(input) = limit BY <1>9, <1>10 DEF LimitOf
<1>12. QED BY <1>8, <1>9, <1>11 DEF input, limit, view

LEMMA StaticProblems ==
    /\ Static!Missing.kind = "problem" /\ Static!Missing.status = 404
    /\ Static!Gone.kind = "problem" /\ Static!Gone.status = 410
    /\ Static!ContextChanged.kind = "problem" /\ Static!ContextChanged.status = 400
    /\ Invalid.kind = "problem" /\ Invalid.status = 400
BY DEF Static!Missing, Static!Gone, Static!ContextChanged, Invalid, Problem, ProblemWith

LEMMA ProblemSent ==
    ASSUME NEW sent, NEW free, NEW r, Sent(sent, free, r), free.kind = "problem",
           free.status \in 400..599
    PROVE  sent.status = free.status
<1>1. ~IsFull(free) BY DEF IsFull
<1>2. sent = ServeHTTP(free) BY <1>1 DEF Sent
<1>3. QED BY <1>2, SentProblem

(* RefusedOnlyWhenLost: a static continuation that is not served was made  *)
(* by another key or has expired, or asks for something else.              *)
THEOREM RefusalsEarned == Spec => []RefusedOnlyWhenLost
<1>1. ASSUME AgentInv, StaticInv PROVE RefusedOnlyWhenLost
  <2> USE <1>1 DEF AgentInv, StaticInv
  <2> DEFINE a == held.answer
             r == held.request
             c == NextCursor(a, r)
             unaltered == request.location = a.sent.body.next.location
             sameLanguage == SelectedLanguage(request) = SelectedLanguage(r)
  <2> SUFFICES ASSUME phase = "answered", request.purpose = "follow", response.sent.status # 200
               PROVE  \/ /\ response.sent.status = 410
                         /\ \/ response.madeBy # a.madeBy
                            \/ response.madeAt - a.madeAt > PageLifetime
                      \/ response.sent.status = 400 /\ (~unaltered \/ ~sameLanguage)
    BY DEF RefusedOnlyWhenLost
  <2>1. IsStatic BY DEF OnlyStaticFollowed
  <2>2. /\ held # NoHeld /\ request.location.path = r.location.path
        /\ IsPage(a) /\ a.sent.body.next # NoNext /\ CursorOf(request) = c
    BY <2>1, AsksOn
  <2>3. IsCut(a, r) /\ a.madeAt \in Nat BY <2>1, <2>2 DEF StaticHeldInv
  <2>4. /\ request.method = "GET" /\ request.conditions = {} /\ request.accept = r.accept
        /\ CursorSound(request)
    BY <2>1 DEF StaticAskedInv
  <2>5. /\ response.call = Reading(service, request)
        /\ Sent(response.sent, response.made, request)
        /\ CameOf(service, response.made, response.call, request)
        /\ RequestParts \subseteq DOMAIN request
        /\ StaticMade(response, request) /\ response.madeAt \in Nat
    BY <2>1 DEF AnsweredInv, AnswersTo, AskedInv, StaticAnsweredInv
  <2>6. a.call = Reading(service, r) /\ a.call.kind = "call" BY <2>2 DEF HeldInv, AnswersTo, IsPage
  <2>7. /\ c # NoCursor /\ c.signed = a.madeBy /\ c.state.expires = Static!Expiry(a.madeAt)
        /\ c.state.language = a.call.input.language /\ c.state.limit = LimitOf(a.call.input)
        /\ c.state.representation = a.call.input.representation
        /\ c.state.target = r.location.path
    BY CursorParts DEF NextCursor
  <2>8. /\ a.call.input.language = LanguageFor(service, r)
        /\ sameLanguage <=> LanguageFor(service, request) = LanguageFor(service, r)
    BY <2>6, ReadingKinds DEF Reads, CatalogCall, LanguageFor, SelectedLanguage
  <2>9. \A operation : unaltered =>
            /\ ~RequestRefused(request)
            /\ CatalogRequest(service, request, operation).representation
                   = a.call.input.representation
            /\ LimitOf(CatalogRequest(service, request, operation)) = LimitOf(a.call.input)
    BY <2>2, <2>3, <2>4, UnalteredAsksTheSame
  <2>10. \/ Reading(service, request).kind = "call"
         \/ Reading(service, request) = Invalid /\ RequestRefused(request)
    <3> DEFINE call == Route(request.location.path)
    <3>1. /\ AcceptsODP(request.accept) /\ request.location.path # WellKnown
          /\ call.operation \in service.operations /\ \E id : call = Call(call.operation, id)
      BY <2>2, <2>4, <2>6, ReadingKinds DEF Reads
    <3>2. call.operation \notin SearchOperations
      <4>1. a.call.operation = call.operation /\ a.call.operation \in ListOperations
        BY <2>1, <2>2, <2>3, <2>6, StaticReads DEF IsCut
      <4>2. QED BY <4>1 DEF ListOperations, SearchOperations
    <3>3. Takes(call.operation, Method(request)) BY <2>4 DEF Takes, Method
    <3>4. call.kind # "problem" BY <3>1 DEF Call
    <3> HIDE DEF call
    <3>5. Reading(service, request)
            = IF RequestRefused(request) THEN Invalid
              ELSE CatalogCall(call, CatalogRequest(service, request, call.operation), NoBody, {})
      BY <3>1, <3>2, <3>3, <3>4, RefusedForItsQuery DEF call
    <3>6. QED BY <3>5 DEF CatalogCall
  <2> HIDE DEF a, r, c, unaltered, sameLanguage
  <2>11. CASE Reading(service, request) = Invalid /\ RequestRefused(request)
    <3>1. response.made = Invalid BY <2>5, <2>11, StaticProblems DEF CameOf
    <3>2. response.sent.status = 400 BY <2>5, <3>1, StaticProblems, ProblemSent
    <3>3. QED BY <2>9, <2>11, <3>2
  <2>12. CASE Reading(service, request).kind = "call"
    <3> DEFINE input == response.call.input
               path == request.location.path
    <3>1. /\ response.call.operation = a.call.operation /\ response.call.id = a.call.id
          /\ response.call.kind = "call"
      BY <2>1, <2>2, <2>5, <2>6, <2>12, SamePath
    <3>2. IsPage(response) BY <2>2, <3>1 DEF IsPage
    <3>3. /\ input = CatalogRequest(service, request, response.call.operation)
          /\ input.cursor = c /\ input.language = LanguageFor(service, request)
      <4>1. input = CatalogRequest(service, request, response.call.operation)
        BY <2>1, <2>5, <2>12, StaticReads
      <4>2. QED BY <2>2, <4>1, InputOf DEF CursorOf
    <3>4. Known(response.call) BY <2>3, <3>1 DEF IsCut, Known
    <3>5. StaticOutcome(response, request)
      <4>1. Publishable(setting.catalog.collections) BY <2>1 DEF PublishedInv
      <4>2. QED BY <2>1, <2>4, <2>5, <3>2, <4>1, StaticOutcomes
    <3>6. CASE /\ response.made = Static!Gone
               /\ Static!Unavailable(c, response.madeAt, response.madeBy)
      <4>1. response.sent.status = 410 BY <2>5, <3>6, StaticProblems, ProblemSent
      <4>2. response.madeBy # a.madeBy \/ Static!Expiry(a.madeAt) < response.madeAt
        BY <2>7, <3>6 DEF Static!Unavailable
      <4>3. Static!Expiry(a.madeAt) \in Nat /\ a.madeAt + PageLifetime < Static!Expiry(a.madeAt)
        BY <2>3, OutlivesALifetime
      <4>4. PageLifetime \in Nat BY ConstantsAssumption
      <4>5. \A l, e, t, u \in Nat : t + l < e /\ e < u => u - t > l OBVIOUS
      <4>6. QED BY <2>3, <2>5, <4>1, <4>2, <4>3, <4>4, <4>5
    <3>7. CASE /\ response.made = Static!ContextChanged
               /\ Static!OtherContext(c.state, input, LimitOf(input), path)
      <4>1. response.sent.status = 400 BY <2>5, <3>7, StaticProblems, ProblemSent
      <4> HIDE DEF input
      <4>2. \/ a.call.input.language # input.language
            \/ LimitOf(a.call.input) # LimitOf(input)
            \/ a.call.input.representation # input.representation
        BY <2>2, <2>7, <3>7 DEF Static!OtherContext
      <4>3. QED BY <2>8, <2>9, <3>3, <4>1, <4>2
    <3>8. CASE response.made = Made(response, Cut(response, request))
      <4>1. response.made.kind = "response" /\ response.made.status = 200
        BY <3>8 DEF Made, Representation
      <4>2. ~Matches(request.conditions, response.made.tag) BY <2>4 DEF Matches
      <4>3. response.sent = response.made BY <2>5, <4>1, <4>2 DEF Sent
      <4>4. QED BY <4>1, <4>3
    <3>9. QED BY <3>3, <3>4, <3>5, <3>6, <3>7, <3>8 DEF StaticOutcome
  <2>13. QED BY <2>10, <2>11, <2>12
<1>2. QED BY <1>1, StaticInvariant, PTL

-----------------------------------------------------------------------------
(* The pages tile the list.                                                *)
LEMMA BeforeSame ==
    ASSUME NEW p, NEW q, NEW i \in Nat, \A j \in 1..(i - 1) : p[j] = q[j]
    PROVE  Before(p, i) = Before(q, i)
<1>1. [j \in 1..(i - 1) |-> p[j].page.items] = [j \in 1..(i - 1) |-> q[j].page.items]
  OBVIOUS
<1>2. QED BY <1>1 DEF Before

LEMMA BeforeFirst == ASSUME NEW p PROVE Before(p, 1) = 0
<1>1. [j \in 1..(1 - 1) |-> p[j].page.items] \in [1..0 -> {}] OBVIOUS
<1>2. FlattenSeq([j \in 1..(1 - 1) |-> p[j].page.items]) = <<>> BY <1>1, FlattenNone
<1>3. QED BY <1>2 DEF Before

LEMMA BeforeNext ==
    ASSUME NEW p, NEW n \in Nat \ {0}, \A j \in 1..n : IsList(p[j].page.items)
    PROVE  Before(p, n + 1) = Before(p, n) + Len(p[n].page.items)
<1> DEFINE S == UNION {ToSet(p[j].page.items) : j \in 1..n}
           all == [j \in 1..n |-> p[j].page.items]
<1>1. PICK m \in Nat : n = m + 1
  <2>1. n - 1 \in Nat /\ n = (n - 1) + 1 OBVIOUS
  <2>2. QED BY <2>1
<1> DEFINE most == [j \in 1..m |-> p[j].page.items]
<1>2. \A j \in 1..n : p[j].page.items \in Seq(S)
  <2>1. ASSUME NEW j \in 1..n PROVE p[j].page.items \in Seq(S)
    <3>1. p[j].page.items \in Seq(ToSet(p[j].page.items)) BY DEF IsList
    <3>2. ToSet(p[j].page.items) \subseteq S OBVIOUS
    <3> HIDE DEF S
    <3>3. QED BY <3>1, <3>2
  <2>2. QED BY <2>1
<1> HIDE DEF S
<1>3. all \in [1..(m + 1) -> Seq(S)] /\ most \in [1..m -> Seq(S)] BY <1>1, <1>2
<1>4. \A j \in 1..m : most[j] = all[j] BY <1>1
<1>5. all[m + 1] = p[n].page.items BY <1>1
<1> HIDE DEF all, most
<1>6. FlattenSeq(all) = FlattenSeq(most) \o all[m + 1] BY <1>3, <1>4, FlattenOneMore
<1>7. FlattenSeq(most) \in Seq(S) /\ all[m + 1] \in Seq(S) BY <1>3, FlattenType
<1>8. Len(FlattenSeq(all)) = Len(FlattenSeq(most)) + Len(all[m + 1]) BY <1>6, <1>7
<1>9. (n + 1) - 1 = n /\ n - 1 = m BY <1>1
<1>10. QED BY <1>5, <1>8, <1>9 DEF Before, all, most

(* A page as it was cut is where it should be.                             *)
LEMMA CutTile ==
    ASSUME NEW a, NEW r, IsCut(a, r), NEW pages, NEW n, n = Len(pages),
           pages[n] = [page |-> a.sent.body, list |-> a.list, language |-> a.sent.language],
           Before(pages, n) = OffsetOf(a.call.input)
    PROVE  Tile(pages, n, a.call, a.sent.language)
<1> DEFINE values == Values(a.list, a.call)
           input == a.call.input
           from == Begin(values, input)
           end == End(values, input)
           offset == OffsetOf(input)
           items == a.sent.body.items
           viewed == Viewed(values, input.representation)
           path == r.location.path
<1>1. /\ IsList(values) /\ LimitOf(input) \in Nat \ {0} /\ offset \in Nat
      /\ from \in Nat /\ end \in Nat /\ from <= end /\ end <= Len(values) /\ Len(values) \in Nat
      /\ a.sent.body.next = NextFrom(values, end, input, path, a.madeAt, a.madeBy)
  BY CutEnds
<1>2. /\ DOMAIN items = 1..(end - from) /\ Len(items) = end - from
      /\ \A i \in 1..(end - from) :
            items[i] = Static!View(values[from + i], input.representation)
  <2>1. a.sent.body = CutPage(values, input, path, a.madeAt, a.madeBy) BY DEF IsCut
  <2> HIDE DEF values, input, path
  <2>2. /\ DOMAIN a.sent.body.items = 1..(end - from) /\ Len(a.sent.body.items) = end - from
        /\ \A i \in 1..(end - from) :
              a.sent.body.items[i] = Static!View(values[from + i], input.representation)
    BY <1>1, <2>1, PageItems
  <2>3. QED BY <2>2
<1>3. from = Least(offset, Len(values)) BY DEF Begin
<1>4. items = [i \in 1..(end - from) |-> items[i]]
  <2>1. a.sent.body.items = CutPage(values, input, path, a.madeAt, a.madeBy).items BY DEF IsCut
  <2> HIDE DEF values, input, path
  <2>2. CutPage(values, input, path, a.madeAt, a.madeBy)
          = [items |-> [i \in 1..(end - from) |->
                           Static!View(values[from + i], input.representation)],
             next |-> NextFrom(values, end, input, path, a.madeAt, a.madeBy),
             refinements |-> <<>>, authExpands |-> FALSE, bytes |-> 0, depth |-> 0]
    BY <1>1, PageCut, Zenon
  <2>3. CutPage(values, input, path, a.madeAt, a.madeBy).items
          = [i \in 1..(end - from) |-> Static!View(values[from + i], input.representation)]
    BY <2>2
  <2>4. QED BY <2>1, <2>3
<1>5. DOMAIN viewed = 1..Len(values)
      /\ \A i \in 1..Len(values) : viewed[i] = Static!View(values[i], input.representation)
  <2>1. DOMAIN values = 1..Len(values) BY <1>1 DEF IsList
  <2>2. QED BY <2>1 DEF Viewed
<1> HIDE DEF values, from, end, offset, items, viewed
<1>6. items = SubSeq(viewed, offset + 1, offset + Len(items))
  <2> DEFINE S == {viewed[i] : i \in 1..Len(values)}
             cut == SubSeq(viewed, offset + 1, offset + Len(items))
  <2>1. offset + 1 \in Int /\ offset + Len(items) \in Int /\ Len(items) = end - from
    BY <1>1, <1>2
  <2>2. \A i \in (offset + 1)..(offset + Len(items)) : i \in 1..Len(values)
    <3>1. \A f, e, o, l, i \in Int : /\ f <= e /\ e <= l /\ 0 <= o /\ f = (IF o <= l THEN o ELSE l)
                                     /\ i \in (o + 1)..(o + (e - f))
                                     => i \in 1..l
      OBVIOUS
    <3>2. from = (IF offset <= Len(values) THEN offset ELSE Len(values)) BY <1>3 DEF Least
    <3>3. \A i \in (offset + 1)..(offset + Len(items)) : i \in Int BY <2>1
    <3>4. QED BY <1>1, <2>1, <3>1, <3>2, <3>3
  <2>3. \A i \in (offset + 1)..(offset + Len(items)) : viewed[i] \in S BY <2>2
  <2> HIDE DEF S
  <2>4. /\ cut \in Seq(S)
        /\ Len(cut) = IF offset + 1 <= offset + Len(items)
                       THEN (offset + Len(items)) - (offset + 1) + 1 ELSE 0
        /\ \A i \in 1..((offset + Len(items)) - (offset + 1) + 1) :
              cut[i] = viewed[(offset + 1) + i - 1]
    BY <2>1, <2>3, SubSeqProperties
  <2>5. (offset + Len(items)) - (offset + 1) + 1 = end - from BY <1>1, <2>1
  <2>6. Len(cut) = end - from
    <3>1. \A f, e, o \in Int : f <= e =>
             (IF o + 1 <= o + (e - f) THEN (o + (e - f)) - (o + 1) + 1 ELSE 0) = e - f
      OBVIOUS
    <3>2. QED BY <1>1, <2>1, <2>4, <3>1
  <2>7. cut = [i \in 1..(end - from) |-> cut[i]] BY <2>4, <2>6
  <2>8. ASSUME NEW i \in 1..(end - from) PROVE items[i] = cut[i]
    <3>1. offset = from BY <1>1, <1>3 DEF Least
    <3>2. (offset + 1) + i - 1 = from + i /\ from + i \in 1..Len(values) BY <1>1, <3>1
    <3>3. QED BY <1>2, <1>5, <2>4, <2>5, <3>2
  <2> HIDE DEF cut
  <2>9. items = cut BY <1>4, <2>7, <2>8
  <2>10. QED BY <2>9 DEF cut
<1>7. IsList(items)
  <2>1. items \in [1..(end - from) -> ToSet(items)] BY <1>2, <1>4 DEF ToSet
  <2>2. end - from \in Nat BY <1>1
  <2>3. QED BY <2>1, <2>2 DEF IsList
<1>8. a.sent.body.next = NoNext => offset + Len(items) >= Len(values)
  <2>1. SUFFICES ASSUME a.sent.body.next = NoNext PROVE offset + Len(items) >= Len(values)
    OBVIOUS
  <2>2. ~(end < Len(values)) BY <1>1, <2>1, NextIsSomething DEF NextFrom
  <2>3. QED BY <1>1, <1>2, <1>3, <2>2 DEF Least
<1>9. /\ pages[n].list = a.list /\ pages[n].page = a.sent.body
      /\ pages[n].language = a.sent.language
  OBVIOUS
<1>10. ~(n < Len(pages))
  <2>1. n = Len(pages) OBVIOUS
  <2>2. Len(pages) = Len(pages) OBVIOUS
  <2>3. QED BY <2>1
<1>11. QED BY <1>6, <1>7, <1>8, <1>9, <1>10 DEF Tile, values, items, viewed, offset

(* A page among others is where it should be whatever comes after it.      *)
LEMMA TileMoved ==
    ASSUME NEW p, NEW q, NEW i \in Nat, NEW c, NEW d, NEW language, Tile(p, i, c, language),
           \A j \in 1..(i - 1) : p[j] = q[j], p[i] = q[i],
           \A list : Values(list, c) = Values(list, d),
           c.input.representation = d.input.representation,
           i < Len(q) => p[i].page.next # NoNext
    PROVE  Tile(q, i, d, language)
<1>1. Before(p, i) = Before(q, i) BY BeforeSame
<1>2. QED BY <1>1 DEF Tile

LEMMA SameValues ==
    ASSUME NEW c, NEW d, c.operation = d.operation, c.id = d.id
    PROVE  \A list : Values(list, c) = Values(list, d)
BY DEF Values

(* A page the Agent takes next belongs to the same walk.                   *)
LEMMA PagesGoOn ==
    ASSUME AgentInv, StaticInv, IsStatic, phase = "answered", response.sent.status = 200,
           held # NoHeld
    PROVE  LET a == response
               b == held.answer
           IN  /\ IsPage(a) <=> IsPage(b)
               /\ IsPage(a) =>
                     /\ \A list : Values(list, a.call) = Values(list, b.call)
                     /\ request.purpose = "confirm" =>
                            a.call.input.cursor = b.call.input.cursor
                     /\ request.purpose = "follow" =>
                            a.call.input.cursor = NextCursor(b, held.request)
                     /\ a.call.input.cursor = CursorOf(request)
<1> DEFINE a == response
           b == held.answer
<1> USE DEF AgentInv, StaticInv
<1>1. /\ AnswersTo(service, a, request) /\ AnswersTo(service, b, held.request)
      /\ b.sent.status = 200
  BY DEF AnsweredInv, HeldInv
<1>2. a.call = Reading(service, request) /\ b.call = Reading(service, held.request)
  BY <1>1 DEF AnswersTo
<1>3. ASSUME NEW x, NEW r, AnswersTo(service, x, r), x.sent.status = 200
      PROVE  x.call.kind # "problem"
  <2>1. Sent(x.sent, x.made, r) /\ CameOf(service, x.made, x.call, r) BY <1>3 DEF AnswersTo
  <2>2. IsFull(x.made) BY <1>3, <2>1, SentStatus
  <2>3. x.made.kind = "response" BY <2>2 DEF IsFull
  <2>4. QED BY <2>1, <2>3 DEF CameOf
<1>4. a.call.kind # "problem" /\ b.call.kind # "problem" BY <1>1, <1>3
<1>5. request.purpose # "ask" BY NothingYet DEF AskedInv
<1>6. request.location.path = held.request.location.path BY <1>5, AsksOn
<1>7. a.call.kind = "call" \/ b.call.kind = "call" =>
          /\ a.call.kind = "call" /\ b.call.kind = "call"
          /\ a.call.operation = b.call.operation /\ a.call.id = b.call.id
  BY <1>2, <1>4, <1>6, SamePath
<1>8. IsPage(a) <=> IsPage(b) BY <1>7 DEF IsPage
<1>9. ASSUME IsPage(a)
      PROVE  a.call.input.cursor = CursorOf(request) /\ b.call.input.cursor = CursorOf(held.request)
  <2>1. a.call.kind = "call" /\ b.call.kind = "call" BY <1>8, <1>9 DEF IsPage
  <2>2. /\ a.call.input = CatalogRequest(service, request, a.call.operation)
        /\ b.call.input = CatalogRequest(service, held.request, b.call.operation)
    BY <1>2, <2>1, StaticReads
  <2>3. QED BY <2>2, InputOf DEF CursorOf
<1>10. \A list : IsPage(a) => Values(list, a.call) = Values(list, b.call)
  BY <1>7, SameValues DEF IsPage
<1>11. request.purpose = "confirm" => CursorOf(request) = CursorOf(held.request)
  BY <1>5, AsksOn DEF CursorOf
<1>12. request.purpose = "follow" => CursorOf(request) = NextCursor(b, held.request)
  BY <1>5, AsksOn
<1>13. QED BY <1>8, <1>9, <1>10, <1>11, <1>12

(* A continuation taken was made for this view and this language.          *)
LEMMA TakenForContext ==
    ASSUME NEW a, NEW r, IsCut(a, r), a.call.input.cursor # NoCursor
    PROVE  /\ a.call.input.representation = a.call.input.cursor.state.representation
           /\ a.sent.language = RepresentationLanguage(NoTag, a.call.input.cursor.state.language,
                                                       service.document.language)
<1>1. ~Static!OtherContext(a.call.input.cursor.state, a.call.input, LimitOf(a.call.input),
                           r.location.path)
  BY DEF IsCut, InContext
<1>2. /\ a.call.input.representation = a.call.input.cursor.state.representation
      /\ a.call.input.language = a.call.input.cursor.state.language
  BY <1>1 DEF Static!OtherContext
<1>3. QED BY <1>2 DEF IsCut

(* Pages collected, and one more.                                          *)
PageKept(a) == [page |-> a.sent.body, list |-> a.list, language |-> a.sent.language]

LEMMA OneMorePage ==
    ASSUME NEW s, IsList(s), NEW x
    PROVE  /\ IsList(s \o <<x>>) /\ Len(s) \in Nat /\ Len(s \o <<x>>) = Len(s) + 1
           /\ (s \o <<x>>)[Len(s) + 1] = x
           /\ \A j \in 1..Len(s) : (s \o <<x>>)[j] = s[j]
<1> DEFINE S == ToSet(s) \cup {x}
<1>1. s \in Seq(S) /\ <<x>> \in Seq(S) BY DEF IsList
<1> HIDE DEF S
<1>2. s \o <<x>> \in Seq(S) BY <1>1
<1>3. /\ Len(s) \in Nat /\ Len(s \o <<x>>) = Len(s) + 1 /\ (s \o <<x>>)[Len(s) + 1] = x
      /\ \A j \in 1..Len(s) : (s \o <<x>>)[j] = s[j]
  BY <1>1
<1>4. QED BY <1>2, <1>3, ListOfItsOwn

LEMMA OnePageLess ==
    ASSUME NEW s, IsList(s), Len(s) > 0
    PROVE  /\ IsList(Front(s)) /\ Len(Front(s)) = Len(s) - 1
           /\ \A j \in 1..(Len(s) - 1) : Front(s)[j] = s[j]
<1>1. IsList(Front(s)) BY FrontListed
<1>2. s \in Seq(ToSet(s)) BY DEF IsList
<1>3. Front(s) = SubSeq(s, 1, Len(s) - 1) BY DEF Front
<1>4. Len(SubSeq(s, 1, Len(s) - 1)) = Len(s) - 1
      /\ \A j \in 1..(Len(s) - 1) : SubSeq(s, 1, Len(s) - 1)[j] = s[j]
  BY <1>2
<1>5. QED BY <1>1, <1>3, <1>4

LEMMA LastTile ==
    ASSUME NEW q, NEW a, NEW r, IsCut(a, r), Len(q) \in Nat \ {0}, q[Len(q)] = PageKept(a),
           Before(q, Len(q)) = OffsetOf(a.call.input),
           Len(q) > 1 => a.call.input.cursor # NoCursor,
           \A i \in 1..(Len(q) - 1) : Tile(q, i, a.call, a.sent.language)
    PROVE  Tiled(q, a)
<1>1. Tile(q, Len(q), a.call, a.sent.language) BY CutTile DEF PageKept
<1>2. \A i \in 1..Len(q) : i = Len(q) \/ i \in 1..(Len(q) - 1) OBVIOUS
<1>3. \A i \in 1..Len(q) : Tile(q, i, a.call, a.sent.language) BY <1>1, <1>2
<1>4. QED BY <1>3 DEF Tiled, PageKept

(* The first page.                                                         *)
LEMMA TiledFirst ==
    ASSUME NEW a, NEW r, IsCut(a, r), a.call.input.cursor = NoCursor
    PROVE  Tiled(<<PageKept(a)>>, a)
<1> DEFINE q == <<PageKept(a)>>
<1>1. Len(q) = 1 /\ q[1] = PageKept(a) OBVIOUS
<1> HIDE DEF q
<1>2. Before(q, 1) = 0 BY BeforeFirst
<1>3. OffsetOf(a.call.input) = 0 BY DEF OffsetOf
<1>4. /\ Len(q) \in Nat \ {0} /\ q[Len(q)] = PageKept(a)
      /\ Before(q, Len(q)) = OffsetOf(a.call.input)
      /\ Len(q) > 1 => a.call.input.cursor # NoCursor
      /\ \A i \in 1..(Len(q) - 1) : Tile(q, i, a.call, a.sent.language)
  <2>1. 1..(Len(q) - 1) = {} BY <1>1
  <2>2. QED BY <1>1, <1>2, <1>3, <2>1
<1>5. Tiled(q, a) BY <1>4, LastTile
<1>6. QED BY <1>5 DEF q

(* The last page, served anew.                                             *)
LEMMA TiledAgain ==
    ASSUME NEW s, IsList(s), NEW b, NEW r0, IsCut(b, r0), Tiled(s, b),
           NEW a, NEW r, IsCut(a, r), a.call.input.cursor = b.call.input.cursor,
           \A list : Values(list, a.call) = Values(list, b.call)
    PROVE  Tiled(Front(s) \o <<PageKept(a)>>, a)
<1> DEFINE n == Len(s)
           q == Front(s) \o <<PageKept(a)>>
<1>1. n \in Nat \ {0}
  <2>1. s \in Seq(ToSet(s)) BY DEF IsList
  <2>2. QED BY <2>1 DEF Tiled
<1>2. IsList(Front(s)) /\ Len(Front(s)) = n - 1 /\ \A j \in 1..(n - 1) : Front(s)[j] = s[j]
  BY <1>1, OnePageLess
<1>3. Len(q) = n /\ q[n] = PageKept(a) /\ \A j \in 1..(n - 1) : q[j] = s[j]
  <2> DEFINE f == Front(s)
             kept == PageKept(a)
  <2> HIDE DEF f, kept
  <2>1. IsList(f) /\ Len(f) = n - 1 /\ \A j \in 1..(n - 1) : f[j] = s[j] BY <1>2 DEF f
  <2>2. /\ Len(f \o <<kept>>) = Len(f) + 1 /\ (f \o <<kept>>)[Len(f) + 1] = kept
        /\ \A j \in 1..Len(f) : (f \o <<kept>>)[j] = f[j]
    <3>1. IsList(f) BY <2>1
    <3>2. QED BY <3>1, OneMorePage
  <2>3. q = f \o <<kept>> /\ kept = PageKept(a) BY DEF f, kept
  <2> HIDE DEF q
  <2>4. (n - 1) + 1 = n BY <1>1
  <2>5. QED BY <2>1, <2>2, <2>3, <2>4
<1> HIDE DEF q
<1>4. Before(q, n) = OffsetOf(a.call.input)
  <2>1. Before(q, n) = Before(s, n) BY <1>1, <1>3, BeforeSame
  <2>2. Before(s, n) = OffsetOf(b.call.input) BY DEF Tiled
  <2>3. QED BY <2>1, <2>2 DEF OffsetOf
<1>5. n > 1 => a.call.input.cursor # NoCursor BY DEF Tiled
<1>6. ASSUME NEW i \in 1..(n - 1) PROVE Tile(q, i, a.call, a.sent.language)
  <2>1. a.call.input.cursor # NoCursor BY <1>1, <1>5
  <2>2. /\ b.call.input.representation = a.call.input.representation
        /\ b.sent.language = a.sent.language
    BY <2>1, TakenForContext
  <2>3. i \in 1..n /\ i < n /\ i \in Nat BY <1>1
  <2>4. Tile(s, i, b.call, b.sent.language) BY <2>3 DEF Tiled
  <2>5. s[i].page.next # NoNext BY <2>3, <2>4 DEF Tile
  <2>6. \A j \in 1..(i - 1) : s[j] = q[j] BY <1>1, <1>3
  <2>7. s[i] = q[i] BY <1>3
  <2>8. Tile(q, i, a.call, b.sent.language) BY <2>2, <2>3, <2>4, <2>5, <2>6, <2>7, TileMoved
  <2>9. QED BY <2>2, <2>8
<1>7. Tiled(q, a) BY <1>1, <1>3, <1>4, <1>5, <1>6, LastTile
<1>8. QED BY <1>7 DEF q

(* The page a continuation leads to.                                       *)
LEMMA TiledNext ==
    ASSUME NEW s, IsList(s), NEW b, NEW r0, IsCut(b, r0), Tiled(s, b),
           b.sent.body.next # NoNext,
           NEW a, NEW r, IsCut(a, r), a.call.input.cursor = NextCursor(b, r0),
           \A list : Values(list, a.call) = Values(list, b.call)
    PROVE  Tiled(s \o <<PageKept(a)>>, a)
<1> DEFINE n == Len(s)
           q == s \o <<PageKept(a)>>
           c == NextCursor(b, r0)
<1>1. n \in Nat \ {0}
  <2>1. s \in Seq(ToSet(s)) BY DEF IsList
  <2>2. QED BY <2>1 DEF Tiled
<1>2. Len(q) = n + 1 /\ q[n + 1] = PageKept(a) /\ \A j \in 1..n : q[j] = s[j]
  BY OneMorePage
<1> HIDE DEF q
<1>3. /\ c # NoCursor /\ c.state.offset = OffsetOf(b.call.input) + Len(b.sent.body.items)
      /\ c.state.representation = b.call.input.representation
      /\ c.state.language = b.call.input.language
  BY CutNext, CursorParts DEF NextCursor
<1> HIDE DEF c
<1>4. a.call.input.cursor = c BY DEF c
<1>5. a.call.input.representation = b.call.input.representation
      /\ a.sent.language = b.sent.language
  <2>1. b.sent.language = RepresentationLanguage(NoTag, b.call.input.language,
                                                 service.document.language)
    BY DEF IsCut
  <2>2. QED BY <1>3, <1>4, <2>1, TakenForContext
<1>6. Before(q, n + 1) = OffsetOf(a.call.input)
  <2>1. \A j \in 1..n : IsList(q[j].page.items) BY <1>2 DEF Tiled, Tile
  <2>2. Before(q, n + 1) = Before(q, n) + Len(q[n].page.items) BY <1>1, <2>1, BeforeNext
  <2>3. Before(q, n) = Before(s, n) BY <1>1, <1>2, BeforeSame
  <2>4. q[n].page = b.sent.body /\ Before(s, n) = OffsetOf(b.call.input)
    BY <1>1, <1>2 DEF Tiled
  <2>5. OffsetOf(a.call.input) = c.state.offset BY <1>3, <1>4 DEF OffsetOf
  <2>6. QED BY <1>3, <2>2, <2>3, <2>4, <2>5
<1>7. ASSUME NEW i \in 1..n PROVE Tile(q, i, a.call, a.sent.language)
  <2>1. i \in Nat /\ i \in 1..Len(s) OBVIOUS
  <2>2. Tile(s, i, b.call, b.sent.language) BY <2>1 DEF Tiled
  <2>3. s[i].page.next # NoNext
    <3>1. CASE i < n BY <2>2, <3>1 DEF Tile
    <3>2. CASE i = n BY <3>2 DEF Tiled
    <3>3. QED BY <1>1, <3>1, <3>2
  <2>4. \A j \in 1..(i - 1) : s[j] = q[j] BY <1>1, <1>2
  <2>5. s[i] = q[i] BY <1>2
  <2>6. Tile(q, i, a.call, b.sent.language) BY <1>5, <2>1, <2>2, <2>3, <2>4, <2>5, TileMoved
  <2>7. QED BY <1>5, <2>6
<1>8. Len(q) - 1 = n /\ Len(q) \in Nat \ {0} BY <1>1, <1>2
<1>9. Tiled(q, a) BY <1>2, <1>3, <1>4, <1>6, <1>7, <1>8, LastTile
<1>10. QED BY <1>9 DEF q

LEMMA TilesFirst == ASSUME Init, AgentInv PROVE TilesInv
BY NothingYet DEF Init, TilesInv

LEMMA TilesKept ==
    ASSUME AgentInv, StaticInv, TilesInv, [Next]_vars PROVE TilesInv'
<1>1. ASSUME UNCHANGED <<held, collected, world>> PROVE TilesInv'
  <2>1. \A list, call : Values(list, call)' = Values(list, call) BY <1>1 DEF Values, world
  <2>2. \A i : Tile(collected, i, held.answer.call, held.answer.sent.language)'
                   <=> Tile(collected, i, held.answer.call, held.answer.sent.language)
    BY <1>1, <2>1 DEF Tile, Before, Viewed, IsList
  <2>3. Tiled(collected, held.answer)' <=> Tiled(collected, held.answer)
    BY <1>1, <2>2 DEF Tiled, Before
  <2>4. IsPage(held.answer)' <=> IsPage(held.answer) BY <1>1 DEF IsPage
  <2>5. QED BY <1>1, <2>3, <2>4 DEF TilesInv, IsStatic, world
<1>2. CASE TakeRepresentation
  <2>1. /\ phase = "answered" /\ response.sent.status = 200 /\ UNCHANGED world
        /\ held' = [kind |-> "held", request |-> request, answer |-> response]
        /\ collected' = (IF request.purpose = "confirm" /\ IsPage(response)
                         THEN Front(collected) ELSE collected) \o PageOf(response)
    BY <1>2 DEF TakeRepresentation
  <2>2. SUFFICES ASSUME IsStatic PROVE TilesInv'
    BY <2>1 DEF TilesInv, IsStatic, world
  <2>3. held' # NoHeld /\ held'.answer = response
    <3>1. held'.kind = "held" /\ held'.answer = response BY <2>1
    <3>2. QED BY <3>1, NothingYet
  <2>4. IsList(collected) BY DEF AgentInv, CollectedInv
  <2>5. CASE ~IsPage(response)
    <3>1. held # NoHeld => ~IsPage(held.answer) BY <2>1, <2>2, <2>5, PagesGoOn
    <3>2. collected = <<>> BY <2>2, <3>1 DEF TilesInv
    <3>3. collected' = <<>> BY <2>1, <2>5, <3>2 DEF PageOf
    <3>4. QED BY <2>3, <2>5, <3>3 DEF TilesInv, IsPage
  <2>6. CASE IsPage(response)
    <3>1. PageOf(response) = <<PageKept(response)>> BY <2>6 DEF PageOf, PageKept
    <3>2. IsCut(response, request)
      <4>1. /\ CursorSound(request) /\ StaticMade(response, request)
            /\ Publishable(setting.catalog.collections)
            /\ AnswersTo(service, response, request) /\ RequestParts \subseteq DOMAIN request
        BY <2>1, <2>2 DEF AgentInv, StaticInv, StaticAskedInv, StaticAnsweredInv, PublishedInv,
                          AnsweredInv, AskedInv
      <4>2. QED BY <2>1, <2>2, <2>6, <4>1, CutsTaken DEF AgentInv
    <3>3. request.purpose \in {"ask", "confirm", "follow"} BY <2>1 DEF AgentInv, AskedInv
    <3>4. Tiled(collected', response)
      <4>1. CASE held = NoHeld
        <5>1. collected = <<>> BY <2>2, <4>1 DEF TilesInv
        <5>2. request.purpose = "ask" BY <2>1, <3>3, <4>1, NothingYet DEF AgentInv, AskedInv
        <5>3. collected' = <<PageKept(response)>> BY <2>1, <3>1, <5>1, <5>2
        <5>4. CursorOf(request) = NoCursor BY <2>1, <2>2, <5>2 DEF StaticInv, StaticAskedInv
        <5>5. response.call = Reading(service, request) /\ response.call.kind = "call"
          BY <2>1, <2>6 DEF AgentInv, AnsweredInv, AnswersTo, IsPage
        <5>6. response.call.input = CatalogRequest(service, request, response.call.operation)
          BY <2>2, <5>5, StaticReads DEF AgentInv
        <5>7. response.call.input.cursor = NoCursor BY <5>4, <5>6, InputOf DEF CursorOf
        <5>8. QED BY <3>2, <5>3, <5>7, TiledFirst
      <4>2. CASE held # NoHeld
        <5>1. /\ IsPage(held.answer) /\ request.purpose # "ask"
              /\ \A list : Values(list, response.call) = Values(list, held.answer.call)
              /\ request.purpose = "confirm" =>
                     response.call.input.cursor = held.answer.call.input.cursor
              /\ request.purpose = "follow" =>
                     response.call.input.cursor = NextCursor(held.answer, held.request)
          <6>1. request.purpose # "ask" BY <2>1, <4>2 DEF AgentInv, AskedInv
          <6>2. QED BY <2>1, <2>2, <2>6, <4>2, <6>1, PagesGoOn
        <5>2. IsCut(held.answer, held.request) /\ Tiled(collected, held.answer)
          BY <2>2, <4>2, <5>1 DEF StaticInv, StaticHeldInv, TilesInv
        <5>3. CASE request.purpose = "confirm"
          <6>1. collected' = Front(collected) \o <<PageKept(response)>>
            BY <2>1, <2>6, <3>1, <5>3
          <6>2. response.call.input.cursor = held.answer.call.input.cursor BY <5>1, <5>3
          <6>3. Tiled(Front(collected) \o <<PageKept(response)>>, response)
            BY <2>4, <3>2, <5>1, <5>2, <6>2, TiledAgain
          <6>4. QED BY <6>1, <6>3
        <5>4. CASE request.purpose = "follow"
          <6>1. collected' = collected \o <<PageKept(response)>> BY <2>1, <3>1, <5>4
          <6>2. held.answer.sent.body.next # NoNext
            BY <2>1, <2>2, <5>4 DEF StaticInv, StaticAskedInv
          <6>3. response.call.input.cursor = NextCursor(held.answer, held.request)
            BY <5>1, <5>4
          <6>4. Tiled(collected \o <<PageKept(response)>>, response)
            BY <2>4, <3>2, <5>1, <5>2, <6>2, <6>3, TiledNext
          <6>5. QED BY <6>1, <6>4
        <5>5. QED BY <3>3, <5>1, <5>3, <5>4
      <4>3. QED BY <4>1, <4>2
    <3>5. setting' = setting BY <2>1 DEF world
    <3>6. Tiled(collected, held.answer)'
      BY <2>3, <3>4, <3>5 DEF Tiled, Tile, Values, Before, Viewed, IsList
    <3>7. QED BY <2>3, <2>6, <3>6 DEF TilesInv, IsPage
  <2>7. QED BY <2>5, <2>6
<1>3. CASE TakeConfirmation
  <2>1. CASE held = NoHeld BY <1>1, <1>3, <2>1 DEF TakeConfirmation
  <2>2. CASE held # NoHeld
    <3>1. UNCHANGED <<collected, world>> BY <1>3 DEF TakeConfirmation
    <3>2. /\ held'.answer.sent = held.answer.sent /\ held'.answer.call = held.answer.call
          /\ held'.answer.list = held.answer.list /\ held'.kind = "held"
      <4>1. HeldInv BY DEF AgentInv
      <4>2. QED BY <1>3, <2>2, <4>1, ConfirmedAnswer
    <3>3. held' # NoHeld BY <3>2, NothingYet
    <3>4. IsPage(held'.answer) <=> IsPage(held.answer) BY <3>2 DEF IsPage
    <3>5. Tiled(collected, held.answer) => Tiled(collected, held.answer)'
      <4>1. \A list, call : Values(list, call)' = Values(list, call) BY <3>1 DEF Values, world
      <4>2. \A i : Tile(collected, i, held.answer.call, held.answer.sent.language)
                       => Tile(collected, i, held.answer.call, held.answer.sent.language)'
        BY <3>1, <3>2, <4>1 DEF Tile, Before, Viewed, IsList
      <4>3. QED BY <3>1, <3>2, <4>2 DEF Tiled, Before
    <3>6. QED BY <2>2, <3>1, <3>3, <3>4, <3>5 DEF TilesInv, IsStatic, world, IsPage
  <2>3. QED BY <2>1, <2>2
<1>4. CASE Ask \/ Confirm \/ FollowNext BY <1>1, <1>4 DEF Ask, Confirm, FollowNext, agent
<1>5. CASE Refuse \/ Describe \/ StaticServes \/ ApplicationServes
  BY <1>1, <1>5 DEF Refuse, Describe, StaticServes, ApplicationServes, agent
<1>6. CASE TakeFailure \/ Tick \/ Restart BY <1>1, <1>6 DEF TakeFailure, Tick, Restart, agent
<1>7. CASE UNCHANGED vars BY <1>1, <1>7 DEF vars, world
<1>8. QED BY <1>2, <1>3, <1>4, <1>5, <1>6, <1>7 DEF Next

(* Whatever the Agent confirms, alters or asks in other languages on the   *)
(* way, and whoever restarts over which list, the pages it collects of a   *)
(* static list tile it (PagesTileTheList).                                 *)
THEOREM PagesTile == Spec => []PagesTileTheList
<1>1. Init => AgentInv /\ StaticInv /\ TilesInv BY Starts, StaticFirst, TilesFirst
<1>2. AgentInv /\ StaticInv /\ TilesInv /\ [Next]_vars => TilesInv' BY TilesKept
<1>3. AgentInv /\ TilesInv => PagesTileTheList
  <2>1. SUFFICES ASSUME AgentInv, TilesInv, IsStatic, collected # <<>> PROVE PagesTileTheList
    BY DEF PagesTileTheList
  <2>2. Tiled(collected, held.answer) BY <2>1 DEF TilesInv
  <2>3. collected \in Seq(ToSet(collected)) BY <2>1 DEF AgentInv, CollectedInv, IsList
  <2>4. DOMAIN collected = 1..Len(collected) BY <2>3
  <2>5. \A i \in DOMAIN collected :
            Tile(collected, i, held.answer.call, held.answer.sent.language)
    BY <2>2, <2>4 DEF Tiled
  <2>6. \A i : Before(collected, i) = CountBefore(i) BY DEF Before, CountBefore
  <2>7. QED BY <2>5, <2>6 DEF PagesTileTheList, Tile, Viewed
<1>4. QED BY <1>1, <1>2, <1>3, StaticInvariant, PTL DEF Spec

-----------------------------------------------------------------------------
(* What is served is accepted.  The path of an operation leads to it; one  *)
(* identifier is taken for a search, which a get cannot be.                *)
LEMMA UnderTheBase ==
    ASSUME NEW S, NEW t \in Seq(S)
    PROVE  /\ UnderBase(t) # <<>> /\ Head(UnderBase(t)) = "base" /\ Tail(UnderBase(t)) = t
           /\ UnderBase(t) # WellKnown
<1> DEFINE T == S \cup {"base"}
           s == <<"base">> \o t
<1>1. t \in Seq(T) /\ <<"base">> \in Seq(T) OBVIOUS
<1> HIDE DEF T
<1>2. /\ s \in Seq(T) /\ Len(s) = Len(t) + 1 /\ s[1] = "base" /\ Len(t) \in Nat
      /\ \A i \in 1..Len(t) : s[i + 1] = t[i]
  BY <1>1
<1>3. s = UnderBase(t) BY DEF UnderBase
<1> HIDE DEF s
<1>4. s # <<>> /\ Head(s) = "base" BY <1>2
<1>5. /\ Tail(s) \in Seq(T) /\ Len(Tail(s)) = Len(t)
      /\ \A i \in 1..Len(t) : Tail(s)[i] = t[i]
  BY <1>2, <1>4, HeadTailProperties
<1>6. Tail(s) = t BY <1>1, <1>5
<1>7. s # WellKnown BY <1>4 DEF WellKnown
<1>8. QED BY <1>3, <1>4, <1>6, <1>7

Fixed == {OperationPath(o, NoId) : o \in Operations \ {p \in Operations : TakesId(p)}}
PlainOperations ==
    {"list-collections", "search-collections", "list-offerings", "search-offerings"}

LEMMA FixedPaths ==
    /\ PlainOperations = Operations \ {p \in Operations : TakesId(p)}
    /\ Fixed = {<<"collections">>, <<"collections", "search">>, <<"offerings">>,
                <<"offerings", "search">>}
    /\ \A o \in PlainOperations : \A p \in PlainOperations :
          OperationPath(o, NoId) = OperationPath(p, NoId) => o = p
<1>1. PlainOperations = Operations \ {p \in Operations : TakesId(p)}
  BY DEF PlainOperations, Operations, TakesId, GetOperations, SearchOperations, ListOperations
<1>2. /\ OperationPath("list-collections", NoId) = <<"collections">>
      /\ OperationPath("search-collections", NoId) = <<"collections", "search">>
      /\ OperationPath("list-offerings", NoId) = <<"offerings">>
      /\ OperationPath("search-offerings", NoId) = <<"offerings", "search">>
  BY DEF OperationPath
<1>3. Fixed = {<<"collections">>, <<"collections", "search">>, <<"offerings">>,
               <<"offerings", "search">>}
  BY <1>1, <1>2 DEF Fixed, PlainOperations
<1>4. /\ <<"collections">> # <<"offerings">> /\ <<"collections">> # <<"collections", "search">>
      /\ <<"collections">> # <<"offerings", "search">>
      /\ <<"offerings">> # <<"collections", "search">>
      /\ <<"offerings">> # <<"offerings", "search">>
      /\ <<"collections", "search">> # <<"offerings", "search">>
  OBVIOUS
<1>5. \A o \in PlainOperations : \A p \in PlainOperations :
          OperationPath(o, NoId) = OperationPath(p, NoId) => o = p
  BY <1>2, <1>4 DEF PlainOperations
<1>6. QED BY <1>1, <1>3, <1>5

LEMMA RouteUnder ==
    ASSUME NEW S, NEW under \in Seq(S)
    PROVE  Route(UnderBase(under))
               = IF under \in Fixed
                 THEN Call(CHOOSE o \in Operations :
                               ~TakesId(o) /\ OperationPath(o, NoId) = under, NoId)
                 ELSE CASE Len(under) = 2 /\ under[1] = "offerings" ->
                               Identified("get-offering", under[2])
                        [] Len(under) = 3 /\ under[1] = "collections" /\ under[3] = "offerings" ->
                               Identified("list-collection-offerings", under[2])
                        [] Len(under) = 2 /\ under[1] = "collections" ->
                               Identified("get-collection", under[2])
                        [] OTHER -> NotFound
<1>1. /\ UnderBase(under) # <<>> /\ Head(UnderBase(under)) = "base"
      /\ Tail(UnderBase(under)) = under
  BY UnderTheBase
<1> DEFINE path == UnderBase(under)
           routed(t) == IF t \in Fixed
                        THEN Call(CHOOSE o \in Operations :
                                      ~TakesId(o) /\ OperationPath(o, NoId) = t, NoId)
                        ELSE CASE Len(t) = 2 /\ t[1] = "offerings" ->
                                      Identified("get-offering", t[2])
                               [] Len(t) = 3 /\ t[1] = "collections" /\ t[3] = "offerings" ->
                                      Identified("list-collection-offerings", t[2])
                               [] Len(t) = 2 /\ t[1] = "collections" ->
                                      Identified("get-collection", t[2])
                               [] OTHER -> NotFound
<1>2. \A p : Route(p) = IF p = <<>> \/ Head(p) # "base" THEN NotFound ELSE routed(Tail(p))
  BY DEF Route, Fixed
<1> HIDE DEF routed, path
<1>3. Route(path) = routed(Tail(path)) BY <1>1, <1>2 DEF path
<1>4. Route(path) = routed(under) BY <1>1, <1>3 DEF path
<1>5. QED BY <1>4, Zenon DEF path, routed

LEMMA RoutePlain ==
    ASSUME NEW operation \in PlainOperations
    PROVE  Route(UnderBase(OperationPath(operation, NoId))) = Call(operation, NoId)
<1> DEFINE under == OperationPath(operation, NoId)
           plain == CHOOSE o \in Operations : ~TakesId(o) /\ OperationPath(o, NoId) = under
<1>1. under \in Fixed /\ operation \in Operations /\ ~TakesId(operation)
  BY FixedPaths DEF Fixed
<1>2. under \in Seq({"collections", "offerings", "search"}) BY <1>1, FixedPaths
<1>3. plain \in Operations /\ ~TakesId(plain) /\ OperationPath(plain, NoId) = under
  BY <1>1
<1>4. plain = operation
  <2> HIDE DEF plain
  <2>1. plain \in PlainOperations BY <1>3, FixedPaths
  <2>2. QED BY <1>3, <2>1, FixedPaths
<1>5. Route(UnderBase(under)) = Call(plain, NoId)
  BY <1>1, <1>2, RouteUnder
<1>6. QED BY <1>4, <1>5

LEMMA RouteIdentified ==
    ASSUME NEW operation \in Operations, TakesId(operation), NEW id,
           IsLocalResourceIdentifier(id)
    PROVE  \/ Route(UnderBase(OperationPath(operation, id))) = Call(operation, id)
           \/ /\ operation \in GetOperations
              /\ \E search \in SearchOperations :
                    Route(UnderBase(OperationPath(operation, id))) = Call(search, NoId)
<1> DEFINE under == OperationPath(operation, id)
           S == {"collections", "offerings", id}
<1>1. operation \in {"get-offering", "get-collection", "list-collection-offerings"}
  BY DEF TakesId, GetOperations
<1>2. \A o : Identified(o, id) = Call(o, id) BY DEF Identified, IsLocalResourceIdentifier
<1>3. CASE id = "search" /\ operation \in GetOperations
  <2>1. \/ operation = "get-offering" /\ under = OperationPath("search-offerings", NoId)
        \/ operation = "get-collection" /\ under = OperationPath("search-collections", NoId)
    BY <1>3 DEF GetOperations, OperationPath
  <2>2. {"search-offerings", "search-collections"} \subseteq PlainOperations \cap SearchOperations
    BY DEF PlainOperations, SearchOperations
  <2> HIDE DEF under
  <2>3. \E search \in SearchOperations : Route(UnderBase(under)) = Call(search, NoId)
    BY <2>1, <2>2, RoutePlain
  <2>4. QED BY <1>3, <2>3 DEF under
<1>4. CASE operation = "get-offering" /\ id # "search"
  <2>1. under = <<"offerings", id>> BY <1>4 DEF OperationPath
  <2>2. under \in Seq(S) /\ Len(under) = 2 /\ under[1] = "offerings" /\ under[2] = id BY <2>1
  <2>3. under \notin Fixed BY <1>4, <2>1, FixedPaths
  <2> HIDE DEF under, S
  <2>4. Route(UnderBase(under)) = Identified("get-offering", id) BY <2>2, <2>3, RouteUnder
  <2>5. QED BY <1>2, <1>4, <2>4 DEF under
<1>5. CASE operation = "get-collection" /\ id # "search"
  <2>1. under = <<"collections", id>> BY <1>5 DEF OperationPath
  <2>2. under \in Seq(S) /\ Len(under) = 2 /\ under[1] = "collections" /\ under[2] = id
    BY <2>1
  <2>3. under \notin Fixed BY <1>5, <2>1, FixedPaths
  <2> HIDE DEF under, S
  <2>4. Route(UnderBase(under)) = Identified("get-collection", id) BY <2>2, <2>3, RouteUnder
  <2>5. QED BY <1>2, <1>5, <2>4 DEF under
<1>6. CASE operation = "list-collection-offerings"
  <2>1. under = <<"collections", id, "offerings">> BY <1>6 DEF OperationPath
  <2>2. /\ under \in Seq(S) /\ Len(under) = 3 /\ under[1] = "collections" /\ under[2] = id
        /\ under[3] = "offerings"
    BY <2>1
  <2>3. under \notin Fixed
    <3>1. \A p \in Fixed : Len(p) \in {1, 2} BY FixedPaths
    <3>2. QED BY <2>2, <3>1
  <2> HIDE DEF under, S
  <2>4. Route(UnderBase(under)) = Identified("list-collection-offerings", id)
    BY <2>2, <2>3, RouteUnder
  <2>5. QED BY <1>2, <1>6, <2>4 DEF under
<1>7. QED BY <1>1, <1>3, <1>4, <1>5, <1>6 DEF GetOperations

(* What a search is asked for.                                             *)
LEMMA SearchingAsks ==
    ASSUME NEW s, NEW r, NEW call, Searching(s, r, call).kind = "call"
    PROVE  \/ /\ Method(r) = "GET" /\ Searching(s, r, call).requested = {}
              /\ ValueOf(r.location.query.cursor, NoCursor) # NoCursor
           \/ Method(r) # "GET" /\ Searching(s, r, call).requested = r.body.refinements
<1> DEFINE input == CatalogRequest(s, r, call.operation)
           limited == IF r.body.limit = 0 THEN input ELSE [input EXCEPT !.limit = r.body.limit]
<1>1. Invalid.kind = "problem" /\ \A p \in Refusals : p.kind = "problem"
  BY DEF Refusals, Problem, ProblemWith, MethodNotAllowed, NotFound, Invalid
<1>2. BodyProblem(r) # NoBody => BodyProblem(r).kind = "problem" BY <1>1, BodyProblems
<1>3. input.cursor = ValueOf(r.location.query.cursor, NoCursor) BY InputOf
<1>4. \/ Searching(s, r, call) = Invalid
      \/ BodyProblem(r) # NoBody /\ Searching(s, r, call) = BodyProblem(r)
      \/ /\ Method(r) = "GET" /\ input.cursor # NoCursor
         /\ Searching(s, r, call) = CatalogCall(call, input, NoBody, {})
      \/ /\ Method(r) # "GET"
         /\ Searching(s, r, call) = CatalogCall(call, limited, r.body, r.body.refinements)
  BY DEF Searching
<1> HIDE DEF input, limited
<1>5. QED BY <1>1, <1>2, <1>3, <1>4 DEF CatalogCall

(* An Agent's request for an operation is read as a call of it.            *)
LEMMA ReadAsAsked ==
    ASSUME NEW s, NEW r, AgentAsks(r), Reading(s, r).kind # "problem"
    PROVE  LET call == Reading(s, r) IN
           /\ call.kind = "call"
           /\ call.operation = r.asked.operation /\ call.id = r.asked.id
           /\ Method(r) \in {"GET", "POST"}
           /\ call.requested \subseteq Permitted(r)
<1> DEFINE call == Reading(s, r)
           operation == r.asked.operation
           id == r.asked.id
           route == Route(r.location.path)
<1>1. /\ operation \in Operations /\ Buildable(operation, id)
      /\ r.location.path = UnderBase(OperationPath(operation, id))
      /\ operation \in GetOperations => r.location.query.cursor = <<>> /\ Method(r) = "GET"
  BY DEF AgentAsks
<1>2. r.location.path # WellKnown
  <2> HIDE DEF operation, id
  <2>1. OperationPath(operation, id) \in Seq({"collections", "offerings", "search", id})
    <3> DEFINE S == {"collections", "offerings", "search", id}
    <3>1. /\ <<"collections">> \in Seq(S) /\ <<"collections", "search">> \in Seq(S)
          /\ <<"collections", id>> \in Seq(S) /\ <<"collections", id, "offerings">> \in Seq(S)
          /\ <<"offerings">> \in Seq(S) /\ <<"offerings", "search">> \in Seq(S)
          /\ <<"offerings", id>> \in Seq(S)
      OBVIOUS
    <3>2. OperationPath(operation, id) \in
              {<<"collections">>, <<"collections", "search">>, <<"collections", id>>,
               <<"collections", id, "offerings">>, <<"offerings">>, <<"offerings", "search">>,
               <<"offerings", id>>}
      BY <1>1 DEF OperationPath, Operations, GetOperations, SearchOperations, ListOperations
    <3> HIDE DEF S
    <3>3. QED BY <3>1, <3>2 DEF S
  <2>2. QED BY <1>1, <2>1, UnderTheBase
<1>3. call.kind = "call" /\ Reads(s, r)
  <2>1. call.kind \in {"problem", "document", "call"} BY ReadingKinds
  <2>2. call.kind = "call" BY <1>2, <2>1, ReadingKinds
  <2>3. QED BY <2>2, ReadingKinds
<1>4. /\ call.operation = route.operation /\ call.id = route.id
      /\ Takes(route.operation, Method(r))
      /\ route.operation \notin SearchOperations => call.requested = {}
      /\ route.operation \in SearchOperations => call = Searching(s, r, route)
  BY <1>3 DEF Reads, CatalogCall
<1>5. ASSUME route.operation \in SearchOperations
      PROVE  /\ call.requested \subseteq Permitted(r)
             /\ Method(r) = "GET" => ValueOf(r.location.query.cursor, NoCursor) # NoCursor
  <2>1. \/ /\ Method(r) = "GET" /\ call.requested = {}
           /\ ValueOf(r.location.query.cursor, NoCursor) # NoCursor
        \/ Method(r) # "GET" /\ call.requested = r.body.refinements
    <3> HIDE DEF call, route
    <3>1. QED BY <1>3, <1>4, <1>5, SearchingAsks
  <2>2. Method(r) # "GET" => r.method = "POST" BY <1>4 DEF Takes, Method
  <2>3. QED BY <2>1, <2>2 DEF Permitted
<1>6. route = Call(operation, id)
  <2>1. CASE ~TakesId(operation)
    <3>1. operation \in PlainOperations /\ id = NoId BY <1>1, <2>1, FixedPaths DEF Buildable
    <3>2. QED BY <1>1, <3>1, RoutePlain
  <2>2. CASE TakesId(operation)
    <3>1. IsLocalResourceIdentifier(id) BY <1>1, <2>2 DEF Buildable
    <3>2. ASSUME operation \in GetOperations, NEW search \in SearchOperations,
                 route = Call(search, NoId)
          PROVE  FALSE
      <4>1. route.operation \in SearchOperations BY <3>2 DEF Call
      <4>2. Method(r) = "GET" /\ r.location.query.cursor = <<>> BY <1>1, <3>2
      <4>3. ValueOf(r.location.query.cursor, NoCursor) = NoCursor BY <4>2 DEF ValueOf
      <4>4. QED BY <1>5, <4>1, <4>2, <4>3
    <3>3. QED BY <1>1, <2>2, <3>1, <3>2, RouteIdentified
  <2>3. QED BY <2>1, <2>2
<1>7. call.operation = operation /\ call.id = id BY <1>4, <1>6 DEF Call
<1>8. Method(r) \in {"GET", "POST"} BY <1>4 DEF Takes
<1>9. call.requested \subseteq Permitted(r) BY <1>4, <1>5
<1>10. QED BY <1>3, <1>7, <1>8, <1>9

(* A valid answer within the limits is one the Agent takes.                *)
SoundBody(call, body) ==
    /\ {body.bytes, body.depth} \subseteq Nat
    /\ ~IsGet(call) /\ body.next # NoNext => ReferenceParts \subseteq DOMAIN body.next

LEMMA ResolvedParts ==
    ASSUME NEW next, ReferenceParts \subseteq DOMAIN next, NEW base
    PROVE  LET resolved == Resolve(next, base) IN
           /\ resolved.scheme = (IF next.scheme = "" THEN base.scheme ELSE next.scheme)
           /\ resolved.host = (IF next.host = "" THEN base.host ELSE next.host)
           /\ resolved.user = next.user /\ resolved.fragment = next.fragment
           /\ resolved.location = next.location
<1> DEFINE scheme == IF next.scheme = "" THEN base.scheme ELSE next.scheme
           host == IF next.host = "" THEN base.host ELSE next.host
           one == [next EXCEPT !.scheme = scheme]
           two == [one EXCEPT !.host = host]
<1>1. Resolve(next, base) = two BY DEF Resolve
<1>2. /\ DOMAIN one = DOMAIN next /\ one.scheme = scheme /\ one.host = next.host
      /\ one.user = next.user /\ one.fragment = next.fragment /\ one.location = next.location
  BY DEF ReferenceParts
<1> HIDE DEF one, scheme, host
<1>3. /\ two.scheme = scheme /\ two.host = host
      /\ two.user = next.user /\ two.fragment = next.fragment /\ two.location = next.location
  BY <1>2 DEF ReferenceParts
<1>4. QED BY <1>1, <1>3 DEF scheme, host

LEMMA NextTaken ==
    ASSUME NEW r, AgentAsks(r), NEW next, next # NoNext, ReferenceParts \subseteq DOMAIN next,
           ContinuationAllowed(next, r), Spelled(next), ~next.user, ~next.fragment
    PROVE  /\ next.location # r.location
           /\ \/ ResolvesContinuation(next, [scheme |-> r.published, host |-> r.host])
              \/ StatesOtherScheme(next, r)
<1> DEFINE origin == [scheme |-> r.published, host |-> r.host]
           seen == Resolve(next, CurrentURL(r))
           meant == Resolve(next, origin)
<1>1. seen.host = r.host /\ seen.location # r.location BY DEF ContinuationAllowed
<1>2. /\ CurrentURL(r).scheme = r.wire /\ CurrentURL(r).host = r.host
      /\ origin.scheme = r.published /\ origin.host = r.host
  BY DEF CurrentURL
<1>3. Secure(origin) BY DEF AgentAsks
<1> HIDE DEF origin
<1>4. /\ seen.host = (IF next.host = "" THEN r.host ELSE next.host)
      /\ seen.location = next.location
  BY <1>2, ResolvedParts
<1>5. /\ meant.host = (IF next.host = "" THEN r.host ELSE next.host)
      /\ meant.scheme = (IF next.scheme = "" THEN r.published ELSE next.scheme)
      /\ meant.user = next.user /\ meant.fragment = next.fragment
  BY <1>2, ResolvedParts
<1> HIDE DEF seen, meant
<1>6. CASE next.scheme \in {"", r.published}
  <2>1. meant.scheme = origin.scheme /\ meant.host = origin.host
    BY <1>1, <1>2, <1>4, <1>5, <1>6
  <2>2. Secure(meant) BY <1>3, <2>1 DEF Secure
  <2>3. ~meant.user /\ ~meant.fragment BY <1>5
  <2>4. OriginOf(meant) = OriginOf(origin) BY <2>1 DEF OriginOf
  <2>5. ResolvesContinuation(next, origin)
    BY <2>2, <2>3, <2>4 DEF ResolvesContinuation, ResolvesResource, meant
  <2>6. QED BY <1>1, <1>4, <2>5 DEF origin
<1>7. CASE next.scheme \notin {"", r.published}
  BY <1>1, <1>4, <1>7 DEF StatesOtherScheme
<1>8. QED BY <1>6, <1>7

LEMMA ValidIsTaken ==
    ASSUME NEW s, NEW r, AgentAsks(r), NEW a, a.call = Reading(s, r), a.call.kind = "call",
           IsOf(s, a.sent, a.call, r), SoundBody(a.call, a.sent.body)
    PROVE  AgentTakes(r, a)
<1> DEFINE body == a.sent.body
           representation == a.call.input.representation
<1>1. a.call.id = r.asked.id /\ a.call.requested \subseteq Permitted(r) BY ReadAsAsked
<1>2. body.bytes <= Limits.resource.bytes /\ body.depth <= Limits.resource.depth
  <2>1. /\ body.bytes \in Nat /\ body.depth \in Nat
        /\ ~(body.bytes > Limits.resource.bytes) /\ ~(body.depth > Limits.resource.depth)
    BY DEF SoundBody, IsOf
  <2>2. Limits.resource.bytes \in Nat /\ Limits.resource.depth \in Nat
    BY ConstantsAssumption
  <2>3. QED BY <2>1, <2>2
<1>3. ASSUME NEW item, ValidItem(item, representation)
      PROVE  AgentTakesItem(item, representation)
  BY <1>3 DEF ValidItem, AgentTakesItem
<1>4. CASE IsGet(a.call)
  <2>1. ValidItem(body.item, representation) /\ body.item.id = a.call.id
    BY <1>4 DEF IsOf, ValidResource
  <2>2. ~IsPage(a) BY <1>4 DEF IsPage, IsGet
  <2>3. QED BY <1>1, <1>2, <1>3, <2>1, <2>2 DEF AgentTakes
<1>5. CASE ~IsGet(a.call)
  <2>1. /\ ValidItems(body.items, representation) /\ ContinuationAllowed(body.next, r)
        /\ a.call.operation = "search-offerings" =>
               RefinementsAllowed(body.refinements, a.call.input, a.call.requested)
        /\ PageParses(body)
        /\ a.call.operation = "search-offerings" \/ body.refinements = <<>>
    BY <1>5 DEF IsOf, ValidPage
  <2>2. IsPage(a) BY <1>5 DEF IsPage, IsGet
  <2>3. ToSet(<<>>) = {} /\ IsInjective(<<>>) BY NoneListed DEF IsInjective
  <2>4. ToSet(body.refinements) \subseteq Permitted(r) /\ IsInjective(body.refinements)
    BY <1>1, <2>1, <2>3 DEF RefinementsAllowed
  <2>5. Len(body.items) <= MaximumPageItems
        /\ \A item \in ToSet(body.items) : AgentTakesItem(item, representation)
    BY <1>3, <2>1 DEF ValidItems
  <2>6. ASSUME body.next # NoNext
        PROVE  /\ body.next.location # r.location
               /\ \/ ResolvesContinuation(body.next, [scheme |-> r.published, host |-> r.host])
                  \/ StatesOtherScheme(body.next, r)
    <3>1. Spelled(body.next) /\ ~body.next.user /\ ~body.next.fragment
      BY <2>1, <2>6 DEF PageParses
    <3>2. ReferenceParts \subseteq DOMAIN body.next BY <1>5, <2>6 DEF SoundBody
    <3> HIDE DEF body
    <3>3. QED BY <2>1, <2>6, <3>1, <3>2, NextTaken
  <2>7. AgentTakesPage(r, body, representation)
    <3> HIDE DEF body, representation
    <3>1. QED BY <2>4, <2>5, <2>6 DEF AgentTakesPage
  <2>8. QED BY <1>2, <2>2, <2>7 DEF AgentTakes
<1>6. QED BY <1>4, <1>5

(* What the catalog returned is what is served.                            *)
LEMMA BodyReturned ==
    ASSUME NEW s, NEW r, RequestParts \subseteq DOMAIN r, NEW call,
           NEW answer, answer.kind \in AnswerKinds, MayReturn(call.operation, answer),
           NEW made, made = Answering(s, Freely(r), call, answer), made.kind = "response"
    PROVE  \/ answer.kind = "page" /\ ~IsGet(call) /\ made.body = answer.page
           \/ answer.kind = "resource" /\ IsGet(call) /\ made.body = answer.resource
<1>1. made # Unexpected /\ made # NotFound
  BY DEF Unexpected, NotFound, Problem, ProblemWith
<1>2. ASSUME NEW body, NEW declared, made = Serves(s, Freely(r), call, body, declared)
      PROVE  made.body = body
  <2> DEFINE language == RepresentationLanguage(declared, call.input.language, s.document.language)
  <2>1. made = Representation(body, language, s.authentication[call.operation])
    BY <1>1, <1>2, RespondConditioned DEF Serves
  <2>2. QED BY <2>1 DEF Representation
<1>3. CASE answer.kind \in {"problem", "unexpected"} BY <1>3, AnsweringCases
<1>4. CASE answer.kind = "absent" BY <1>1, <1>4, AnsweringCases
<1>5. CASE answer.kind = "page"
  <2>1. made = Serves(s, Freely(r), call, answer.page, NoTag) BY <1>1, <1>5, AnsweringCases
  <2>2. QED BY <1>2, <1>5, <2>1 DEF MayReturn, IsGet
<1>6. CASE answer.kind = "resource"
  <2>1. made = Serves(s, Freely(r), call, answer.resource, answer.resource.item.language)
    BY <1>1, <1>6, AnsweringCases
  <2>2. QED BY <1>2, <1>6, <2>1 DEF MayReturn, IsGet
<1>7. QED BY <1>3, <1>4, <1>5, <1>6 DEF AnswerKinds

LEMMA StaticBodies ==
    ASSUME NEW list, NEW collections, NEW call, NEW path, NEW t, NEW k,
           call.operation \in Static!Handlers(collections)
    PROVE  IsAnswer(Static!StaticAnswer(list, collections, call, path, t, k))
<1> DEFINE answer == Static!StaticAnswer(list, collections, call, path, t, k)
<1>1. ASSUME NEW values PROVE IsAnswer(Static!StaticPage(values, call.input, path, t, k))
  <2> DEFINE page == CutPage(values, call.input, path, t, k)
             made == Static!StaticPage(values, call.input, path, t, k)
  <2>1. page.bytes = 0 /\ page.depth = 0 BY DEF CutPage, Static!PageAt
  <2>2. page.next # NoNext => ReferenceParts \subseteq DOMAIN page.next
    BY SameNothing DEF CutPage, Static!PageAt, Static!NextReference, ReferenceParts
  <2> HIDE DEF page
  <2>3. made = Static!Gone \/ made = Static!ContextChanged \/ made = [kind |-> "page", page |-> page]
    BY StaticPageCases DEF page
  <2>4. Static!Gone.kind = "problem" /\ Static!ContextChanged.kind = "problem" BY StaticProblems
  <2> HIDE DEF made
  <2>5. IsAnswer(made) BY <2>1, <2>2, <2>3, <2>4 DEF IsAnswer
  <2>6. QED BY <2>5 DEF made
<1>2. ASSUME NEW values, NEW id, NEW representation
      PROVE  IsAnswer(Static!Resource(values, id, representation))
  BY DEF Static!Resource, IsAnswer
<1>3. IsAnswer(Static!Missing) BY StaticProblems DEF IsAnswer
<1>4. call.operation \in {"list-offerings", "list-collections", "list-collection-offerings",
                          "get-offering", "get-collection"}
  BY DEF Static!Handlers
<1>5. \/ answer = Static!Missing
      \/ \E values : answer = Static!StaticPage(values, call.input, path, t, k)
      \/ \E values : answer = Static!Resource(values, call.id, call.input.representation)
  BY <1>4 DEF Static!StaticAnswer
<1> HIDE DEF answer
<1>6. IsAnswer(answer) BY <1>1, <1>2, <1>3, <1>5
<1>7. QED BY <1>6 DEF answer

BodiesInv ==
    phase = "answered" /\ response.call.kind = "call" /\ response.made.kind = "response" =>
        SoundBody(response.call, response.made.body)

LEMMA BodiesKept == ASSUME AgentInv, BodiesInv, [Next]_vars PROVE BodiesInv'
<1> DEFINE read == Reading(service, request)
<1>1. ASSUME NEW answer, IsAnswer(answer), Handle(read, answer), phase = "asked",
             answer.kind \in AnswerKinds, MayReturn(read.operation, answer)
      PROVE  BodiesInv'
  <2>1. /\ response'.call = read
        /\ response'.made = Answering(service, Freely(request), read, answer)
    BY <1>1 DEF Handle, Answer, Unconditional, Freely
  <2>2. RequestParts \subseteq DOMAIN request BY <1>1 DEF AgentInv, AskedInv
  <2> HIDE DEF read
  <2>3. response'.made.kind = "response" =>
            \/ /\ answer.kind = "page" /\ ~IsGet(read)
               /\ response'.made.body = answer.page
            \/ /\ answer.kind = "resource" /\ IsGet(read)
               /\ response'.made.body = answer.resource
    BY <1>1, <2>1, <2>2, BodyReturned
  <2>4. QED BY <1>1, <2>1, <2>3 DEF BodiesInv, SoundBody, IsAnswer, IsGet
<1>2. CASE StaticServes
  <2> DEFINE answer == Static!StaticAnswer(offerings, setting.catalog.collections, read,
                           request.location.path, now, key)
  <2>1. IsStatic /\ read.kind = "call" /\ phase = "asked" /\ Handle(read, answer)
    BY <1>2 DEF StaticServes
  <2>2. read.operation \in Static!Handlers(setting.catalog.collections)
    BY <2>1, StaticOperations DEF AgentInv
  <2>3. answer.kind \in AnswerKinds /\ MayReturn(read.operation, answer)
    BY <2>2, StaticKinds
  <2>4. IsAnswer(answer) BY <2>2, StaticBodies
  <2> HIDE DEF answer, read
  <2>5. QED BY <1>1, <2>1, <2>3, <2>4
<1>3. CASE ApplicationServes
  <2>1. PICK answer \in Answers : MayReturn(read.operation, answer) /\ Handle(read, answer)
    BY <1>3 DEF ApplicationServes
  <2>2. phase = "asked" BY <1>3 DEF ApplicationServes
  <2>3. answer.kind \in AnswerKinds BY <2>1 DEF MayReturn, AnswerKinds
  <2>4. IsAnswer(answer) BY CasesAssumption
  <2> HIDE DEF read
  <2>5. QED BY <1>1, <2>1, <2>2, <2>3, <2>4
<1>4. CASE Refuse
  <2>1. response'.call = read /\ read.kind = "problem" BY <1>4 DEF Refuse, Answer
  <2>2. QED BY <2>1 DEF BodiesInv
<1>5. CASE Describe
  <2>1. response'.call = read /\ read.kind = "document" BY <1>5 DEF Describe, Answer
  <2>2. QED BY <2>1 DEF BodiesInv
<1>6. ASSUME phase' # "answered" \/ UNCHANGED <<phase, response>> PROVE BodiesInv'
  BY <1>6 DEF BodiesInv, SoundBody
<1>7. CASE Ask \/ Confirm \/ FollowNext BY <1>6, <1>7 DEF Ask, Confirm, FollowNext, Send
<1>8. CASE TakeRepresentation \/ TakeConfirmation \/ TakeFailure
  BY <1>6, <1>8 DEF TakeRepresentation, TakeConfirmation, TakeFailure
<1>9. CASE Tick BY <1>6, <1>9 DEF Tick
<1>10. CASE Restart BY <1>6, <1>10 DEF Restart
<1>11. CASE UNCHANGED vars BY <1>6, <1>11 DEF vars
<1>12. QED BY <1>2, <1>3, <1>4, <1>5, <1>7, <1>8, <1>9, <1>10, <1>11 DEF Next

(* Whatever the Agent asks, again or next, it asks for the same operation. *)
Asks(r) == r.asked.kind = "call" => AgentAsks(r)
AsksInv ==
    /\ phase \in {"asked", "answered"} => Asks(request)
    /\ held # NoHeld => Asks(held.request)

LEMMA AskedAlike ==
    ASSUME NEW r, Asks(r), NEW q, q.asked = r.asked, q.published = r.published, q.host = r.host,
           q.location.path = r.location.path,
           r.asked.kind = "call" /\ r.asked.operation \in GetOperations =>
               q.location = r.location /\ q.method = r.method
    PROVE  Asks(q)
BY DEF Asks, AgentAsks, Method

LEMMA HeldAsAsked ==
    ASSUME AgentInv, AsksInv, held # NoHeld, held.request.asked.kind = "call"
    PROVE  held.answer.call.operation = held.request.asked.operation
<1>1. /\ AnswersTo(service, held.answer, held.request) /\ held.answer.sent.status = 200
      /\ AgentAsks(held.request)
  BY DEF AgentInv, HeldInv, AsksInv, Asks
<1>2. Sent(held.answer.sent, held.answer.made, held.request)
      /\ CameOf(service, held.answer.made, held.answer.call, held.request)
  BY <1>1 DEF AnswersTo
<1>3. held.answer.made.kind = "response" BY <1>1, <1>2, SentStatus DEF IsFull
<1>4. held.answer.call.kind # "problem" BY <1>2, <1>3 DEF CameOf
<1>5. held.answer.call = Reading(service, held.request) BY <1>1 DEF AnswersTo
<1>6. QED BY <1>1, <1>4, <1>5, ReadAsAsked

LEMMA AsksThere ==
    AgentInv /\ StaticAskedInv /\ StaticHeldInv /\ IsStatic
    /\ phase \in {"asked", "answered"} /\ request.purpose # "ask" =>
        request.location.path = held.request.location.path
BY AsksOn

LEMMA AsksKept ==
    ASSUME AgentInv, StaticInv, AgentInv', StaticInv', AsksInv, [Next]_vars PROVE AsksInv'
<1>1. ASSUME UNCHANGED <<request, held>>,
             phase' \notin {"asked", "answered"} \/ phase \in {"asked", "answered"}
      PROVE  AsksInv'
  BY <1>1 DEF AsksInv, Asks, AgentAsks
<1>2. ASSUME NEW r, UNCHANGED held, request' = r, Asks(r) PROVE AsksInv'
  BY <1>2 DEF AsksInv
<1>3. CASE Ask
  <2>1. PICK r \in setting.requests : Send(r, "ask") BY <1>3 DEF Ask
  <2>2. IsRequest(r) BY <2>1, CasesAssumption DEF AgentInv, WorldInv
  <2>3. Asks(r) /\ RequestParts \subseteq DOMAIN r BY <2>2 DEF IsRequest, Asks
  <2> DEFINE q == [r EXCEPT !.purpose = "ask"]
  <2>4. /\ q.asked = r.asked /\ q.published = r.published /\ q.host = r.host
        /\ q.location = r.location /\ q.method = r.method
    BY <2>3 DEF RequestParts
  <2>5. request' = q BY <2>1 DEF Send
  <2> HIDE DEF q
  <2>6. Asks(q) BY <2>3, <2>4, AskedAlike
  <2>7. UNCHANGED held BY <1>3 DEF Ask, agent
  <2>8. QED BY <1>2, <2>5, <2>6, <2>7
<1>4. CASE Confirm
  <2> DEFINE asked(h) == [held.request EXCEPT
                    !.conditions = {held.answer.sent.tag}, !.accept = h.accept,
                    !.languages = h.languages, !.authorization = h.authorization]
  <2>1. PICK h \in Headers : Send(asked(h), "confirm") BY <1>4 DEF Confirm
  <2>2. held # NoHeld /\ RequestParts \subseteq DOMAIN held.request
    BY <1>4, NothingYet DEF Confirm, AgentInv, HeldInv
  <2>3. /\ RequestParts \subseteq DOMAIN asked(h)
        /\ asked(h).asked = held.request.asked /\ asked(h).published = held.request.published
        /\ asked(h).host = held.request.host /\ asked(h).location = held.request.location
        /\ asked(h).method = held.request.method
    BY <2>2 DEF RequestParts
  <2>4. request' = [asked(h) EXCEPT !.purpose = "confirm"] BY <2>1 DEF Send
  <2> HIDE DEF asked
  <2> DEFINE q == [asked(h) EXCEPT !.purpose = "confirm"]
  <2>5. /\ q.asked = held.request.asked /\ q.published = held.request.published
        /\ q.host = held.request.host /\ q.location = held.request.location
        /\ q.method = held.request.method
    BY <2>3 DEF RequestParts
  <2>6. request' = q BY <2>4
  <2> HIDE DEF q
  <2>7. Asks(held.request) BY <2>2 DEF AsksInv
  <2>8. Asks(q) BY <2>5, <2>7, AskedAlike
  <2>9. UNCHANGED held BY <1>4 DEF Confirm
  <2>10. QED BY <1>2, <2>6, <2>8, <2>9
<1>5. CASE FollowNext
  <2> DEFINE asked(h, alteration) == [held.request EXCEPT
                    !.method = "GET", !.conditions = {}, !.languages = h.languages,
                    !.location = Altered(held.answer.sent.body.next.location, alteration)]
  <2>1. PICK h \in Headers, alteration \in {Unaltered} \cup Alterations :
            Send(asked(h, alteration), "follow")
    BY <1>5 DEF FollowNext
  <2>2. held # NoHeld /\ RequestParts \subseteq DOMAIN held.request
    BY <1>5, NothingYet DEF FollowNext, AgentInv, HeldInv
  <2>3. /\ RequestParts \subseteq DOMAIN asked(h, alteration)
        /\ asked(h, alteration).asked = held.request.asked
        /\ asked(h, alteration).published = held.request.published
        /\ asked(h, alteration).host = held.request.host
    BY <2>2 DEF RequestParts
  <2>4. request' = [asked(h, alteration) EXCEPT !.purpose = "follow"] /\ phase' = "asked"
    BY <2>1 DEF Send
  <2> HIDE DEF asked
  <2> DEFINE q == [asked(h, alteration) EXCEPT !.purpose = "follow"]
  <2>5. /\ q.asked = held.request.asked /\ q.published = held.request.published
        /\ q.host = held.request.host /\ q.purpose = "follow"
    BY <2>3 DEF RequestParts
  <2>6. request' = q BY <2>4
  <2> HIDE DEF q
  <2>7. UNCHANGED <<held, world>> /\ IsStatic /\ IsPage(held.answer)
    BY <1>5 DEF FollowNext, agent, Continues
  <2>8. q.location.path = held.request.location.path
    <3>1. (AgentInv /\ StaticAskedInv /\ StaticHeldInv /\ IsStatic
           /\ phase \in {"asked", "answered"} /\ request.purpose # "ask" =>
               request.location.path = held.request.location.path)'
      BY AsksThere, PTL
    <3>2. StaticAskedInv' /\ StaticHeldInv' BY DEF StaticInv
    <3>3. IsStatic' BY <2>7 DEF IsStatic, world
    <3>4. phase' = "asked" /\ request'.purpose = "follow" BY <2>4, <2>5, <2>6
    <3>5. request'.location.path = held'.request.location.path BY <3>1, <3>2, <3>3, <3>4
    <3>6. QED BY <2>6, <2>7, <3>5
  <2>9. ~(held.request.asked.kind = "call" /\ held.request.asked.operation \in GetOperations)
    BY <2>2, <2>7, HeldAsAsked DEF IsPage
  <2>10. Asks(held.request) BY <2>2 DEF AsksInv
  <2>11. Asks(q) BY <2>5, <2>8, <2>9, <2>10, AskedAlike
  <2>12. QED BY <1>2, <2>6, <2>7, <2>11
<1>6. CASE TakeRepresentation
  <2>1. phase = "answered" /\ request' = request /\ held'.request = request
    BY <1>6 DEF TakeRepresentation
  <2>2. QED BY <2>1 DEF AsksInv
<1>7. CASE TakeConfirmation
  <2>1. phase = "answered" /\ request' = request BY <1>7 DEF TakeConfirmation
  <2>2. held # NoHeld => held'.request = held.request
    BY <1>7, ConfirmedAnswer DEF AgentInv
  <2>3. held = NoHeld => held' = held BY <1>7 DEF TakeConfirmation
  <2>4. QED BY <2>1, <2>2, <2>3 DEF AsksInv
<1>8. CASE Refuse \/ Describe \/ StaticServes \/ ApplicationServes
  BY <1>1, <1>8 DEF Refuse, Describe, StaticServes, ApplicationServes, agent
<1>9. CASE TakeFailure BY <1>1, <1>9 DEF TakeFailure, agent
<1>10. CASE Tick
  <2>1. UNCHANGED <<request, held, phase>> BY <1>10 DEF Tick, agent
  <2>2. QED BY <1>1, <2>1
<1>11. CASE Restart
  <2>1. UNCHANGED <<request, held>> /\ (phase' = phase \/ phase' \in {"idle", "holding"})
    BY <1>11 DEF Restart, agent
  <2>2. QED BY <1>1, <2>1
<1>12. CASE UNCHANGED vars
  <2>1. UNCHANGED <<request, held, phase>> BY <1>12 DEF vars
  <2>2. QED BY <1>1, <2>1
<1>13. QED
  BY <1>3, <1>4, <1>5, <1>6, <1>7, <1>8, <1>9, <1>10, <1>11, <1>12 DEF Next

(* Whatever an application's functions return, and whatever a static       *)
(* catalog publishes: a 200 is for the operation the Agent asked for, and  *)
(* an answer it takes (ServedIsAccepted).                                  *)
THEOREM ServedAccepted == Spec => []ServedIsAccepted
<1>1. Init => AgentInv /\ StaticInv BY Starts, StaticFirst
<1>2. Init => AsksInv /\ BodiesInv
  BY DEF Init, AsksInv, BodiesInv
<1>3. AgentInv /\ StaticInv /\ AgentInv' /\ StaticInv' /\ AsksInv /\ BodiesInv /\ [Next]_vars
        => AsksInv' /\ BodiesInv'
  <2>1. SUFFICES ASSUME AgentInv, StaticInv, AgentInv', StaticInv', AsksInv, BodiesInv,
                        [Next]_vars
                 PROVE  AsksInv' /\ BodiesInv'
    OBVIOUS
  <2>2. AsksInv' BY <2>1, AsksKept
  <2>3. BodiesInv' BY <2>1, BodiesKept
  <2>4. QED BY <2>2, <2>3
<1>4. AgentInv /\ AsksInv /\ BodiesInv => ServedIsAccepted
  <2>1. SUFFICES ASSUME AgentInv, AsksInv, BodiesInv, phase = "answered",
                        response.sent.status = 200, request.asked.kind = "call"
                 PROVE  /\ response.call.operation = request.asked.operation
                        /\ response.call.id = request.asked.id
                        /\ AgentTakes(request, response)
    BY DEF ServedIsAccepted
  <2>2. /\ AgentAsks(request) /\ AnswersTo(service, response, request)
        /\ RequestParts \subseteq DOMAIN request
    BY <2>1 DEF AsksInv, Asks, AgentInv, AnsweredInv, AskedInv
  <2>3. /\ response.call = Reading(service, request)
        /\ CameOf(service, response.made, response.call, request)
        /\ Sent(response.sent, response.made, request)
    BY <2>2 DEF AnswersTo
  <2>4. IsFull(response.made) /\ response.sent = response.made BY <2>1, <2>3, SentStatus
  <2>5. response.made.kind = "response" BY <2>4 DEF IsFull
  <2>6. response.call.kind # "problem" BY <2>3, <2>5 DEF CameOf
  <2>7. /\ response.call.kind = "call"
        /\ response.call.operation = request.asked.operation
        /\ response.call.id = request.asked.id
    BY <2>2, <2>3, <2>6, ReadAsAsked
  <2>8. IsOf(service, response.sent, response.call, request)
    BY <2>2, <2>3, <2>4, <2>7, RepresentationsCameOf
  <2>9. SoundBody(response.call, response.sent.body)
    BY <2>1, <2>4, <2>5, <2>7 DEF BodiesInv
  <2>10. AgentTakes(request, response) BY <2>2, <2>3, <2>7, <2>8, <2>9, ValidIsTaken
  <2>11. QED BY <2>7, <2>10
<1>5. QED BY <1>1, <1>2, <1>3, <1>4, StaticInvariant, PTL DEF Spec

-----------------------------------------------------------------------------
(* The hierarchy.  A path of n edges climbs from a Collection to a parent  *)
(* n times; the walks validateRelationships makes are from a Collection,   *)
(* with the set of those it is visiting.                                   *)
Paths(parents, n) ==
    {path \in [0..n -> DOMAIN parents] : \A i \in 1..n : path[i] \in parents[path[i - 1]]}
Climbs(parents, c, n) == \E path \in Paths(parents, n) : path[0] = c

(* Climbing one edge more begins with a parent, and any climb can stop one *)
(* edge earlier.                                                           *)
LEMMA ClimbNothing == ASSUME NEW parents, NEW c \in DOMAIN parents PROVE Climbs(parents, c, 0)
<1> DEFINE path == [i \in 0..0 |-> c]
<1>1. path \in Paths(parents, 0) /\ path[0] = c BY DEF Paths
<1>2. QED BY <1>1 DEF Climbs

LEMMA ClimbFirst ==
    ASSUME NEW parents, Static!ParentsKnown(parents), NEW c \in DOMAIN parents, NEW n \in Nat
    PROVE  Climbs(parents, c, n + 1) <=> \E p \in parents[c] : Climbs(parents, p, n)
<1>1. ASSUME Climbs(parents, c, n + 1) PROVE \E p \in parents[c] : Climbs(parents, p, n)
  <2>1. PICK path \in Paths(parents, n + 1) : path[0] = c BY <1>1 DEF Climbs
  <2> DEFINE rest == [i \in 0..n |-> path[i + 1]]
  <2>2. /\ path \in [0..(n + 1) -> DOMAIN parents]
        /\ \A i \in 1..(n + 1) : path[i] \in parents[path[i - 1]]
    BY DEF Paths
  <2>3. rest \in [0..n -> DOMAIN parents]
    <3>1. \A i \in 0..n : i + 1 \in 0..(n + 1) OBVIOUS
    <3>2. QED BY <2>2, <3>1
  <2>4. ASSUME NEW i \in 1..n PROVE rest[i] \in parents[rest[i - 1]]
    <3>1. i + 1 \in 1..(n + 1) /\ (i + 1) - 1 = i /\ i - 1 \in 0..n /\ (i - 1) + 1 = i OBVIOUS
    <3>2. rest[i] = path[i + 1] /\ rest[i - 1] = path[i] BY <3>1
    <3>3. QED BY <2>2, <3>1, <3>2
  <2>5. rest \in Paths(parents, n) BY <2>3, <2>4 DEF Paths
  <2>6. rest[0] = path[1] /\ 1 \in 1..(n + 1) /\ 1 - 1 = 0 OBVIOUS
  <2>7. path[1] \in parents[c] BY <2>1, <2>2, <2>6
  <2>8. QED BY <2>5, <2>6, <2>7 DEF Climbs
<1>2. ASSUME NEW p \in parents[c], Climbs(parents, p, n) PROVE Climbs(parents, c, n + 1)
  <2>1. PICK path \in Paths(parents, n) : path[0] = p BY <1>2 DEF Climbs
  <2> DEFINE whole == [i \in 0..(n + 1) |-> IF i = 0 THEN c ELSE path[i - 1]]
  <2>2. /\ path \in [0..n -> DOMAIN parents]
        /\ \A i \in 1..n : path[i] \in parents[path[i - 1]]
    BY DEF Paths
  <2>3. whole \in [0..(n + 1) -> DOMAIN parents]
    <3>1. \A i \in 0..(n + 1) : i # 0 => i - 1 \in 0..n OBVIOUS
    <3>2. QED BY <2>2, <3>1
  <2>4. ASSUME NEW i \in 1..(n + 1) PROVE whole[i] \in parents[whole[i - 1]]
    <3>1. i \in 0..(n + 1) /\ i # 0 /\ i - 1 \in 0..(n + 1) OBVIOUS
    <3>2. whole[i] = path[i - 1] BY <3>1
    <3>3. CASE i = 1 BY <2>1, <3>1, <3>2, <3>3, <1>2
    <3>4. CASE i # 1
      <4>1. i - 1 \in 1..n /\ whole[i - 1] = path[(i - 1) - 1] BY <3>1, <3>4
      <4>2. QED BY <2>2, <3>2, <4>1
    <3>5. QED BY <3>3, <3>4
  <2>5. whole \in Paths(parents, n + 1) BY <2>3, <2>4 DEF Paths
  <2>6. whole[0] = c OBVIOUS
  <2>7. QED BY <2>5, <2>6 DEF Climbs
<1>3. QED BY <1>1, <1>2

LEMMA ClimbLess ==
    ASSUME NEW parents, NEW c, NEW n \in Nat, Climbs(parents, c, n + 1)
    PROVE  Climbs(parents, c, n)
<1>1. PICK path \in Paths(parents, n + 1) : path[0] = c BY DEF Climbs
<1> DEFINE part == [i \in 0..n |-> path[i]]
<1>2. /\ path \in [0..(n + 1) -> DOMAIN parents]
      /\ \A i \in 1..(n + 1) : path[i] \in parents[path[i - 1]]
  BY DEF Paths
<1>3. part \in [0..n -> DOMAIN parents]
  <2>1. \A i \in 0..n : i \in 0..(n + 1) OBVIOUS
  <2>2. QED BY <1>2, <2>1
<1>4. ASSUME NEW i \in 1..n PROVE part[i] \in parents[part[i - 1]]
  <2>1. i \in 0..n /\ i - 1 \in 0..n /\ i \in 1..(n + 1) OBVIOUS
  <2>2. QED BY <1>2, <2>1
<1>5. part \in Paths(parents, n) BY <1>3, <1>4 DEF Paths
<1>6. part[0] = c BY <1>1
<1>7. QED BY <1>5, <1>6 DEF Climbs

(* One who can always climb one edge more can climb any number of them.    *)
LEMMA ClimbForever ==
    ASSUME NEW parents, NEW c \in DOMAIN parents,
           \A n \in Nat : Climbs(parents, c, n) => Climbs(parents, c, n + 1)
    PROVE  \A n \in Nat : Climbs(parents, c, n)
<1> DEFINE T == {n \in Nat : Climbs(parents, c, n)}
<1>1. 0 \in T BY ClimbNothing
<1>2. \A n \in Nat : n \in T => n + 1 \in T OBVIOUS
<1> HIDE DEF T
<1>3. Nat \subseteq T BY <1>1, <1>2, SetInduction
<1>4. QED BY <1>3 DEF T

(* A bounded set of natural numbers has a greatest element.                *)
LEMMA GreatestElement ==
    ASSUME NEW T \in SUBSET Nat, T # {}, NEW b \in Nat, \A t \in T : t <= b
    PROVE  /\ Static!Max(T) \in T
           /\ \A t \in T : t <= Static!Max(T)
<1> DEFINE U == {b - t : t \in T}
<1>1. U \in SUBSET Nat /\ U # {}
  <2>1. \A t \in T : b - t \in Nat OBVIOUS
  <2>2. QED BY <2>1
<1>2. PICK m \in U : \A u \in U : m <= u
  <2> HIDE DEF U
  <2>1. QED BY <1>1, LeastElement
<1>3. PICK t \in T : m = b - t OBVIOUS
<1>4. \A s \in T : b - t <= b - s BY <1>2, <1>3
<1>5. \A s \in T : t >= s BY <1>4
<1>6. QED BY <1>5 DEF Static!Max

(* What the walk reports, and that there is such a report.                 *)
Walks(parents) == {w \in (DOMAIN parents) \X (SUBSET DOMAIN parents) : w[1] \notin w[2]}
Above(parents, depth, walk) ==
    {depth[<<p, walk[2] \cup {walk[1]}>>] : p \in parents[walk[1]] \ (walk[2] \cup {walk[1]})}
Report(parents, depth, walk) ==
    IF parents[walk[1]] \cap (walk[2] \cup {walk[1]}) # {}
       \/ Static!Cyclic \in Above(parents, depth, walk) THEN Static!Cyclic
    ELSE IF Above(parents, depth, walk) = {} THEN 0
    ELSE Static!Max(Above(parents, depth, walk)) + 1
Reports(parents, depth) == depth = [walk \in Walks(parents) |-> Report(parents, depth, walk)]
Left(parents, walk) == Cardinality((DOMAIN parents) \ walk[2])

LEMMA DepthReported ==
    ASSUME NEW parents
    PROVE  Static!DepthOf(parents)
             = [c \in DOMAIN parents |-> (CHOOSE depth : Reports(parents, depth))[<<c, {}>>]]
BY DEF Static!DepthOf, Reports, Report, Above, Walks

(* The walk goes on to a parent it is not visiting, with one Collection    *)
(* fewer left.                                                             *)
LEMMA WalkShrinks ==
    ASSUME NEW parents, IsFiniteSet(DOMAIN parents), Static!ParentsKnown(parents),
           NEW walk \in Walks(parents), NEW p \in parents[walk[1]] \ (walk[2] \cup {walk[1]})
    PROVE  /\ <<p, walk[2] \cup {walk[1]}>> \in Walks(parents)
           /\ Left(parents, walk) \in Nat /\ Left(parents, walk) > 0
           /\ Left(parents, <<p, walk[2] \cup {walk[1]}>>) = Left(parents, walk) - 1
<1> DEFINE D == DOMAIN parents
           c == walk[1]
           V == walk[2]
<1>1. c \in D /\ V \in SUBSET D /\ c \notin V BY DEF Walks
<1>2. parents[c] \subseteq D BY <1>1 DEF Static!ParentsKnown
<1>3. <<p, V \cup {c}>> \in Walks(parents) BY <1>1, <1>2 DEF Walks
<1>4. IsFiniteSet(D \ V) BY FS_Subset
<1>5. D \ (V \cup {c}) = (D \ V) \ {c} OBVIOUS
<1>6. /\ Cardinality(D \ V) \in Nat
      /\ Cardinality((D \ V) \ {c}) \in Nat
      /\ Cardinality((D \ V) \ {c}) = Cardinality(D \ V) - 1
  <2> DEFINE S == D \ V
  <2>1. c \in S BY <1>1
  <2> HIDE DEF S
  <2>2. IsFiniteSet(S \ {c}) /\ Cardinality(S \ {c}) = Cardinality(S) - 1
    BY <1>4, <2>1, FS_RemoveElement DEF S
  <2>3. Cardinality(S) \in Nat /\ Cardinality(S \ {c}) \in Nat
    BY <1>4, <2>2, FS_CardinalityType DEF S
  <2>4. QED BY <2>2, <2>3 DEF S
<1>7. QED BY <1>3, <1>5, <1>6 DEF Left

LEMMA WalksBounded ==
    ASSUME NEW parents, IsFiniteSet(DOMAIN parents), NEW walk \in Walks(parents)
    PROVE  /\ Left(parents, walk) \in Nat /\ Left(parents, walk) > 0
           /\ Left(parents, walk) <= Cardinality(DOMAIN parents)
<1> DEFINE S == (DOMAIN parents) \ walk[2]
<1>1. S \in SUBSET DOMAIN parents /\ S # {} BY DEF Walks
<1>2. IsFiniteSet(S) /\ Cardinality(S) <= Cardinality(DOMAIN parents) BY <1>1, FS_Subset
<1>3. Cardinality(S) \in Nat /\ Cardinality(S) # 0 BY <1>1, <1>2, FS_CardinalityType, FS_EmptySet
<1>4. QED BY <1>2, <1>3 DEF Left

(* The report of a walk is made of those of the walks it goes on to.       *)
LEMMA ReportMadeOf ==
    ASSUME NEW parents, NEW walk, NEW f, NEW g,
           \A p \in parents[walk[1]] \ (walk[2] \cup {walk[1]}) :
              f[<<p, walk[2] \cup {walk[1]}>>] = g[<<p, walk[2] \cup {walk[1]}>>]
    PROVE  Report(parents, f, walk) = Report(parents, g, walk)
<1>1. Above(parents, f, walk) = Above(parents, g, walk) BY DEF Above
<1>2. QED BY <1>1 DEF Report

LEMMA ReportExists ==
    ASSUME NEW parents, IsFiniteSet(DOMAIN parents), Static!ParentsKnown(parents)
    PROVE  \E depth : Reports(parents, depth)
<1> DEFINE near(n) == {walk \in Walks(parents) : Left(parents, walk) <= n}
           good(f, n) == \A walk \in near(n) : f[walk] = Report(parents, f, walk)
           T == {n \in Nat : \E f : good(f, n)}
<1>1. 0 \in T
  <2>1. near(0) = {} BY WalksBounded
  <2> HIDE DEF near
  <2>2. good(<<>>, 0) BY <2>1
  <2>3. QED BY <2>2
<1>2. ASSUME NEW n \in Nat, n \in T PROVE n + 1 \in T
  <2>1. PICK f : good(f, n) BY <1>2
  <2> DEFINE g == [walk \in Walks(parents) |->
                      IF walk \in near(n) THEN f[walk] ELSE Report(parents, f, walk)]
  <2>2. ASSUME NEW walk \in near(n + 1) PROVE g[walk] = Report(parents, g, walk)
    <3>1. ASSUME NEW p \in parents[walk[1]] \ (walk[2] \cup {walk[1]})
          PROVE  f[<<p, walk[2] \cup {walk[1]}>>] = g[<<p, walk[2] \cup {walk[1]}>>]
      <4> DEFINE next == <<p, walk[2] \cup {walk[1]}>>
      <4>1. next \in Walks(parents) /\ Left(parents, next) = Left(parents, walk) - 1
            /\ Left(parents, walk) \in Nat
        BY WalkShrinks
      <4> HIDE DEF next
      <4>2. next \in near(n) BY <4>1
      <4> HIDE DEF near
      <4>3. g[next] = f[next] BY <4>1, <4>2
      <4>4. QED BY <4>3 DEF next
    <3>2. Report(parents, f, walk) = Report(parents, g, walk)
      <4> HIDE DEF g, near
      <4>1. QED BY <3>1, ReportMadeOf
    <3>3. walk \in Walks(parents) OBVIOUS
    <3> HIDE DEF near
    <3>4. g[walk] = Report(parents, f, walk)
      <4>1. CASE walk \in near(n) BY <2>1, <3>3, <4>1
      <4>2. CASE walk \notin near(n) BY <3>3, <4>2
      <4>3. QED BY <4>1, <4>2
    <3>5. QED BY <3>2, <3>4
  <2> HIDE DEF g, near
  <2>3. good(g, n + 1) BY <2>2
  <2>4. QED BY <2>3
<1>3. Cardinality(DOMAIN parents) \in T
  <2> HIDE DEF T
  <2>1. Nat \subseteq T BY <1>1, <1>2, SetInduction
  <2>2. QED BY <2>1, FS_CardinalityType
<1>4. PICK f : \A walk \in Walks(parents) : f[walk] = Report(parents, f, walk)
  BY <1>3, WalksBounded
<1> DEFINE h == [walk \in Walks(parents) |-> f[walk]]
<1>5. ASSUME NEW walk \in Walks(parents) PROVE h[walk] = Report(parents, h, walk)
  <2>1. \A p \in parents[walk[1]] \ (walk[2] \cup {walk[1]}) :
           f[<<p, walk[2] \cup {walk[1]}>>] = h[<<p, walk[2] \cup {walk[1]}>>]
    BY WalkShrinks
  <2> HIDE DEF h
  <2>2. Report(parents, f, walk) = Report(parents, h, walk) BY <2>1, ReportMadeOf
  <2>3. QED BY <1>4, <2>2 DEF h
<1>6. Reports(parents, h)
  <2>1. h = [walk \in Walks(parents) |-> h[walk]] OBVIOUS
  <2> HIDE DEF h
  <2>2. QED BY <1>5, <2>1 DEF Reports
<1>7. QED BY <1>6

(* A report that is not of a cycle is the edges of the longest climb.      *)
LEMMA ReportMeasures ==
    ASSUME NEW parents, IsFiniteSet(DOMAIN parents), Static!ParentsKnown(parents),
           NEW depth, Reports(parents, depth), NEW walk \in Walks(parents),
           depth[walk] # Static!Cyclic
    PROVE  /\ depth[walk] \in Nat
           /\ \A n \in Nat : Climbs(parents, walk[1], n) <=> n <= depth[walk]
<1> DEFINE good(w) == /\ depth[w] \in Nat /\ depth[w] <= Left(parents, w)
                      /\ \A n \in Nat : Climbs(parents, w[1], n) <=> n <= depth[w]
           T == {n \in Nat : \A w \in Walks(parents) :
                    Left(parents, w) <= n /\ depth[w] # Static!Cyclic => good(w)}
<1>1. 0 \in T BY WalksBounded
<1>2. ASSUME NEW n \in Nat, n \in T PROVE n + 1 \in T
  <2> SUFFICES ASSUME NEW w \in Walks(parents), Left(parents, w) <= n + 1,
                      depth[w] # Static!Cyclic
               PROVE  good(w)
    OBVIOUS
  <2> DEFINE c == w[1]
             visiting == w[2] \cup {w[1]}
             above == Above(parents, depth, w)
  <2>0. c \in DOMAIN parents /\ Left(parents, w) \in Nat /\ Left(parents, w) > 0
    BY WalksBounded DEF Walks
  <2>1. depth[w] = Report(parents, depth, w) BY DEF Reports
  <2>2. /\ parents[c] \cap visiting = {} /\ Static!Cyclic \notin above
        /\ depth[w] = IF above = {} THEN 0 ELSE Static!Max(above) + 1
    BY <2>1 DEF Report
  <2>3. above = {depth[<<p, visiting>>] : p \in parents[c]} BY <2>2 DEF Above
  <2>4. ASSUME NEW p \in parents[c]
        PROVE  /\ p \in DOMAIN parents
               /\ depth[<<p, visiting>>] \in Nat /\ depth[<<p, visiting>>] <= Left(parents, w) - 1
               /\ \A k \in Nat : Climbs(parents, p, k) <=> k <= depth[<<p, visiting>>]
    <3>1. p \in parents[c] \ visiting BY <2>2
    <3>2. /\ <<p, visiting>> \in Walks(parents)
          /\ Left(parents, <<p, visiting>>) = Left(parents, w) - 1
      BY <3>1, WalkShrinks
    <3>3. depth[<<p, visiting>>] # Static!Cyclic BY <2>2, <2>3
    <3>4. Left(parents, <<p, visiting>>) <= n BY <2>0, <3>2
    <3> HIDE DEF visiting
    <3>5. good(<<p, visiting>>) BY <1>2, <3>2, <3>3, <3>4
    <3>6. p \in DOMAIN parents BY <2>0 DEF Static!ParentsKnown
    <3>7. QED BY <3>2, <3>5, <3>6
  <2> HIDE DEF good, c, visiting, above
  <2>5. above \subseteq Nat /\ \A d \in above : d <= Left(parents, w) - 1 BY <2>3, <2>4
  <2>6. Climbs(parents, c, 0) BY <2>0, ClimbNothing
  <2>7. \A k \in Nat : Climbs(parents, c, k + 1) <=> \E d \in above : k <= d
    BY <2>0, <2>3, <2>4, ClimbFirst
  <2>8. \A k \in Nat : k = 0 \/ \E j \in Nat : k = j + 1
    <3>1. \A k \in Nat : k # 0 => k - 1 \in Nat /\ k = (k - 1) + 1 OBVIOUS
    <3>2. QED BY <3>1
  <2>9. CASE above = {}
    <3>1. depth[w] = 0 BY <2>2, <2>9
    <3>2. \A k \in Nat : Climbs(parents, c, k) <=> k <= 0 BY <2>6, <2>7, <2>8, <2>9
    <3>3. QED BY <2>0, <3>1, <3>2 DEF good, c
  <2>10. CASE above # {}
    <3>1. /\ Static!Max(above) \in above /\ \A d \in above : d <= Static!Max(above)
      <4>1. PICK b : b = Left(parents, w) - 1 OBVIOUS
      <4>2. b \in Nat /\ \A d \in above : d <= b BY <2>0, <2>5, <4>1
      <4>3. QED BY <2>5, <2>10, <4>2, GreatestElement
    <3>2. PICK m : m = Static!Max(above) OBVIOUS
    <3>3. m \in Nat /\ m <= Left(parents, w) - 1 BY <2>5, <3>1, <3>2
    <3>4. depth[w] = m + 1 BY <2>2, <2>10, <3>2
    <3>5. \A k \in Nat : (\E d \in above : k <= d) <=> k <= m BY <2>5, <3>1, <3>2, <3>3
    <3>6. ASSUME NEW k \in Nat PROVE Climbs(parents, c, k) <=> k <= m + 1
      <4>1. CASE k = 0 BY <2>6, <3>3, <4>1
      <4>2. CASE k # 0
        <5>1. PICK j \in Nat : k = j + 1 BY <2>8, <4>2
        <5>2. Climbs(parents, c, k) <=> j <= m BY <2>7, <3>5, <5>1
        <5>3. j <= m <=> k <= m + 1 BY <3>3, <5>1
        <5>4. QED BY <5>2, <5>3
      <4>3. QED BY <4>1, <4>2
    <3>7. QED BY <2>0, <3>3, <3>4, <3>6 DEF good, c
  <2>11. QED BY <2>9, <2>10
<1>3. Left(parents, walk) \in T
  <2> HIDE DEF T
  <2>1. Nat \subseteq T BY <1>1, <1>2, SetInduction
  <2>2. QED BY <2>1, WalksBounded
<1>4. good(walk) BY <1>3, WalksBounded
<1>5. QED BY <1>4

(* No walk meets one it is visiting when nobody can climb n edges: it would*)
(* climb them by going round.                                              *)
LEMMA NoCycleFound ==
    ASSUME NEW parents, IsFiniteSet(DOMAIN parents), Static!ParentsKnown(parents),
           NEW depth, Reports(parents, depth),
           NEW n \in Nat, \A c \in DOMAIN parents : ~Climbs(parents, c, n),
           NEW walk \in Walks(parents),
           \A v \in walk[2] : \A k \in Nat :
              Climbs(parents, walk[1], k) => Climbs(parents, v, k + 1)
    PROVE  depth[walk] # Static!Cyclic
<1> DEFINE follows(w) == \A v \in w[2] : \A k \in Nat :
                            Climbs(parents, w[1], k) => Climbs(parents, v, k + 1)
           T == {m \in Nat : \A w \in Walks(parents) :
                    Left(parents, w) <= m /\ follows(w) => depth[w] # Static!Cyclic}
<1>1. 0 \in T BY WalksBounded
<1>2. ASSUME NEW m \in Nat, m \in T PROVE m + 1 \in T
  <2> SUFFICES ASSUME NEW w \in Walks(parents), Left(parents, w) <= m + 1, follows(w)
               PROVE  depth[w] # Static!Cyclic
    OBVIOUS
  <2> DEFINE c == w[1]
             visiting == w[2] \cup {w[1]}
  <2>1. /\ c \in DOMAIN parents /\ w[2] \subseteq DOMAIN parents
        /\ Left(parents, w) \in Nat /\ Left(parents, w) > 0
    BY WalksBounded DEF Walks
  <2>2. \A p \in parents[c] : \A k \in Nat : Climbs(parents, p, k) => Climbs(parents, c, k + 1)
    BY <2>1, ClimbFirst
  <2>3. ASSUME NEW p \in parents[c], NEW v \in visiting, NEW k \in Nat, Climbs(parents, p, k)
        PROVE  Climbs(parents, v, k + 1)
    <3>1. Climbs(parents, c, k + 1) BY <2>2, <2>3
    <3>2. CASE v = c BY <3>1, <3>2
    <3>3. CASE v \in w[2]
      <4>1. Climbs(parents, v, (k + 1) + 1) BY <3>1, <3>3
      <4>2. QED BY <4>1, ClimbLess
    <3>4. QED BY <3>2, <3>3
  <2>4. ASSUME NEW p \in parents[c] \cap visiting PROVE FALSE
    <3>1. p \in DOMAIN parents BY <2>1
    <3>2. \A k \in Nat : Climbs(parents, p, k) => Climbs(parents, p, k + 1) BY <2>3
    <3>3. Climbs(parents, p, n) BY <3>1, <3>2, ClimbForever
    <3>4. QED BY <3>1, <3>3
  <2>5. ASSUME NEW p \in parents[c] \ visiting PROVE depth[<<p, visiting>>] # Static!Cyclic
    <3>1. /\ <<p, visiting>> \in Walks(parents)
          /\ Left(parents, <<p, visiting>>) = Left(parents, w) - 1
      BY WalkShrinks
    <3> HIDE DEF visiting
    <3>2. follows(<<p, visiting>>) BY <2>3
    <3>3. Left(parents, <<p, visiting>>) <= m BY <2>1, <3>1
    <3>4. QED BY <1>2, <3>1, <3>2, <3>3
  <2>6. Static!Cyclic \notin Above(parents, depth, w) BY <2>5 DEF Above
  <2>7. parents[c] \cap visiting = {} BY <2>4
  <2>8. depth[w] = Report(parents, depth, w) BY DEF Reports
  <2>9. Report(parents, depth, w) \in {0, Static!Max(Above(parents, depth, w)) + 1}
    BY <2>6, <2>7 DEF Report
  <2>10. CASE Above(parents, depth, w) = {} BY <2>6, <2>7, <2>8, <2>10 DEF Report, Static!Cyclic
  <2>11. CASE Above(parents, depth, w) # {}
    <3> DEFINE above == Above(parents, depth, w)
    <3>1. above \subseteq Nat /\ \A d \in above : d <= n
      <4>1. ASSUME NEW p \in parents[c] \ visiting
            PROVE  depth[<<p, visiting>>] \in Nat /\ depth[<<p, visiting>>] <= n
        <5>1. <<p, visiting>> \in Walks(parents) BY WalkShrinks
        <5>2. <<p, visiting>>[1] = p /\ p \in DOMAIN parents BY <5>1 DEF Walks
        <5>3. depth[<<p, visiting>>] # Static!Cyclic BY <2>5
        <5> HIDE DEF visiting
        <5>4. /\ depth[<<p, visiting>>] \in Nat
              /\ Climbs(parents, p, n) <=> n <= depth[<<p, visiting>>]
          BY <5>1, <5>2, <5>3, ReportMeasures
        <5>5. ~(n <= depth[<<p, visiting>>]) BY <5>2, <5>4
        <5>6. QED BY <5>4, <5>5
      <4>2. QED BY <4>1 DEF Above
    <3>2. above # {} BY <2>11
    <3> HIDE DEF above
    <3>3. Static!Max(above) \in Nat BY <3>1, <3>2, GreatestElement
    <3>4. Static!Max(above) + 1 # Static!Cyclic BY <3>3 DEF Static!Cyclic
    <3>5. QED BY <2>6, <2>7, <2>8, <2>11, <3>4 DEF Report, above
  <2>12. QED BY <2>10, <2>11
<1>3. Left(parents, walk) \in T
  <2> HIDE DEF T
  <2>1. Nat \subseteq T BY <1>1, <1>2, SetInduction
  <2>2. QED BY <2>1, WalksBounded
<1>4. QED BY <1>3, WalksBounded

(* Whoever Climb says to be n edges up is at the end of a climb of n edges.*)
Climbing(parents, m, up) ==
    up = [n \in 0..m |-> IF n = 0 THEN DOMAIN parents ELSE UNION {parents[c] : c \in up[n - 1]}]

LEMMA ClimbingExists == ASSUME NEW parents, NEW m \in Nat PROVE \E up : Climbing(parents, m, up)
<1> DEFINE T == {k \in Nat : \E up : Climbing(parents, k, up)}
           over(S) == UNION {parents[c] : c \in S}
<1>1. 0 \in T
  <2>1. Climbing(parents, 0, [n \in 0..0 |-> DOMAIN parents]) BY DEF Climbing
  <2>2. QED BY <2>1
<1>2. ASSUME NEW k \in Nat, k \in T PROVE k + 1 \in T
  <2>1. PICK up : Climbing(parents, k, up) BY <1>2
  <2> DEFINE g == [n \in 0..(k + 1) |-> IF n <= k THEN up[n] ELSE over(up[k])]
  <2>2. up[0] = DOMAIN parents /\ \A n \in 1..k : up[n] = over(up[n - 1])
    <3>1. \A n \in 0..k : up[n] = IF n = 0 THEN DOMAIN parents ELSE over(up[n - 1])
      BY <2>1 DEF Climbing
    <3>2. 0 \in 0..k /\ \A n \in 1..k : n \in 0..k /\ n # 0 OBVIOUS
    <3> HIDE DEF over
    <3>3. QED BY <3>1, <3>2
  <2> HIDE DEF over
  <2>3. \A n \in 0..(k + 1) : g[n] = IF n = 0 THEN DOMAIN parents ELSE over(g[n - 1])
    <3>1. g[0] = DOMAIN parents BY <2>2
    <3>2. \A n \in 1..k : g[n] = up[n] /\ g[n - 1] = up[n - 1] OBVIOUS
    <3>3. g[k + 1] = over(up[k]) /\ g[(k + 1) - 1] = up[k] OBVIOUS
    <3>4. \A n \in 0..(k + 1) : n = 0 \/ n \in 1..k \/ n = k + 1 OBVIOUS
    <3> HIDE DEF g
    <3>5. QED BY <2>2, <3>1, <3>2, <3>3, <3>4
  <2>4. g = [n \in 0..(k + 1) |-> IF n = 0 THEN DOMAIN parents ELSE over(g[n - 1])]
    <3>1. g = [n \in 0..(k + 1) |-> g[n]] OBVIOUS
    <3> HIDE DEF g
    <3>2. QED BY <2>3, <3>1
  <2>5. Climbing(parents, k + 1, g) BY <2>4 DEF Climbing, over
  <2>6. QED BY <2>5
<1>3. QED
  <2> HIDE DEF T
  <2>1. Nat \subseteq T BY <1>1, <1>2, SetInduction
  <2>2. QED BY <2>1 DEF T

LEMMA TopsOfClimbs ==
    ASSUME NEW parents, Static!ParentsKnown(parents), NEW m \in Nat, NEW up,
           Climbing(parents, m, up)
    PROVE  \A n \in 0..m : up[n] = {path[n] : path \in Paths(parents, n)}
<1> DEFINE T == {n \in Nat : n <= m => up[n] = {path[n] : path \in Paths(parents, n)}}
           over(S) == UNION {parents[c] : c \in S}
<1>1. \A n \in 0..m : up[n] = IF n = 0 THEN DOMAIN parents ELSE over(up[n - 1])
  BY DEF Climbing
<1>2. 0 \in T
  <2>1. up[0] = DOMAIN parents
    <3>1. 0 \in 0..m OBVIOUS
    <3> HIDE DEF over
    <3>2. QED BY <1>1, <3>1
  <2>2. ASSUME NEW c \in DOMAIN parents
        PROVE  \E path \in Paths(parents, 0) : path[0] = c
    BY ClimbNothing DEF Climbs
  <2>3. \A path \in Paths(parents, 0) : path[0] \in DOMAIN parents BY DEF Paths
  <2>4. QED BY <2>1, <2>2, <2>3
<1>3. ASSUME NEW n \in Nat, n \in T PROVE n + 1 \in T
  <2> SUFFICES ASSUME n + 1 <= m
               PROVE  up[n + 1] = {path[n + 1] : path \in Paths(parents, n + 1)}
    OBVIOUS
  <2>1. up[n + 1] = over(up[n])
    <3>1. n + 1 \in 0..m /\ n + 1 # 0 /\ (n + 1) - 1 = n OBVIOUS
    <3> HIDE DEF over
    <3>2. QED BY <1>1, <3>1
  <2>2. up[n] = {path[n] : path \in Paths(parents, n)} BY <1>3
  <2>3. ASSUME NEW path \in Paths(parents, n + 1) PROVE path[n + 1] \in up[n + 1]
    <3> DEFINE part == [i \in 0..n |-> path[i]]
    <3>1. /\ path \in [0..(n + 1) -> DOMAIN parents]
          /\ \A i \in 1..(n + 1) : path[i] \in parents[path[i - 1]]
      BY DEF Paths
    <3>2. part \in [0..n -> DOMAIN parents]
      <4>1. \A i \in 0..n : i \in 0..(n + 1) OBVIOUS
      <4>2. QED BY <3>1, <4>1
    <3>3. \A i \in 1..n : part[i] \in parents[part[i - 1]]
      <4>1. \A i \in 1..n : i \in 0..n /\ i - 1 \in 0..n /\ i \in 1..(n + 1) OBVIOUS
      <4>2. QED BY <3>1, <4>1
    <3>4. part \in Paths(parents, n) /\ part[n] = path[n] BY <3>2, <3>3 DEF Paths
    <3>5. path[n] \in up[n] BY <2>2, <3>4
    <3>6. n + 1 \in 1..(n + 1) /\ (n + 1) - 1 = n OBVIOUS
    <3>7. path[n + 1] \in parents[path[n]] BY <3>1, <3>6
    <3>8. QED BY <2>1, <3>5, <3>7
  <2>4. ASSUME NEW p \in up[n + 1]
        PROVE  \E path \in Paths(parents, n + 1) : path[n + 1] = p
    <3>1. PICK c \in up[n] : p \in parents[c] BY <2>1
    <3>2. PICK path \in Paths(parents, n) : path[n] = c BY <2>2
    <3> DEFINE whole == [i \in 0..(n + 1) |-> IF i <= n THEN path[i] ELSE p]
    <3>3. /\ path \in [0..n -> DOMAIN parents]
          /\ \A i \in 1..n : path[i] \in parents[path[i - 1]]
      BY DEF Paths
    <3>4. c \in DOMAIN parents /\ p \in DOMAIN parents
      <4>1. c \in DOMAIN parents BY <3>2, <3>3
      <4>2. QED BY <3>1, <4>1 DEF Static!ParentsKnown
    <3>5. whole \in [0..(n + 1) -> DOMAIN parents]
      <4>1. \A i \in 0..(n + 1) : i <= n => i \in 0..n OBVIOUS
      <4>2. QED BY <3>3, <3>4, <4>1
    <3>6. ASSUME NEW i \in 1..(n + 1) PROVE whole[i] \in parents[whole[i - 1]]
      <4>1. i \in 0..(n + 1) /\ i - 1 \in 0..(n + 1) /\ i - 1 <= n OBVIOUS
      <4>2. whole[i - 1] = path[i - 1] BY <4>1
      <4>3. CASE i <= n
        <5>1. whole[i] = path[i] /\ i \in 1..n BY <4>1, <4>3
        <5>2. QED BY <3>3, <4>2, <5>1
      <4>4. CASE ~(i <= n)
        <5>1. i = n + 1 BY <4>4
        <5>2. whole[i] = p /\ i - 1 = n BY <4>1, <4>4, <5>1
        <5>3. QED BY <3>1, <3>2, <4>2, <5>2
      <4>5. QED BY <4>3, <4>4
    <3>7. whole \in Paths(parents, n + 1) BY <3>5, <3>6 DEF Paths
    <3>8. whole[n + 1] = p OBVIOUS
    <3>9. QED BY <3>7, <3>8
  <2>5. QED BY <2>3, <2>4
<1>4. QED
  <2> HIDE DEF T
  <2>1. Nat \subseteq T BY <1>2, <1>3, SetInduction
  <2>2. QED BY <2>1 DEF T

LEMMA ClimbIsTop ==
    ASSUME NEW parents, Static!ParentsKnown(parents), MaximumEdges \in Nat
    PROVE  Climb(parents) = {} <=>
               \A c \in DOMAIN parents : ~Climbs(parents, c, MaximumEdges + 1)
<1> DEFINE n == MaximumEdges + 1
           up == CHOOSE up : Climbing(parents, n, up)
<1>1. Climb(parents) = up[n] BY DEF Climb, Climbing
<1>2. n \in Nat OBVIOUS
<1>3. Climbing(parents, n, up) BY <1>2, ClimbingExists
<1> HIDE DEF up
<1>4. up[n] = {path[n] : path \in Paths(parents, n)} BY <1>2, <1>3, TopsOfClimbs
<1>5. \A path \in Paths(parents, n) : path[0] \in DOMAIN parents BY <1>2 DEF Paths
<1>6. up[n] = {} <=> Paths(parents, n) = {} BY <1>4
<1>7. Paths(parents, n) = {} <=> \A c \in DOMAIN parents : ~Climbs(parents, c, n)
  BY <1>5 DEF Climbs
<1>8. QED BY <1>1, <1>6, <1>7

(* The walk judges right.                                                  *)
LEMMA WalkJudgesRight ==
    ASSUME NEW parents, IsFiniteSet(DOMAIN parents), Static!ParentsKnown(parents),
           MaximumEdges \in Nat
    PROVE  Climb(parents) = {} <=>
               \A c \in DOMAIN parents : /\ Static!DepthOf(parents)[c] # Static!Cyclic
                                         /\ ~Static!TooDeep(Static!DepthOf(parents)[c])
<1> DEFINE depth == CHOOSE depth : Reports(parents, depth)
           D == DOMAIN parents
<1>1. Reports(parents, depth) BY ReportExists
<1>2. \A c \in D : Static!DepthOf(parents)[c] = depth[<<c, {}>>] BY DepthReported
<1> HIDE DEF depth
<1>3. ASSUME NEW c \in D PROVE <<c, {}>> \in Walks(parents) BY DEF Walks
<1>4. ASSUME NEW c \in D, depth[<<c, {}>>] # Static!Cyclic
      PROVE  Climbs(parents, c, MaximumEdges + 1) <=> Static!TooDeep(depth[<<c, {}>>])
  <2>1. /\ depth[<<c, {}>>] \in Nat
        /\ \A n \in Nat : Climbs(parents, c, n) <=> n <= depth[<<c, {}>>]
    BY <1>1, <1>3, <1>4, ReportMeasures
  <2>2. Climbs(parents, c, MaximumEdges + 1) <=> MaximumEdges + 1 <= depth[<<c, {}>>] BY <2>1
  <2>3. QED BY <2>1, <2>2 DEF Static!TooDeep
<1>5. ASSUME \A c \in D : ~Climbs(parents, c, MaximumEdges + 1), NEW c \in D
      PROVE  depth[<<c, {}>>] # Static!Cyclic
  <2>1. MaximumEdges + 1 \in Nat OBVIOUS
  <2>2. QED BY <1>1, <1>3, <1>5, <2>1, NoCycleFound
<1>6. QED BY <1>2, <1>4, <1>5, ClimbIsTop

(* A static catalog is refused exactly for what is wrong with it: the      *)
(* process runs from the first if and only if the hierarchy is one in which*)
(* every Collection named is known and none is too far from the top or on a*)
(* cycle (HierarchyJudgedRight).                                           *)
THEOREM HierarchyJudged == Spec => []HierarchyJudgedRight
<1> DEFINE Judged == (phase # "refused to start") <=> Started(setting, setting.catalog.offerings)
           Right == IsStatic => Judged
<1>1. Init => setting \in Cases /\ Right
  BY DEF Init, IsStatic
<1>2. setting \in Cases /\ Right /\ [Next]_vars => (setting \in Cases /\ Right)'
  <2>1. SUFFICES ASSUME setting \in Cases, Right, [Next]_vars
                 PROVE  (setting \in Cases /\ Right)'
    OBVIOUS
  <2>2. setting' = setting /\ (phase' = "refused to start" <=> phase = "refused to start")
    <3>1. CASE UNCHANGED vars BY <3>1 DEF vars
    <3>2. CASE Ask \/ Confirm \/ FollowNext
      BY <3>2 DEF Ask, Confirm, FollowNext, Send, world
    <3>3. CASE Refuse \/ Describe \/ StaticServes \/ ApplicationServes
      BY <3>3 DEF Refuse, Describe, StaticServes, ApplicationServes, Handle, Answer, world
    <3>4. CASE TakeRepresentation \/ TakeConfirmation \/ TakeFailure
      BY <3>4 DEF TakeRepresentation, TakeConfirmation, TakeFailure, world
    <3>5. CASE Tick \/ Restart BY <3>5 DEF Tick, Restart, world
    <3>6. QED BY <2>1, <3>1, <3>2, <3>3, <3>4, <3>5 DEF Next
  <2>3. QED BY <2>1, <2>2 DEF IsStatic, Started
<1>3. setting \in Cases /\ Right => HierarchyJudgedRight
  <2> DEFINE catalog == setting.catalog
  <2>1. SUFFICES ASSUME setting \in Cases, Right, IsStatic, CanServe(setting.options),
                        catalog.keyLength \notin 1..31,
                        Static!Presentable(catalog.offerings, catalog.collections)
                 PROVE  (phase # "refused to start") <=>
                           /\ \A o \in ToSet(catalog.offerings) :
                                 o.collections \subseteq DOMAIN catalog.parents
                           /\ \A c \in DOMAIN catalog.parents :
                                 catalog.parents[c] \subseteq DOMAIN catalog.parents
                           /\ Climb(catalog.parents) = {}
    BY DEF HierarchyJudgedRight
  <2>2. IsFiniteSet(DOMAIN catalog.parents) /\ catalog.keyLength \in Nat
    BY <2>1, CasesAssumption DEF IsStatic, IsStaticCase
  <2>3. MaximumEdges \in Nat BY ConstantsAssumption
  <2>4. catalog.keyLength = 0 \/ catalog.keyLength >= 32
    <3>1. \A k \in Nat : k \notin 1..31 => k = 0 \/ k >= 32 OBVIOUS
    <3> HIDE DEF catalog
    <3>2. QED BY <2>1, <2>2, <3>1
  <2>5. (phase # "refused to start") <=>
            Static!RelationshipsValid(catalog.offerings, catalog.parents)
    BY <2>1, <2>4 DEF Started, IsStatic, Static!Accepted
  <2>6. Static!ParentsKnown(catalog.parents) <=>
            \A c \in DOMAIN catalog.parents :
               catalog.parents[c] \subseteq DOMAIN catalog.parents
    BY DEF Static!ParentsKnown
  <2>7. Static!MembersKnown(catalog.offerings, catalog.parents) <=>
            \A o \in ToSet(catalog.offerings) : o.collections \subseteq DOMAIN catalog.parents
    BY DEF Static!MembersKnown, Static!ToSet, ToSet
  <2> HIDE DEF catalog
  <2>8. Static!ParentsKnown(catalog.parents) =>
            (Climb(catalog.parents) = {} <=>
                \A c \in DOMAIN catalog.parents :
                   /\ Static!DepthOf(catalog.parents)[c] # Static!Cyclic
                   /\ ~Static!TooDeep(Static!DepthOf(catalog.parents)[c]))
    BY <2>2, <2>3, WalkJudgesRight
  <2>9. QED BY <2>5, <2>6, <2>7, <2>8 DEF Static!RelationshipsValid
<1>4. QED BY <1>1, <1>2, <1>3, PTL DEF Spec
=============================================================================
