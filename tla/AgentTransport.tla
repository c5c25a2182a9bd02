--------------------------- MODULE AgentTransport ---------------------------
(***************************************************************************)
(* How a ServiceClient retrieves a representation: request                 *)
(* (agent/transport.go) for the Service's own resources, supportingJSON    *)
(* (agent/supporting.go) for schemas and OpenAPI documents, the inspection *)
(* gate of Inspect (agent/client.go), and the cache they share.  Calls run *)
(* concurrently; each cache operation is atomic and nothing larger is, so  *)
(* what a call read before it asked may be stale by the time it stores.    *)
(*                                                                         *)
(* A representation is named by what it was made from: the URL, the change *)
(* of the site that published it, and the caller it was made for.  Of its  *)
(* content only its form matters: "valid", "unfit" when it parses but the  *)
(* validator refuses it (nested too deep, or another resource's), and      *)
(* "malformed" when it does not parse.                                     *)
(***************************************************************************)
EXTENDS Integers

CONSTANTS
    Callers,       \* goroutines that make calls, one at a time
    Mixes,         \* the calls they may make: functions from Callers to calls
    Urls,          \* URLs of the origin the calls are for
    Foreign,       \* a URL of another origin
    NoPayload,     \* the absent request body
    Replies,       \* headers of an answer: [directive, grant, vary]
    Layouts,       \* what the URLs may answer at first
    Fallback,      \* the lifetime of an answer that states none
    MaxRedirects,  \* maxRedirects
    Tagged,        \* whether the Service sends entity tags
    MaxTime, MaxRevision,   \* bounds: the clock, and changes of the site
    Quota          \* bound: how many calls each caller makes

ASSUME ConstantsAssumption ==
    /\ Foreign \notin Urls
    /\ Mixes \subseteq [Callers -> [kind : {"inspect", "read", "support"},
           partition : STRING, method : {"GET", "POST"}, url : Urls,
           language : STRING, payload : {NoPayload} \cup STRING]]
    /\ Replies \subseteq [directive : {"none", "no-store", "no-cache", "lifetime"},
                         grant : Int, vary : BOOLEAN]
    /\ Layouts \subseteq [Urls -> Urls \cup {Foreign, "here", "gone"}]
    /\ Fallback \in Nat /\ MaxRedirects \in Nat /\ Tagged \in BOOLEAN
    /\ {MaxTime, MaxRevision} \subseteq Nat /\ Quota \in [Callers -> Nat]

NoRecord == [body |-> "no record"]
NoTag == [url |-> "no tag"]
NoReply == [status |-> "none"]
NoResult == [freshness |-> "none"]
Failed == [freshness |-> "failed"]

VARIABLES
    call,       \* what each caller calls for
    now,        \* time.Now()
    revision,   \* how often the site has changed
    published,  \* the change that last published each URL's representation
    firstForm,  \* the form of what was published at first
    target,     \* what each URL answers: "here", "gone", or a redirect
    store,      \* MemoryCache.records
    gate,       \* inspectionGate: the inspections inside
    pc, held, at, verb, payload, hops, reply,  \* each call's locals:
                \* record, current, method, body, redirects, response
    result,     \* and what it returns
    made,       \* history: calls made
    inspected   \* history: as of which change the last inspection returned was

site == <<revision, published, firstForm, target>>
locals == <<held, at, verb, payload, hops>>
history == <<made, inspected>>
vars == <<call, now, site, store, gate, pc, locals, reply, result, history>>

-----------------------------------------------------------------------------
Forms == {"valid", "unfit", "malformed"}
Parses(body) == body.form # "malformed"

(* Mutants: the definitions below as a plausible slip would have them.     *)
KeyWithoutPartition(c) == [c EXCEPT !.partition = "public"]
ParsesAlone(c, body) == Parses(body)
EchoUnchecked(h, m) == FALSE
KeptSince(h) == h.stored
GateOpen == TRUE
HopsForgotten(c) == hops[c]
OneHopTooMany(c) == hops[c] > MaxRedirects

-----------------------------------------------------------------------------
(* cacheKey: the call, all of it, names what is stored.                    *)
Spoken(c) == [partition |-> c.partition, method |-> c.method, url |-> c.url,
              language |-> c.language, payload |-> c.payload]
CacheKey(c) == c
KeyOf(c) == CacheKey(Spoken(call[c]))
Keys == {CacheKey(Spoken(mix[c])) : mix \in Mixes, c \in Callers}

SameOrigin(u) == u \in Urls

(* validate, as Inspect, getWithInspection and the page loops give it to   *)
(* request; of what is cached supportingJSON asks no more than that it     *)
(* parses.                                                                 *)
Validates(c, body) ==
    IF call[c].kind = "support" THEN Parses(body) ELSE body.form = "valid"

(* What the Service makes at URL u for the caller with the payload it sent.*)
Representation(u, rev, k, sent) ==
    [url |-> u, revision |-> rev, partition |-> k.partition, language |-> k.language,
     payload |-> sent, form |-> IF rev = 0 THEN firstForm ELSE "valid"]

(* Records a persistent cache may hold from before: one whose body, taken  *)
(* by an earlier release, no longer validates, and one put there from      *)
(* another origin.                                                         *)
Outdated(k) ==
    LET body == Representation(k.url, 0, k, k.payload)
    IN  [body |-> body, tag |-> IF Tagged THEN body ELSE NoTag,
         date |-> 0, final |-> k.url, stored |-> 0, expires |-> 1, asOf |-> 0]
Planted(k) ==
    [body |-> Representation(Foreign, 0, k, k.payload), tag |-> NoTag,
     date |-> 0, final |-> Foreign, stored |-> 0, expires |-> 1, asOf |-> 0]

Wanted == {KeyOf(c) : c \in Callers}

Init ==
    /\ call \in Mixes
    /\ now = 0
    /\ revision = 0
    /\ published = [u \in Urls |-> 0]
    /\ target \in Layouts
    /\ \E seed \in {"none", "outdated", "planted"} :
           /\ firstForm \in IF seed = "outdated" THEN {"unfit", "malformed"} ELSE {"valid"}
           /\ store = [k \in Keys |->
                  CASE seed = "outdated" /\ k \in Wanted -> Outdated(k)
                    [] seed = "planted" /\ k \in Wanted -> Planted(k)
                    [] OTHER -> NoRecord]
    /\ gate = {}
    /\ pc = [c \in Callers |-> "idle"]
    /\ held = [c \in Callers |-> NoRecord]
    /\ at = [c \in Callers |-> call[c].url]
    /\ verb = [c \in Callers |-> call[c].method]
    /\ payload = [c \in Callers |-> call[c].payload]
    /\ hops = [c \in Callers |-> 0]
    /\ reply = [c \in Callers |-> NoReply]
    /\ result = [c \in Callers |-> NoResult]
    /\ made = [c \in Callers |-> 0]
    /\ inspected = 0

(* The locals as a call starts asking with them; they die when it returns. *)
Settle(c, record, u) ==
    /\ held' = [held EXCEPT ![c] = record]
    /\ at' = [at EXCEPT ![c] = u]
    /\ verb' = [verb EXCEPT ![c] = call[c].method]
    /\ payload' = [payload EXCEPT ![c] = call[c].payload]
    /\ hops' = [hops EXCEPT ![c] = 0]

Goto(c, where) == pc' = [pc EXCEPT ![c] = where]
Return(c, value) ==
    /\ Goto(c, "returned")
    /\ result' = [result EXCEPT ![c] = value]
    /\ Settle(c, NoRecord, call[c].url)
    /\ reply' = [reply EXCEPT ![c] = NoReply]
Fail(c) == Return(c, Failed)
Keep(c, record) == store' = [store EXCEPT ![KeyOf(c)] = record]
Delete(c) == Keep(c, NoRecord)

-----------------------------------------------------------------------------
(* A call begins; an inspection first enters the client's gate, or leaves  *)
(* when its context is done.                                               *)
Begin(c) ==
    /\ pc[c] = "idle"
    /\ made[c] < Quota[c]
    /\ made' = [made EXCEPT ![c] = @ + 1]
    /\ Goto(c, IF call[c].kind = "inspect" THEN "gate" ELSE "lookup")
    /\ UNCHANGED <<call, now, site, store, gate, locals, reply, result, inspected>>

GateFree == gate = {}

EnterGate(c) ==
    /\ pc[c] = "gate"
    /\ GateFree
    /\ gate' = gate \cup {c}
    /\ Goto(c, "lookup")
    /\ UNCHANGED <<call, now, site, store, locals, reply, result, history>>

LeaveQueue(c) ==
    /\ pc[c] = "gate"
    /\ Fail(c)
    /\ UNCHANGED <<call, now, site, store, gate, history>>

-----------------------------------------------------------------------------
(* cache.Get and what is made of it.                                       *)
Ask(c, record, u) == Goto(c, "asked") /\ Settle(c, record, u)

Found(c) == store[KeyOf(c)]
IsFresh(record) == now < record.expires
(* request asks where the record was found, supportingJSON where it was    *)
(* told to; both send the record's validators.                             *)
StartAt(c, record) == IF call[c].kind = "support" THEN call[c].url ELSE record.final

Miss(c) ==
    /\ pc[c] = "lookup"
    /\ Found(c) = NoRecord
    /\ Ask(c, NoRecord, call[c].url)
    /\ UNCHANGED <<call, now, site, store, gate, reply, result, history>>

(* The record came from another origin: it is deleted and not used.        *)
Disown(c) ==
    /\ pc[c] = "lookup"
    /\ Found(c) # NoRecord
    /\ ~SameOrigin(Found(c).final)
    /\ Goto(c, "disown")
    /\ UNCHANGED <<call, now, site, store, gate, locals, reply, result, history>>

DeleteDisowned(c) ==
    /\ pc[c] = "disown"
    /\ Delete(c)
    /\ Ask(c, NoRecord, call[c].url)
    /\ UNCHANGED <<call, now, site, gate, reply, result, history>>

Hit(c) ==
    /\ pc[c] = "lookup"
    /\ Found(c) # NoRecord
    /\ SameOrigin(Found(c).final)
    /\ IsFresh(Found(c))
    /\ IF Validates(c, Found(c).body)
       THEN Return(c, [freshness |-> "fresh", body |-> Found(c).body, final |-> Found(c).final,
                       confirmed |-> Found(c).body, asOf |-> Found(c).asOf, uncovered |-> FALSE])
       ELSE Goto(c, "discard") /\ UNCHANGED <<result, reply, locals>>
    /\ UNCHANGED <<call, now, site, store, gate, history>>

DeleteInvalid(c) ==
    /\ pc[c] = "discard"
    /\ Delete(c)
    /\ Fail(c)
    /\ UNCHANGED <<call, now, site, gate, history>>

Revalidate(c) ==
    /\ pc[c] = "lookup"
    /\ Found(c) # NoRecord
    /\ SameOrigin(Found(c).final)
    /\ ~IsFresh(Found(c))
    /\ Ask(c, Found(c), StartAt(c, Found(c)))
    /\ UNCHANGED <<call, now, site, store, gate, reply, result, history>>

-----------------------------------------------------------------------------
(* The Service answers what was asked, as it stands at that moment.  A     *)
(* matched tag is a 304 on GET and a 412 on POST; a Service may also go by *)
(* the date alone, ignore conditions, or confirm what nobody asked about.  *)
Current(c) == Representation(at[c], published[at[c]], call[c], payload[c])
TagMatches(c) == held[c] # NoRecord /\ held[c].tag = Current(c)
DateMatches(c) == held[c] # NoRecord /\ verb[c] = "GET" /\ published[at[c]] <= held[c].date
MayConfirm(c) ==
    verb[c] = "GET" /\ (TagMatches(c) \/ DateMatches(c) \/ held[c] = NoRecord)

AnswerWith(c, m) ==
    /\ reply' = [reply EXCEPT ![c] = m]
    /\ Goto(c, "answered")
    /\ UNCHANGED <<call, now, site, store, gate, locals, result, history>>

Redirects(c) ==
    /\ pc[c] = "asked"
    /\ target[at[c]] \in Urls \cup {Foreign}
    /\ \E becomesGet \in IF verb[c] = "POST" THEN BOOLEAN ELSE {FALSE} :
           AnswerWith(c, [status |-> "redirect", to |-> target[at[c]],
                          becomesGet |-> becomesGet])

Refuses(c) ==
    /\ pc[c] = "asked"
    /\ \/ target[at[c]] = "gone"
       \/ target[at[c]] = "here" /\ verb[c] = "POST" /\ TagMatches(c)
    /\ AnswerWith(c, [status |-> "refused"])

Serves(c) ==
    /\ pc[c] = "asked"
    /\ target[at[c]] = "here"
    /\ \E status \in {"body"} \cup (IF MayConfirm(c) THEN {"unmodified"} ELSE {}), h \in Replies :
           AnswerWith(c, [status |-> status, body |-> Current(c), headers |-> h,
                          tag |-> IF Tagged THEN Current(c) ELSE NoTag, asOf |-> revision])

-----------------------------------------------------------------------------
(* What the client makes of the answer.                                    *)
HopsSpent(c) == hops[c] >= MaxRedirects
CountHop(c) == hops[c] + 1

Follow(c) ==
    /\ pc[c] = "answered"
    /\ reply[c].status = "redirect"
    /\ \/ /\ HopsSpent(c) \/ ~SameOrigin(reply[c].to)
          /\ Fail(c)
       \/ /\ ~HopsSpent(c) /\ SameOrigin(reply[c].to)
          /\ Goto(c, "asked")
          /\ at' = [at EXCEPT ![c] = reply[c].to]
          /\ hops' = [hops EXCEPT ![c] = CountHop(c)]
          /\ IF reply[c].becomesGet
             THEN /\ verb' = [verb EXCEPT ![c] = "GET"]
                  /\ payload' = [payload EXCEPT ![c] = NoPayload]
             ELSE UNCHANGED <<verb, payload>>
          /\ reply' = [reply EXCEPT ![c] = NoReply]
          /\ UNCHANGED <<held, result>>
    /\ UNCHANGED <<call, now, site, store, gate, history>>

(* A status outside 2xx, a 304 with nothing held that it could confirm, or *)
(* a body the validator refuses; the record, if there is one, stays.       *)
Refusal(c) ==
    /\ pc[c] = "answered"
    /\ \/ reply[c].status = "refused"
       \/ reply[c].status = "unmodified" /\ held[c] = NoRecord
       \/ reply[c].status = "body" /\ reply[c].body.form # "valid"
    /\ Fail(c)
    /\ UNCHANGED <<call, now, site, store, gate, history>>

(* No answer, or one of the wrong size or type: nothing is stored.         *)
Unusable(c) ==
    /\ \/ pc[c] = "asked"
       \/ pc[c] = "answered" /\ reply[c].status = "body"
    /\ Fail(c)
    /\ UNCHANGED <<call, now, site, store, gate, history>>

(* hasFreshnessDirective, expiry, cacheable, supportedVary.                *)
StatesFreshness(h) == h.directive # "none"
Expiry(h) ==
    CASE h.directive \in {"no-store", "no-cache"} -> now
      [] h.directive = "lifetime" -> now + h.grant
      [] h.directive = "none" -> now + Fallback
Cacheable(method, h) ==
    /\ h.vary
    /\ h.directive # "no-store"
    /\ \/ method = "GET" /\ (Fallback > 0 \/ h.directive = "no-cache")
       \/ h.directive = "lifetime"

Since(h) == now
Lifetime(record) == LET l == record.expires - record.stored IN IF l > 0 THEN l ELSE 0
Contradicts(h, m) == m.tag # NoTag /\ m.tag # h.tag

Refreshed(c, m) ==
    [held[c] EXCEPT
        !.expires = IF StatesFreshness(m.headers) THEN Expiry(m.headers)
                    ELSE now + Lifetime(held[c]),
        !.date = m.body.revision,
        !.final = at[c],
        !.stored = Since(held[c]),
        !.asOf = m.asOf]

(* What is held is validated, unless the 304 carries a Vary the key does   *)
(* not cover: then it is returned as it is, and only parsed by the caller. *)
Accepted(c, m) == IF m.headers.vary THEN Validates(c, held[c].body) ELSE Parses(held[c].body)
Revalidated(c, m) ==
    IF Accepted(c, m)
    THEN [freshness |-> "revalidated", body |-> held[c].body, final |-> at[c],
          confirmed |-> m.body, asOf |-> m.asOf, uncovered |-> ~m.headers.vary]
    ELSE Failed

(* A 304.  A tag other than the record's deletes it and fails; a Vary the  *)
(* key does not cover, or no-store, deletes it and returns it; a body that *)
(* no longer validates is deleted by request, and stored again, to no      *)
(* avail, by supportingJSON.                                               *)
Unmodified(c) ==
    LET m == reply[c] IN
    /\ pc[c] = "answered"
    /\ m.status = "unmodified"
    /\ held[c] # NoRecord
    /\ CASE Contradicts(held[c], m) -> Delete(c) /\ Fail(c)
         [] ~Contradicts(held[c], m)
            /\ \/ ~m.headers.vary
               \/ m.headers.directive = "no-store"
               \/ call[c].kind # "support" /\ ~Validates(c, held[c].body) ->
                Delete(c) /\ Return(c, Revalidated(c, m))
         [] OTHER -> Keep(c, Refreshed(c, m)) /\ Return(c, Revalidated(c, m))
    /\ UNCHANGED <<call, now, site, gate, history>>

(* A representation: it is stored, or what is stored under its key goes.   *)
Retrieved(c, m) ==
    [body |-> m.body, tag |-> m.tag, date |-> m.body.revision, final |-> at[c],
     stored |-> now, expires |-> Expiry(m.headers), asOf |-> m.asOf]

Body(c) ==
    LET m == reply[c] IN
    /\ pc[c] = "answered"
    /\ m.status = "body"
    /\ m.body.form = "valid"
    /\ Keep(c, IF Cacheable(verb[c], m.headers) THEN Retrieved(c, m) ELSE NoRecord)
    /\ Return(c, [freshness |-> "fetched", body |-> m.body, final |-> at[c],
                  confirmed |-> m.body, asOf |-> m.asOf, uncovered |-> FALSE])
    /\ UNCHANGED <<call, now, site, gate, history>>

HasBody(r) == r \notin {NoResult, Failed}

(* The call is over; the deferred receive frees the gate.                  *)
Finish(c) ==
    /\ pc[c] = "returned"
    /\ Goto(c, "idle")
    /\ gate' = gate \ {c}
    /\ inspected' = IF call[c].kind = "inspect" /\ HasBody(result[c])
                    THEN result[c].asOf ELSE inspected
    /\ result' = [result EXCEPT ![c] = NoResult]
    /\ UNCHANGED <<call, now, site, store, locals, reply, made>>

-----------------------------------------------------------------------------
(* Time passes, and the site changes.                                      *)
Tick ==
    /\ now < MaxTime
    /\ now' = now + 1
    /\ UNCHANGED <<call, site, store, gate, pc, locals, reply, result, history>>

Publish(u) ==
    /\ revision < MaxRevision
    /\ revision' = revision + 1
    /\ published' = [published EXCEPT ![u] = revision + 1]
    /\ UNCHANGED <<call, now, firstForm, target, store, gate, pc, locals, reply, result, history>>

Move(u, t) ==
    /\ revision < MaxRevision
    /\ revision' = revision + 1
    /\ target' = [target EXCEPT ![u] = t]
    /\ UNCHANGED <<call, now, published, firstForm, store, gate, pc, locals, reply, result, history>>

Client(c) ==
    \/ EnterGate(c) \/ Miss(c) \/ Disown(c) \/ DeleteDisowned(c) \/ Hit(c) \/ DeleteInvalid(c)
    \/ Revalidate(c) \/ Follow(c) \/ Refusal(c) \/ Unmodified(c) \/ Body(c) \/ Finish(c)
Service(c) == Redirects(c) \/ Refuses(c) \/ Serves(c)
Environment ==
    \/ Tick
    \/ \E u \in Urls : Publish(u) \/ \E t \in Urls \cup {Foreign, "here", "gone"} : Move(u, t)

Done == (\A c \in Callers : pc[c] = "idle" /\ made[c] = Quota[c]) /\ UNCHANGED vars

Next ==
    \/ \E c \in Callers : Begin(c) \/ LeaveQueue(c) \/ Client(c) \/ Service(c) \/ Unusable(c)
    \/ Environment
    \/ Done

Spec == Init /\ [][Next]_vars
(* Goroutines are scheduled, and what is asked is answered in the end.     *)
FairSpec == Spec /\ \A c \in Callers : WF_vars(Client(c) \/ Service(c))

-----------------------------------------------------------------------------
Bodies == [url : Urls \cup {Foreign}, revision : 0..MaxRevision, partition : STRING,
           language : STRING, payload : {NoPayload} \cup STRING, form : Forms]
Records == [body : Bodies, tag : Bodies \cup {NoTag}, date : 0..MaxRevision,
            final : Urls \cup {Foreign}, stored : 0..MaxTime, expires : Int,
            asOf : 0..MaxRevision]
Answers == {NoReply} \cup [status : {"refused"}]
    \cup [status : {"redirect"}, to : Urls \cup {Foreign}, becomesGet : BOOLEAN]
    \cup [status : {"body", "unmodified"}, body : Bodies, headers : Replies,
          tag : Bodies \cup {NoTag}, asOf : 0..MaxRevision]
Results == [freshness : {"fresh", "revalidated", "fetched"}, body : Bodies,
            final : Urls \cup {Foreign}, confirmed : Bodies, asOf : 0..MaxRevision,
            uncovered : BOOLEAN]

TypeOK ==
    /\ call \in Mixes
    /\ now \in 0..MaxTime /\ revision \in 0..MaxRevision
    /\ published \in [Urls -> 0..MaxRevision] /\ firstForm \in Forms
    /\ target \in [Urls -> Urls \cup {Foreign, "here", "gone"}]
    /\ store \in [Keys -> Records \cup {NoRecord}]
    /\ gate \subseteq Callers
    /\ pc \in [Callers -> {"idle", "gate", "lookup", "disown", "discard", "asked", "answered",
                          "returned"}]
    /\ held \in [Callers -> Records \cup {NoRecord}]
    /\ at \in [Callers -> Urls]
    /\ verb \in [Callers -> {"GET", "POST"}]
    /\ payload \in [Callers -> {NoPayload} \cup STRING]
    /\ hops \in [Callers -> 0..MaxRedirects]
    /\ reply \in [Callers -> Answers]
    /\ result \in [Callers -> Results \cup {NoResult, Failed}]
    /\ made \in [Callers -> Nat]
    /\ inspected \in 0..MaxRevision

(* Nobody is handed what was made for someone else: whatever a call returns*)
(* was made for its partition and its language, from its own request or    *)
(* from none, fresh, revalidated or fetched, through whatever redirects    *)
(* ("prevents authenticated or payment-dependent representations from      *)
(* sharing a public cache key", agent/README.md).                          *)
MadeFor(b, k) ==
    b.partition = k.partition /\ b.language = k.language /\ b.payload \in {k.payload, NoPayload}
PrincipalIsolation ==
    \A c \in Callers : HasBody(result[c]) => MadeFor(result[c].body, call[c])

(* A body returned as revalidated is the one the Service vouched for: what *)
(* the URL the answer came from was serving when it answered.              *)
RevalidatedIsConfirmed ==
    \A c \in Callers : HasBody(result[c]) => result[c].body = result[c].confirmed

(* Nothing from another origin and nothing that does not parse reaches a   *)
(* caller, whatever a persistent cache held, and nothing its validator     *)
(* refuses but for two ways past it: supportingJSON repeats none of its    *)
(* limits on what it cached, and a 304 whose Vary the key does not cover   *)
(* returns before it validates (transport.go, supporting.go).              *)
PastTheValidator(c) ==
    \/ result[c].uncovered
    \/ call[c].kind = "support" /\ result[c].freshness # "fetched"
OnlyCheckedBodiesOfTheOrigin ==
    \A c \in Callers : HasBody(result[c]) =>
        /\ result[c].body.url \in Urls
        /\ Parses(result[c].body)
        /\ result[c].body.form = "valid" \/ PastTheValidator(c)

(* No record is kept for longer than a lifetime the Service grants or the  *)
(* fallback gives, however often it is revalidated without a new one: an   *)
(* extension is never counted on top of an extension.                      *)
Lifetimes == {Fallback, 1} \cup {h.grant : h \in Replies}
LifetimeGranted(record) == \E l \in Lifetimes : record.expires - record.stored <= l
LifetimesAreGranted ==
    \A k \in Keys : store[k] # NoRecord => LifetimeGranted(store[k])

(* An inspection never returns a Service Document older than the one the   *)
(* inspection before it returned: what the gate is for.                    *)
InspectionsNeverGoBack == [][inspected' >= inspected]_vars

(* Every call returns, whatever redirects to what, and frees the gate.     *)
EveryCallReturns == \A c \in Callers : pc[c] # "idle" ~> pc[c] = "idle"
=============================================================================
