# Verification of odp-go

TLA+ models of the Go implementation of the Offering Discovery Protocol, the
TLC runs that check them on small instances, and theorems about them that the
TLA+ proof system checks. The models are read from the code; paths below are
relative to the repository.

To check a module: `tlc -config MCFederatedSearch.cfg MCFederatedSearch`.
To check its proofs: `tlapm FederatedSearch_proofs.tla`.

## 1. The system

The repository is a library with three parties: an **Agent** that looks for
offerings, a **directory** that lists Services, and **Services** that publish
offerings as JSON over HTTP. The root package holds the documents and their
rules, `directory` the client of the directory, `agent` the client of Services
and the search across them, `service` the HTTP handler of a Service.

| Component | State it keeps | Operations | What makes it correct |
|---|---|---|---|
| Page iteration (`pagination.go`) | current page, counter, visited continuations | `IteratePages`, `IterateItems` | items of the chain, in order, once; ends; says why |
| Directory client (`directory/client.go`, `search.go`) | per call: current URL, method, body, page number, visited URLs | `Search`, `SearchServices`, `Continue...`; `Suggest...`, `CheckOrigin` | budgets of pages and items, every record an item or an issue, loops found, the search body sent with the POST only |
| Directory codecs (`directory/validation.go`, `types.go`, `source.go`) | none | parse and validate documents | accept what is valid, field by field |
| Agent, one Service (`agent/client.go`) | per call: page, visited references, counters | lists, searches and continuations of Collections and Offerings; `Get...` | as for the directory, and refinements only where asked for |
| Agent, inspection gate (`agent/client.go`) | one slot | `Inspect` | inspections of a client do not overtake each other |
| Agent, transport (`agent/transport.go`, `supporting.go`) | per call: the record read, URL, method, body, hops | `request`, `supportingJSON` | no representation to the wrong principal or of another origin; what is called revalidated was confirmed; lifetimes granted, not made up |
| Agent, cache (`agent/cache.go`) | records by key | `Get`, `Set`, `Delete`, each atomic | the transport's properties, whoever shares it |
| Agent, federated search (`agent/agent.go`) | goroutines, semaphore, result channels, two contexts | `SearchOfferingsAcrossServices` | bounded concurrency, directory order, nothing wanted dropped, no goroutine left |
| Agent, Actions and details (`agent/offerings.go`, `types.go`) | per call: the details so far | `GetOffering`, `GetCollection`, `GetOfferingDetails`, `ResolveAction` | every Action usable or reported; attributes shown only when validated |
| Agent, capabilities (`agent/capabilities.go`) | per call: filters and sorts exposed so far, pages visited | `GetOfferingSearchCapabilities`, `GetCollectionSearchCapabilities` | nothing exposed that two sources define, or that came from half a source; nothing left out in silence |
| Agent, schemas (`agent/schemas.go`, `openapi.go`) | per call: documents loaded, bytes, level | load a schema and what it references; find an OpenAPI operation | accepted whole within limits, no document twice |
| Agent, dial policy (`agent/network.go`) | none | which addresses may be dialled | no state |
| Service runtime (`service/service.go`) | the Service Document, catalog functions | `ServeHTTP`: routing, negotiation, catalog call, answer | one answer, of the right status, within limits |
| Static catalog (`service/static_catalog.go`) | the lists, the key of its cursors | list, get, page by signed cursor | pages tile the list; a cursor works for its own request, for a while |
| Documents (`models.go`, `additional.go`, `validation.go`, ...) | none | decode, validate, encode, keep unknown members | format rules |
| References (`references.go`, `identity.go`) | none | resolve references, derive origins, build URLs | string rules |
| Commands, examples, schemas, vectors, scripts | none | adapters and data | not part of the library |

**How they interact.** A federated search asks the directory client for
Services (a search traversal), starts one goroutine for each, and each runs an
Agent traversal against its Service. A traversal begins with an inspection
(behind the gate) and requests its pages through the transport, which reads
and writes the cache that concurrent calls, and other clients if the
application shares it, also use. A Service answers through its runtime, whose
entity tags and statuses decide what the transport may store and confirm; a
static catalog behind it makes the continuations that traversals follow.

**What is hard.** Three things. *Interleaving*: goroutines against a collector
that can be stopped or cancelled at any event; and calls that read a cache
record, wait for the network, and write the record back. *Sequences*: chains of
continuations and redirects chosen by the other side, with budgets and guards
at every boundary, resumed in the middle. *Stale knowledge*: a record whose
URL, validators, lifetime or body no longer stand for what the caller asks.
`PROJECT.json` lists each hazard at its line.

## 2. The modules

| Module | Models | Checked by | Proved in |
|---|---|---|---|
| `Traversal` | what every traversal promises: abstract specification | through the three below | |
| `PageIterator` | `pagination.go` | `MCPageIterator` | `PageIterator_proofs` |
| `DirectoryTraversal` | `directory/client.go`, `search.go`, `parsePage` | `MCDirectoryTraversal` | `DirectoryTraversal_proofs` |
| `AgentTraversal` | the page and item loops of `agent/client.go` | `MCAgentTraversal` | `AgentTraversal_proofs` |
| `FederatedSearch` | `agent/agent.go` | `MCFederatedSearch` | `FederatedSearch_proofs` |
| `AgentTransport` | `agent/transport.go`, `supporting.go`, `cache.go`, the gate | `MCAgentTransport` | `AgentTransport_proofs` |
| `Negotiation` | `Accept` and `Accept-Language` in `service/service.go` | `MCServedCatalog` | as part of the next three |
| `References` | `references.go` | the three below | |
| `ServiceRuntime` | `service/service.go`: `New`, and one request through the handler | `MCServedCatalog` | `ServedCatalog_proofs` |
| `StaticCatalog` | `service/static_catalog.go` | `MCServedCatalog` | `ServedCatalog_proofs` |
| `ServedCatalog` | the two composed, with an Agent, a clock and restarts | `MCServedCatalog` | `ServedCatalog_proofs` |
| `AgentDocuments` | what an Agent leaves out of documents, and what then fails (`validation.go`) | the two below | |
| `OfferingDetails` | `agent/offerings.go`, `schemas.go`, `openapi.go` | `MCOfferingDetails` | |
| `SearchCapabilities` | `agent/capabilities.go` | `MCSearchCapabilities` | `SearchCapabilities_proofs` |
| `SequenceLemmas` | no code: facts about numbers and sequences the proofs share | | itself |

### Traversal and its three implementations

`Traversal` knows a graph of continuations (`link`), what was followed, what
was handed out, a budget, and why a sequence ended. A page is delivered only if
it is the origin or was followed; only the last page's continuation is
followed, once; "exhausted" may be said only after a page without continuation
was handed out, "loop" only of a continuation seen before, and of a full budget
only what its nature allows: `verdicts` has "budget" (the sequence just ends)
when the caller set it, "limit" (an error) when it is a guard. A caller may
resume where its budget ran out.

Each detailed module has the graph as a variable that never changes, so TLC
chooses every graph in the initial state, and refines `Traversal` by
`INSTANCE ... WITH` (`ImplementsTraversal`). They differ where the code differs:

- `PageIterator` yields, hands items on, and after each page resolves the
  continuation; its counter stops it after a load. `IteratePages` and
  `IterateItems` are one specification: a consumer of pages is one that stops,
  or takes the items as it likes, before the next page.
- `DirectoryTraversal` compares continuations resolved (`Resolve`), checks the
  budget before resolving, reports the guard as an error (its `verdicts` are
  "limit" alone exactly when the budget is the guard), follows redirects within
  a call (`wire`), and reports unusable records as issues.
- `AgentTraversal` compares references as spelled, counts the reference a
  resumed traversal begins with as visited, ends quietly at the guard too
  (`verdicts` is "budget" alone), and as a search refuses pages with refinements
  nobody asked for. Collections and Offerings run the same loop; `search` is
  true of a search for Offerings and its continuations only, the one family that
  reads refinements: every other operation takes a page that carries some and
  leaves them out (`Acceptable`, `Refinements`).

A traversal's page budget and its guard, as well as the item limits, are
constants, so that the runs use small ones. `DirectoryTraversal` validates
`MaxItems` before it asks, as the item sequence does; a consumer of
`Responses` is one that passes zero.

### FederatedSearch

One value of `worker[s]` per program point of the goroutine of Service `s`:
waiting at the first `select`, searching with a slot, refused without one,
answering at the second `select`, releasing, gone. `semaphore` counts the
tokens in the channel, `channel[s]` is the one-place result channel, and
`context` and `workContext` are the caller's context and its child. Cancelling
the parent closes it first and the child a moment later (`Propagate`), so the
collector and the goroutines may see them differ. The search inside a goroutine
is abstracted to its outcome: it yields some Offerings, up to the limit, and
ends or fails (what `AgentTraversal` says of a sequence). The deferred
`cancel()` is one step with the collector's return.

### AgentTransport

Each caller is a goroutine with the locals of `request` or `supportingJSON`;
`pc` names the points between which other calls run: before the cache is read,
between a read and the deletion it causes, while the request is out, and before
the answer is processed. Processing an answer does at most one cache operation,
so it is one step. A representation is a record of what it was made from: URL,
change of the site, principal, language and request body. Of its content only
the form counts: "valid", "unfit" when it parses but its validator refuses it
(nested too deep, or another resource's), "malformed" when it does not parse.
`Validates` is the validator each operation gives to `request`, and the little
`supportingJSON` asks of what it cached, that it parses; a call includes what its
caller makes of the body, which is to parse it again. `Accepted` is the order of
a 304: with a `Vary` the key does not cover the stored body is returned before it
is validated, otherwise after. The Service is the
environment: any URL may redirect, inside the origin or out of it, refuse, or
serve; it may confirm a conditional request by tag, by date, or without having
been asked, and its answers may forbid storing, give a lifetime, give none, or
carry a `Vary` the key does not cover. `Publish` and `Move` change the site at
any time. The cache begins empty, or with what a persistent cache could hold:
a body that no longer validates or parses (`firstForm`), a record from another
origin. `asOf`, `confirmed` and `uncovered` are history: they say what the Service stood for when it
answered, and whether the key covered it.

Two things of the code become parameters: `Fallback`, one fallback lifetime for
the three kinds of document, and `Tagged`, whether the Service sends entity
tags. A call whose cache fails is one that fails; a client without a cache
(`requestCache == nil`) is one that always misses and never stores, which the
model does not add.

### ServiceRuntime, StaticCatalog and ServedCatalog

The runtime keeps no state between requests, so `ServiceRuntime` is operators,
one for each function: `Reading` is the handler up to the catalog function (the
call, or the problem the request is refused with), `Answering` what it makes of
that function's answer, `ServeHTTP` and `WriteProblem` the failure path. The
order of the checks is the code's (`FirstOf`). `Negotiation` gives `AcceptsODP`
and `SelectLanguage`; a header is the sequence of its entries, a tag the
sequence of its folded subtags. `References` is shared with the Agent, so that
what the runtime lets through is compared with what an Agent resolves.

`StaticCatalog` has the construction (`Accepted`, with the depth-first walk of
`validateRelationships`), the slice of a page, and signed cursors: a cursor is
its payload and the key that signed it. `ServedCatalog` runs both against one
Agent: a case is the options of `New`, a catalog and the requests an Agent may
begin with. `Reading` and `Answering` are one step (`StaticServes`,
`ApplicationServes`, `Refuse`, `Describe`) because a handler shares nothing that
changes with another request. An application's catalog returns any answer its
function's type allows. `Tick` and `Restart` interleave with everything; a
restarted process has its configured key or a new one, and perhaps another list
of Offerings that starts too (`Started`); a request it had not answered is lost.
A request carries the purpose the Agent has with it (to ask, to confirm, to
follow), and `made` in a response is history: the answer without regard to
`If-None-Match` (`Unconditional`). What the cases, lists and answers may be is
named in `CasesAssumption`, which TLC evaluates: the parts a request has; that a
request an Agent makes is of an operation it can build, and a GET without a
cursor when it asks for one resource; that nobody but the catalog makes a static
cursor; that a hierarchy is finite; and that an application's answers have a
size, and their continuations the parts of a reference.

### AgentDocuments, OfferingDetails and SearchCapabilities

`AgentDocuments` has the normalisation of a Service Document, a Collection, an
Offering and a capability page, and what the parse of the rest refuses, as far
as it decides what the two modules do; everything else a schema asks is the
field `valid`.

`OfferingDetails` is one call of `GetOfferingDetails` or `ResolveAction`. The
recursion of `load` is a stack of URLs with their levels, one turn a step, so
that any retrieval may fail. A published document says what it is (schema
dialect, vocabularies, bytes, resources with their `$id` and references; or an
OpenAPI document with its operations); what a compiler or validator library
says of one is a field. References that stay within a document are left out.

`SearchCapabilities` is one call over a Service that publishes *editions*:
`Republish` may come between any two requests, so the Collection, the document
and the pages of one source may be of different editions. `filters` and `sorts`
are composed source by source, as in `addFilters` and `addSorts`, which do the
same thing to two maps and are one set of actions here; a source is its scope,
what it is of, and what is published there. What the editions may be is named in
`CasesAssumption`, which TLC evaluates: a capability member is absent, inline or
linked, and lists definitions by identifier; identifiers are numbers, which
stand for the order `sortedKeys` puts the strings in.

## 3. The runs

| Run | Expect | Bounds and why they are enough |
|---|---|---|
| `page_iterator` | pass | three references, a limit of two pages, at most two items a page: chains end before, at, one after and beyond the limit, loops of length one to three occur |
| `page_iterator_quiet_end` | violation | as above, one item |
| `directory_traversal` | pass | two URLs, one with two spellings; budgets default, 1, guard, beyond and negative; item limits that fall inside and at the end of a page; pages of usable records, of unusable ones, and of one of each; two redirects of five statuses |
| `directory_traversal_resumed` | violation | as above |
| `agent_traversal` | pass | as above, with a guard of three pages and item limits inside, at and beyond a page, and negative options; pages that carry a refinement once and twice, to searches that asked for it or not and to lists |
| `federated_search` | pass | three Services, two slots or one, one Offering each: goroutines wait, finish in every order, and the caller stops or cancels at each step |
| `federated_search_cancelled` | violation | two Services |
| `agent_transport` | pass | two callers, one of which calls twice, two URLs, one redirect allowed, one change of the site, one tick of the clock; three mixes of calls: two inspections of one client, two principals at one URL, a POST search beside a supporting document; a cache that begins empty, with a body that is unfit or malformed by now, or with a record of another origin |
| `agent_transport_untagged` | violation | the same with `Tagged = FALSE` |
| `served_catalog` | pass | three Offerings, pages of one or two, a clock of five ticks for a lifetime of two (a cursor expires, and a confirmation or a new page does and does not renew it), one restart with and without a configured key and over other lists, one confirmation in another language or authorization; hierarchies of no, one and two edges, cycles, an unknown parent under a bound of one; requests refused at every check; application answers that are valid, that break each rule, and that fail, with a 406 or 412 of the application's own among them |
| `offering_details` | pass | five schemas under limits of four documents, two levels and five units of bytes: chains, diamonds, cycles, renamed and clashing documents, each refused reason and each resolution reached; at most two Actions that parse, of every target, with repeated identifiers |
| `search_capabilities` | pass | sources of at most three pages, three filters and two sorts, inline and linked, two editions; each reason an issue gives is reached |

What the passing runs show, beyond types:

- **Traversals** hand out items in page order with none skipped or repeated,
  account for every record (`EveryRecordIsAccountedFor`), never request a page
  for a caller that has its items (`NothingRequestedBeyondItemBudget`), keep
  the search body on the POST only (`SearchBodyTravelsWithPost`), make the
  directory's guard an error and a caller's budget not (`ImplementsTraversal`),
  request no reference twice, let refinements through only where they were
  asked for, and end (`EveryTraversalEnds`).
- **Federated search** keeps to its concurrency, delivers whole results in the
  directory's order, gives a Service up only when nobody waits for it, and
  leaves no goroutine behind whatever the caller does (`EverythingReturns`).
- **Transport**: isolation of principals, confirmed revalidation, granted
  lifetimes, inspections that never go back, and every call returns. Only bodies
  of the origin that parse are returned, and only validated ones but for the two
  ways past the validator that the code has (`OnlyCheckedBodiesOfTheOrigin`): a
  supporting document from the cache, and a 304 with a `Vary` the cache key does
  not cover.

- **Service**: the pages of a static list tile it, whatever happens between two
  of them (`PagesTileTheList`); a cursor is refused only for what the Agent did,
  for another key, or after more than a lifetime (`RefusedOnlyWhenLost`); the
  walk of the hierarchy accepts exactly the acyclic ones within the bound, of
  catalogs with nothing else amiss (`HierarchyJudgedRight`); a 200 is the operation asked for and something an
  Agent takes, whatever the application returned (`ServedIsAccepted`); 304 and
  412 mean that the copy held is current (`ConfirmedIsCurrent`); and what a
  shared cache may do with an answer never crosses languages or authorizations
  (`SharedCachesStaySound`).
- **Details and Actions**: a schema graph is accepted whole and within its
  limits or refused for a limit it really reaches, and attributes are shown only
  when it was accepted and they match (`DetailsAreValidated`); each Action is
  discovered once or reported once, and what is resolved is one of them
  (`EveryActionAccountedFor`).
- **Capabilities**: exactly the filters that one usable source publishes are
  exposed, and the sorts all of whose filters are; everything else is reported
  under its scope (`ExposedIsUnambiguous`).

What the four violations show (each is quoted in `PROJECT.json`):

1. `QuietEndIsComplete`: `IteratePages` fetches the page after its limit and
   drops it; if that page is the last of the chain nobody is told.
2. `NoPageRepeated`: a directory traversal resumed at a continuation does not
   count that page as visited, and can hand it out twice.
3. `AlreadyCancelledIsReported`: with a cancelled context the collector can
   prefer every result to the cancellation, and end as if complete.
4. `RevalidatedIsConfirmed` without entity tags: the date of the stored record
   goes along with a redirect, and a 304 for another URL confirms it.

**Fairness.** `FederatedSearch`: each goroutine, the collector and the
propagation of a cancellation are weakly fair, as Go schedules goroutines and
a `select` with a ready case proceeds; this includes that a search ends
(`AgentTraversal` bounds it, HTTP calls run under a context) and that a caller
which was given an event goes on or stops. `DirectoryTraversal`: the client's
loop is weakly fair, which includes that a request is answered or fails.
`AgentTransport`: each call is weakly fair together with the Service's answer;
entering the gate needs no more because a call waiting there is enabled from
the release on, and calls are finite in number. Neither a cancellation nor a
stop is ever assumed to happen, nor a tick of the clock or a change of the site.

`ServedCatalog`, `OfferingDetails` and `SearchCapabilities` state no fairness and
no liveness: each is one exchange or one call that ends, in the first at a
failure or when nothing is left to ask. Their runs therefore switch deadlock
checking off (`CHECK_DEADLOCK FALSE`); a state without a successor is a call
that has returned or failed, an Agent that has ended, or a clock, restart or
confirmation bound that is used up. Every other run checks deadlock: those
modules have a step that stutters where everything has returned.

**Disagreements seen while modelling that no run states.** They are recorded
here rather than claimed as violations, since each is small or rests on a
reading of the text:

- A comment in `service/service.go` (above `identifier`) says a resource is
  reachable at exactly one URL; an Offering or a Collection whose identifier is
  `search` is reachable at none, because the search route is read first.
- `service/static_catalog.go:149-151` calls an offset past the end unreachable;
  a process restarted with its configured key over a shorter list reaches it,
  and the clamp answers an empty last page (`Restart` with `Lists`).
- `ServedIsAccepted` exempts an absolute continuation that states another scheme
  than the Service is published under: the runtime cannot know the scheme in
  front of a proxy.
- `agent/README.md` says unusable Actions are reported; Actions of an unknown
  vocabulary, method or authentication are dropped by the normalisation before
  anything could report them. `EveryActionAccountedFor` speaks of the Actions
  that were parsed.
- An Offering whose `schema` has an unknown member loses it in normalisation but
  keeps its attributes, and is then refused whole. `search_capabilities` with
  only unknown members stays, and has the whole document refused.
- A schema that is near the root by one path can be refused for its levels when
  the walk, in the order of the URLs, meets it first by a longer one;
  `DetailsAreValidated` therefore asks for a long chain, not a long shortest path.
- `agent/paths_test.go:70-78` says that a stored document which no longer
  validates is not served on a 304, "the entry goes rather than the caller getting
  it". A 304 with a `Vary` the cache key does not cover (`agent/transport.go:152`)
  returns the stored body before the validator sees it. Callers parse it again but
  repeat neither its depth nor its identifier (`agent/client.go:297-336`), so a
  body the same 304 without that `Vary` would have refused reaches the
  application. The record is deleted, so it happens once for each such record.
  `OnlyCheckedBodiesOfTheOrigin` has this as its exception (`uncovered`); without
  the exception TLC finds it violated within the bounds of `agent_transport`.
- A no-store deletes a cached record, and the 304 of a call that had read it
  before stores it again; no document promises that the deletion is final.
- An Agent's traversal ends at its guard of 10,000 pages as at a caller's budget,
  where the directory's reports an error; only the directory's documents say so.
- Filter definitions on pages and inline are parsed without
  `filterDefinitionIssues`, which single definitions are.
- `SelectLanguage` may come, by truncating a range, to a tag that another entry
  refuses with `q=0`.
- An application may answer with a 406 or a 412 of its own, which the runtime
  passes on; `ConfirmedIsCurrent` and `SharedCachesStaySound` speak of those the
  runtime makes (`AnsweredItself` tells them apart).
- An `*Error` of a catalog whose status is outside 400-599 becomes a 500 that
  `OnError` is not told of.

## 4. The proofs

TLC checks the instances above; the theorems hold for every value of the
constants that meets the named assumptions (`LimitsAssumption`,
`RequestsAssumption`, `ConstantsAssumption`, `BoundsAssumption`,
`CasesAssumption`): any number of Services, callers, URLs, calls, pages, lists,
hierarchies, answers, editions and definitions. Every safety property of the
traversals, the federated search, the transport, the served catalog and the
search capabilities that a passing run checks is a theorem.

**How they are made.** An invariant is seldom inductive as it stands. Each
module states the strengthening first, as a conjunction of named parts, then
that the initial states have it, then one step per action, and a temporal step
at the end. Where many actions do few kinds of things (`AgentTransport`,
`ServedCatalog`), a lemma first sorts the steps into those kinds, and the
invariants are proved kind by kind. `SequenceLemmas` has what several modules
need: a least element of any set of numbers and induction over a set (the
library's induction theorems take a predicate, which the provers cannot
instantiate; a set takes its place), what `FlattenSeq` is of one page more or a
longer last page, and how `ToSet`, `Last` and injectivity follow an `Append`.
Functions defined by recursion (`FlattenSeq`, `Kept`, `Members`, `DepthOf`, `Climb`) are
reasoned about the same way: first that a function meeting the equation exists,
for larger and larger domains, then what its values are.

`PageIterator_proofs`, `DirectoryTraversal_proofs`, `AgentTraversal_proofs`

- `TypeCorrect` in each. The invariant (`Place`) ties the program's counter,
  visited set and current page to two histories, the continuations followed and
  the pages handed out: one more page than continuations while a page is
  consumed, as many while one is requested, and the page in hand the last one.
- `ItemsInOrder` (`ItemsFollowThePages`) and `RecordsAccounted`
  (`EveryRecordIsAccountedFor`): what the consumer has is the items of the pages
  before the last, and of the last as many as were taken; a record that is no
  item is an issue.
- `ItemBudgetKept` (`NothingRequestedBeyondItemBudget`): the invariant
  (`RoomForItems`) says the same of the loop before it asks.
- `BodyWithPost` (`SearchBodyTravelsWithPost`), `RefinementsAsked`
  (`RefinementsOnlyWhereAsked`, of what reaches the consumer), `RequestedOnce` (`NoReferenceRequestedTwice`;
  the invariant is that what was requested is what was visited, the reference
  a resumed traversal begins with included).
- `Refinement` in each: `Spec => ImplementsTraversal`. Initial states map to
  initial states; a load, a redirect, an item taken or a validation is a stutter,
  and delivering, following, ending and resuming are the abstract steps of
  those names. What each needs beyond `Place` is that the abstract guard holds:
  a loop is reported only of a continuation seen before, a budget only when full,
  and as an error or quietly only as its `verdicts` say: in `DirectoryTraversal`
  an error exactly of the guard.

`FederatedSearch_proofs`

- `TypeCorrect`: `Spec => []TypeOK`.
- `ConcurrencyBounded`: `Spec => []ConcurrencyBound`. The bound itself is not
  inductive: nothing in it says that a searching goroutine holds a token. The
  inductive invariant adds that the goroutines between acquiring and releasing
  are exactly as many as the tokens in the channel, and that those are at most
  the concurrency asked for; each step changes both by one or neither.
- `NothingGivenUp`: `Spec => []GivenUpOnlyWhenUnwanted`. The invariant adds that
  the child context is cancelled only if the parent is or the collector has
  returned, and what each place of the goroutine and of the collector says of
  the result channel.
- `OfferingsOrIssue`, `DirectoryOrder`: what a Service contributes is settled
  when its goroutine answers. `Settled` says that a channel holds that or
  nothing, and is not read or filled before; so what the collector has read, in
  the order of `position`, is in the directory's order (`Gathering`).

`AgentTransport_proofs`

- `TypeCorrect`: `Spec => []TypeOK`.
- `Isolation`: `Spec => []PrincipalIsolation`. A result says nothing of where it
  came from, so the invariant (`IsolationInv`) follows a representation: what is
  stored under a key was made for that key's principal, language and request,
  what a call holds or is answered was made for that call, and what a call
  sends is its own request or, after a redirect, none.
- `LifetimesBounded`: `Spec => []LifetimesAreGranted`. A record in a call's hands
  may be stored again later, so the invariant says the same of those
  (`LifetimeInv`).
- `RevalidationConfirms`: `Spec /\ Tagged => []RevalidatedIsConfirmed`. The
  invariant (`ConfirmedInv`): a record's tag is that of its body or absent, and
  an answer's that of the body it stands for. `Tagged` is needed: the run
  without it finds the violation.
- `OfTheOriginAndChecked`: `Spec => []OnlyCheckedBodiesOfTheOrigin`. A
  persistent cache may hold anything, so the invariant (`OriginInv`) is not about
  the form of a body: a record that says it came from the origin has a body of
  the origin, and a call holds only such records. That what is returned parses
  and, but for the two exceptions, is valid is then read off each way to return
  (`Hit`, `Unmodified`, `Body`).
- `InspectionsInOrder`: `Spec /\ InspectionsAlone => InspectionsNeverGoBack`.
  `InspectionsAlone` says that a call shares the inspections' key exactly when it
  is an inspection, as it is in the code: a client asks for its Service Document
  in no other way and as one principal. Without it the property is false: another
  call could put an older document back. The invariant (`GateInv`): whoever works
  inside the gate is alone there until its result is taken, nothing is from the
  future, and neither the record found nor an answer in hand is older than the
  last inspection.

`ServedCatalog_proofs`

- `TypeCorrect` rests on `AgentInv`, which most others start from: every answer
  is the conditional form of one the handler would have given without
  `If-None-Match` (a 304 or a 412 in place of it, when the tags match), and what
  the Agent holds is such an answer to what it had asked.
- `ConfirmationsTrue` (`ConfirmedIsCurrent`): an entity tag is of a body and its
  language, so a match means both are the same.
- `SharedCachesSound` (`SharedCachesStaySound`): `Reading` and `Answering` use
  nothing of a request beyond its path, query, method and body, but `Accept`,
  `Accept-Language` and, where the operation is authenticated or expands, the
  authorization, each of which `Vary` and `Cache-Control` then name.
- `RefusalsEarned` (`RefusedOnlyWhenLost`): what the Agent holds of a static
  catalog was cut from an accepted list by the key and at the time recorded with
  it (`StaticInv`, theorem `StaticInvariant`). The difficult step is the
  confirmation: the page confirmed has the same tag, so it is the page cut again,
  now, and its cursor, being equal, is signed by the key that confirmed it and
  expires by the clock that confirmed it.
- `PagesTile` (`PagesTileTheList`): the invariant (`TilesInv`) is that the last
  page collected is the one held, that it begins where those before it end, and
  that each is where it should be in the list it was cut from. A cursor that is
  followed and not refused carries the offset, language, view and target of the
  page before; an altered one is refused.
- `ServedAccepted` (`ServedIsAccepted`): a request for an operation is routed to
  that operation (`AsksInv`, `RoutePlain`, `RouteIdentified`), and whatever an
  answer of the type says (`BodiesInv`), what passes the runtime's checks passes
  the Agent's (`ValidIsTaken`, `NextTaken`).
- `HierarchyJudged` (`HierarchyJudgedRight`), for any finite hierarchy and bound.
  The walk is over (Collection, set being visited); what it reports is either
  that it met one it was visiting or the edges of the longest climb
  (`ReportMeasures`, by induction on how many Collections are left); it meets one
  only where a climb can go round, which then has any number of edges
  (`NoCycleFound`); and `Climb`, which the property speaks of, has the tops of
  the climbs of one edge too many (`TopsOfClimbs`). The invariant is only that a
  process is refused at the start or never.

`SearchCapabilities_proofs`

- `TypeCorrect` and `ReturnedIsUnambiguous` (`ExposedIsUnambiguous`), for any
  documents, pages and changes of them meanwhile. The property speaks of the end
  of a call, so the invariant (`ExposedInv`) says it of the sources before
  `position`: what is exposed so far is what exactly one usable source among
  them publishes (`OnceBefore`), as it publishes it (`GivenAs`); what more than
  one publishes is reported as the Collection's, and so is every source that was
  of no use, under its own scope (`IsReported`).
- That this is kept rests on there being at most two sources of a kind, the
  Service's and then the Collection's (`SourcesInv`, `ServiceThenCollection`): the
  code removes a filter from the map when a second source publishes it, and a
  third would expose it again. It is also why what is exposed when a source is
  counted against the limit are the definitions of the one usable source before
  it, as `Fits` says.
- The steps are of three kinds: those that stay at a source, that pass it by with
  an issue, and that add it. A source passed by must not be usable, which is read
  off the pages kept for it (`ReadingInv`: none is there twice, and the last
  one's continuation is the one to follow). In the end the sources before
  `position` are all, and the sorts left out are each reported, since `InOrder`
  enumerates a finite set of identifiers whole (`InOrderIsAll`).

**Only model-checked**: the liveness properties (`EverythingReturns`,
`EveryTraversalEnds`, `EveryCallReturns`) and what fairness and `ENABLED` have
part in, which are out of the prover's reach; and the details of an Offering:
`TypeOK`, `DetailsAreValidated` and `EveryActionAccountedFor` of
`OfferingDetails`. That module filters, sorts and folds over published documents
with `SelectSeq`, `SetToSortSeq` and `FoldSet`, whose definitions the provers do
not see through: each is a choice among functions, or a recursion, that the
library states no fact about. The helpers of all modules are defined without
`RECURSIVE`, so that theorems may be stated.

## 5. What is not modelled, and what comes next

Not modelled, because it is format or data and keeps no state:

- JSON codecs and the preservation of unknown members (`models.go`,
  `additional.go`, `optional.go`), and the rules of single members: a resource
  either validates or does not;
- the directory's codecs, its suggestions and origin check, which are one
  request each over the modelled `requestJSON`;
- URL and host spelling (IDNA, default ports): hosts are values, compared as
  `canonicalOrigin` writes them; the identity digest (`identity.go`);
- titles and wording of problems; the dial policy (`agent/network.go`);
- commands, examples, schemas, vectors and scripts.

Abstracted, with the place where the rest is: `supportingJSON` in
`OfferingDetails` comes to a document or a failure (its cache and redirects are
in `AgentTransport`); `request` in `SearchCapabilities` likewise; concurrent
requests to a Service are not interleaved, since its handler shares nothing that
changes.

Left to do: for `OfferingDetails`, `TypeOK` and the parts of
`DetailsAreValidated` that follow the walk (no document asked for twice, none
that nothing refers to, and the limits), after lemmas about the three operators
above or definitions in their place that can be reasoned about, as `Kept` and
`InOrder` are. And the numeric edge of `max-age` (multiplied modulo 2^64), for
which no document states what should hold.
