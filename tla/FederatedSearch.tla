--------------------------- MODULE FederatedSearch ---------------------------
(***************************************************************************)
(* searchOfferingsAcrossServices (agent/agent.go): one goroutine for each  *)
(* Service the directory lists, a channel used as a counting semaphore, a  *)
(* one-place result channel per Service, and a collector that hands the    *)
(* events on in directory order.  The caller may cancel its context or stop*)
(* taking events whenever it likes.                                        *)
(***************************************************************************)
EXTENDS Integers, FiniteSets, SequencesExt

CONSTANTS
    Requests,            \* what a caller may ask for: [services, offerings, concurrency]
    DefaultServices, MaximumServices,        \* 10 and 100 in the code
    DefaultOfferings, MaximumOfferings,      \* 10 and 100
    DefaultConcurrency, MaximumConcurrency   \* 4 and 16

ASSUME RequestsAssumption ==
    Requests \subseteq [services : Int, offerings : Int, concurrency : Int]
ASSUME LimitsAssumption ==
    /\ MaximumServices \in Nat \ {0} /\ DefaultServices \in 1..MaximumServices
    /\ MaximumOfferings \in Nat \ {0} /\ DefaultOfferings \in 1..MaximumOfferings
    /\ MaximumConcurrency \in Nat \ {0} /\ DefaultConcurrency \in 1..MaximumConcurrency

Services == 1..MaximumServices     \* by position in the directory's listing

(* What a Service contributes: its first Offerings, or one issue.          *)
Offering(s, n) == [service |-> s, type |-> "offering", number |-> n]
Issue(s) == [service |-> s, type |-> "issue", number |-> 0]
OfferingsOf(s, n) == [i \in 1..n |-> Offering(s, i)]
NoEvents == <<>>

VARIABLES
    request,     \* the caller's request
    limits,      \* maxServices, maxOfferings, concurrency once validated
    found,       \* len(services)
    launched,    \* how many goroutines have been started
    worker,      \* where each goroutine is
    gathered,    \* Offerings a running search has collected
    events,      \* events: what a goroutine is about to send
    semaphore,   \* tokens in the semaphore channel
    channel,     \* results: the one-place channels, a set of lists of events
    context,     \* ctx, the caller's: "live" or "cancelled"
    workContext, \* workContext, its child
    pc,          \* where the collector is
    position,    \* the result channel the collector reads next
    batch,       \* serviceResults: events of the current Service not yet yielded
    yielded,     \* history: the events the caller was given
    outcome      \* "open", then how the sequence ended

vars == <<request, limits, found, launched, worker, gathered, events, semaphore, channel,
          context, workContext, pc, position, batch, yielded, outcome>>
collector == <<pc, position, batch, yielded, outcome>>
workers == <<worker, gathered, events, semaphore, channel>>
contexts == <<context, workContext>>
settings == <<request, limits, found>>

Init ==
    /\ request \in Requests
    /\ limits = [services |-> 0, offerings |-> 0, concurrency |-> 0]
    /\ found = 0
    /\ launched = 0
    /\ worker = [s \in Services |-> "absent"]
    /\ gathered = [s \in Services |-> 0]
    /\ events = [s \in Services |-> NoEvents]
    /\ semaphore = 0
    /\ channel = [s \in Services |-> {}]
    /\ context = "live"
    /\ workContext = "live"
    /\ pc = "validate"
    /\ position = 1
    /\ batch = NoEvents
    /\ yielded = <<>>
    /\ outcome = "open"

-----------------------------------------------------------------------------
(* Mutants: the definitions below as a plausible slip would have them.     *)
OutOfBoundsBelowOnly(value, maximum) == value < 0
SlotTakenOneTooMany == semaphore <= limits.concurrency
SlotKept == semaphore
AnyReady(s) == channel[s] # {}
OfferingsAndIssue(s) == Append(OfferingsOf(s, gathered[s]), Issue(s))
CancelledAfterLaunching ==
    CASE launched = 0 -> context [] launched = found -> "cancelled" [] OTHER -> workContext
OneOfferingTooMany(s) == gathered[s] <= limits.offerings

-----------------------------------------------------------------------------
(* bounded: zero asks for the default, and the bounds are checked.         *)
Bounded(value, fallback) == IF value = 0 THEN fallback ELSE value
OutOfBounds(value, maximum) == value < 0 \/ value > maximum

WithinBounds ==
    /\ ~OutOfBounds(request.services, MaximumServices)
    /\ ~OutOfBounds(request.offerings, MaximumOfferings)
    /\ ~OutOfBounds(request.concurrency, MaximumConcurrency)

End(why) == outcome' = why /\ pc' = "returned"
(* The deferred cancel(): whatever ends the collector ends the work.       *)
EndWork == workContext' = "cancelled"

Validate ==
    /\ pc = "validate"
    /\ \/ /\ WithinBounds
          /\ limits' = [services |-> Bounded(request.services, DefaultServices),
                        offerings |-> Bounded(request.offerings, DefaultOfferings),
                        concurrency |-> Bounded(request.concurrency, DefaultConcurrency)]
          /\ pc' = "discover"
          /\ UNCHANGED outcome
       \/ /\ ~WithinBounds
          /\ End("rejected")
          /\ UNCHANGED limits
    /\ UNCHANGED <<request, found, launched, workers, contexts, position, batch, yielded>>

(* The directory's sequence ends with at most maxServices Services ...     *)
Discover ==
    /\ pc = "discover"
    /\ found' \in 0..limits.services
    /\ pc' = "launch"
    /\ UNCHANGED <<request, limits, launched, workers, contexts, position, batch, yielded, outcome>>

(* ... or with an error, which is all the caller is told.                  *)
DiscoverFails ==
    /\ pc = "discover"
    /\ End("failed")
    /\ UNCHANGED <<settings, launched, workers, contexts, position, batch, yielded>>

(* One turn of the launching loop: go func() ...  workContext was derived  *)
(* from ctx before it, and is cancelled from the start if ctx was.         *)
WorkContext == IF launched = 0 THEN context ELSE workContext

Launch ==
    /\ pc = "launch"
    /\ workContext' = WorkContext
    /\ \/ /\ launched < found
          /\ launched' = launched + 1
          /\ worker' = [worker EXCEPT ![launched + 1] = "waiting"]
          /\ UNCHANGED pc
       \/ /\ launched = found
          /\ pc' = "receive"
          /\ UNCHANGED <<launched, worker>>
    /\ UNCHANGED <<settings, gathered, events, semaphore, channel, context,
                   position, batch, yielded, outcome>>

-----------------------------------------------------------------------------
(* The goroutine of Service s.                                             *)
SlotFree == semaphore < limits.concurrency
SlotReturned == semaphore - 1
RoomForOffering(s) == gathered[s] < limits.offerings
FailedSearch(s) == <<Issue(s)>>

(* The first select, its semaphore case.                                   *)
Acquire(s) ==
    /\ worker[s] = "waiting"
    /\ SlotFree
    /\ semaphore' = semaphore + 1
    /\ worker' = [worker EXCEPT ![s] = "searching"]
    /\ UNCHANGED <<settings, launched, gathered, events, channel, contexts, collector>>

(* The first select, its Done case: the Service is reported as an issue.   *)
Refuse(s) ==
    /\ worker[s] = "waiting"
    /\ workContext = "cancelled"
    /\ events' = [events EXCEPT ![s] = <<Issue(s)>>]
    /\ worker' = [worker EXCEPT ![s] = "refused"]
    /\ UNCHANGED <<settings, launched, gathered, semaphore, channel, contexts, collector>>

(* searchService: the Service's sequence yields one Offering more, ...     *)
Gather(s) ==
    /\ worker[s] = "searching"
    /\ RoomForOffering(s)
    /\ gathered' = [gathered EXCEPT ![s] = @ + 1]
    /\ UNCHANGED <<settings, launched, worker, events, semaphore, channel, contexts, collector>>

(* ... or ends, ...                                                        *)
SearchEnds(s) ==
    /\ worker[s] = "searching"
    /\ events' = [events EXCEPT ![s] = OfferingsOf(s, gathered[s])]
    /\ worker' = [worker EXCEPT ![s] = "answering"]
    /\ UNCHANGED <<settings, launched, gathered, semaphore, channel, contexts, collector>>

(* ... or fails (no client, a refusal, workContext cancelled): the         *)
(* Offerings gathered so far are given up for one issue.                   *)
SearchFails(s) ==
    /\ worker[s] = "searching"
    /\ events' = [events EXCEPT ![s] = FailedSearch(s)]
    /\ worker' = [worker EXCEPT ![s] = "answering"]
    /\ UNCHANGED <<settings, launched, gathered, semaphore, channel, contexts, collector>>

(* The second select: the result is sent, or dropped once nobody wants it. *)
Leaving(s) == IF worker[s] = "refused" THEN "gone" ELSE "releasing"

Answer(s) ==
    /\ worker[s] \in {"answering", "refused"}
    /\ channel[s] = {}
    /\ channel' = [channel EXCEPT ![s] = {events[s]}]
    /\ worker' = [worker EXCEPT ![s] = Leaving(s)]
    /\ UNCHANGED <<settings, launched, gathered, events, semaphore, contexts, collector>>

Drop(s) ==
    /\ worker[s] \in {"answering", "refused"}
    /\ workContext = "cancelled"
    /\ worker' = [worker EXCEPT ![s] = Leaving(s)]
    /\ UNCHANGED <<settings, launched, gathered, events, semaphore, channel, contexts, collector>>

(* The deferred release, when the goroutine returns.                       *)
Release(s) ==
    /\ worker[s] = "releasing"
    /\ semaphore' = SlotReturned
    /\ worker' = [worker EXCEPT ![s] = "gone"]
    /\ UNCHANGED <<settings, launched, gathered, events, channel, contexts, collector>>

Work(s) ==
    \/ Acquire(s) \/ Refuse(s) \/ Gather(s) \/ SearchEnds(s) \/ SearchFails(s)
    \/ Answer(s) \/ Drop(s) \/ Release(s)

-----------------------------------------------------------------------------
(* The collector.                                                          *)
Ready(s) == s = position /\ channel[s] # {}

Receive(s) ==
    /\ pc = "receive"
    /\ s \in 1..found
    /\ Ready(s)
    /\ batch' \in channel[s]
    /\ channel' = [channel EXCEPT ![s] = {}]
    /\ position' = position + 1
    /\ pc' = "yield"
    /\ UNCHANGED <<settings, launched, worker, gathered, events, semaphore, contexts,
                   yielded, outcome>>

(* The select's other case: the cancellation is yielded as an error.       *)
ReportCancellation ==
    /\ pc = "receive"
    /\ position <= found
    /\ context = "cancelled"
    /\ End("cancelled")
    /\ EndWork
    /\ UNCHANGED <<settings, launched, workers, context, position, batch, yielded>>

(* An event is yielded; the caller takes it, and may stop there.           *)
Yield ==
    /\ pc = "yield"
    /\ batch # NoEvents
    /\ yielded' = Append(yielded, Head(batch))
    /\ batch' = Tail(batch)
    /\ \/ UNCHANGED <<pc, outcome, workContext>>
       \/ End("stopped") /\ EndWork
    /\ UNCHANGED <<settings, launched, workers, context, position>>

NextService ==
    /\ pc = "yield"
    /\ batch = NoEvents
    /\ pc' = "receive"
    /\ UNCHANGED <<settings, launched, workers, contexts, position, batch, yielded, outcome>>

Complete ==
    /\ pc = "receive"
    /\ position > found
    /\ End("complete")
    /\ EndWork
    /\ UNCHANGED <<settings, launched, workers, context, position, batch, yielded>>

Collect ==
    \/ Validate \/ Discover \/ DiscoverFails \/ Launch
    \/ (\E s \in Services : Receive(s)) \/ ReportCancellation
    \/ Yield \/ NextService \/ Complete

-----------------------------------------------------------------------------
(* The caller's context is cancelled, from another goroutine; its child    *)
(* follows a moment later.                                                 *)
Cancel ==
    /\ pc # "returned"
    /\ context = "live"
    /\ context' = "cancelled"
    /\ UNCHANGED <<settings, launched, workers, collector, workContext>>

Propagate ==
    /\ context = "cancelled"
    /\ launched > 0
    /\ workContext = "live"
    /\ workContext' = "cancelled"
    /\ UNCHANGED <<settings, launched, workers, collector, context>>

Returned == pc = "returned" /\ \A s \in Services : worker[s] \in {"absent", "gone"}
Done == Returned /\ UNCHANGED vars

Next == Collect \/ (\E s \in Services : Work(s)) \/ Cancel \/ Propagate \/ Done

Spec == Init /\ [][Next]_vars
(* Goroutines are scheduled, a Service's search ends (AgentTraversal bounds*)
(* it), and a caller that was yielded an event goes on or stops.           *)
FairSpec ==
    /\ Spec
    /\ WF_vars(Collect) /\ WF_vars(Propagate)
    /\ \A s \in Services : WF_vars(Work(s))

-----------------------------------------------------------------------------
EventLists == {NoEvents} \cup {OfferingsOf(s, n) : s \in Services, n \in 0..MaximumOfferings}
                  \cup {<<Issue(s)>> : s \in Services}

TypeOK ==
    /\ request \in Requests
    /\ limits \in [services : 0..MaximumServices, offerings : 0..MaximumOfferings,
                   concurrency : 0..MaximumConcurrency]
    /\ found \in 0..MaximumServices
    /\ launched \in 0..MaximumServices
    /\ worker \in [Services -> {"absent", "waiting", "refused", "searching", "answering",
                               "releasing", "gone"}]
    /\ gathered \in [Services -> 0..MaximumOfferings]
    /\ events \in [Services -> EventLists]
    /\ semaphore \in 0..MaximumConcurrency
    /\ channel \in [Services -> SUBSET EventLists]
    /\ {context, workContext} \subseteq {"live", "cancelled"}
    /\ pc \in {"validate", "discover", "launch", "receive", "yield", "returned"}
    /\ position \in 1..(MaximumServices + 1)
    /\ outcome \in {"open", "rejected", "failed", "cancelled", "stopped", "complete"}

(* The searches under way never exceed the concurrency asked for, whatever *)
(* order goroutines are scheduled, fail or give up in: the default is "four*)
(* Service requests concurrently" (agent/README.md).                       *)
Searching == {s \in Services : worker[s] = "searching"}
ConcurrencyBound == Cardinality(Searching) <= limits.concurrency

(* "Events remain in directory order" (agent/README.md): what the caller   *)
(* was given and is about to be given is what the Services before the      *)
(* collector's position answered, whole and in the directory's order,      *)
(* whichever finished first.                                               *)
EventsInDirectoryOrder ==
    yielded \o batch = FlattenSeq([s \in 1..(position - 1) |-> events[s]])

(* A Service contributes its Offerings, no more than asked for, or one     *)
(* issue, never both: a failure gives up what had been gathered.           *)
OfferingsOrOneIssue ==
    \A s \in Services :
        events[s] \in {OfferingsOf(s, n) : n \in 0..limits.offerings} \cup {<<Issue(s)>>}

(* No goroutine gives its Service up, or drops a result the collector has  *)
(* not read, unless the caller cancelled or the collector has returned: the*)
(* deferred cancel() never runs ahead of the collector.                    *)
NotReceived(s) == s >= position /\ channel[s] = {}
GivenUp(s) ==
    \/ worker[s] = "refused"
    \/ worker[s] \in {"releasing", "gone"} /\ NotReceived(s)
GivenUpOnlyWhenUnwanted ==
    (\E s \in Services : GivenUp(s)) => context = "cancelled" \/ pc = "returned"

(* The sequence ends and every goroutine it started returns, with its slot,*)
(* however the caller's stop or cancellation interleaves with them.        *)
EverythingReturns == <>Returned

(* A search whose context was cancelled before any of the Services found   *)
(* was asked does not end as if it had run its course: "the traversal      *)
(* reports the cancellation" (agent/federation_test.go).                   *)
AlreadyCancelledIsReported ==
    (pc = "launch" /\ launched = 0 /\ found > 0 /\ context = "cancelled")
        ~> outcome \in {"failed", "cancelled", "stopped"}
=============================================================================
