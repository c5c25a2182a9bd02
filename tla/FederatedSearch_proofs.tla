----------------------- MODULE FederatedSearch_proofs -----------------------
(***************************************************************************)
(* Proofs about FederatedSearch, for any number of Services, any limits and*)
(* any requests: the slots of the semaphore are the goroutines that hold   *)
(* one, so the concurrency bound is never exceeded; no Service is given up *)
(* while its caller still wants it; each contributes its Offerings or one  *)
(* issue; and the caller is given them in the order of the directory.      *)
(***************************************************************************)
EXTENDS FederatedSearch, SequenceLemmas

(* The goroutines between the semaphore's send and its deferred receive.   *)
Holders == {s \in Services : worker[s] \in {"searching", "answering", "releasing"}}

(* The semaphore counts them, within the bound asked for.                  *)
SlotsAreHeld == semaphore = Cardinality(Holders) /\ semaphore <= limits.concurrency

(* Goroutines are launched in order, none before the Services are found.   *)
LaunchedInOrder ==
    /\ launched <= found
    /\ \A s \in Services : s > launched => worker[s] = "absent"
    /\ pc \in {"validate", "discover"} => launched = 0

IInv == TypeOK /\ SlotsAreHeld /\ LaunchedInOrder

-----------------------------------------------------------------------------
LEMMA ServicesFinite == IsFiniteSet(Services)
BY FS_Interval, LimitsAssumption DEF Services

(* A set of goroutines picked by their place is finite.                    *)
LEMMA HoldersFinite == IsFiniteSet(Holders) /\ Cardinality(Holders) \in Nat
<1>1. Holders \subseteq Services BY DEF Holders
<1>2. IsFiniteSet(Holders) BY <1>1, ServicesFinite, FS_Subset
<1>3. QED BY <1>2, FS_CardinalityType

(* A goroutine that enters the holders takes one slot, one that leaves     *)
(* gives one back, and one that moves among them or outside changes none.  *)
LEMMA HoldersStep ==
    ASSUME NEW s \in Services, NEW w, worker' = [worker EXCEPT ![s] = w],
           DOMAIN worker = Services
    PROVE  /\ w \in {"searching", "answering", "releasing"} => Holders' = Holders \cup {s}
           /\ w \notin {"searching", "answering", "releasing"} => Holders' = Holders \ {s}
BY DEF Holders

-----------------------------------------------------------------------------
(* What validation lets through is within the protocol's bounds.           *)
LEMMA LimitsInBounds ==
    ASSUME request \in Requests, WithinBounds
    PROVE  /\ Bounded(request.services, DefaultServices) \in 0..MaximumServices
           /\ Bounded(request.offerings, DefaultOfferings) \in 0..MaximumOfferings
           /\ Bounded(request.concurrency, DefaultConcurrency) \in 0..MaximumConcurrency
BY RequestsAssumption, LimitsAssumption DEF WithinBounds, OutOfBounds, Bounded

LEMMA InitInv == Init => IInv
<1> SUFFICES ASSUME Init PROVE IInv OBVIOUS
<1> USE LimitsAssumption DEF Init
<1>1. TypeOK BY DEF TypeOK, EventLists, Services
<1>2. Holders = {} BY DEF Holders
<1>3. SlotsAreHeld BY <1>2, FS_EmptySet DEF SlotsAreHeld
<1>4. LaunchedInOrder BY DEF LaunchedInOrder, Services
<1>5. QED BY <1>1, <1>3, <1>4 DEF IInv

(* Every step keeps the invariant: the collector's, ...                    *)
LEMMA CollectInv == IInv /\ Collect => IInv'
<1> SUFFICES ASSUME IInv, Collect PROVE IInv' OBVIOUS
<1> USE LimitsAssumption DEF IInv, TypeOK, settings, workers, contexts, collector
<1>h. Holders' = Holders
  <2>1. CASE Launch /\ launched < found
    <3>1. launched + 1 \in Services BY <2>1 DEF Services
    <3>2. worker[launched + 1] = "absent" BY <3>1 DEF LaunchedInOrder
    <3>3. QED BY <2>1, <3>1, <3>2 DEF Launch, Holders
  <2>2. CASE ~(Launch /\ launched < found)
    <3>1. UNCHANGED worker
      BY <2>2 DEF Collect, Validate, Discover, DiscoverFails, Launch, Receive, ReportCancellation,
         Yield, NextService, Complete
    <3>2. QED BY <3>1 DEF Holders
  <2>3. QED BY <2>1, <2>2
<1>1. CASE Validate
  <2>1. CASE WithinBounds /\ pc' = "discover"
    <3>1. limits' \in [services : 0..MaximumServices, offerings : 0..MaximumOfferings,
                      concurrency : 0..MaximumConcurrency]
      BY <1>1, <2>1, LimitsInBounds DEF Validate
    <3>2. TypeOK' BY <1>1, <3>1 DEF Validate, End
    <3>3. Holders = {}
      <4>1. launched = 0 BY <1>1 DEF Validate, LaunchedInOrder
      <4>2. \A s \in Services : s > 0 BY DEF Services
      <4>3. \A s \in Services : worker[s] = "absent" BY <4>1, <4>2 DEF LaunchedInOrder
      <4>4. QED BY <4>3 DEF Holders
    <3>4. semaphore' = 0 BY <1>1, <3>3, FS_EmptySet DEF Validate, SlotsAreHeld
    <3>5. SlotsAreHeld' BY <1>h, <3>1, <3>3, <3>4, FS_EmptySet DEF SlotsAreHeld
    <3>6. LaunchedInOrder' BY <1>1, <2>1 DEF Validate, LaunchedInOrder
    <3>7. QED BY <3>2, <3>5, <3>6
  <2>2. CASE ~WithinBounds
    <3>1. TypeOK' /\ LaunchedInOrder' BY <1>1, <2>2 DEF Validate, End, LaunchedInOrder
    <3>2. SlotsAreHeld' BY <1>1, <1>h, <2>2 DEF Validate, SlotsAreHeld
    <3>3. QED BY <3>1, <3>2
  <2>3. QED BY <1>1, <2>1, <2>2 DEF Validate
<1>2. CASE Discover
  <2>1. TypeOK' BY <1>2 DEF Discover
  <2>2. SlotsAreHeld' BY <1>2, <1>h DEF Discover, SlotsAreHeld
  <2>3. LaunchedInOrder' BY <1>2 DEF Discover, LaunchedInOrder
  <2>4. QED BY <2>1, <2>2, <2>3
<1>3. CASE DiscoverFails
  <2>1. TypeOK' /\ LaunchedInOrder' BY <1>3 DEF DiscoverFails, End, LaunchedInOrder
  <2>2. SlotsAreHeld' BY <1>3, <1>h DEF DiscoverFails, SlotsAreHeld
  <2>3. QED BY <2>1, <2>2
<1>4. CASE Launch
  <2>1. launched + 1 \in Services \/ launched = found
    BY <1>4 DEF Launch, LaunchedInOrder, Services
  <2>2. workContext' \in {"live", "cancelled"} BY <1>4 DEF Launch, WorkContext
  <2>3. launched' \in 0..MaximumServices /\ launched' <= found
    BY <1>4 DEF Launch, LaunchedInOrder
  <2>4. TypeOK' BY <1>4, <2>2, <2>3 DEF Launch
  <2>5. LaunchedInOrder' BY <1>4, <2>1, <2>3 DEF Launch, LaunchedInOrder, Services
  <2>6. SlotsAreHeld' BY <1>4, <1>h DEF Launch, SlotsAreHeld
  <2>7. QED BY <2>4, <2>5, <2>6
<1>5. ASSUME NEW s \in Services, Receive(s) PROVE IInv'
  <2>1. position' \in 1..(MaximumServices + 1) BY <1>5 DEF Receive, Ready
  <2>2. TypeOK' BY <1>5, <2>1 DEF Receive
  <2>3. LaunchedInOrder' BY <1>5 DEF Receive, LaunchedInOrder
  <2>4. SlotsAreHeld' BY <1>5, <1>h DEF Receive, SlotsAreHeld
  <2>5. QED BY <2>2, <2>3, <2>4
<1>6. CASE ReportCancellation \/ Yield \/ NextService \/ Complete
  <2>1. TypeOK'
    BY <1>6 DEF ReportCancellation, Yield, NextService, Complete, End, EndWork
  <2>2. LaunchedInOrder'
    BY <1>6 DEF ReportCancellation, Yield, NextService, Complete, End, LaunchedInOrder
  <2>3. SlotsAreHeld'
    BY <1>6, <1>h DEF ReportCancellation, Yield, NextService, Complete, SlotsAreHeld
  <2>4. QED BY <2>1, <2>2, <2>3
<1>7. QED BY <1>1, <1>2, <1>3, <1>4, <1>5, <1>6 DEF Collect

(* ... and the goroutines'.                                                *)
LEMMA WorkInv == ASSUME NEW s \in Services PROVE IInv /\ Work(s) => IInv'
<1> SUFFICES ASSUME IInv, Work(s) PROVE IInv' OBVIOUS
<1> USE LimitsAssumption DEF IInv, TypeOK, settings, workers, contexts, collector
<1>1. LaunchedInOrder'
  BY DEF Work, Acquire, Refuse, Gather, SearchEnds, SearchFails, Answer, Drop, Release, Leaving,
     LaunchedInOrder
<1>2. CASE Acquire(s)
  <2>1. semaphore' \in 0..MaximumConcurrency BY <1>2 DEF Acquire, SlotFree
  <2>2. TypeOK' BY <1>2, <2>1 DEF Acquire
  <2>3. s \notin Holders /\ Holders' = Holders \cup {s} BY <1>2, HoldersStep DEF Acquire, Holders
  <2>4. SlotsAreHeld'
    <3>1. Cardinality(Holders') = Cardinality(Holders) + 1
      BY <2>3, HoldersFinite, FS_AddElement
    <3>2. limits.concurrency \in Int /\ semaphore \in Int OBVIOUS
    <3>3. semaphore + 1 <= limits.concurrency BY <1>2, <3>2 DEF Acquire, SlotFree
    <3>4. QED BY <1>2, <3>1, <3>3 DEF Acquire, SlotsAreHeld
  <2>5. QED BY <1>1, <2>2, <2>4
<1>3. CASE Refuse(s)
  <2>1. TypeOK' BY <1>3 DEF Refuse, EventLists
  <2>2. Holders' = Holders BY <1>3 DEF Refuse, Holders
  <2>3. SlotsAreHeld' BY <1>3, <2>2 DEF Refuse, SlotsAreHeld
  <2>4. QED BY <1>1, <2>1, <2>3
<1>4. CASE Gather(s)
  <2>1. gathered'[s] \in 0..MaximumOfferings BY <1>4 DEF Gather, RoomForOffering
  <2>2. TypeOK' BY <1>4, <2>1 DEF Gather
  <2>3. SlotsAreHeld' BY <1>4 DEF Gather, SlotsAreHeld, Holders
  <2>4. QED BY <1>1, <2>2, <2>3
<1>5. CASE SearchEnds(s) \/ SearchFails(s)
  <2>1. events' \in [Services -> EventLists]
    BY <1>5 DEF SearchEnds, SearchFails, FailedSearch, EventLists
  <2>2. TypeOK' BY <1>5, <2>1 DEF SearchEnds, SearchFails
  <2>3. Holders' = Holders BY <1>5 DEF SearchEnds, SearchFails, Holders
  <2>4. SlotsAreHeld' BY <1>5, <2>3 DEF SearchEnds, SearchFails, SlotsAreHeld
  <2>5. QED BY <1>1, <2>2, <2>4
<1>6. CASE Answer(s) \/ Drop(s)
  <2>1. TypeOK' BY <1>6 DEF Answer, Drop, Leaving
  <2>2. Holders' = Holders BY <1>6 DEF Answer, Drop, Leaving, Holders
  <2>3. SlotsAreHeld' BY <1>6, <2>2 DEF Answer, Drop, SlotsAreHeld
  <2>4. QED BY <1>1, <2>1, <2>3
<1>7. CASE Release(s)
  <2>1. s \in Holders /\ Holders' = Holders \ {s} BY <1>7, HoldersStep DEF Release, Holders
  <2>2. /\ semaphore' = Cardinality(Holders') /\ semaphore' <= limits'.concurrency
        /\ semaphore' \in Nat
    <3>1. Cardinality(Holders') = Cardinality(Holders) - 1
      BY <2>1, HoldersFinite, FS_RemoveElement
    <3>2. Cardinality(Holders') \in Nat
      BY <2>1, HoldersFinite, FS_RemoveElement, FS_CardinalityType
    <3>3. QED BY <1>7, <3>1, <3>2 DEF Release, SlotReturned, SlotsAreHeld
  <2>3. TypeOK' BY <1>7, <2>2 DEF Release
  <2>4. QED BY <1>1, <2>2, <2>3 DEF SlotsAreHeld
<1>8. QED BY <1>2, <1>3, <1>4, <1>5, <1>6, <1>7 DEF Work

LEMMA NextInv == IInv /\ [Next]_vars => IInv'
<1> SUFFICES ASSUME IInv, [Next]_vars PROVE IInv' OBVIOUS
<1>1. CASE Cancel \/ Propagate \/ UNCHANGED vars
  <2>1. /\ UNCHANGED <<settings, launched, workers, collector>>
        /\ {context', workContext'} \subseteq {"live", "cancelled"}
    BY <1>1 DEF Cancel, Propagate, vars, settings, workers, collector, IInv, TypeOK
  <2>2. TypeOK' BY <2>1 DEF settings, workers, collector, IInv, TypeOK
  <2>3. SlotsAreHeld' BY <2>1 DEF settings, workers, IInv, SlotsAreHeld, Holders
  <2>4. LaunchedInOrder' BY <2>1 DEF settings, workers, collector, IInv, LaunchedInOrder
  <2>5. QED BY <2>2, <2>3, <2>4 DEF IInv
<1>2. CASE Done BY <1>1, <1>2 DEF Done
<1>3. QED BY <1>1, <1>2, CollectInv, WorkInv DEF Next

THEOREM Invariant == Spec => []IInv
<1>1. QED BY InitInv, NextInv, PTL DEF Spec

(* The state is of its type whatever the requests and the limits are.      *)
THEOREM TypeCorrect == Spec => []TypeOK
<1>1. IInv => TypeOK BY DEF IInv
<1>2. QED BY <1>1, Invariant, PTL

(* No more searches run at once than the caller asked for: those searching *)
(* are among the holders, and the holders are counted by the semaphore.    *)
THEOREM ConcurrencyBounded == Spec => []ConcurrencyBound
<1>1. IInv => ConcurrencyBound
  <2> SUFFICES ASSUME IInv PROVE ConcurrencyBound OBVIOUS
  <2>1. Searching \subseteq Holders BY DEF Searching, Holders
  <2>2. Cardinality(Searching) \in Nat /\ Cardinality(Searching) <= Cardinality(Holders)
    BY <2>1, HoldersFinite, FS_Subset, FS_CardinalityType
  <2>3. limits.concurrency \in Nat BY LimitsAssumption DEF IInv, TypeOK
  <2>4. QED BY <2>2, <2>3, HoldersFinite DEF IInv, SlotsAreHeld, ConcurrencyBound
<1>2. QED BY <1>1, Invariant, PTL

-----------------------------------------------------------------------------
(* While the caller wants the search, the work is not cancelled, nobody has*)
(* refused a Service, and an answer not yet read is still in its channel.  *)
Wants == context = "live" /\ pc # "returned"
WorkAlive == Wants => workContext = "live"
NothingLost ==
    Wants => \A s \in Services :
        /\ worker[s] # "refused"
        /\ s >= position /\ worker[s] \in {"releasing", "gone"} => channel[s] # {}
KeptInv == IInv /\ WorkAlive /\ NothingLost

LEMMA KeptStep == KeptInv /\ [Next]_vars => KeptInv'
<1> SUFFICES ASSUME KeptInv, [Next]_vars PROVE KeptInv' OBVIOUS
<1>1. IInv' BY NextInv DEF KeptInv
<1>2. WorkAlive'
  <2>1. CASE Collect
    BY <2>1 DEF Collect, Validate, Discover, DiscoverFails, Launch, WorkContext, Receive,
       ReportCancellation, Yield, NextService, Complete, End, EndWork, contexts, KeptInv,
       WorkAlive, Wants, IInv, TypeOK
  <2>2. ASSUME NEW s \in Services, Work(s) PROVE WorkAlive'
    BY <2>2 DEF Work, Acquire, Refuse, Gather, SearchEnds, SearchFails, Answer, Drop, Release,
       contexts, collector, KeptInv, WorkAlive, Wants
  <2>3. CASE Cancel \/ Propagate \/ Done \/ UNCHANGED vars
    BY <2>3 DEF Cancel, Propagate, Done, vars, collector, KeptInv, WorkAlive, Wants
  <2>4. QED BY <2>1, <2>2, <2>3 DEF Next
<1>3. NothingLost'
  <2> SUFFICES ASSUME Wants', NEW t \in Services
               PROVE  /\ worker'[t] # "refused"
                      /\ t >= position' /\ worker'[t] \in {"releasing", "gone"} => channel'[t] # {}
    BY DEF NothingLost
  <2>1. Wants
    BY DEF Next, Collect, Validate, Discover, DiscoverFails, Launch, Receive, ReportCancellation,
       Yield, NextService, Complete, End, Work, Acquire, Refuse, Gather, SearchEnds, SearchFails,
       Answer, Drop, Release, Cancel, Propagate, Done, contexts, collector, vars, Wants
  <2>2. /\ workContext = "live" /\ worker[t] # "refused"
        /\ t >= position /\ worker[t] \in {"releasing", "gone"} => channel[t] # {}
    BY <2>1 DEF KeptInv, WorkAlive, NothingLost
  <2>3. CASE Launch
    BY <2>2, <2>3 DEF Launch, workers, KeptInv, IInv, TypeOK
  <2>4. ASSUME NEW s \in Services, Receive(s)
        PROVE  /\ worker'[t] # "refused"
               /\ t >= position' /\ worker'[t] \in {"releasing", "gone"} => channel'[t] # {}
    <3>1. s = position /\ position' = position + 1 BY <2>4 DEF Receive, Ready
    <3>2. t >= position' => t # s /\ t >= position
      BY <3>1 DEF Services, KeptInv, IInv, TypeOK
    <3>3. QED BY <2>2, <2>4, <3>2 DEF Receive, KeptInv, IInv, TypeOK
  <2>5. CASE Validate \/ Discover \/ DiscoverFails \/ ReportCancellation \/ Yield \/ NextService
             \/ Complete \/ Cancel \/ Propagate \/ Done \/ UNCHANGED vars
    BY <2>2, <2>5 DEF Validate, Discover, DiscoverFails, ReportCancellation, Yield, NextService,
       Complete, Cancel, Propagate, Done, workers, collector, vars
  <2>6. ASSUME NEW s \in Services, Work(s)
        PROVE  /\ worker'[t] # "refused"
               /\ t >= position' /\ worker'[t] \in {"releasing", "gone"} => channel'[t] # {}
    BY <2>2, <2>6 DEF Work, Acquire, Refuse, Gather, SearchEnds, SearchFails, Answer, Drop,
       Release, Leaving, collector, KeptInv, IInv, TypeOK
  <2>7. QED BY <2>3, <2>4, <2>5, <2>6 DEF Next, Collect
<1>4. QED BY <1>1, <1>2, <1>3 DEF KeptInv

(* No Service is given up while the caller still wants the search.         *)
THEOREM NothingGivenUp == Spec => []GivenUpOnlyWhenUnwanted
<1>1. Init => KeptInv BY InitInv DEF Init, KeptInv, WorkAlive, NothingLost
<1>2. KeptInv => GivenUpOnlyWhenUnwanted
  BY DEF KeptInv, NothingLost, Wants, GivenUpOnlyWhenUnwanted, GivenUp, NotReceived, IInv, TypeOK
<1>3. QED BY <1>1, <1>2, KeptStep, PTL DEF Spec

-----------------------------------------------------------------------------
(* What a Service answers is settled when its goroutine answers: what is in*)
(* its channel or was read from it stays what the goroutine made of it.    *)
Event == [service : Services, type : {"offering", "issue"}, number : 0..MaximumOfferings]

Settled(s) ==
    /\ channel[s] \subseteq {events[s]}
    /\ channel[s] # {} \/ s < position => worker[s] \in {"releasing", "gone"}
    /\ worker[s] = "absent" => events[s] = NoEvents /\ gathered[s] = 0
    /\ gathered[s] <= limits.offerings

Gathering ==
    /\ \A s \in Services : Settled(s)
    /\ OfferingsOrOneIssue
    /\ pc \in {"validate", "discover", "launch", "receive"} => batch = NoEvents
    /\ yielded \in Seq(Event) /\ batch \in Seq(Event)

GatherInv == IInv /\ Gathering

LEMMA EventsType ==
    ASSUME NEW s \in Services
    PROVE  /\ \A n \in 0..MaximumOfferings : OfferingsOf(s, n) \in Seq(Event)
           /\ <<Issue(s)>> \in Seq(Event)
<1>1. ASSUME NEW n \in 0..MaximumOfferings PROVE OfferingsOf(s, n) \in Seq(Event)
  <2>1. n \in Nat /\ \A i \in 1..n : i \in 0..MaximumOfferings BY <1>1, LimitsAssumption
  <2>2. \A i \in 1..n : Offering(s, i) \in Event BY <2>1 DEF Offering, Event
  <2>3. QED BY <2>1, <2>2 DEF OfferingsOf
<1>2. Issue(s) \in Event BY LimitsAssumption DEF Issue, Event
<1>3. QED BY <1>1, <1>2

LEMMA AnswersType ==
    TypeOK /\ OfferingsOrOneIssue => \A s \in Services : events[s] \in Seq(Event)
<1> SUFFICES ASSUME TypeOK, OfferingsOrOneIssue, NEW s \in Services
             PROVE  events[s] \in Seq(Event)
  OBVIOUS
<1>1. limits.offerings \in 0..MaximumOfferings BY DEF TypeOK
<1>2. events[s] \in {OfferingsOf(s, n) : n \in 0..MaximumOfferings} \cup {<<Issue(s)>>}
  BY <1>1, LimitsAssumption DEF OfferingsOrOneIssue
<1>3. QED BY <1>2, EventsType

LEMMA NothingIsOfferings == \A s : OfferingsOf(s, 0) = NoEvents
BY DEF OfferingsOf, NoEvents

LEMMA GatherInit == Init => GatherInv
<1> SUFFICES ASSUME Init PROVE GatherInv OBVIOUS
<1>1. \A s \in Services : Settled(s) BY DEF Init, Settled, Services
<1>2. OfferingsOrOneIssue
  <2>1. 0 \in 0..limits.offerings BY DEF Init
  <2>2. \A s \in Services : events[s] = OfferingsOf(s, 0) BY NothingIsOfferings DEF Init
  <2>3. QED BY <2>1, <2>2 DEF OfferingsOrOneIssue
<1>3. yielded \in Seq(Event) /\ batch \in Seq(Event) BY DEF Init, NoEvents
<1>4. QED BY <1>1, <1>2, <1>3, InitInv DEF GatherInv, Gathering, Init

LEMMA GatherCollect == GatherInv /\ Collect => Gathering'
<1> SUFFICES ASSUME GatherInv, Collect PROVE Gathering' OBVIOUS
<1>t. TypeOK /\ LaunchedInOrder /\ TypeOK' BY CollectInv DEF GatherInv, IInv
<1>g. /\ \A s \in Services : Settled(s)
      /\ OfferingsOrOneIssue
      /\ pc \in {"validate", "discover", "launch", "receive"} => batch = NoEvents
      /\ yielded \in Seq(Event) /\ batch \in Seq(Event)
  BY DEF GatherInv, Gathering
<1> USE LimitsAssumption DEF settings, workers, contexts, collector, End, EndWork
<1>1. CASE Validate
  <2>1. /\ UNCHANGED <<worker, gathered, events, channel, position, batch, yielded>>
        /\ pc = "validate"
    BY <1>1 DEF Validate
  <2>2. limits'.offerings \in Nat BY <1>t DEF TypeOK
  <2>3. \A s \in Services : worker[s] = "absent"
    BY <1>t, <2>1 DEF LaunchedInOrder, Services
  <2>4. \A s \in Services : events[s] = OfferingsOf(s, 0) /\ gathered[s] = 0
    BY <1>g, <2>3, NothingIsOfferings DEF Settled
  <2>5. \A s \in Services : Settled(s)' BY <1>g, <2>1, <2>2, <2>4 DEF Settled
  <2>6. OfferingsOrOneIssue'
    <3>1. 0 \in 0..limits'.offerings BY <2>2
    <3>2. QED BY <2>1, <2>4, <3>1 DEF OfferingsOrOneIssue
  <2>7. QED BY <1>g, <2>1, <2>5, <2>6 DEF Gathering
<1>2. CASE Discover \/ DiscoverFails \/ ReportCancellation \/ NextService \/ Complete
  <2>1. UNCHANGED <<limits, worker, gathered, events, channel, position, batch, yielded>>
    BY <1>2 DEF Discover, DiscoverFails, ReportCancellation, NextService, Complete
  <2>2. \A s \in Services : Settled(s)' BY <1>g, <2>1 DEF Settled
  <2>3. OfferingsOrOneIssue' BY <1>g, <2>1 DEF OfferingsOrOneIssue
  <2>4. pc' \in {"validate", "discover", "launch", "receive"} => batch' = NoEvents
    BY <1>2, <1>g, <2>1 DEF Discover, DiscoverFails, ReportCancellation, NextService, Complete
  <2>5. QED BY <1>g, <2>1, <2>2, <2>3, <2>4 DEF Gathering
<1>3. CASE Launch
  <2>1. /\ UNCHANGED <<limits, gathered, events, channel, position, batch, yielded>>
        /\ pc = "launch" /\ batch = NoEvents
    BY <1>3, <1>g DEF Launch
  <2>2. \A s \in Services : \/ worker'[s] = worker[s]
                            \/ worker[s] = "absent" /\ worker'[s] = "waiting"
    BY <1>3, <1>t DEF Launch, LaunchedInOrder, TypeOK
  <2>3. \A s \in Services : Settled(s)' BY <1>g, <2>1, <2>2 DEF Settled
  <2>4. OfferingsOrOneIssue' BY <1>g, <2>1 DEF OfferingsOrOneIssue
  <2>5. QED BY <1>g, <2>1, <2>3, <2>4 DEF Gathering
<1>4. ASSUME NEW r \in Services, Receive(r) PROVE Gathering'
  <2>1. /\ UNCHANGED <<limits, worker, gathered, events, yielded>> /\ pc' = "yield"
        /\ r = position /\ position' = position + 1 /\ channel[r] # {} /\ batch' \in channel[r]
        /\ channel' = [channel EXCEPT ![r] = {}]
    BY <1>4 DEF Receive, Ready
  <2>2. batch' = events[r] /\ worker[r] \in {"releasing", "gone"}
    BY <1>g, <2>1 DEF Settled
  <2>3. batch' \in Seq(Event) BY <1>t, <1>g, <2>2, AnswersType
  <2>4. \A s \in Services : s < position + 1 => s < position \/ s = r
    BY <1>t, <2>1 DEF Services, TypeOK
  <2>5. \A s \in Services : channel'[s] = channel[s] \/ channel'[s] = {}
    BY <1>t, <2>1 DEF TypeOK
  <2>6. \A s \in Services : Settled(s)' BY <1>g, <2>1, <2>2, <2>4, <2>5 DEF Settled
  <2>7. OfferingsOrOneIssue' BY <1>g, <2>1 DEF OfferingsOrOneIssue
  <2>8. QED BY <1>g, <2>1, <2>3, <2>6, <2>7 DEF Gathering
<1>5. CASE Yield
  <2>1. /\ UNCHANGED <<limits, worker, gathered, events, channel, position>>
        /\ pc' \in {"yield", "returned"} /\ batch # <<>>
        /\ yielded' = Append(yielded, Head(batch)) /\ batch' = Tail(batch)
    BY <1>5 DEF Yield, NoEvents
  <2>2. yielded' \in Seq(Event) /\ batch' \in Seq(Event) BY <1>g, <2>1
  <2>3. \A s \in Services : Settled(s)' BY <1>g, <2>1 DEF Settled
  <2>4. OfferingsOrOneIssue' BY <1>g, <2>1 DEF OfferingsOrOneIssue
  <2>5. QED BY <2>1, <2>2, <2>3, <2>4 DEF Gathering
<1>6. QED BY <1>1, <1>2, <1>3, <1>4, <1>5 DEF Collect

(* A goroutine makes up its mind only before it answers, and then for what *)
(* it gathered, within what was asked for, or for one issue.               *)
LEMMA GatherWork == ASSUME NEW r \in Services PROVE GatherInv /\ Work(r) => Gathering'
<1> SUFFICES ASSUME GatherInv, Work(r) PROVE Gathering' OBVIOUS
<1>t. TypeOK /\ TypeOK' BY WorkInv DEF GatherInv, IInv
<1>g. /\ \A s \in Services : Settled(s)
      /\ OfferingsOrOneIssue
      /\ pc \in {"validate", "discover", "launch", "receive"} => batch = NoEvents
      /\ yielded \in Seq(Event) /\ batch \in Seq(Event)
  BY DEF GatherInv, Gathering
<1> USE LimitsAssumption DEF settings, workers, contexts, collector
<1>c. UNCHANGED <<limits, position, pc, batch, yielded>>
  BY DEF Work, Acquire, Refuse, Gather, SearchEnds, SearchFails, Answer, Drop, Release
<1>o. \A s \in Services \ {r} : /\ worker'[s] = worker[s] /\ gathered'[s] = gathered[s]
                                /\ events'[s] = events[s] /\ channel'[s] = channel[s]
  BY <1>t DEF Work, Acquire, Refuse, Gather, SearchEnds, SearchFails, Answer, Drop, Release, TypeOK
<1>1. \A s \in Services \ {r} : Settled(s)' BY <1>c, <1>g, <1>o DEF Settled
<1>2. ASSUME Settled(r)',
             events'[r] \in {OfferingsOf(r, n) : n \in 0..limits.offerings} \cup {<<Issue(r)>>}
      PROVE  Gathering'
  <2>1. \A s \in Services : Settled(s)' BY <1>1, <1>2
  <2>2. OfferingsOrOneIssue' BY <1>c, <1>g, <1>o, <1>2 DEF OfferingsOrOneIssue
  <2>3. QED BY <1>c, <1>g, <2>1, <2>2 DEF Gathering
<1>s. Settled(r) /\ events[r] \in {OfferingsOf(r, n) : n \in 0..limits.offerings} \cup {<<Issue(r)>>}
  BY <1>g DEF OfferingsOrOneIssue
<1>3. CASE worker[r] \in {"waiting", "searching"}
  <2>1. channel[r] = {} /\ channel'[r] = {} /\ ~(r < position)
    BY <1>3, <1>s DEF Settled, Work, Acquire, Refuse, Gather, SearchEnds, SearchFails, Answer, Drop,
       Release
  <2>2. worker'[r] # "absent"
    BY <1>3, <1>t DEF Work, Acquire, Refuse, Gather, SearchEnds, SearchFails, Answer, Drop,
       Release, TypeOK
  <2>3. gathered'[r] <= limits.offerings
    BY <1>3, <1>t, <1>s DEF Settled, Work, Acquire, Refuse, Gather, SearchEnds, SearchFails, Answer,
       Drop, Release, RoomForOffering, TypeOK
  <2>4. Settled(r)' BY <1>c, <2>1, <2>2, <2>3 DEF Settled
  <2>5. gathered[r] \in 0..limits.offerings BY <1>t, <1>s DEF Settled, TypeOK
  <2>6. \/ events'[r] = events[r]
        \/ events'[r] = OfferingsOf(r, gathered[r])
        \/ events'[r] = <<Issue(r)>>
    BY <1>3, <1>t DEF Work, Acquire, Refuse, Gather, SearchEnds, SearchFails, FailedSearch, Answer,
       Drop, Release, TypeOK
  <2>7. QED BY <1>2, <1>s, <2>4, <2>5, <2>6
<1>4. CASE worker[r] \notin {"waiting", "searching"}
  <2>1. UNCHANGED <<events, gathered>> /\ worker'[r] \in {"releasing", "gone"}
    BY <1>4, <1>t DEF Work, Acquire, Refuse, Gather, SearchEnds, SearchFails, Answer, Drop,
       Release, Leaving, TypeOK
  <2>2. channel'[r] = channel[r] \/ channel'[r] = {events[r]}
    BY <1>4, <1>t DEF Work, Acquire, Refuse, Gather, SearchEnds, SearchFails, Answer, Drop,
       Release, TypeOK
  <2>3. Settled(r)' BY <1>c, <1>s, <2>1, <2>2 DEF Settled
  <2>4. QED BY <1>2, <1>s, <2>1, <2>3
<1>5. QED BY <1>3, <1>4

THEOREM Gathered == Spec => []GatherInv
<1>1. GatherInv /\ [Next]_vars => GatherInv'
  <2> SUFFICES ASSUME GatherInv, [Next]_vars PROVE GatherInv' OBVIOUS
  <2>1. IInv' BY NextInv DEF GatherInv
  <2>2. CASE Cancel \/ Propagate \/ Done \/ UNCHANGED vars
    <3>1. UNCHANGED <<limits, worker, gathered, events, channel, pc, position, batch, yielded>>
      BY <2>2 DEF Cancel, Propagate, Done, vars, settings, workers, collector
    <3>2. UNCHANGED <<OfferingsOrOneIssue>> /\ \A s \in Services : Settled(s)' = Settled(s)
      BY <3>1 DEF OfferingsOrOneIssue, Settled
    <3>3. Gathering' BY <3>1, <3>2 DEF GatherInv, Gathering
    <3>4. QED BY <2>1, <3>3 DEF GatherInv
  <2>3. QED BY <2>1, <2>2, GatherCollect, GatherWork DEF Next, GatherInv
<1>2. QED BY <1>1, GatherInit, PTL DEF Spec

(* A Service contributes Offerings, no more than asked for, or one issue.  *)
THEOREM OfferingsOrIssue == Spec => []OfferingsOrOneIssue
<1>1. GatherInv => OfferingsOrOneIssue BY DEF GatherInv, Gathering
<1>2. QED BY <1>1, Gathered, PTL

-----------------------------------------------------------------------------
(* The answers of the Services before the collector's position.            *)
Answers == [s \in 1..(position - 1) |-> events[s]]

LEMMA AnswersStay ==
    ASSUME GatherInv, Next, UNCHANGED position PROVE Answers' = Answers
<1>1. \A s \in 1..(position - 1) : s \in Services /\ worker[s] \in {"releasing", "gone"}
  BY LimitsAssumption DEF GatherInv, IInv, TypeOK, Gathering, Settled, Services
<1>2. \A s \in Services : worker[s] \in {"releasing", "gone"} => events'[s] = events[s]
  <2>1. CASE UNCHANGED events BY <2>1
  <2>2. ASSUME NEW r \in Services, Work(r)
        PROVE  \A s \in Services : worker[s] \in {"releasing", "gone"} => events'[s] = events[s]
    BY <2>2 DEF Work, Acquire, Refuse, Gather, SearchEnds, SearchFails, Answer, Drop, Release,
       GatherInv, IInv, TypeOK
  <2>3. Collect \/ Cancel \/ Propagate \/ Done => UNCHANGED events
    BY DEF Collect, Validate, Discover, DiscoverFails, Launch, Receive, ReportCancellation, Yield,
       NextService, Complete, Cancel, Propagate, Done, vars, workers
  <2>4. QED BY <2>1, <2>2, <2>3 DEF Next
<1>3. \A s \in 1..(position - 1) : events'[s] = events[s] BY <1>1, <1>2
<1>4. QED BY <1>3 DEF Answers

LEMMA OrderStep == GatherInv /\ EventsInDirectoryOrder /\ [Next]_vars => EventsInDirectoryOrder'
<1> SUFFICES ASSUME GatherInv, yielded \o batch = FlattenSeq(Answers), [Next]_vars
             PROVE  yielded' \o batch' = FlattenSeq(Answers')
  BY DEF EventsInDirectoryOrder, Answers
<1>t. /\ TypeOK /\ \A s \in Services : Settled(s)
      /\ yielded \in Seq(Event) /\ batch \in Seq(Event)
      /\ \A s \in Services : events[s] \in Seq(Event)
  BY AnswersType DEF GatherInv, IInv, Gathering
<1>1. ASSUME NEW r \in Services, Receive(r) PROVE yielded' \o batch' = FlattenSeq(Answers')
  <2>1. /\ r = position /\ position' = position + 1 /\ batch' = events[r] /\ batch = <<>>
        /\ UNCHANGED <<events, yielded>>
    BY <1>1, <1>t DEF Receive, Ready, Settled, GatherInv, Gathering, NoEvents
  <2>2. PICK n \in Nat : n = position - 1 /\ r = n + 1
    BY <1>t, <2>1, LimitsAssumption DEF TypeOK
  <2>3. \A s \in 1..(n + 1) : s \in Services BY <2>2, LimitsAssumption DEF Services
  <2>4. Answers = [s \in 1..n |-> events[s]] /\ Answers' = [s \in 1..(n + 1) |-> events[s]]
    BY <1>t, <2>1, <2>2 DEF Answers, Services
  <2>5. Answers \in [1..n -> Seq(Event)] /\ Answers' \in [1..(n + 1) -> Seq(Event)]
    BY <1>t, <2>2, <2>3, <2>4
  <2>6. /\ \A s \in 1..n : Answers[s] = Answers'[s]
        /\ Answers'[n + 1] = batch'
    BY <2>1, <2>2, <2>4
  <2>7. FlattenSeq(Answers') = FlattenSeq(Answers) \o Answers'[n + 1]
    BY <2>5, <2>6, FlattenOneMore
  <2>8. yielded \o batch = yielded BY <1>t, <2>1
  <2>9. QED BY <2>1, <2>6, <2>7, <2>8
<1>2. CASE Yield
  <2>1. /\ batch # <<>> /\ yielded' = Append(yielded, Head(batch)) /\ batch' = Tail(batch)
        /\ UNCHANGED position
    BY <1>2 DEF Yield, NoEvents
  <2>2. Append(yielded, Head(batch)) \o Tail(batch) = yielded \o batch BY <1>t, <2>1, HeadMoves
  <2>3. QED BY <1>2, <2>1, <2>2, AnswersStay DEF Next, Collect
<1>3. ASSUME ~Yield, \A r \in Services : ~Receive(r)
      PROVE  yielded' \o batch' = FlattenSeq(Answers')
  <2>1. UNCHANGED <<yielded, batch, position>>
    BY <1>3 DEF Next, Collect, Validate, Discover, DiscoverFails, Launch, ReportCancellation,
       NextService, Complete, Work, Acquire, Refuse, Gather, SearchEnds, SearchFails, Answer, Drop,
       Release, Cancel, Propagate, Done, vars, collector
  <2>2. CASE Next BY <2>1, <2>2, AnswersStay
  <2>3. CASE UNCHANGED vars BY <2>3 DEF vars, Answers
  <2>4. QED BY <2>1, <2>2, <2>3
<1>4. QED BY <1>1, <1>2, <1>3

(* The caller is given whole answers, in the order of the directory.       *)
THEOREM DirectoryOrder == Spec => []EventsInDirectoryOrder
<1>1. Init => EventsInDirectoryOrder
  <2> SUFFICES ASSUME Init PROVE yielded \o batch = FlattenSeq(Answers)
    BY DEF EventsInDirectoryOrder, Answers
  <2>1. Answers \in [1..0 -> {}] BY DEF Init, Answers
  <2>2. yielded \o batch = <<>> BY DEF Init, NoEvents
  <2>3. QED BY <2>1, <2>2, FlattenNone
<1>2. QED BY <1>1, OrderStep, Gathered, PTL DEF Spec
=============================================================================
