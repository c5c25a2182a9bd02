------------------------- MODULE PageIterator_proofs -------------------------
(***************************************************************************)
(* Proofs about PageIterator, for every graph of pages, every limit and    *)
(* every consumer: the state is of its type, the items handed out are those*)
(* of the pages, in order, and the iterator is a traversal as its consumer *)
(* is promised one (module Traversal).                                     *)
(***************************************************************************)
EXTENDS PageIterator, SequenceLemmas

(* Where the loop is, in terms of what it has asked for and handed out: the*)
(* page it holds is the first one or the last followed, and its counter and*)
(* its visited set follow the two histories.                               *)
Held == IF followed = <<>> THEN First ELSE Last(followed)
Handed == pages # <<>> /\ page = Last(pages)

Place ==
    /\ outcome = "open" <=> pc # "done"
    /\ pc # "done" => visited = ToSet(followed)
    /\ pc = "yield" => Len(pages) = Len(followed) /\ count = Len(pages)
                        /\ count < MaxTraversalPages /\ page = Held
    /\ pc = "consume" => Len(pages) = Len(followed) + 1 /\ count = Len(pages) - 1
                          /\ count < MaxTraversalPages /\ Handed
    /\ pc = "load" => Len(pages) = Len(followed) /\ count = Len(pages) - 1
                       /\ count < MaxTraversalPages /\ Handed /\ taken = size[page]
                       /\ link[page] = Last(followed)
    /\ pc = "over" => Len(pages) = MaxTraversalPages /\ Len(followed) = Len(pages)
                       /\ page = Last(followed) /\ link[Last(pages)] = page
    /\ outcome = "ended" =>
           pages # <<>> /\ (link[Last(pages)] = NoNext \/ Len(pages) = MaxTraversalPages)

IInv == TypeOK /\ Place

-----------------------------------------------------------------------------
LEMMA InitInv == Init => IInv
<1> SUFFICES ASSUME Init PROVE IInv OBVIOUS
<1>1. TypeOK BY ConstantsAssumption DEF Init, TypeOK, PageIds
<1>2. Place BY ConstantsAssumption DEF Init, Place, Held, ToSet
<1>3. QED BY <1>1, <1>2 DEF IInv

(* Each step of the iterator keeps its type and its place.                 *)
LEMMA TypeStep == IInv /\ [Next]_vars => TypeOK'
<1> SUFFICES ASSUME IInv, [Next]_vars PROVE TypeOK' OBVIOUS
<1> USE ConstantsAssumption DEF IInv, TypeOK, PageIds, server, End
<1>1. CASE Yield BY <1>1 DEF Yield
<1>2. CASE TakeItem
  <2>1. size[page] \in 0..MaxSize OBVIOUS
  <2>2. taken + 1 \in 1..MaxSize BY <1>2, <2>1 DEF TakeItem
  <2>3. <<page, taken + 1>> \in PageIds \X (1..MaxSize) BY <2>2
  <2>4. items' \in Seq(PageIds \X (1..MaxSize)) BY <1>2, <2>3 DEF TakeItem
  <2>5. QED BY <1>2, <2>2, <2>4 DEF TakeItem
<1>3. CASE Stop \/ EndOfChain \/ LoopDetected \/ LoadFails \/ Over \/ Cancel
  BY <1>3 DEF Stop, EndOfChain, LoopDetected, LoadFails, Over, Cancel
<1>4. CASE Advance
  <2>1. link[page] \in Refs BY <1>4 DEF Advance
  <2>2. visited' \subseteq Refs BY <1>4, <2>1 DEF Advance, Visit
  <2>3. followed' \in Seq(Refs)
    <3>1. Append(followed, link[page]) \in Seq(Refs) BY <2>1
    <3>2. QED BY <1>4, <3>1 DEF Advance
  <2>4. outcome' \in {"open", "cancelled"} /\ pc' \in {"load", "done"}
    BY <1>4 DEF Advance, Place
  <2>5. QED BY <1>4, <2>2, <2>3, <2>4 DEF Advance
<1>5. CASE Load
  <2>1. link[page] \in PageIds
    <3>1. followed # <<>> BY <1>5 DEF Load, Place, Handed
    <3>2. QED BY <1>5, <3>1, LastInSet DEF Load, Place
  <2>2. count' \in 0..MaxTraversalPages BY <1>5 DEF Load, CountUp, Place
  <2>3. QED BY <1>5, <2>1, <2>2 DEF Load
<1>6. CASE Done \/ UNCHANGED vars BY <1>6 DEF Done, vars
<1>7. QED BY <1>1, <1>2, <1>3, <1>4, <1>5, <1>6 DEF Next, Iterator

LEMMA PlaceStep == IInv /\ [Next]_vars => Place'
<1> SUFFICES ASSUME IInv, [Next]_vars PROVE Place' OBVIOUS
<1> USE ConstantsAssumption DEF IInv, server, End
<1>1. CASE Yield
  <2>1. page \in PageIds /\ pages \in Seq(PageIds) BY DEF TypeOK
  <2>2. Last(pages') = page /\ pages' # <<>> /\ Len(pages') = Len(pages) + 1
    BY <1>1, <2>1, LastOfAppend DEF Yield
  <2>3. Len(pages') = Len(followed') + 1 /\ count' = Len(pages') - 1
    <3>1. Len(pages) = Len(followed) /\ count = Len(pages) BY <1>1 DEF Yield, Place
    <3>2. Len(pages) \in Nat BY <2>1
    <3>3. QED BY <1>1, <2>2, <3>1, <3>2 DEF Yield
  <2>4. visited' = ToSet(followed') /\ count' < MaxTraversalPages /\ Handed'
    BY <1>1, <2>2 DEF Yield, Place, Handed
  <2>5. pc' = "consume" /\ outcome' = "open" BY <1>1 DEF Yield, Place
  <2>6. QED BY <2>3, <2>4, <2>5 DEF Place
<1>2. CASE TakeItem BY <1>2 DEF TakeItem, Place, Handed
<1>3. CASE Stop \/ EndOfChain \/ LoopDetected \/ LoadFails \/ Cancel
  BY <1>3 DEF Stop, EndOfChain, LoopDetected, LoadFails, Cancel, Place, Handed, Held
<1>4. CASE Advance
  <2>1. link[page] \in Refs /\ followed \in Seq(Refs) BY <1>4 DEF Advance, TypeOK, PageIds
  <2>2. CASE context = "cancelled" /\ outcome' = "cancelled" /\ pc' = "done" /\ UNCHANGED followed
    BY <1>4, <2>2 DEF Advance, Place
  <2>3. CASE pc' = "load" /\ followed' = Append(followed, link[page]) /\ UNCHANGED outcome
    <3>1. Last(followed') = link[page] /\ Len(followed') = Len(followed) + 1
      BY <2>1, <2>3, LastOfAppend
    <3>2. visited' = ToSet(followed')
      BY <1>4, <2>1, <2>3, SetOfAppend DEF Advance, Visit, Place
    <3>3. QED BY <1>4, <2>3, <3>1, <3>2 DEF Advance, Place, Handed, PageConsumed, TypeOK
  <2>4. QED BY <1>4, <2>2, <2>3 DEF Advance
<1>5. CASE Load
  <2>1. pages \in Seq(PageIds) /\ followed \in Seq(Refs) /\ count \in Nat BY DEF TypeOK
  <2>2. page' = Last(followed) /\ page' = link[Last(pages)] BY <1>5 DEF Load, Place, Handed
  <2>3. followed # <<>> BY <1>5, <2>1 DEF Load, Place, Handed
  <2>4. QED BY <1>5, <2>1, <2>2, <2>3 DEF Load, CountUp, LoopGoesOn, Place, Handed, Held, TypeOK
<1>6. CASE Over
  <2>1. outcome' \in {"limit", "ended"} BY <1>6 DEF Over
  <2>2. QED BY <1>6, <2>1 DEF Over, Place
<1>7. CASE Done \/ UNCHANGED vars BY <1>7 DEF Done, vars, Place, Handed, Held
<1>8. QED BY <1>1, <1>2, <1>3, <1>4, <1>5, <1>6, <1>7 DEF Next, Iterator

THEOREM Invariant == Spec => []IInv
<1>1. IInv /\ [Next]_vars => IInv' BY TypeStep, PlaceStep DEF IInv
<1>2. QED BY <1>1, InitInv, PTL DEF Spec

(* The state is of its type: the counter never passes the limit.           *)
THEOREM TypeCorrect == Spec => []TypeOK
<1>1. IInv => TypeOK BY DEF IInv
<1>2. QED BY <1>1, Invariant, PTL

-----------------------------------------------------------------------------
(* What of each page has been handed out: a page the loop has left is      *)
(* handed out whole.                                                       *)
Entry == PageIds \X (1..MaxSize)
Share(n) == ItemsOf(pages[n], IF n = Len(pages) /\ pc # "yield" THEN taken ELSE size[pages[n]])
Shares == [n \in 1..Len(pages) |-> Share(n)]

LEMMA SharesType == TypeOK => Shares \in [1..Len(pages) -> Seq(Entry)]
<1> SUFFICES ASSUME TypeOK PROVE Shares \in [1..Len(pages) -> Seq(Entry)] OBVIOUS
<1>1. ASSUME NEW p \in PageIds, NEW k \in 0..MaxSize PROVE ItemsOf(p, k) \in Seq(Entry)
  <2>1. \A i \in 1..k : <<p, i>> \in Entry BY ConstantsAssumption DEF Entry
  <2>2. QED BY <2>1 DEF ItemsOf
<1>2. \A n \in 1..Len(pages) : pages[n] \in PageIds /\ size[pages[n]] \in 0..MaxSize
  BY DEF TypeOK
<1>3. \A n \in 1..Len(pages) : Share(n) \in Seq(Entry) BY <1>1, <1>2 DEF Share, TypeOK
<1>4. QED BY <1>3 DEF Shares

(* A step that hands nothing out and stays at its page leaves the shares.  *)
LEMMA SharesStay ==
    ASSUME UNCHANGED <<size, pages, taken>>, pc = "yield" <=> pc' = "yield"
    PROVE  Shares' = Shares
<1>1. \A n \in 1..Len(pages) : Share(n)' = Share(n) BY DEF Share
<1>2. QED BY <1>1 DEF Shares

LEMMA ItemsStep == IInv /\ ItemsFollowThePages /\ [Next]_vars => ItemsFollowThePages'
<1> SUFFICES ASSUME IInv, items = FlattenSeq(Shares), [Next]_vars
             PROVE  items' = FlattenSeq(Shares')
  BY DEF ItemsFollowThePages, Shares, Share
<1>t. TypeOK /\ TypeOK' /\ Place BY TypeStep DEF IInv
<1>s. Shares \in [1..Len(pages) -> Seq(Entry)] /\ Shares' \in [1..Len(pages') -> Seq(Entry)]
  <2>1. (TypeOK => Shares \in [1..Len(pages) -> Seq(Entry)])' BY SharesType, PTL
  <2>2. QED BY <1>t, <2>1, SharesType DEF Entry, PageIds
<1>1. CASE Yield
  <2>1. Len(pages) \in Nat /\ Len(pages') = Len(pages) + 1
        /\ \A n \in 1..Len(pages) : pages'[n] = pages[n]
    BY <1>1, <1>t DEF Yield, TypeOK
  <2>2. \A n \in 1..Len(pages) : Shares'[n] = Shares[n]
    BY <1>1, <2>1 DEF Yield, server, Shares, Share
  <2>3. Shares'[Len(pages) + 1] = <<>>
    BY <1>1, <2>1 DEF Yield, Shares, Share, ItemsOf
  <2>4. FlattenSeq(Shares') = FlattenSeq(Shares) \o Shares'[Len(pages) + 1]
    BY <1>s, <2>1, <2>2, FlattenOneMore
  <2>5. FlattenSeq(Shares) \in Seq(Entry) BY <1>s, <2>1, FlattenType
  <2>6. QED BY <1>1, <2>3, <2>4, <2>5 DEF Yield
<1>2. CASE TakeItem
  <2>1. Len(pages) \in Nat \ {0} /\ page = pages[Len(pages)] /\ UNCHANGED pages
    <3>1. pages \in Seq(PageIds) BY <1>t DEF TypeOK
    <3>2. pages # <<>> /\ page = Last(pages) BY <1>2, <1>t DEF TakeItem, Place, Handed
    <3>3. UNCHANGED pages BY <1>2 DEF TakeItem
    <3>4. QED BY <3>1, <3>2, <3>3, LastInSet
  <2>2. \A n \in 1..(Len(pages) - 1) : Shares'[n] = Shares[n]
    BY <1>2, <2>1 DEF TakeItem, server, Shares, Share
  <2>3. Shares[Len(pages)] = ItemsOf(page, taken) /\ Shares'[Len(pages)] = ItemsOf(page, taken + 1)
    BY <1>2, <2>1 DEF TakeItem, server, Shares, Share
  <2>4. ItemsOf(page, taken + 1) = Append(ItemsOf(page, taken), <<page, taken + 1>>)
    <3>1. taken \in Nat BY <1>t DEF TypeOK
    <3>2. QED BY <3>1 DEF ItemsOf
  <2>5. <<page, taken + 1>> \in Entry BY <1>2, <1>t DEF TakeItem, TypeOK, Entry
  <2>a. /\ Shares \in [1..Len(pages) -> Seq(Entry)] /\ Shares' \in [1..Len(pages) -> Seq(Entry)]
        /\ Shares'[Len(pages)] = Append(Shares[Len(pages)], <<page, taken + 1>>)
    BY <1>s, <2>1, <2>3, <2>4
  <2>6. FlattenSeq(Shares') = Append(FlattenSeq(Shares), <<page, taken + 1>>)
    <3>1. LongerLast(Entry, Len(pages), Shares, Shares', <<page, taken + 1>>)
      BY <2>1, <2>2, <2>5, <2>a DEF LongerLast
    <3>2. QED BY <3>1, FlattenLongerLast
  <2>7. QED BY <1>2, <2>6 DEF TakeItem
<1>3. CASE Load
  <2>1. pages # <<>> /\ taken = size[pages[Len(pages)]]
    BY <1>3, <1>t, LastInSet DEF Load, Place, Handed, TypeOK
  <2>2. \A n \in 1..Len(pages) : Share(n)' = Share(n)
    BY <1>3, <2>1 DEF Load, server, Share
  <2>3. Shares' = Shares BY <1>3, <2>2 DEF Load, Shares
  <2>4. QED BY <1>3, <2>3 DEF Load
<1>4. CASE Stop \/ EndOfChain \/ LoopDetected \/ Advance \/ LoadFails \/ Over \/ Cancel
           \/ Done \/ UNCHANGED vars
  <2>1. UNCHANGED <<size, pages, taken, items>> /\ (pc = "yield" <=> pc' = "yield")
    BY <1>4 DEF Stop, EndOfChain, LoopDetected, Advance, LoadFails, Over, Cancel, Done, vars,
       server, End
  <2>2. QED BY <2>1, SharesStay
<1>5. QED BY <1>1, <1>2, <1>3, <1>4 DEF Next, Iterator

(* The items handed out are those of the pages handed out, in order.       *)
THEOREM ItemsInOrder == Spec => []ItemsFollowThePages
<1>1. Init => ItemsFollowThePages
  <2> SUFFICES ASSUME Init PROVE items = FlattenSeq(Shares)
    BY DEF ItemsFollowThePages, Shares, Share
  <2>1. Shares \in [1..0 -> {}] BY DEF Init, Shares
  <2>2. QED BY <2>1, FlattenNone DEF Init
<1>2. QED BY <1>1, ItemsStep, Invariant, PTL DEF Spec

-----------------------------------------------------------------------------
(* Refinement.  The promise's outcome is open with the iterator's; a quiet *)
(* end is said of a chain that has no more, or of a full budget.           *)
LEMMA OutcomeOpen == Place => (AbstractOutcome = "open" <=> pc # "done")
BY DEF Place, AbstractOutcome

LEMMA RefinesInit == Init => Abstract!TInit
<1> SUFFICES ASSUME Init PROVE Abstract!TInit OBVIOUS
<1>1. link \in [PageIds -> PageIds \cup {NoNext}] BY DEF Init, PageIds
<1>2. AbstractOutcome = "open" BY DEF Init, AbstractOutcome
<1>3. QED BY <1>1, <1>2, ConstantsAssumption DEF Init, Abstract!TInit, PageIds

(* The promise reads its histories with the same operators.                *)
LEMMA SameOperators == \A s : Abstract!Last(s) = Last(s) /\ Abstract!ToSet(s) = ToSet(s)
BY DEF Last, Abstract!Last, ToSet, Abstract!ToSet

(* An end of the iterator is one the promise allows.                       *)
LEMMA RefinesEnd ==
    ASSUME TypeOK, Place, Place', pc # "done", pc' = "done",
           UNCHANGED <<link, followed, pages>>,
           \/ outcome' \in {"stopped", "failed", "cancelled"}
           \/ outcome' = "ended"
           \/ outcome' = "loop" /\ Handed /\ link[page] \in ToSet(followed)
           \/ outcome' = "limit" /\ Len(pages) = MaxTraversalPages
    PROVE  \E why \in Abstract!Quiet \cup Abstract!Errors : Abstract!Finish(why)
<1> USE DEF Abstract!Quiet, Abstract!Errors
<1>1. AbstractOutcome = "open" BY OutcomeOpen
<1>2. CASE outcome' \in {"stopped", "failed", "cancelled"}
  <2>1. AbstractOutcome' = outcome' BY <1>2 DEF AbstractOutcome
  <2>2. Abstract!Finish(outcome') BY <1>1, <1>2, <2>1 DEF Abstract!Finish
  <2>3. QED BY <1>2, <2>2
<1>3. CASE outcome' = "ended"
  <2>1. pages # <<>> /\ (link[Last(pages)] = NoNext \/ Len(pages) = MaxTraversalPages)
    BY <1>3 DEF Place
  <2>2. AbstractOutcome' = IF link[Last(pages)] = NoNext THEN "exhausted" ELSE "budget"
    BY <1>3 DEF AbstractOutcome
  <2>3. CASE link[Last(pages)] = NoNext
    <3>1. AbstractOutcome' = "exhausted" BY <2>2, <2>3
    <3>2. "exhausted" \notin {"budget", "limit"} /\ "exhausted" # "loop" OBVIOUS
    <3>3. Abstract!Finish("exhausted")
      BY <1>1, <2>1, <2>3, <3>1, <3>2, SameOperators, Zenon DEF Abstract!Finish
    <3>4. QED BY <3>3
  <2>4. CASE link[Last(pages)] # NoNext
    <3>1. Abstract!Finish("budget") BY <1>1, <2>1, <2>2, <2>4 DEF Abstract!Finish
    <3>2. QED BY <3>1
  <2>5. QED BY <2>3, <2>4
<1>4. CASE outcome' = "loop" /\ Handed /\ link[page] \in ToSet(followed)
  <2>1. AbstractOutcome' = "loop" BY <1>4 DEF AbstractOutcome
  <2>2. "loop" \notin {"budget", "limit"} /\ "loop" # "exhausted" OBVIOUS
  <2>3. pages # <<>> /\ link[Last(pages)] \in ToSet(followed) \cup {First}
    BY <1>4, Zenon DEF Handed
  <2>4. Abstract!Finish("loop") BY <1>1, <2>1, <2>2, <2>3, SameOperators, Zenon DEF Abstract!Finish
  <2>5. QED BY <2>4
<1>5. CASE outcome' = "limit" /\ Len(pages) = MaxTraversalPages
  <2>1. AbstractOutcome' = "limit" BY <1>5 DEF AbstractOutcome
  <2>2. Abstract!Finish("limit") BY <1>1, <1>5, <2>1 DEF Abstract!Finish
  <2>3. QED BY <2>2
<1>6. QED BY <1>2, <1>3, <1>4, <1>5

(* Every step of the iterator is a step of the promise or changes nothing. *)
LEMMA RefinesNext == IInv /\ [Next]_vars => [Abstract!TNext]_(Abstract!tvars)
<1> SUFFICES ASSUME IInv, [Next]_vars, ~UNCHANGED Abstract!tvars PROVE Abstract!TNext OBVIOUS
<1>t. TypeOK /\ Place /\ Place' BY PlaceStep DEF IInv
<1>o. (AbstractOutcome = "open" <=> pc # "done") /\ (AbstractOutcome' = "open" <=> pc' # "done")
  <2>1. (Place => (AbstractOutcome = "open" <=> pc # "done"))' BY OutcomeOpen, PTL
  <2>2. QED BY <1>t, <2>1, OutcomeOpen
<1> USE DEF server, End
<1>1. CASE Yield
  <2>1. AbstractOutcome = "open" /\ AbstractOutcome' = "open"
    BY <1>1, <1>o DEF Yield
  <2>2. Len(pages) < MaxTraversalPages /\ Len(pages) = Len(followed) /\ page = Held
    BY <1>1, <1>t DEF Yield, Place
  <2>3. followed = <<>> <=> pages = <<>> BY <1>t, <2>2 DEF TypeOK
  <2>4. pages' = Append(pages, IF pages = <<>> THEN First ELSE Last(followed))
    BY <1>1, <2>2, <2>3 DEF Yield, Held
  <2>5. Len(pages) <= Len(followed) BY <1>t, <2>2 DEF TypeOK
  <2>6. UNCHANGED <<link, followed>> BY <1>1 DEF Yield
  <2>7. Abstract!Deliver BY <2>1, <2>2, <2>4, <2>5, <2>6, SameOperators, Zenon DEF Abstract!Deliver
  <2>8. QED BY <2>7 DEF Abstract!TNext
<1>2. CASE Advance /\ pc' = "load"
  <2>1. AbstractOutcome = "open" /\ AbstractOutcome' = "open"
    BY <1>2, <1>o DEF Advance
  <2>2. Len(pages) = Len(followed) + 1 /\ Handed /\ visited = ToSet(followed)
    BY <1>2, <1>t DEF Advance, Place
  <2>3. Len(followed) < Len(pages) BY <1>t, <2>2 DEF TypeOK
  <2>4. /\ link[page] \notin ToSet(followed) \cup {NoNext}
        /\ followed' = Append(followed, link[page])
        /\ UNCHANGED <<link, pages>>
    BY <1>2, <2>2 DEF Advance
  <2>5. Abstract!Follow BY <2>1, <2>2, <2>3, <2>4, SameOperators, Zenon DEF Handed, Abstract!Follow
  <2>6. QED BY <2>5 DEF Abstract!TNext
<1>3. CASE pc # "done" /\ pc' = "done"
  <2>1. UNCHANGED <<link, followed, pages>>
    BY <1>3 DEF Next, Iterator, Yield, TakeItem, Stop, EndOfChain, LoopDetected, Advance, Load,
       LoadFails, Over, Cancel, Done, vars
  <2>2. \/ outcome' \in {"stopped", "failed", "cancelled"}
        \/ outcome' = "ended"
        \/ outcome' = "loop" /\ Handed /\ link[page] \in ToSet(followed)
        \/ outcome' = "limit" /\ Len(pages) = MaxTraversalPages
    BY <1>3, <1>t DEF Next, Iterator, Yield, TakeItem, Stop, EndOfChain, LoopDetected, Advance,
       Load, LoadFails, Over, Cancel, Done, vars, Place
  <2>3. QED BY <1>3, <1>t, <2>1, <2>2, RefinesEnd DEF Abstract!TNext
<1>4. CASE TakeItem \/ Load \/ Cancel \/ Done \/ UNCHANGED vars
  <2>1. UNCHANGED <<link, followed, pages, outcome>>
    BY <1>4 DEF TakeItem, Load, Cancel, Done, vars
  <2>2. UNCHANGED Abstract!tvars BY <2>1 DEF Abstract!tvars, AbstractOutcome
  <2>3. QED BY <2>2
<1>5. QED BY <1>1, <1>2, <1>3, <1>4, <1>t
  DEF Next, Iterator, Stop, EndOfChain, LoopDetected, Advance, LoadFails, Over

(* The iterator is a traversal: it follows only what it was given, hands   *)
(* out each page once it has it, stays within its budget and names the way *)
(* it ends truly.                                                          *)
THEOREM Refinement == Spec => ImplementsTraversal
<1>1. QED BY RefinesInit, RefinesNext, Invariant, PTL
  DEF Spec, ImplementsTraversal, Abstract!TSpec
=============================================================================
