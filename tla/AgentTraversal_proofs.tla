------------------------ MODULE AgentTraversal_proofs ------------------------
(***************************************************************************)
(* Proofs about AgentTraversal, for every Service, every budget and every  *)
(* caller: the state is of its type, items come in the order of the pages, *)
(* an item budget spans pages and is kept, no reference is requested twice,*)
(* refinements reach the consumer only where they were asked for, and the  *)
(* loop is a traversal as its consumer is promised one (module Traversal). *)
(***************************************************************************)
EXTENDS AgentTraversal, SequenceLemmas

(* What the Service answers and what the caller asked for.                 *)
CallOK ==
    /\ link \in [PageIds -> Refs \cup {NoNext, Foreign}]
    /\ content \in [PageIds -> Contents]
    /\ option \in Options
    /\ search \in BOOLEAN /\ asked \in SUBSET Filters
    /\ start \in Named \cup {Foreign}

(* Where the loop is, in terms of what it has followed and handed out.     *)
Held == IF followed = <<>> THEN start ELSE Last(followed)
Handed == pages # <<>> /\ page = Last(pages)
Fresh == followed = <<>> /\ pages = <<>> /\ items = <<>> /\ page = start /\ count = 0

Place ==
    /\ outcome = "open" <=> pc # "done"
    /\ pc = "start" => Fresh
    /\ pc \in {"inspect", "request", "consume"} =>
           /\ OptionsValid /\ start # Foreign
           /\ visited = Seed \cup ToSet(followed)
    /\ pc = "inspect" => Fresh
    /\ pc = "request" =>
           /\ Len(pages) = count /\ Len(followed) = count
           /\ count < PageBudget /\ page = Held /\ page # Foreign
           /\ pages # <<>> => taken = content[At(Last(pages))].items
    /\ pc = "consume" =>
           /\ Len(pages) = count + 1 /\ Len(followed) = count
           /\ count < PageBudget /\ Handed
    /\ outcome = "exhausted" => Handed /\ NextRef = NoNext
    /\ outcome = "budget" => OptionsValid /\ Handed /\ Len(pages) = PageBudget

IInv == CallOK /\ TypeOK /\ Place

-----------------------------------------------------------------------------
LEMMA InitInv == Init => IInv
<1> SUFFICES ASSUME Init PROVE IInv OBVIOUS
<1>1. CallOK BY DEF Init, CallOK, Named
<1>2. TypeOK
  <2>1. 0 \in 0..(MaximumPages - 1) BY ConstantsAssumption
  <2>2. QED BY <1>1, <2>1 DEF Init, TypeOK, Named
<1>3. Place BY DEF Init, Place, Fresh
<1>4. QED BY <1>1, <1>2, <1>3 DEF IInv

(* A page that is named has a URL, and so a continuation and contents.     *)
LEMMA PageHasUrl ==
    ASSUME CallOK, NEW p \in Named
    PROVE  /\ At(p) \in PageIds /\ link[At(p)] \in Refs \cup {NoNext, Foreign}
           /\ content[At(p)] \in Contents
           /\ content[At(p)].items \in Nat /\ content[At(p)].refinements \in Seq(Filters)
BY ConstantsAssumption DEF CallOK, At, Named, PageIds

LEMMA HandedIsNamed == ASSUME TypeOK, Handed PROVE page \in Named
BY LastInSet DEF TypeOK, Handed

LEMMA BudgetWithinGuard == OptionsValid => PageBudget \in 1..MaximumPages
BY ConstantsAssumption DEF OptionsValid, PageBudget

LEMMA CallStep ==
    IInv /\ [Next]_vars => /\ CallOK'
                           /\ UNCHANGED <<link, content, advertised, option, search, asked>>
                           /\ ~Resume => UNCHANGED call
<1> SUFFICES ASSUME IInv, [Next]_vars
             PROVE  /\ CallOK'
                    /\ UNCHANGED <<link, content, advertised, option, search, asked>>
                    /\ ~Resume => UNCHANGED call
  OBVIOUS
<1>1. CASE Resume
  <2>1. NextRef \in Refs /\ start' = NextRef BY <1>1 DEF Resume
  <2>2. UNCHANGED <<link, content, advertised, option, search, asked>> BY <1>1 DEF Resume
  <2>3. QED BY <1>1, <2>1, <2>2 DEF IInv, CallOK, Named
<1>2. CASE ~Resume
  <2>1. UNCHANGED call
    BY <1>2 DEF Next, Client, Reject, Start, Inspected, InspectFails, RequestFails, Refused, Answered,
       TakeItem, Stop, EndOfChain, SpendBudget, LoopDetected, FollowNext, Done, vars
  <2>2. QED BY <1>2, <2>1 DEF call, IInv, CallOK
<1>3. QED BY <1>1, <1>2

LEMMA TypeStep == IInv /\ [Next]_vars => TypeOK'
<1> SUFFICES ASSUME IInv, [Next]_vars PROVE TypeOK' OBVIOUS
<1>t. TypeOK /\ CallOK /\ Place BY DEF IInv
<1> USE ConstantsAssumption DEF call, loop, history, End
<1>1. CASE \/ Reject \/ Inspected \/ InspectFails \/ RequestFails \/ Refused \/ Stop
           \/ EndOfChain \/ SpendBudget \/ LoopDetected
  BY <1>1, <1>t DEF Reject, Inspected, InspectFails, RequestFails, Refused, Stop, EndOfChain,
     SpendBudget, LoopDetected, PageConsumed, TypeOK
<1>2. CASE Start
  <2>1. visited' \subseteq Refs \cup {Foreign} BY <1>2, <1>t DEF Start, Seed, TypeOK, Named
  <2>2. pc' \in {"inspect", "request"} BY <1>2 DEF Start
  <2>3. QED BY <1>2, <1>t, <2>1, <2>2 DEF Start, TypeOK
<1>3. CASE Answered
  <2>1. page \in Named
    BY <1>3, <1>t, LastInSet DEF Answered, Place, Held, TypeOK, Named
  <2>2. pages' \in Seq(Named) BY <1>3, <1>t, <2>1 DEF Answered, TypeOK
  <2>3. QED BY <1>3, <1>t, <2>2 DEF Answered, TypeOK
<1>4. CASE TakeItem
  <2>1. page \in Named BY <1>4, <1>t, HandedIsNamed DEF TakeItem, Place
  <2>2. NextItem \in Nat /\ <<page, NextItem>> \in Named \X Nat
    BY <1>t, <2>1 DEF NextItem, TypeOK
  <2>3. items' \in Seq(Named \X Nat) BY <1>4, <1>t, <2>2 DEF TakeItem, TypeOK
  <2>4. /\ pc' \in {"start", "inspect", "request", "consume", "done"}
        /\ outcome' \in {"open", "exhausted", "budget", "items", "stopped", "loop", "failed"}
    BY <1>4, <1>t DEF TakeItem, TypeOK
  <2>5. QED BY <1>4, <1>t, <2>2, <2>3, <2>4 DEF TakeItem, TypeOK
<1>5. CASE FollowNext
  <2>1. page \in Named BY <1>5, <1>t, HandedIsNamed DEF FollowNext, PageConsumed, Place
  <2>2. NextRef \in Refs \cup {Foreign}
    BY <1>5, <1>t, <2>1, PageHasUrl DEF FollowNext, NextRef
  <2>3. visited' \subseteq Refs \cup {Foreign} BY <1>5, <1>t, <2>2 DEF FollowNext, TypeOK
  <2>4. CASE NextRef = Foreign /\ End("failed") /\ UNCHANGED <<page, count, followed>>
    BY <1>5, <1>t, <2>3, <2>4 DEF FollowNext, TypeOK
  <2>5. CASE NextRef \in Refs /\ page' = NextRef /\ count' = count + 1
             /\ followed' = Append(followed, NextRef) /\ pc' = "request" /\ UNCHANGED outcome
    <3>1. count' \in 0..(MaximumPages - 1)
      BY <1>5, <1>t, <2>5, BudgetWithinGuard
      DEF FollowNext, PageConsumed, BudgetSpent, TypeOK, Place
    <3>2. followed' \in Seq(Refs) BY <1>t, <2>5 DEF TypeOK
    <3>3. QED BY <1>5, <1>t, <2>3, <2>5, <3>1, <3>2 DEF FollowNext, TypeOK, Named
  <2>6. QED BY <1>5, <2>4, <2>5 DEF FollowNext
<1>6. CASE Resume
  <2>1. NextRef \in Named BY <1>6 DEF Resume, Named
  <2>2. 0 \in 0..(MaximumPages - 1) OBVIOUS
  <2>3. followed' \in Seq(Refs) /\ pages' \in Seq(Named) /\ items' \in Seq(Named \X Nat)
    BY <1>6 DEF Resume
  <2>4. QED BY <1>6, <2>1, <2>2, <2>3 DEF Resume, TypeOK
<1>7. CASE Done \/ UNCHANGED vars BY <1>7, <1>t DEF Done, vars, TypeOK
<1>8. QED BY <1>1, <1>2, <1>3, <1>4, <1>5, <1>6, <1>7 DEF Next, Client

LEMMA PlaceStep == IInv /\ [Next]_vars => Place'
<1> SUFFICES ASSUME IInv, [Next]_vars PROVE Place' OBVIOUS
<1> USE ConstantsAssumption DEF call, loop, history, End
<1>t. TypeOK /\ CallOK /\ Place BY DEF IInv
<1>o. (OptionsValid <=> OptionsValid') /\ PageBudget' = PageBudget
  BY CallStep DEF OptionsValid, PageBudget
<1>1. CASE Reject \/ InspectFails \/ RequestFails \/ Refused \/ Stop \/ EndOfChain \/ LoopDetected
  BY <1>1, <1>t DEF Reject, InspectFails, RequestFails, Refused, Stop, EndOfChain, LoopDetected,
     PageConsumed, Place, Handed, NextRef, At
<1>2. CASE SpendBudget
  <2>1. outcome' = "budget" /\ pc' = "done" BY <1>2 DEF SpendBudget
  <2>2. Len(pages) = PageBudget
    BY <1>2, <1>t, BudgetWithinGuard DEF SpendBudget, PageConsumed, BudgetSpent, Place, TypeOK
  <2>3. QED BY <1>2, <1>t, <1>o, <2>1, <2>2 DEF SpendBudget, PageConsumed, Place, Handed
<1>3. CASE Start
  <2>1. /\ pc = "start" /\ OptionsValid /\ Fresh /\ start # Foreign
        /\ pc' = IF start = Initial THEN "inspect" ELSE "request"
        /\ UNCHANGED <<outcome, start, count, followed, pages, items, page>> /\ visited' = Seed
    BY <1>3, <1>t DEF Start, Place
  <2>2. 0 < PageBudget BY <2>1, BudgetWithinGuard
  <2>3. visited' = Seed' \cup ToSet(followed') BY <2>1 DEF Fresh, Seed, ToSet
  <2>4. page' = Held' /\ Fresh' /\ outcome' = "open" BY <2>1, <1>t DEF Held, Fresh, Place
  <2>5. Len(pages') = count' /\ Len(followed') = count' /\ count' < PageBudget /\ pages' = <<>>
    BY <2>1, <2>2 DEF Fresh
  <2>6. page' # Foreign /\ start' # Foreign BY <2>1 DEF Fresh
  <2>7. QED BY <1>o, <2>1, <2>3, <2>4, <2>5, <2>6 DEF Place
<1>4. CASE Inspected
  <2>1. /\ pc = "inspect" /\ Fresh /\ outcome = "open" /\ OptionsValid /\ start # Foreign
        /\ visited = Seed \cup ToSet(followed) /\ UNCHANGED <<call, loop, history>>
        /\ \/ pc' = "request" /\ outcome' = "open"
           \/ pc' = "done" /\ outcome' = "failed"
    BY <1>4, <1>t DEF Inspected, Place
  <2>2. 0 < PageBudget BY <2>1, BudgetWithinGuard
  <2>3. Seed' = Seed /\ Held' = page' /\ page' # Foreign BY <2>1 DEF Fresh, Seed, Held
  <2>4. QED BY <1>o, <2>1, <2>2, <2>3 DEF Place, Fresh
<1>5. CASE Answered
  <2>1. page \in Named /\ pages \in Seq(Named)
    BY <1>5, <1>t, LastInSet DEF Answered, Place, Held, TypeOK, Named
  <2>2. Last(pages') = page /\ pages' # <<>> /\ Len(pages') = Len(pages) + 1
    BY <1>5, <2>1, LastOfAppend DEF Answered
  <2>3. Handed' /\ Seed' = Seed BY <1>5, <2>2 DEF Answered, Handed, Seed
  <2>4. QED BY <1>5, <1>t, <1>o, <2>2, <2>3 DEF Answered, Place
<1>6. CASE TakeItem
  <2>1. Seed' = Seed /\ (Handed => Handed') BY <1>6 DEF TakeItem, Seed, Handed
  <2>2. QED BY <1>6, <1>t, <1>o, <2>1 DEF TakeItem, Place
<1>7. CASE FollowNext
  <2>0. CASE pc' = "done" /\ outcome' = "failed" BY <2>0 DEF Place
  <2>1. CASE NextRef \in Refs /\ page' = NextRef /\ count' = count + 1
             /\ followed' = Append(followed, NextRef) /\ pc' = "request" /\ UNCHANGED outcome
    <3>1. followed \in Seq(Refs) /\ count \in Nat BY <1>t DEF TypeOK
    <3>2. /\ Last(followed') = NextRef /\ followed' # <<>> /\ Len(followed') = Len(followed) + 1
          /\ ToSet(followed') = ToSet(followed) \cup {NextRef}
      BY <2>1, <3>1, LastOfAppend, SetOfAppend
    <3>3. Seed' = Seed BY <1>7 DEF FollowNext, Seed
    <3>4. visited' = Seed' \cup ToSet(followed')
      BY <1>7, <1>t, <3>2, <3>3 DEF FollowNext, PageConsumed, Place
    <3>5. page' = Held' /\ page' # Foreign BY <2>1, <3>2 DEF Held
    <3>6. count' < PageBudget
      BY <1>7, <1>t, <2>1, <3>1, BudgetWithinGuard DEF FollowNext, PageConsumed, BudgetSpent, Place
    <3>7. Len(pages') = count' /\ Len(followed') = count'
      BY <1>7, <1>t, <2>1, <3>1, <3>2 DEF FollowNext, PageConsumed, Place
    <3>8. taken' = content'[At(Last(pages'))].items
      BY <1>7, <1>t DEF FollowNext, PageConsumed, Place, Handed
    <3>9. OptionsValid /\ outcome' = "open" /\ start' # Foreign
      BY <1>7, <1>t, <2>1 DEF FollowNext, PageConsumed, Place
    <3>10. QED BY <1>o, <2>1, <3>4, <3>5, <3>6, <3>7, <3>8, <3>9 DEF Place
  <2>2. QED BY <1>7, <2>0, <2>1 DEF FollowNext
<1>8. CASE Resume BY <1>8 DEF Resume, Place, Fresh
<1>9. CASE Done \/ UNCHANGED vars
  <2>1. UNCHANGED vars BY <1>9 DEF Done
  <2>2. UNCHANGED <<Held, Handed, Fresh, Seed, NextRef>>
    BY <2>1 DEF vars, Held, Handed, Fresh, Seed, NextRef, At
  <2>3. QED BY <1>t, <1>o, <2>1, <2>2 DEF vars, Place
<1>10. QED BY <1>1, <1>2, <1>3, <1>4, <1>5, <1>6, <1>7, <1>8, <1>9 DEF Next, Client

THEOREM Invariant == Spec => []IInv
<1>1. IInv /\ [Next]_vars => IInv' BY CallStep, TypeStep, PlaceStep DEF IInv
<1>2. QED BY <1>1, InitInv, PTL DEF Spec

(* The state is of its type: the page counter stays below the guard and    *)
(* only references of the Service are ever followed.                       *)
THEOREM TypeCorrect == Spec => []TypeOK
<1>1. IInv => TypeOK BY DEF IInv
<1>2. QED BY <1>1, Invariant, PTL

-----------------------------------------------------------------------------
(* What of each page has been handed out: a page the loop has left is      *)
(* handed out whole.                                                       *)
Entry == Named \X Nat
Share(n) == Records(pages[n], IF n = Len(pages) /\ pc # "request" THEN taken
                              ELSE content[At(pages[n])].items)
Shares == [n \in 1..Len(pages) |-> Share(n)]

LEMMA RecordsType ==
    ASSUME NEW p \in Named, NEW k \in Nat PROVE Records(p, k) \in Seq(Entry)
<1>1. \A i \in 1..k : <<p, i>> \in Entry BY DEF Entry
<1>2. QED BY <1>1 DEF Records

LEMMA SharesType == TypeOK /\ CallOK => Shares \in [1..Len(pages) -> Seq(Entry)]
<1> SUFFICES ASSUME TypeOK, CallOK PROVE Shares \in [1..Len(pages) -> Seq(Entry)] OBVIOUS
<1>1. \A n \in 1..Len(pages) : pages[n] \in Named BY DEF TypeOK
<1>2. \A p \in Named : content[At(p)].items \in Nat BY PageHasUrl
<1>3. \A n \in 1..Len(pages) : Share(n) \in Seq(Entry)
  BY <1>1, <1>2, RecordsType DEF Share, TypeOK
<1>4. QED BY <1>3 DEF Shares

(* A step that takes nothing leaves the shares as they are, when it leaves *)
(* no page half taken behind.                                              *)
LEMMA SharesStay ==
    ASSUME UNCHANGED <<content, pages, taken>>,
           \/ pc = "request" <=> pc' = "request"
           \/ pages = <<>>
           \/ taken = content[At(pages[Len(pages)])].items
    PROVE  Shares' = Shares
<1>1. CASE pages = <<>> BY <1>1 DEF Shares
<1>2. CASE pages # <<>>
  <2>1. \A n \in 1..Len(pages) : Share(n)' = Share(n) BY <1>2 DEF Share, At
  <2>2. QED BY <2>1 DEF Shares
<1>3. QED BY <1>1, <1>2

LEMMA ItemsStep == IInv /\ ItemsFollowThePages /\ [Next]_vars => ItemsFollowThePages'
<1> SUFFICES ASSUME IInv, [Next]_vars, items = FlattenSeq(Shares)
             PROVE  items' = FlattenSeq(Shares')
  BY DEF ItemsFollowThePages, Shares, Share, At
<1>t. TypeOK /\ CallOK /\ Place /\ TypeOK' /\ CallOK' BY TypeStep, CallStep DEF IInv
<1>s. Shares \in [1..Len(pages) -> Seq(Entry)] /\ Shares' \in [1..Len(pages') -> Seq(Entry)]
  <2>1. (TypeOK /\ CallOK => Shares \in [1..Len(pages) -> Seq(Entry)])' BY SharesType, PTL
  <2>2. QED BY <1>t, <2>1, SharesType DEF Entry, Named
<1> USE DEF call, loop, history, End
<1>1. CASE Answered
  <2>1. /\ Len(pages) \in Nat /\ Len(pages') = Len(pages) + 1
        /\ \A n \in 1..Len(pages) : pages'[n] = pages[n]
    BY <1>1, <1>t DEF Answered, TypeOK
  <2>2. \A n \in 1..Len(pages) : Shares'[n] = Shares[n]
    BY <1>1, <2>1 DEF Answered, Shares, Share, At
  <2>3. Shares'[Len(pages) + 1] = <<>> BY <1>1, <2>1 DEF Answered, Shares, Share, Records
  <2>4. FlattenSeq(Shares') = FlattenSeq(Shares) \o Shares'[Len(pages) + 1]
    BY <1>s, <2>1, <2>2, FlattenOneMore
  <2>5. FlattenSeq(Shares) \in Seq(Entry) BY <1>s, <2>1, FlattenType
  <2>6. QED BY <1>1, <2>3, <2>4, <2>5 DEF Answered
<1>2. CASE TakeItem
  <2>1. Len(pages) \in Nat \ {0} /\ page = pages[Len(pages)] /\ UNCHANGED pages
    BY <1>2, <1>t, LastInSet DEF TakeItem, Place, Handed, TypeOK
  <2>2. ASSUME NEW n \in 1..(Len(pages) - 1) PROVE Shares'[n] = Shares[n]
    <3>1. n # Len(pages) /\ n \in 1..Len(pages) BY <2>1
    <3>2. UNCHANGED <<content, call>> BY <1>2 DEF TakeItem
    <3>3. Share(n)' = Share(n) BY <2>1, <3>1, <3>2 DEF Share, At
    <3>4. QED BY <2>1, <3>1, <3>3 DEF Shares
  <2>p. pc # "request" /\ pc' # "request" BY <1>2 DEF TakeItem
  <2>3. Shares[Len(pages)] = Records(page, taken) /\ Shares'[Len(pages)] = Records(page, NextItem)
    <3>1. taken' = NextItem BY <1>2 DEF TakeItem
    <3>2. Share(Len(pages)) = Records(page, taken) /\ Share(Len(pages))' = Records(page, taken')
      BY <2>1, <2>p DEF Share
    <3>3. Len(pages) \in 1..Len(pages) /\ Len(pages') = Len(pages) BY <2>1
    <3>4. QED BY <3>1, <3>2, <3>3 DEF Shares
  <2>4. Records(page, NextItem) = Append(Records(page, taken), <<page, NextItem>>)
    <3>1. taken \in Nat BY <1>t DEF TypeOK
    <3>2. QED BY <3>1 DEF Records, NextItem
  <2>5. page \in Named BY <1>2, <1>t, HandedIsNamed DEF TakeItem, Place
  <2>6. <<page, NextItem>> \in Entry BY <1>t, <2>5 DEF TypeOK, Entry, NextItem
  <2>7. /\ Shares \in [1..Len(pages) -> Seq(Entry)] /\ Shares' \in [1..Len(pages) -> Seq(Entry)]
        /\ Shares'[Len(pages)] = Append(Shares[Len(pages)], <<page, NextItem>>)
    BY <1>s, <2>1, <2>3, <2>4
  <2>8. FlattenSeq(Shares') = Append(FlattenSeq(Shares), <<page, NextItem>>)
    <3>1. LongerLast(Entry, Len(pages), Shares, Shares', <<page, NextItem>>)
      BY <2>1, <2>2, <2>6, <2>7 DEF LongerLast
    <3>2. QED BY <3>1, FlattenLongerLast
  <2>9. QED BY <1>2, <2>8 DEF TakeItem
<1>3. CASE Resume
  <2>1. pages' = <<>> /\ items' = <<>> BY <1>3 DEF Resume
  <2>2. Shares' \in [1..0 -> Seq(Entry)] BY <1>s, <2>1
  <2>3. QED BY <2>1, <2>2, FlattenNone
<1>4. CASE FollowNext \/ RequestFails \/ Refused \/ Start \/ Inspected
  <2>1. UNCHANGED <<content, pages, taken, items>>
    BY <1>4 DEF FollowNext, RequestFails, Refused, Start, Inspected
  <2>2. pages = <<>> \/ taken = content[At(pages[Len(pages)])].items
    BY <1>4, <1>t, LastInSet DEF FollowNext, RequestFails, Refused, Start, Inspected, PageConsumed,
       Place, Fresh, Handed, TypeOK
  <2>3. QED BY <2>1, <2>2, SharesStay
<1>5. CASE \/ Reject \/ InspectFails \/ Stop \/ EndOfChain \/ SpendBudget \/ LoopDetected
           \/ Done \/ UNCHANGED vars
  <2>1. UNCHANGED <<content, pages, taken, items>> /\ (pc = "request" <=> pc' = "request")
    BY <1>5 DEF Reject, InspectFails, Stop, EndOfChain, SpendBudget, LoopDetected,
       PageConsumed, Done, vars
  <2>2. QED BY <2>1, SharesStay
<1>6. QED BY <1>1, <1>2, <1>3, <1>4, <1>5 DEF Next, Client

(* The items handed out are those of the pages handed out, in order.       *)
THEOREM ItemsInOrder == Spec => []ItemsFollowThePages
<1>1. Init => ItemsFollowThePages
  <2> SUFFICES ASSUME Init PROVE items = FlattenSeq(Shares)
    BY DEF ItemsFollowThePages, Shares, Share
  <2>1. Shares \in [1..0 -> {}] BY DEF Init, Shares
  <2>2. QED BY <2>1, FlattenNone DEF Init
<1>2. QED BY <1>1, ItemsStep, Invariant, PTL DEF Spec

-----------------------------------------------------------------------------
(* While a traversal is under way its caller can still use an item.        *)
RoomForItems ==
    option.items > 0 => /\ Len(items) <= option.items
                        /\ pc # "done" => Len(items) < option.items

LEMMA RoomStep == IInv /\ RoomForItems /\ [Next]_vars => RoomForItems'
<1> SUFFICES ASSUME IInv, RoomForItems, [Next]_vars PROVE RoomForItems' OBVIOUS
<1>t. TypeOK /\ CallOK /\ Place BY DEF IInv
<1>l. items \in Seq(Named \X Nat) /\ Len(items) \in Nat /\ option.items \in Int
  BY <1>t, ConstantsAssumption DEF TypeOK, CallOK
<1> USE DEF call, loop, history, End
<1>1. CASE TakeItem
  <2>1. page \in Named BY <1>1, <1>t, HandedIsNamed DEF TakeItem, Place
  <2>2. <<page, NextItem>> \in Named \X Nat BY <1>t, <2>1 DEF TypeOK, NextItem
  <2>3. Len(items') = Len(items) + 1 BY <1>1, <1>l, <2>2 DEF TakeItem
  <2>4. option' = option /\ (pc' # "done" => ~ItemBudgetSpent(Len(items) + 1)) /\ pc = "consume"
    BY <1>1 DEF TakeItem
  <2>5. QED BY <1>l, <2>3, <2>4 DEF ItemBudgetSpent, RoomForItems
<1>2. CASE Resume
  <2>1. option' = option /\ Len(items') = 0 BY <1>2 DEF Resume
  <2>2. QED BY <1>l, <2>1 DEF RoomForItems
<1>3. CASE (Client /\ ~TakeItem) \/ Stop \/ Done \/ UNCHANGED vars
  <2>1. UNCHANGED <<option, items>> /\ (pc' # "done" => pc # "done")
    BY <1>3 DEF Client, Reject, Start, Inspected, InspectFails, RequestFails, Refused, Answered,
       Stop, EndOfChain, SpendBudget, LoopDetected, FollowNext, PageConsumed, Done, vars
  <2>2. QED BY <1>l, <2>1 DEF RoomForItems
<1>4. QED BY <1>1, <1>2, <1>3 DEF Next

(* A caller with all the items it asked for is at the end of its traversal.*)
THEOREM ItemBudgetKept == Spec => []NothingRequestedBeyondItemBudget
<1>1. Init => RoomForItems
  <2> SUFFICES ASSUME Init, option.items > 0 PROVE Len(items) < option.items
    BY ConstantsAssumption DEF Init, RoomForItems
  <2>1. Len(items) = 0 /\ option.items \in Int BY ConstantsAssumption DEF Init
  <2>2. QED BY <2>1
<1>2. IInv /\ RoomForItems => NothingRequestedBeyondItemBudget
  <2> SUFFICES ASSUME IInv, RoomForItems, option.items > 0
               PROVE  /\ Len(items) <= option.items
                      /\ Len(items) = option.items => pc = "done"
    BY DEF NothingRequestedBeyondItemBudget
  <2>1. Len(items) \in Nat /\ option.items \in Int
    BY ConstantsAssumption DEF IInv, TypeOK, CallOK
  <2>2. QED BY <2>1 DEF RoomForItems
<1>3. QED BY <1>1, <1>2, RoomStep, Invariant, PTL DEF Spec

-----------------------------------------------------------------------------
(* The references this traversal was or is to be asked for.                *)
Requested == IF start \in Refs THEN <<start>> \o followed ELSE followed

LEMMA RequestedSet ==
    TypeOK /\ start # Foreign => Requested \in Seq(Refs) /\ ToSet(Requested) = Seed \cup ToSet(followed)
<1> SUFFICES ASSUME TypeOK, start # Foreign
             PROVE  Requested \in Seq(Refs) /\ ToSet(Requested) = Seed \cup ToSet(followed)
  OBVIOUS
<1>1. CASE start \in Refs
  <2>1. Requested = <<start>> \o followed /\ Seed = {start}
    BY <1>1, ConstantsAssumption DEF Requested, Seed
  <2>2. followed \in Seq(Refs) /\ <<start>> \in Seq(Refs) BY <1>1 DEF TypeOK
  <2>3. ToSet(<<start>> \o followed) = {start} \cup ToSet(followed)
    BY <2>2, SetOfPrefixed
  <2>4. QED BY <2>1, <2>2, <2>3
<1>2. CASE start \notin Refs
  <2>1. start = Initial BY <1>2 DEF TypeOK, Named
  <2>2. QED BY <1>2, <2>1 DEF Requested, Seed, TypeOK
<1>3. QED BY <1>1, <1>2

LEMMA RequestedStep == IInv /\ NoReferenceRequestedTwice /\ [Next]_vars => NoReferenceRequestedTwice'
<1> SUFFICES ASSUME IInv, IsInjective(Requested), [Next]_vars PROVE IsInjective(Requested')
  BY DEF NoReferenceRequestedTwice, Requested
<1>t. TypeOK /\ CallOK /\ Place BY DEF IInv
<1> USE DEF call, loop, history, End
<1>1. CASE FollowNext /\ followed' = Append(followed, NextRef) /\ NextRef \in Refs
  <2>1. /\ start # Foreign /\ visited = Seed \cup ToSet(followed) /\ UNCHANGED start
        /\ NextRef \notin visited
    BY <1>1, <1>t DEF FollowNext, PageConsumed, Place
  <2>2. Requested \in Seq(Refs) /\ NextRef \notin ToSet(Requested) BY <1>t, <2>1, RequestedSet
  <2>3. Requested' = Append(Requested, NextRef)
    <3>1. CASE start \in Refs
      <4>1. followed \in Seq(Refs) /\ <<start>> \in Seq(Refs) BY <1>t, <3>1 DEF TypeOK
      <4>2. <<start>> \o Append(followed, NextRef) = Append(<<start>> \o followed, NextRef)
        BY <1>1, <4>1, AppendPrefixed
      <4>3. QED BY <1>1, <2>1, <3>1, <4>2 DEF Requested
    <3>2. CASE start \notin Refs BY <1>1, <2>1, <3>2 DEF Requested
    <3>3. QED BY <3>1, <3>2
  <2>4. QED BY <1>1, <2>2, <2>3, InjectiveAppend
<1>2. CASE Resume
  <2>1. start' \in Refs /\ followed' = <<>> BY <1>2 DEF Resume
  <2>2. Requested' = <<start'>> BY <2>1 DEF Requested
  <2>3. QED BY <2>2 DEF IsInjective
<1>3. CASE UNCHANGED <<start, followed>> BY <1>3 DEF Requested
<1>4. QED BY <1>1, <1>2, <1>3
  DEF Next, Client, Reject, Start, Inspected, InspectFails, RequestFails, Refused, Answered, TakeItem,
      Stop, EndOfChain, SpendBudget, LoopDetected, FollowNext, Done, vars

(* No reference is requested twice, the one resumed with included.         *)
THEOREM RequestedOnce == Spec => []NoReferenceRequestedTwice
<1>1. Init => NoReferenceRequestedTwice
  <2>1. ASSUME Init PROVE Requested = <<>> \/ Requested = <<start>> BY <2>1 DEF Init, Requested
  <2>2. QED BY <2>1 DEF NoReferenceRequestedTwice, Requested, IsInjective
<1>2. QED BY <1>1, RequestedStep, Invariant, PTL DEF Spec

-----------------------------------------------------------------------------
(* A page taken may carry the groups it carries: those asked for when it is*)
(* the first page of a search, none when it is a continuation.             *)
LEMMA RefinementsStep ==
    IInv /\ RefinementsOnlyWhereAsked /\ [Next]_vars => RefinementsOnlyWhereAsked'
<1> DEFINE Groups(p) == Refinements(p)
           Right(n) == /\ Groups(pages[n]) # <<>> => n = 1 /\ start = Initial /\ search
                       /\ ToSet(Groups(pages[n])) \subseteq asked /\ IsInjective(Groups(pages[n]))
<1> SUFFICES ASSUME IInv, \A n \in DOMAIN pages : Right(n), [Next]_vars
             PROVE  \A n \in DOMAIN pages' : Right(n)'
  BY DEF RefinementsOnlyWhereAsked
<1>t. TypeOK /\ CallOK /\ Place BY DEF IInv
<1>c. UNCHANGED <<content, search, asked>> BY CallStep
<1> USE DEF call, loop, history, End
<1>1. CASE Answered
  <2>1. /\ page = Held /\ page \in Named /\ UNCHANGED start /\ pages' = Append(pages, page)
        /\ Acceptable(content[At(page)].refinements) /\ Len(pages) = Len(followed)
    BY <1>1, <1>t, LastInSet DEF Answered, Place, Held, TypeOK, Named
  <2>a. /\ Groups(page) # <<>> => search
        /\ ToSet(Groups(page)) \subseteq Policy /\ IsInjective(Groups(page))
    <3>1. CASE search BY <2>1, <3>1 DEF Refinements, Acceptable
    <3>2. CASE ~search
      <4>1. Groups(page) = <<>> BY <3>2 DEF Refinements
      <4>2. QED BY <4>1 DEF ToSet, IsInjective
    <3>3. QED BY <3>1, <3>2
  <2>2. Groups(page) \in Seq(Filters) BY <1>t, <2>1, PageHasUrl DEF Refinements
  <2>3. ASSUME Groups(page) # <<>> PROVE Len(pages) = 0 /\ start = Initial
    <3>1. ToSet(Groups(page)) # {} BY <2>2, <2>3, LastInSet
    <3>2. page = Initial BY <2>a, <3>1 DEF Policy, PolicyOfContinuation
    <3>3. followed = <<>>
      BY <1>t, <2>1, <3>2, LastInSet, ConstantsAssumption DEF Held, TypeOK
    <3>4. QED BY <2>1, <3>2, <3>3 DEF Held
  <2>4. ToSet(Groups(page)) \subseteq asked /\ IsInjective(Groups(page))
    BY <2>a DEF Policy, PolicyOfContinuation
  <2>5. /\ DOMAIN pages' = 1..(Len(pages) + 1) /\ DOMAIN pages = 1..Len(pages) /\ Len(pages) \in Nat
        /\ pages'[Len(pages) + 1] = page /\ \A n \in 1..Len(pages) : pages'[n] = pages[n]
    BY <1>t, <2>1 DEF TypeOK
  <2>6. \A p : Groups(p)' = Groups(p) BY <1>c DEF At, Refinements
  <2> HIDE DEF Groups
  <2>7. \A n \in 1..Len(pages) : Right(n)' BY <1>c, <2>1, <2>5, <2>6
  <2>8. PICK m \in Nat : m = Len(pages) + 1 BY <2>5
  <2>9. /\ Groups(pages[m])' = Groups(page)
        /\ Groups(page) # <<>> => m = 1 /\ start' = Initial /\ search'
    BY <1>c, <2>1, <2>3, <2>a, <2>5, <2>6, <2>8
  <2>10. Right(m)' BY <1>c, <2>4, <2>9
  <2>11. QED BY <2>5, <2>7, <2>8, <2>10
<1>2. CASE Resume BY <1>2 DEF Resume
<1>3. CASE UNCHANGED <<start, pages>> BY <1>3, <1>c DEF At, Refinements
<1>4. QED BY <1>1, <1>2, <1>3
  DEF Next, Client, Reject, Start, Inspected, InspectFails, RequestFails, Refused, TakeItem,
      Stop, EndOfChain, SpendBudget, LoopDetected, FollowNext, Done, vars

(* Refinements reach the consumer on the first page of a search alone, and *)
(* then only those it asked for.                                           *)
THEOREM RefinementsAsked == Spec => []RefinementsOnlyWhereAsked
<1>1. Init => RefinementsOnlyWhereAsked BY DEF Init, RefinementsOnlyWhereAsked
<1>2. QED BY <1>1, RefinementsStep, Invariant, PTL DEF Spec

-----------------------------------------------------------------------------
(* Refinement.  The promise sees references as they are spelled, and no    *)
(* continuation where a page carries one that cannot be requested.         *)
Links == [p \in Named \cup {Foreign} |->
             IF p # Foreign /\ link[At(p)] \in Refs THEN link[At(p)] ELSE NoNext]
Budget == IF OptionsValid THEN PageBudget ELSE MaximumPages
Verdicts == {"budget"}
Promised == IF outcome = "items" THEN "stopped" ELSE outcome

LEMMA SameOperators == \A s : Abstract!Last(s) = Last(s) /\ Abstract!ToSet(s) = ToSet(s)
BY DEF Last, Abstract!Last, ToSet, Abstract!ToSet

LEMMA LinkOfLast ==
    ASSUME TypeOK, Handed
    PROVE  Links[Last(pages)] = IF NextRef \in Refs THEN NextRef ELSE NoNext
<1>1. page \in Named /\ page = Last(pages) BY HandedIsNamed DEF Handed
<1>2. page # Foreign BY <1>1, ConstantsAssumption DEF Named
<1>3. QED BY <1>1, <1>2 DEF Links, NextRef

LEMMA RefinesInit == Init => Abstract!TInit
<1> SUFFICES ASSUME Init PROVE Abstract!TInit OBVIOUS
<1>1. CallOK BY InitInv DEF IInv
<1>2. Links \in [Named \cup {Foreign} -> Named \cup {Foreign} \cup {NoNext}]
  BY DEF Links, Named
<1>3. Budget \in Nat \ {0} BY BudgetWithinGuard, ConstantsAssumption DEF Budget
<1>4. Promised = "open" BY DEF Init, Promised
<1>5. start \in Named \cup {Foreign} BY <1>1 DEF CallOK
<1>6. QED BY <1>2, <1>3, <1>4, <1>5
  DEF Init, Abstract!TInit, Links, Budget, Promised

(* An end of the traversal is one the promise allows.                      *)
LEMMA RefinesEnd ==
    ASSUME IInv, pc # "done", pc' = "done",
           UNCHANGED <<call, followed, pages>>,
           \/ outcome' \in {"stopped", "failed", "items"}
           \/ outcome' = "exhausted" /\ Handed /\ Links[Last(pages)] = NoNext
           \/ outcome' = "loop" /\ Handed /\ Links[Last(pages)] \in ToSet(followed) \cup {start}
           \/ outcome' = "budget" /\ OptionsValid /\ Len(pages) = PageBudget
    PROVE  \E why \in Abstract!Quiet \cup Abstract!Errors : Abstract!Finish(why)
<1> DEFINE why == Promised'
<1>1. Promised = "open" BY DEF IInv, Place, Promised
<1>2. UNCHANGED <<Links, start, followed, pages, Budget>>
  BY DEF call, Links, At, Budget, OptionsValid, PageBudget
<1>3. why \in Abstract!Quiet \cup Abstract!Errors
  BY DEF Promised, Abstract!Quiet, Abstract!Errors
<1>4. why = "exhausted" => pages # <<>> /\ Links[Last(pages)] = NoNext
  BY DEF Promised, Handed
<1>5. why \in {"budget", "limit"} => Len(pages) = Budget /\ why \in Verdicts
  BY DEF Promised, Budget, Verdicts
<1>6. why = "loop" => pages # <<>> /\ Links[Last(pages)] \in ToSet(followed) \cup {start}
  BY DEF Promised, Handed
<1>7. Abstract!Finish(why)
  BY <1>1, <1>2, <1>4, <1>5, <1>6, SameOperators, Zenon
  DEF Abstract!Finish, Links, Budget, Verdicts, Promised
<1>8. QED BY <1>3, <1>7

(* Every step of the loop is a step of the promise or changes nothing.     *)
LEMMA RefinesNext == IInv /\ [Next]_vars => [Abstract!TNext]_(Abstract!tvars)
<1> SUFFICES ASSUME IInv, [Next]_vars, ~UNCHANGED Abstract!tvars PROVE Abstract!TNext OBVIOUS
<1>t. TypeOK /\ CallOK /\ Place BY DEF IInv
<1>c. UNCHANGED <<Links, Budget>> BY CallStep DEF Links, At, Budget, OptionsValid, PageBudget
<1> USE DEF loop, history, End
<1>1. CASE Answered
  <2>1. Promised = "open" /\ UNCHANGED Promised BY <1>1, <1>t DEF Answered, Place, Promised
  <2>2. /\ OptionsValid /\ Len(pages) = Len(followed) /\ Len(pages) < PageBudget
        /\ Len(pages) \in Nat /\ page = Held
    BY <1>1, <1>t DEF Answered, Place, TypeOK
  <2>3. Len(pages) < Budget /\ Len(pages) <= Len(followed) BY <2>2 DEF Budget
  <2>4. followed = <<>> <=> pages = <<>> BY <1>t, <2>2 DEF TypeOK
  <2>5. pages' = Append(pages, IF pages = <<>> THEN start ELSE Last(followed))
    BY <1>1, <2>2, <2>4 DEF Answered, Held
  <2>6. UNCHANGED <<start, followed>> BY <1>1 DEF Answered, call
  <2>7. Abstract!Deliver
    BY <1>c, <2>1, <2>3, <2>5, <2>6, SameOperators, Zenon
    DEF Abstract!Deliver, Links, Budget, Promised
  <2>8. QED BY <2>7 DEF Abstract!TNext
<1>2. CASE FollowNext /\ pc' = "request"
  <2>1. Promised = "open" /\ Promised' = "open"
    BY <1>2, <1>t DEF FollowNext, PageConsumed, Place, Promised
  <2>2. Len(followed) < Len(pages) /\ Handed /\ ToSet(followed) \subseteq visited
    BY <1>2, <1>t DEF FollowNext, PageConsumed, Place, TypeOK
  <2>3. NextRef \in Refs /\ Links[Last(pages)] = NextRef
    BY <1>2, <1>t, <2>2, LinkOfLast DEF FollowNext
  <2>4. /\ Links[Last(pages)] \notin ToSet(followed) \cup {NoNext} /\ pages # <<>>
        /\ followed' = Append(followed, Links[Last(pages)])
        /\ UNCHANGED <<start, pages>>
    BY <1>2, <2>2, <2>3 DEF FollowNext, Handed, call
  <2>5. Abstract!Follow
    BY <1>c, <2>1, <2>2, <2>4, SameOperators, Zenon
    DEF Abstract!Follow, Links, Budget, Promised
  <2>6. QED BY <2>5 DEF Abstract!TNext
<1>3. CASE Resume
  <2>1. Promised = "budget" /\ Promised' = "open" /\ Handed
    BY <1>3, <1>t DEF Resume, Promised, Place
  <2>2. NextRef \in Refs /\ Links[Last(pages)] = NextRef BY <1>3, <1>t, <2>1, LinkOfLast DEF Resume
  <2>3. Links[Last(pages)] \in Named \cup {Foreign} /\ Links[Last(pages)] # NoNext
    BY <2>2, ConstantsAssumption DEF Named
  <2>4. start' = Links[Last(pages)] /\ followed' = <<>> /\ pages' = <<>>
    BY <1>3, <2>2 DEF Resume
  <2>5. Abstract!ResumeAt(Links[Last(pages)])
    BY <1>c, <2>1, <2>3, <2>4, SameOperators, Zenon
    DEF Abstract!ResumeAt, Links, Budget, Promised
  <2>6. QED BY <2>3, <2>5 DEF Abstract!TNext
<1>4. CASE pc # "done" /\ pc' = "done"
  <2>0. ~Resume BY <1>4 DEF Resume
  <2>1. UNCHANGED <<call, followed, pages>>
    <3>1. UNCHANGED call BY <2>0, CallStep
    <3>2. UNCHANGED <<followed, pages>>
      BY <1>4 DEF Next, Client, Reject, Start, Inspected, InspectFails, RequestFails, Refused, Answered,
         TakeItem, Stop, EndOfChain, SpendBudget, LoopDetected, FollowNext, Resume, Done, vars
    <3>3. QED BY <3>1, <3>2
  <2>2. CASE outcome' \in {"stopped", "failed", "items"}
    BY <1>4, <2>1, <2>2, RefinesEnd DEF Abstract!TNext
  <2>3. CASE EndOfChain
    <3>1. Handed /\ NextRef = NoNext /\ outcome' = "exhausted"
      BY <2>3, <1>t DEF EndOfChain, PageConsumed, Place
    <3>2. Links[Last(pages)] = NoNext BY <3>1, <1>t, LinkOfLast, ConstantsAssumption
    <3>3. QED BY <1>4, <2>1, <3>1, <3>2, RefinesEnd DEF Abstract!TNext
  <2>4. CASE LoopDetected
    <3>1. Handed /\ outcome' = "loop" /\ start # Foreign /\ NextRef \in Seed \cup ToSet(followed)
      BY <2>4, <1>t DEF LoopDetected, PageConsumed, Place
    <3>2. NextRef \in Refs /\ NextRef \in ToSet(followed) \cup {start}
      BY <3>1, <1>t, ConstantsAssumption DEF Seed, ToSet, TypeOK, Named
    <3>3. Links[Last(pages)] \in ToSet(followed) \cup {start} BY <3>1, <3>2, <1>t, LinkOfLast
    <3>4. QED BY <1>4, <2>1, <3>1, <3>3, RefinesEnd DEF Abstract!TNext
  <2>5. CASE SpendBudget
    <3>1. outcome' = "budget" BY <2>5 DEF SpendBudget
    <3>2. Len(pages) = PageBudget /\ OptionsValid
      BY <2>5, <1>t, BudgetWithinGuard DEF SpendBudget, PageConsumed, BudgetSpent, Place, TypeOK
    <3>3. QED BY <1>4, <2>1, <3>1, <3>2, RefinesEnd DEF Abstract!TNext
  <2>6. ASSUME ~EndOfChain, ~LoopDetected, ~SpendBudget
        PROVE  outcome' \in {"stopped", "failed", "items"}
    BY <1>4, <2>0, <2>6, <1>t
    DEF Next, Client, Reject, Start, Inspected, InspectFails, RequestFails, Refused, Answered, TakeItem,
        Stop, FollowNext, Done, vars, Place
  <2>7. QED BY <2>2, <2>3, <2>4, <2>5, <2>6
<1>5. CASE UNCHANGED <<start, followed, pages, Promised>>
  <2>1. UNCHANGED Abstract!tvars
    BY <1>5, <1>c DEF Abstract!tvars, Links, Budget, Promised
  <2>2. QED BY <2>1
<1>6. ASSUME ~Answered, ~(FollowNext /\ pc' = "request"), ~Resume, ~(pc # "done" /\ pc' = "done")
      PROVE  UNCHANGED <<start, followed, pages, Promised>>
  BY <1>6 DEF Next, Client, Reject, Start, Inspected, InspectFails, RequestFails, Refused, TakeItem,
     Stop, EndOfChain, SpendBudget, LoopDetected, FollowNext, PageConsumed, Done, vars, call, Promised
<1>7. QED BY <1>1, <1>2, <1>3, <1>4, <1>5, <1>6

(* A list or search of a Service, resumed or not, is a traversal: it asks  *)
(* only for continuations it was given, hands out no more pages than its   *)
(* budget, and ends as it says.                                            *)
THEOREM Refinement == Spec => ImplementsTraversal
<1>1. QED BY RefinesInit, RefinesNext, Invariant, PTL
  DEF Spec, ImplementsTraversal, Abstract!TSpec
=============================================================================
