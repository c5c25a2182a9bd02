---------------------- MODULE DirectoryTraversal_proofs ----------------------
(***************************************************************************)
(* Proofs about DirectoryTraversal, for every directory, every budget and  *)
(* every caller: the state is of its type, every record of a page reached  *)
(* is accounted for once and in order, an item budget is kept, the search  *)
(* body travels with the POST alone, and the traversal is one as its       *)
(* consumer is promised it (module Traversal), resumptions included.       *)
(***************************************************************************)
EXTENDS DirectoryTraversal, SequenceLemmas

(* What the directory answers and what the caller asked for.               *)
CallOK ==
    /\ link \in [PageIds -> Refs \cup {NoNext, Foreign}]
    /\ content \in [PageIds -> Contents]
    /\ option \in Options
    /\ start \in Refs \cup {Search, Foreign}

(* Where the loop is, in terms of what it has followed and handed out.     *)
Held == IF followed = <<>> THEN origin ELSE Last(followed)
Handed == pages # <<>> /\ current = Last(pages)

Fresh ==
    /\ followed = <<>> /\ pages = <<>> /\ items = <<>> /\ issues = <<>>
    /\ pageNumber = 0 /\ current = origin /\ wire = NoWire
    /\ body <=> method = "POST"

Place ==
    /\ outcome = "open" <=> pc # "done"
    /\ pc # "done" => visited = ToSet(followed)
    /\ pc = "start" => Fresh
    /\ pc = "request" =>
           /\ OptionsValid
           /\ Len(pages) = pageNumber /\ Len(followed) = pageNumber
           /\ pageNumber < PageBudget /\ current = Held
           /\ pages # <<>> => taken = content[Last(pages)].usable
    /\ pc = "consume" =>
           /\ OptionsValid
           /\ Len(pages) = pageNumber + 1 /\ Len(followed) = pageNumber
           /\ pageNumber < PageBudget /\ Handed
    /\ outcome = "exhausted" => Handed /\ link[current] = NoNext
    /\ outcome \in {"budget", "limit"} => OptionsValid /\ Handed /\ Len(pages) = PageBudget
    /\ outcome = "limit" => PageBudget = MaximumPages
    /\ outcome = "budget" => PageBudget # MaximumPages

IInv == CallOK /\ TypeOK /\ Place

-----------------------------------------------------------------------------
LEMMA InitInv == Init => IInv
<1> SUFFICES ASSUME Init PROVE IInv OBVIOUS
<1>1. CallOK BY DEF Init, CallOK
<1>2. Begin \in PageIds BY ConstantsAssumption DEF Begin, PageIds
<1>3. TypeOK
  <2>1. NoWire \in [method : {"GET", "POST", "none"}, body : BOOLEAN,
                    redirects : 0..MaximumRedirects, at : Addresses]
    BY ConstantsAssumption DEF NoWire, Addresses
  <2>2. 0 \in 0..(MaximumPages - 1) BY ConstantsAssumption
  <2>3. QED BY <1>2, <2>1, <2>2 DEF Init, TypeOK
<1>4. Place
  <2>1. body <=> method = "POST" BY DEF Init
  <2>2. Fresh BY <2>1 DEF Init, Fresh
  <2>3. QED BY <2>2 DEF Init, Place, ToSet
<1>5. QED BY <1>1, <1>3, <1>4 DEF IInv

LEMMA CallStep == CallOK /\ [Next]_vars => CallOK'
<1> SUFFICES ASSUME CallOK, [Next]_vars PROVE CallOK' OBVIOUS
<1>1. UNCHANGED call
  BY DEF Next, Client, Reject, Start, Redirected, RequestFails, Answered, TakeItem, Stop,
     EndOfChain, SpendBudget, Unresolvable, LoopDetected, FollowNext, Resume, Done, vars
<1>2. QED BY <1>1 DEF call, CallOK

(* A continuation that resolves is a target, and stays within the budget.  *)
LEMMA ContinuationType ==
    ASSUME CallOK, link[current] \in Refs PROVE Resolve(link[current]) \in Targets
BY ConstantsAssumption DEF CallOK

LEMMA BudgetWithinGuard == OptionsValid => PageBudget \in 1..MaximumPages
BY ConstantsAssumption DEF OptionsValid, PageBudget

LEMMA SendType ==
    ASSUME NEW m \in {"GET", "POST"}, NEW b \in BOOLEAN, Send(m, b)
    PROVE  wire' \in [method : {"GET", "POST", "none"}, body : BOOLEAN,
                      redirects : 0..MaximumRedirects, at : Addresses]
<1>1. wire' = [method |-> m, body |-> b, redirects |-> 0, at |-> "asked"]
  BY DEF Send, NoWire
<1>2. 0 \in 0..MaximumRedirects /\ "asked" \in Addresses BY ConstantsAssumption DEF Addresses
<1>3. QED BY <1>1, <1>2

LEMMA TypeStep == IInv /\ [Next]_vars => TypeOK'
<1> SUFFICES ASSUME IInv, [Next]_vars PROVE TypeOK' OBVIOUS
<1> USE ConstantsAssumption DEF call, loop, history, End
<1>t. TypeOK /\ CallOK BY DEF IInv
<1>n. NoWire \in [method : {"GET", "POST", "none"}, body : BOOLEAN,
                  redirects : 0..MaximumRedirects, at : Addresses]
  BY DEF NoWire, Addresses
<1>1. CASE Reject \/ RequestFails \/ Stop \/ EndOfChain \/ SpendBudget \/ Unresolvable \/ LoopDetected
  BY <1>1, <1>t, <1>n DEF Reject, RequestFails, Stop, EndOfChain, SpendBudget, Unresolvable,
     LoopDetected, TypeOK
<1>2. CASE Start
  <2>1. method \in {"GET", "POST"} /\ body \in BOOLEAN /\ Send(method, body)
    BY <1>2, <1>t DEF Start, TypeOK
  <2>2. wire' \in [method : {"GET", "POST", "none"}, body : BOOLEAN,
                   redirects : 0..MaximumRedirects, at : Addresses]
    BY <2>1, SendType
  <2>3. QED BY <1>2, <1>t, <2>2 DEF Start, TypeOK
<1>3. ASSUME NEW status \in {301, 302, 303, 307, 308}, NEW address \in Addresses,
             Redirected(status, address)
      PROVE  TypeOK'
  <2>1. wire.redirects \in 0..MaximumRedirects /\ wire.redirects # MaximumRedirects
    BY <1>3, <1>t DEF Redirected, TypeOK
  <2>2. CountHop(wire) \in 0..MaximumRedirects BY <2>1 DEF CountHop
  <2>3. wire.method \in {"GET", "POST", "none"} /\ wire.body \in BOOLEAN BY <1>t DEF TypeOK
  <2>4. wire' \in [method : {"GET", "POST", "none"}, body : BOOLEAN,
                   redirects : 0..MaximumRedirects, at : Addresses]
    BY <1>3, <2>2, <2>3 DEF Redirected
  <2>5. QED BY <1>3, <1>t, <2>4 DEF Redirected, TypeOK
<1>4. CASE Answered
  <2>1. current \in PageIds /\ content[current].unusable \in Nat BY <1>t DEF TypeOK, CallOK
  <2>2. pages' \in Seq(PageIds) BY <1>4, <1>t, <2>1 DEF Answered, TypeOK
  <2>3. [i \in 1..content[current].unusable |-> <<current, i>>] \in Seq(PageIds \X Nat) BY <2>1
  <2>4. issues' \in Seq(PageIds \X Nat) BY <1>4, <1>t, <2>3 DEF Answered, TypeOK
  <2>5. QED BY <1>4, <1>t, <1>n, <2>2, <2>4 DEF Answered, TypeOK
<1>5. CASE TakeItem
  <2>1. taken + 1 \in Nat /\ <<current, taken + 1>> \in PageIds \X Nat BY <1>t DEF TypeOK
  <2>2. items' \in Seq(PageIds \X Nat) BY <1>5, <1>t, <2>1 DEF TakeItem, TypeOK
  <2>3. /\ pc' \in {"start", "request", "consume", "done"}
        /\ outcome' \in {"open", "exhausted", "budget", "items", "stopped", "loop", "failed", "limit"}
    BY <1>5, <1>t DEF TakeItem, TypeOK
  <2>4. QED BY <1>5, <1>t, <2>1, <2>2, <2>3 DEF TakeItem, TypeOK
<1>6. CASE FollowNext
  <2>1. Resolve(link[current]) \in Targets BY <1>6, <1>t, ContinuationType DEF FollowNext
  <2>2. wire' \in [method : {"GET", "POST", "none"}, body : BOOLEAN,
                   redirects : 0..MaximumRedirects, at : Addresses]
    BY <1>6, SendType DEF FollowNext, ContinuationBody
  <2>3. pageNumber' \in 0..(MaximumPages - 1)
    BY <1>6, <1>t, BudgetWithinGuard DEF FollowNext, PageConsumed, BudgetSpent, TypeOK, IInv, Place
  <2>4. followed' \in Seq(Targets) BY <1>6, <1>t, <2>1 DEF FollowNext, TypeOK
  <2>5. visited' \subseteq Targets BY <1>6, <1>t, <2>1 DEF FollowNext, Visit, TypeOK
  <2>6. QED BY <1>6, <1>t, <2>1, <2>2, <2>3, <2>4, <2>5
    DEF FollowNext, ContinuationBody, TypeOK, PageIds
<1>7. CASE Resume
  <2>1. Resolve(link[current]) \in Targets BY <1>7, <1>t, ContinuationType DEF Resume
  <2>2. wire' \in [method : {"GET", "POST", "none"}, body : BOOLEAN,
                   redirects : 0..MaximumRedirects, at : Addresses]
    BY <1>7, SendType DEF Resume
  <2>3. 0 \in 0..(MaximumPages - 1) OBVIOUS
  <2>4. /\ followed' \in Seq(Targets) /\ pages' \in Seq(PageIds)
        /\ items' \in Seq(PageIds \X Nat) /\ issues' \in Seq(PageIds \X Nat)
    BY <1>7 DEF Resume
  <2>5. /\ current' \in PageIds /\ origin' \in PageIds
        /\ method' \in {"GET", "POST"} /\ body' \in BOOLEAN
    BY <1>7, <2>1 DEF Resume, PageIds
  <2>6. QED BY <1>7, <2>2, <2>3, <2>4, <2>5 DEF Resume, TypeOK
<1>8. CASE Done \/ UNCHANGED vars BY <1>8, <1>t DEF Done, vars, TypeOK
<1>9. QED BY <1>1, <1>2, <1>3, <1>4, <1>5, <1>6, <1>7, <1>8 DEF Next, Client

LEMMA PlaceStep == IInv /\ [Next]_vars => Place'
<1> SUFFICES ASSUME IInv, [Next]_vars PROVE Place' OBVIOUS
<1> USE ConstantsAssumption DEF call, loop, history, End
<1>t. TypeOK /\ CallOK /\ Place BY DEF IInv
<1>o. (OptionsValid <=> OptionsValid') /\ PageBudget' = PageBudget
  <2>1. UNCHANGED call
    BY DEF Next, Client, Reject, Start, Redirected, RequestFails, Answered, TakeItem, Stop,
       EndOfChain, SpendBudget, Unresolvable, LoopDetected, FollowNext, Resume, Done, vars
  <2>2. QED BY <2>1 DEF OptionsValid, PageBudget
<1>1. CASE Reject \/ RequestFails \/ Stop \/ EndOfChain \/ Unresolvable \/ LoopDetected
  BY <1>1, <1>t DEF Reject, RequestFails, Stop, EndOfChain, Unresolvable, LoopDetected,
     PageConsumed, Place, Handed
<1>2. CASE SpendBudget
  <2>1. outcome' \in {"budget", "limit"} /\ pc' = "done" BY <1>2 DEF SpendBudget
  <2>2. Len(pages) = PageBudget
    BY <1>2, <1>t, BudgetWithinGuard DEF SpendBudget, PageConsumed, BudgetSpent, Place, TypeOK
  <2>3. outcome' = "limit" <=> PageBudget = MaximumPages BY <1>2 DEF SpendBudget, GuardReached
  <2>4. /\ OptionsValid /\ Handed /\ UNCHANGED <<pages, current>>
    BY <1>2, <1>t DEF SpendBudget, PageConsumed, Place
  <2>5. (Handed /\ OptionsValid /\ Len(pages) = PageBudget)' BY <1>o, <2>2, <2>4 DEF Handed
  <2>6. outcome' \notin {"open", "exhausted"} BY <2>1
  <2>7. QED BY <1>o, <2>1, <2>3, <2>5, <2>6 DEF Place
<1>3. CASE Start
  <2>1. /\ pc = "start" /\ OptionsValid /\ Fresh /\ pc' = "request"
        /\ UNCHANGED <<outcome, visited, pageNumber, followed, pages, current, origin>>
    BY <1>3, <1>t DEF Start, Place
  <2>2. 0 < PageBudget BY <2>1, BudgetWithinGuard
  <2>3. Held' = origin /\ visited' = ToSet(followed') /\ outcome' = "open"
    BY <2>1, <1>t DEF Held, Fresh, Place
  <2>4. QED BY <1>o, <2>1, <2>2, <2>3 DEF Place, Fresh
<1>4. CASE \E status \in {301, 302, 303, 307, 308}, address \in Addresses :
               Redirected(status, address)
  BY <1>4, <1>t, <1>o DEF Redirected, Place, Held
<1>5. CASE Answered
  <2>1. current \in PageIds /\ pages \in Seq(PageIds) BY <1>t DEF TypeOK
  <2>2. Last(pages') = current /\ pages' # <<>> /\ Len(pages') = Len(pages) + 1
    BY <1>5, <2>1, LastOfAppend DEF Answered
  <2>3. Handed' BY <1>5, <2>2 DEF Answered, Handed
  <2>4. QED BY <1>5, <1>t, <1>o, <2>2, <2>3 DEF Answered, Place
<1>6. CASE TakeItem
  BY <1>6, <1>t, <1>o DEF TakeItem, Place, Handed
<1>7. CASE FollowNext
  <2>1. Resolve(link[current]) \in Targets /\ followed \in Seq(Targets)
    BY <1>7, <1>t, ContinuationType DEF FollowNext, TypeOK
  <2>2. /\ Last(followed') = Resolve(link[current]) /\ followed' # <<>>
        /\ Len(followed') = Len(followed) + 1
        /\ ToSet(followed') = ToSet(followed) \cup {Resolve(link[current])}
    BY <1>7, <2>1, LastOfAppend, SetOfAppend DEF FollowNext
  <2>3. visited' = ToSet(followed') /\ Held' = current'
    BY <1>7, <1>t, <2>2 DEF FollowNext, PageConsumed, Visit, Place, Held
  <2>4. pageNumber' = pageNumber + 1 /\ pageNumber' < PageBudget /\ pageNumber \in Nat
    BY <1>7, <1>t, BudgetWithinGuard DEF FollowNext, PageConsumed, BudgetSpent, Place, TypeOK
  <2>5. taken' = content'[Last(pages')].usable
    BY <1>7, <1>t DEF FollowNext, PageConsumed, Place, Handed
  <2>6. Len(pages') = pageNumber' /\ Len(followed') = pageNumber'
    BY <1>7, <1>t, <2>2, <2>4 DEF FollowNext, PageConsumed, Place
  <2>7. OptionsValid /\ pc' = "request" /\ outcome' = "open"
    BY <1>7, <1>t DEF FollowNext, PageConsumed, Place
  <2>8. QED BY <1>o, <2>3, <2>4, <2>5, <2>6, <2>7 DEF Place
<1>8. CASE Resume
  <2>1. OptionsValid /\ 0 < PageBudget BY <1>8, <1>t, BudgetWithinGuard DEF Resume, Place
  <2>2. QED BY <1>8, <1>o, <2>1 DEF Resume, Place, Held, ToSet
<1>9. CASE Done \/ UNCHANGED vars
  <2>1. UNCHANGED vars BY <1>9 DEF Done
  <2>2. UNCHANGED <<Held, Handed, Fresh>> BY <2>1 DEF vars, Held, Handed, Fresh
  <2>3. QED BY <1>t, <1>o, <2>1, <2>2 DEF vars, Place
<1>10. QED BY <1>1, <1>2, <1>3, <1>4, <1>5, <1>6, <1>7, <1>8, <1>9 DEF Next, Client

THEOREM Invariant == Spec => []IInv
<1>1. IInv /\ [Next]_vars => IInv' BY CallStep, TypeStep, PlaceStep DEF IInv
<1>2. QED BY <1>1, InitInv, PTL DEF Spec

(* The state is of its type: the page number stays below the guard and a   *)
(* call is redirected no more often than it may be.                        *)
THEOREM TypeCorrect == Spec => []TypeOK
<1>1. IInv => TypeOK BY DEF IInv
<1>2. QED BY <1>1, Invariant, PTL

-----------------------------------------------------------------------------
(* What of each page reached has been reported, and what handed out.       *)
Entry == PageIds \X Nat
Report(n) == Records(pages[n], content[pages[n]].unusable)
Reports == [n \in 1..Len(pages) |-> Report(n)]
Share(n) == Records(pages[n], IF n = Len(pages) /\ pc # "request" THEN taken
                              ELSE content[pages[n]].usable)
Shares == [n \in 1..Len(pages) |-> Share(n)]

LEMMA RecordsType ==
    ASSUME NEW p \in PageIds, NEW k \in Nat PROVE Records(p, k) \in Seq(Entry)
<1>1. \A i \in 1..k : <<p, i>> \in Entry BY DEF Entry
<1>2. QED BY <1>1 DEF Records

LEMMA PartsType ==
    TypeOK /\ CallOK => /\ Reports \in [1..Len(pages) -> Seq(Entry)]
                        /\ Shares \in [1..Len(pages) -> Seq(Entry)]
<1> SUFFICES ASSUME TypeOK, CallOK
             PROVE  /\ Reports \in [1..Len(pages) -> Seq(Entry)]
                    /\ Shares \in [1..Len(pages) -> Seq(Entry)]
  OBVIOUS
<1>1. \A n \in 1..Len(pages) : pages[n] \in PageIds BY DEF TypeOK
<1>2. \A p \in PageIds : content[p].usable \in Nat /\ content[p].unusable \in Nat
  BY ConstantsAssumption DEF CallOK
<1>3. \A n \in 1..Len(pages) : Report(n) \in Seq(Entry) BY <1>1, <1>2, RecordsType DEF Report
<1>4. \A n \in 1..Len(pages) : Share(n) \in Seq(Entry)
  BY <1>1, <1>2, RecordsType DEF Share, TypeOK
<1>5. QED BY <1>3, <1>4 DEF Reports, Shares

(* A step that reaches no page leaves the reports as they are; the shares  *)
(* too, when it takes nothing and leaves no page half taken behind.        *)
LEMMA ReportsStay == ASSUME UNCHANGED <<content, pages>> PROVE Reports' = Reports
<1>1. \A n \in 1..Len(pages) : Report(n)' = Report(n) BY DEF Report
<1>2. QED BY <1>1 DEF Reports

LEMMA SharesStay ==
    ASSUME UNCHANGED <<content, pages, taken>>,
           \/ pc = "request" <=> pc' = "request"
           \/ pages = <<>>
           \/ taken = content[pages[Len(pages)]].usable
    PROVE  Shares' = Shares
<1>1. CASE pages = <<>> BY <1>1 DEF Shares
<1>2. CASE pages # <<>>
  <2>1. \A n \in 1..Len(pages) : Share(n)' = Share(n) BY <1>2 DEF Share
  <2>2. QED BY <2>1 DEF Shares
<1>3. QED BY <1>1, <1>2

LEMMA RecordsStep == IInv /\ EveryRecordIsAccountedFor /\ [Next]_vars => EveryRecordIsAccountedFor'
<1> SUFFICES ASSUME IInv, [Next]_vars, issues = FlattenSeq(Reports), items = FlattenSeq(Shares)
             PROVE  issues' = FlattenSeq(Reports') /\ items' = FlattenSeq(Shares')
  BY DEF EveryRecordIsAccountedFor, Reports, Report, Shares, Share
<1>t. TypeOK /\ CallOK /\ Place /\ TypeOK' /\ CallOK' BY TypeStep, CallStep DEF IInv
<1>r. Reports \in [1..Len(pages) -> Seq(Entry)] /\ Shares \in [1..Len(pages) -> Seq(Entry)]
  BY <1>t, PartsType
<1>s. Reports' \in [1..Len(pages') -> Seq(Entry)] /\ Shares' \in [1..Len(pages') -> Seq(Entry)]
  <2>1. (TypeOK /\ CallOK => /\ Reports \in [1..Len(pages) -> Seq(Entry)]
                             /\ Shares \in [1..Len(pages) -> Seq(Entry)])' BY PartsType, PTL
  <2>2. QED BY <1>t, <2>1
<1> USE DEF call, loop, history, End
<1>1. CASE Answered
  <2>1. /\ Len(pages) \in Nat /\ Len(pages') = Len(pages) + 1
        /\ \A n \in 1..Len(pages) : pages'[n] = pages[n]
        /\ pages'[Len(pages) + 1] = current
    BY <1>1, <1>t DEF Answered, TypeOK
  <2>2. \A n \in 1..Len(pages) : Reports'[n] = Reports[n] /\ Shares'[n] = Shares[n]
    <3>1. pc = "request" /\ UNCHANGED content BY <1>1 DEF Answered
    <3>2. \A n \in 1..Len(pages) : n \in 1..Len(pages') /\ n # Len(pages') BY <2>1
    <3>3. \A n \in 1..Len(pages) : Report(n)' = Report(n) /\ Share(n)' = Share(n)
      BY <2>1, <3>1, <3>2 DEF Report, Share
    <3>4. QED BY <3>2, <3>3 DEF Reports, Shares
  <2>3. Reports'[Len(pages) + 1] = Records(current, content[current].unusable)
    <3>1. UNCHANGED content BY <1>1 DEF Answered
    <3>2. QED BY <2>1, <3>1 DEF Reports, Report
  <2>4. Shares'[Len(pages) + 1] = <<>> BY <1>1, <2>1 DEF Answered, Shares, Share, Records
  <2>5. /\ FlattenSeq(Reports') = FlattenSeq(Reports) \o Reports'[Len(pages) + 1]
        /\ FlattenSeq(Shares') = FlattenSeq(Shares) \o Shares'[Len(pages) + 1]
    BY <1>r, <1>s, <2>1, <2>2, FlattenOneMore
  <2>6. FlattenSeq(Shares) \in Seq(Entry) BY <1>r, <2>1, FlattenType
  <2>7. items' = items /\ issues' = issues \o Records(current, content[current].unusable)
    BY <1>1 DEF Answered, Reported, Records
  <2>8. QED BY <2>3, <2>4, <2>5, <2>6, <2>7
<1>2. CASE TakeItem
  <2>1. Len(pages) \in Nat \ {0} /\ current = pages[Len(pages)] /\ UNCHANGED pages
    BY <1>2, <1>t, LastInSet DEF TakeItem, Place, Handed, TypeOK
  <2>2. \A n \in 1..(Len(pages) - 1) : Shares'[n] = Shares[n]
    BY <1>2, <2>1 DEF TakeItem, Shares, Share
  <2>p. pc # "request" /\ pc' # "request" BY <1>2 DEF TakeItem
  <2>3. Shares[Len(pages)] = Records(current, taken) /\ Shares'[Len(pages)] = Records(current, taken + 1)
    BY <1>2, <2>1, <2>p DEF TakeItem, Shares, Share
  <2>4. Records(current, taken + 1) = Append(Records(current, taken), <<current, taken + 1>>)
    <3>1. taken \in Nat BY <1>t DEF TypeOK
    <3>2. QED BY <3>1 DEF Records
  <2>5. <<current, taken + 1>> \in Entry
    <3>1. taken \in Nat /\ current \in PageIds BY <1>t DEF TypeOK
    <3>2. QED BY <3>1 DEF Entry
  <2>6. /\ Shares \in [1..Len(pages) -> Seq(Entry)] /\ Shares' \in [1..Len(pages) -> Seq(Entry)]
        /\ Shares'[Len(pages)] = Append(Shares[Len(pages)], <<current, taken + 1>>)
    BY <1>r, <1>s, <2>1, <2>3, <2>4
  <2>7. FlattenSeq(Shares') = Append(FlattenSeq(Shares), <<current, taken + 1>>)
    <3>1. LongerLast(Entry, Len(pages), Shares, Shares', <<current, taken + 1>>)
      BY <2>1, <2>2, <2>5, <2>6 DEF LongerLast
    <3>2. QED BY <3>1, FlattenLongerLast
  <2>8. Reports' = Reports /\ issues' = issues BY <1>2, ReportsStay DEF TakeItem
  <2>9. QED BY <1>2, <2>7, <2>8 DEF TakeItem
<1>3. CASE Resume
  <2>1. pages' = <<>> /\ issues' = <<>> /\ items' = <<>> BY <1>3 DEF Resume
  <2>2. Reports' \in [1..0 -> Seq(Entry)] /\ Shares' \in [1..0 -> Seq(Entry)] BY <1>s, <2>1
  <2>3. QED BY <2>1, <2>2, FlattenNone
<1>4. CASE FollowNext \/ RequestFails \/ Start \/ Reject
  <2>1. UNCHANGED <<content, pages, taken, items, issues>>
    BY <1>4 DEF FollowNext, RequestFails, Start, Reject
  <2>2. pages = <<>> \/ taken = content[pages[Len(pages)]].usable
    BY <1>4, <1>t, LastInSet DEF FollowNext, RequestFails, Start, Reject, PageConsumed, Place,
       Fresh, Handed, TypeOK
  <2>3. QED BY <2>1, <2>2, ReportsStay, SharesStay
<1>5. CASE \/ \E status \in {301, 302, 303, 307, 308}, address \in Addresses :
                 Redirected(status, address)
           \/ Stop \/ EndOfChain \/ SpendBudget \/ Unresolvable \/ LoopDetected
           \/ Done \/ UNCHANGED vars
  <2>1. UNCHANGED <<content, pages, taken, items, issues>> /\ (pc = "request" <=> pc' = "request")
    BY <1>5 DEF Redirected, Stop, EndOfChain, SpendBudget, Unresolvable, LoopDetected,
       PageConsumed, Done, vars
  <2>2. QED BY <2>1, ReportsStay, SharesStay
<1>6. QED BY <1>1, <1>2, <1>3, <1>4, <1>5 DEF Next, Client

(* Every record of a page that was reached is an item or an issue, once    *)
(* and in its place, through failures, budgets and resumptions.            *)
THEOREM RecordsAccounted == Spec => []EveryRecordIsAccountedFor
<1>1. Init => EveryRecordIsAccountedFor
  <2> SUFFICES ASSUME Init PROVE issues = FlattenSeq(Reports) /\ items = FlattenSeq(Shares)
    BY DEF EveryRecordIsAccountedFor, Reports, Report, Shares, Share
  <2>1. Reports \in [1..0 -> {}] /\ Shares \in [1..0 -> {}] BY DEF Init, Reports, Shares
  <2>2. QED BY <2>1, FlattenNone DEF Init
<1>2. QED BY <1>1, RecordsStep, Invariant, PTL DEF Spec

-----------------------------------------------------------------------------

-----------------------------------------------------------------------------
(* While a traversal is under way its caller can still use an item.        *)
RoomForItems ==
    option.items > 0 => /\ Len(items) <= option.items
                        /\ pc # "done" => Len(items) < option.items

LEMMA RoomStep == IInv /\ RoomForItems /\ [Next]_vars => RoomForItems'
<1> SUFFICES ASSUME IInv, RoomForItems, [Next]_vars PROVE RoomForItems' OBVIOUS
<1>t. TypeOK /\ CallOK BY DEF IInv
<1>l. items \in Seq(PageIds \X Nat) /\ Len(items) \in Nat /\ option.items \in Int
  BY <1>t, ConstantsAssumption DEF TypeOK, CallOK
<1> USE DEF call, loop, history, End
<1>1. CASE TakeItem
  <2>1. <<current, taken + 1>> \in PageIds \X Nat BY <1>t DEF TypeOK
  <2>2. Len(items') = Len(items) + 1 BY <1>1, <1>l, <2>1 DEF TakeItem
  <2>3. option' = option /\ (pc' # "done" => ~ItemBudgetSpent(Len(items) + 1)) /\ pc = "consume"
    BY <1>1 DEF TakeItem
  <2>4. QED BY <1>l, <2>2, <2>3 DEF ItemBudgetSpent, RoomForItems
<1>2. CASE Resume
  <2>1. option' = option /\ Len(items') = 0 BY <1>2 DEF Resume
  <2>2. QED BY <1>l, <2>1 DEF RoomForItems
<1>3. CASE (Client /\ ~TakeItem) \/ Stop \/ Done \/ UNCHANGED vars
  <2>1. UNCHANGED <<option, items>> /\ (pc' # "done" => pc # "done")
    BY <1>3 DEF Client, Reject, Start, Redirected, RequestFails, Answered, Stop, EndOfChain,
       SpendBudget, Unresolvable, LoopDetected, FollowNext, PageConsumed, Done, vars
  <2>2. QED BY <1>l, <2>1 DEF RoomForItems
<1>4. QED BY <1>1, <1>2, <1>3 DEF Next

(* No page is requested for a caller that has all the items it asked for.  *)
THEOREM ItemBudgetKept == Spec => []NothingRequestedBeyondItemBudget
<1>1. Init => RoomForItems
  <2> SUFFICES ASSUME Init, option.items > 0 PROVE Len(items) < option.items
    BY ConstantsAssumption DEF Init, RoomForItems
  <2>1. Len(items) = 0 /\ option.items \in Int BY ConstantsAssumption DEF Init
  <2>2. QED BY <2>1
<1>2. IInv /\ RoomForItems => NothingRequestedBeyondItemBudget
  <2> SUFFICES ASSUME IInv, RoomForItems, option.items > 0
               PROVE  Len(items) <= option.items /\ (Len(items) = option.items => pc # "request")
    BY DEF NothingRequestedBeyondItemBudget
  <2>1. Len(items) \in Nat /\ option.items \in Int
    BY ConstantsAssumption DEF IInv, TypeOK, CallOK
  <2>2. QED BY <2>1 DEF RoomForItems
<1>3. QED BY <1>1, <1>2, RoomStep, Invariant, PTL DEF Spec

-----------------------------------------------------------------------------
LEMMA BodyStep == IInv /\ SearchBodyTravelsWithPost /\ [Next]_vars => SearchBodyTravelsWithPost'
<1> SUFFICES ASSUME IInv, SearchBodyTravelsWithPost, [Next]_vars
             PROVE  wire'.body <=> wire'.method = "POST"
  BY DEF SearchBodyTravelsWithPost
<1>b. wire.body <=> wire.method = "POST" BY DEF SearchBodyTravelsWithPost
<1> USE DEF call, loop, history, End
<1>1. CASE Start
  <2>1. wire' = [method |-> method, body |-> body, redirects |-> 0, at |-> "asked"]
    BY <1>1 DEF Start, Send, NoWire
  <2>2. body <=> method = "POST" BY <1>1 DEF Start, IInv, Place, Fresh
  <2>3. QED BY <2>1, <2>2
<1>2. ASSUME NEW status \in {301, 302, 303, 307, 308}, NEW address \in Addresses,
             Redirected(status, address)
      PROVE  wire'.body <=> wire'.method = "POST"
  <2>1. /\ wire'.method = IF BecomesGet(status, wire) THEN "GET" ELSE wire.method
        /\ wire'.body = (wire.body /\ ~BecomesGet(status, wire))
    BY <1>2 DEF Redirected
  <2>2. CASE BecomesGet(status, wire) BY <2>1, <2>2
  <2>3. CASE ~BecomesGet(status, wire) BY <1>b, <2>1, <2>3
  <2>4. QED BY <2>2, <2>3
<1>3. CASE FollowNext \/ Resume
  <2>1. wire' = [method |-> "GET", body |-> FALSE, redirects |-> 0, at |-> "asked"]
    BY <1>3 DEF FollowNext, Resume, Send, NoWire, ContinuationBody
  <2>2. QED BY <2>1
<1>4. CASE wire' = NoWire BY <1>4 DEF NoWire
<1>5. CASE UNCHANGED wire BY <1>b, <1>5
<1>6. QED BY <1>1, <1>2, <1>3, <1>4, <1>5
  DEF Next, Client, Reject, RequestFails, Answered, TakeItem, Stop, EndOfChain, SpendBudget,
      Unresolvable, LoopDetected, Done, vars

(* The search request is sent with the POST, on every hop, and never else. *)
THEOREM BodyWithPost == Spec => []SearchBodyTravelsWithPost
<1>1. Init => SearchBodyTravelsWithPost BY DEF Init, NoWire, SearchBodyTravelsWithPost
<1>2. QED BY <1>1, BodyStep, Invariant, PTL DEF Spec

-----------------------------------------------------------------------------
(* Refinement.  The promise sees resolved continuations, and none where a  *)
(* page carries a reference that does not resolve.                         *)
Links == [p \in PageIds |-> IF link[p] \in Refs THEN Resolve(link[p]) ELSE NoNext]
Budget == IF OptionsValid THEN PageBudget ELSE DefaultPages
Verdicts == IF Budget = MaximumPages THEN {"limit"} ELSE {"budget"}
Promised == IF outcome = "items" THEN "stopped" ELSE outcome

LEMMA SameOperators == \A s : Abstract!Last(s) = Last(s) /\ Abstract!ToSet(s) = ToSet(s)
BY DEF Last, Abstract!Last, ToSet, Abstract!ToSet

LEMMA LinkOfLast ==
    ASSUME TypeOK, pages # <<>>
    PROVE  Links[Last(pages)] =
               IF link[Last(pages)] \in Refs THEN Resolve(link[Last(pages)]) ELSE NoNext
<1>1. Last(pages) \in PageIds BY LastInSet DEF TypeOK
<1>2. QED BY <1>1 DEF Links

LEMMA RefinesInit == Init => Abstract!TInit
<1> SUFFICES ASSUME Init PROVE Abstract!TInit OBVIOUS
<1>1. CallOK /\ TypeOK BY InitInv DEF IInv
<1>2. Links \in [PageIds -> PageIds \cup {NoNext}]
  BY ConstantsAssumption DEF Links, PageIds
<1>3. Budget \in Nat \ {0} BY BudgetWithinGuard, ConstantsAssumption DEF Budget
<1>4. Promised = "open" BY DEF Init, Promised
<1>5. origin \in PageIds BY <1>1 DEF TypeOK
<1>6. QED BY <1>2, <1>3, <1>4, <1>5
  DEF Init, Abstract!TInit, AbstractBudget, Links, Budget, Promised

(* An end of the traversal is one the promise allows.                      *)
LEMMA RefinesEnd ==
    ASSUME IInv, pc # "done", pc' = "done",
           UNCHANGED <<call, origin, followed, pages>>,
           \/ outcome' \in {"stopped", "failed", "items"}
           \/ outcome' = "exhausted" /\ Handed /\ Links[Last(pages)] = NoNext
           \/ outcome' = "loop" /\ Handed /\ Links[Last(pages)] \in ToSet(followed)
           \/ /\ outcome' \in {"budget", "limit"} /\ OptionsValid /\ Len(pages) = PageBudget
              /\ outcome' = "limit" <=> PageBudget = MaximumPages
    PROVE  \E why \in Abstract!Quiet \cup Abstract!Errors : Abstract!Finish(why)
<1> DEFINE why == Promised'
<1>1. Promised = "open" BY DEF IInv, Place, Promised
<1>2. UNCHANGED <<Links, origin, followed, pages, Budget, Verdicts>>
  BY DEF call, Links, Budget, Verdicts, OptionsValid, PageBudget
<1>3. why \in Abstract!Quiet \cup Abstract!Errors
  BY DEF Promised, Abstract!Quiet, Abstract!Errors
<1>4. why = "exhausted" => pages # <<>> /\ Links[Last(pages)] = NoNext
  BY DEF Promised, Handed
<1>5. why \in {"budget", "limit"} => Len(pages) = Budget /\ why \in Verdicts
  BY DEF Promised, Budget, Verdicts
<1>6. why = "loop" => pages # <<>> /\ Links[Last(pages)] \in ToSet(followed) \cup {origin}
  BY DEF Promised, Handed
<1>7. Abstract!Finish(why)
  BY <1>1, <1>2, <1>4, <1>5, <1>6, SameOperators, Zenon
  DEF Abstract!Finish, AbstractBudget, Links, Budget, Verdicts, Promised
<1>8. QED BY <1>3, <1>7

LEMMA RefinesNext == IInv /\ [Next]_vars => [Abstract!TNext]_(Abstract!tvars)
<1> SUFFICES ASSUME IInv, [Next]_vars, ~UNCHANGED Abstract!tvars PROVE Abstract!TNext OBVIOUS
<1>t. TypeOK /\ CallOK /\ Place BY DEF IInv
<1>c. UNCHANGED <<Links, Budget, Verdicts>> /\ UNCHANGED call
  <2>1. UNCHANGED call
    BY DEF Next, Client, Reject, Start, Redirected, RequestFails, Answered, TakeItem, Stop,
       EndOfChain, SpendBudget, Unresolvable, LoopDetected, FollowNext, Resume, Done, vars
  <2>2. QED BY <2>1 DEF call, Links, Budget, Verdicts, OptionsValid, PageBudget
<1> USE DEF loop, history, End
<1>1. CASE Answered
  <2>1. Promised = "open" /\ UNCHANGED Promised BY <1>1, <1>t DEF Answered, Place, Promised
  <2>2. /\ OptionsValid /\ Len(pages) = Len(followed) /\ Len(pages) < PageBudget
        /\ Len(pages) \in Nat /\ current = Held
    BY <1>1, <1>t DEF Answered, Place, TypeOK
  <2>3. Len(pages) < Budget /\ Len(pages) <= Len(followed) BY <2>2 DEF Budget
  <2>4. followed = <<>> <=> pages = <<>> BY <1>t, <2>2 DEF TypeOK
  <2>5. pages' = Append(pages, IF pages = <<>> THEN origin ELSE Last(followed))
    BY <1>1, <2>2, <2>4 DEF Answered, Held
  <2>6. UNCHANGED <<origin, followed>> BY <1>1 DEF Answered
  <2>7. Abstract!Deliver
    BY <1>c, <2>1, <2>3, <2>5, <2>6, SameOperators, Zenon
    DEF Abstract!Deliver, AbstractBudget, Links, Budget, Verdicts, Promised
  <2>8. QED BY <2>7 DEF Abstract!TNext
<1>2. CASE FollowNext
  <2>1. Promised = "open" /\ UNCHANGED Promised
    BY <1>2, <1>t DEF FollowNext, PageConsumed, Place, Promised
  <2>2. Len(followed) < Len(pages) /\ Handed /\ visited = ToSet(followed)
    BY <1>2, <1>t DEF FollowNext, PageConsumed, Place, TypeOK
  <2>3. Links[Last(pages)] = Resolve(link[current])
    BY <1>2, <1>t, <2>2, LinkOfLast DEF FollowNext, Handed
  <2>4. Links[Last(pages)] # NoNext
    BY <1>2, <1>t, <2>3, ContinuationType, ConstantsAssumption DEF FollowNext
  <2>5. /\ Links[Last(pages)] \notin ToSet(followed) \cup {NoNext} /\ pages # <<>>
        /\ followed' = Append(followed, Links[Last(pages)])
        /\ UNCHANGED <<origin, pages>>
    BY <1>2, <2>2, <2>3, <2>4 DEF FollowNext, Handed
  <2>6. Abstract!Follow
    BY <1>c, <2>1, <2>2, <2>5, SameOperators, Zenon
    DEF Abstract!Follow, AbstractBudget, Links, Budget, Verdicts, Promised
  <2>7. QED BY <2>6 DEF Abstract!TNext
<1>3. CASE Resume
  <2>1. Promised = "budget" /\ Promised' = "open" /\ Handed
    BY <1>3, <1>t DEF Resume, Promised, Place
  <2>2. Links[Last(pages)] = Resolve(link[current])
    BY <1>3, <1>t, <2>1, LinkOfLast DEF Resume, Handed
  <2>3. Links[Last(pages)] \in PageIds /\ Links[Last(pages)] # NoNext
    BY <1>3, <1>t, <2>2, ContinuationType, ConstantsAssumption DEF Resume, PageIds
  <2>4. origin' = Links[Last(pages)] /\ followed' = <<>> /\ pages' = <<>>
    BY <1>3, <2>2 DEF Resume
  <2>5. Abstract!ResumeAt(Links[Last(pages)])
    BY <1>c, <2>1, <2>3, <2>4, SameOperators, Zenon
    DEF Abstract!ResumeAt, AbstractBudget, Links, Budget, Verdicts, Promised
  <2>6. QED BY <2>3, <2>5 DEF Abstract!TNext
<1>4. CASE pc # "done" /\ pc' = "done"
  <2>1. UNCHANGED <<origin, followed>> /\ UNCHANGED pages
    BY <1>4 DEF Next, Client, Reject, Start, Redirected, RequestFails, Answered, TakeItem, Stop,
       EndOfChain, SpendBudget, Unresolvable, LoopDetected, FollowNext, Resume, Done, vars
  <2>2. CASE outcome' \in {"stopped", "failed", "items"} \/ TakeItem
    <3>1. outcome' \in {"stopped", "failed", "items"} BY <1>4, <2>2, <1>t DEF TakeItem, Place
    <3>2. QED BY <1>4, <1>c, <2>1, <3>1, RefinesEnd DEF Abstract!TNext
  <2>3. CASE EndOfChain
    <3>1. Handed /\ link[current] = NoNext /\ outcome' = "exhausted"
      BY <2>3, <1>t DEF EndOfChain, PageConsumed, Place
    <3>2. Links[Last(pages)] = NoNext
      BY <3>1, <1>t, LinkOfLast, ConstantsAssumption DEF Handed
    <3>3. QED BY <1>4, <1>c, <2>1, <3>1, <3>2, RefinesEnd DEF Abstract!TNext
  <2>4. CASE LoopDetected
    <3>1. Handed /\ link[current] \in Refs /\ outcome' = "loop"
          /\ Resolve(link[current]) \in ToSet(followed)
      BY <2>4, <1>t DEF LoopDetected, PageConsumed, Place
    <3>2. Links[Last(pages)] \in ToSet(followed)
      BY <3>1, <1>t, LinkOfLast DEF Handed
    <3>3. QED BY <1>4, <1>c, <2>1, <3>1, <3>2, RefinesEnd DEF Abstract!TNext
  <2>5. CASE SpendBudget
    <3>1. /\ outcome' \in {"budget", "limit"}
          /\ outcome' = "limit" <=> PageBudget = MaximumPages
      BY <2>5 DEF SpendBudget, GuardReached
    <3>2. Len(pages) = PageBudget /\ OptionsValid
      BY <2>5, <1>t, BudgetWithinGuard DEF SpendBudget, PageConsumed, BudgetSpent, Place, TypeOK
    <3>3. QED BY <1>4, <1>c, <2>1, <3>1, <3>2, RefinesEnd DEF Abstract!TNext
  <2>6. QED BY <1>4, <2>2, <2>3, <2>4, <2>5
    DEF Next, Client, Reject, Start, Redirected, RequestFails, Answered, Stop, Unresolvable,
        FollowNext, Resume, Done, vars
<1>5. CASE UNCHANGED <<origin, followed, pages, Promised>>
  <2>1. UNCHANGED Abstract!tvars
    BY <1>5, <1>c DEF Abstract!tvars, AbstractBudget, Links, Budget, Verdicts, Promised
  <2>2. QED BY <2>1
<1>6. ASSUME ~Answered, ~FollowNext, ~Resume, ~(pc # "done" /\ pc' = "done")
      PROVE  UNCHANGED <<origin, followed, pages, Promised>>
  BY <1>6 DEF Next, Client, Reject, Start, Redirected, RequestFails, TakeItem, Stop,
     EndOfChain, SpendBudget, Unresolvable, LoopDetected, PageConsumed, Done, vars, Promised
<1>7. QED BY <1>1, <1>2, <1>3, <1>4, <1>5, <1>6

(* A search of the directory, with its redirects, budgets and resumptions, *)
(* is a traversal: it follows only the continuations it was given, each    *)
(* once, hands out no more pages than its budget, and calls the end of it  *)
(* an error exactly when the budget is the traversal's own guard.          *)
THEOREM Refinement == Spec => ImplementsTraversal
<1>1. QED BY RefinesInit, RefinesNext, Invariant, PTL
  DEF Spec, ImplementsTraversal, Abstract!TSpec
=============================================================================
