---------------------------- MODULE AgentTraversal ----------------------------
(***************************************************************************)
(* The Agent's lists and searches of one Service (agent/client.go): the    *)
(* page loops of yieldCollectionPages and iterateOfferingPages, begun by   *)
(* collectionPages and offeringPages with an inspection and a request, or  *)
(* by their continue... counterparts with a reference, and the item loops  *)
(* with MaxItems around them.  The two resource types run the same loop;   *)
(* only Offering searches can carry refinements.                           *)
(***************************************************************************)
EXTENDS Naturals, Integers, Sequences, SequencesExt

CONSTANTS
    Targets,        \* continuation URLs of the Service, resolved
    Refs,           \* continuation references, as pages spell them
    Initial,        \* the first page of a list or search
    NoNext,         \* the absent continuation
    Foreign,        \* a reference that ResolveContinuation refuses
    Resolve(_),     \* Resolve(r): the URL reference r names
    MaximumPages,   \* maximumTraversalPages, 10000 in the code
    MaximumItems,   \* the upper bound of MaxItems, 10000 in the code
    Options,        \* the options callers pass: [pages, items]
    Filters,        \* Filter identifiers
    Contents        \* bound: what a page may hold: [items, refinements]

ASSUME ConstantsAssumption ==
    /\ Initial \notin Targets \cup Refs
    /\ NoNext \notin Refs \cup {Initial} /\ Foreign \notin Refs \cup {Initial, NoNext}
    /\ \A r \in Refs : Resolve(r) \in Targets
    /\ MaximumPages \in Nat \ {0} /\ MaximumItems \in Nat
    /\ Options \subseteq [pages : Int, items : Int]
    /\ Contents \subseteq [items : Nat, refinements : Seq(Filters)]

PageIds == Targets \cup {Initial}

VARIABLES
    link,       \* the Service: the continuation each page carries
    content,    \* and its items and refinement groups
    advertised, \* whether the Service Document advertises the operation
    option,     \* the caller's options
    search,     \* whether the operation is an Offering search
    asked,      \* the refinements a search asks for, {} for any other operation
    start,      \* what the caller begins with: Initial or a reference
    pc,         \* "start", "inspect", "request", "consume" or "done"
    page,       \* the reference of the page requested or held
    visited,    \* visited: the references seen so far
    count,      \* count: the page loop's counter
    taken,      \* items of the current page handed to the consumer
    followed,   \* history: the continuations followed
    pages,      \* history: the pages yielded
    items,      \* history: the items yielded, as <<page, position>>
    outcome     \* "open", then how the sequence ended

call == <<link, content, advertised, option, search, asked, start>>
loop == <<page, visited, count, taken>>
history == <<followed, pages, items>>
vars == <<call, pc, loop, history, outcome>>

At(r) == IF r = Initial THEN Initial ELSE Resolve(r)

Init ==
    /\ link \in [PageIds -> Refs \cup {NoNext, Foreign}]
    /\ content \in [PageIds -> Contents]
    /\ advertised \in BOOLEAN
    /\ option \in Options
    /\ search \in BOOLEAN
    /\ asked \in IF search THEN SUBSET Filters ELSE {{}}
    /\ start \in Refs \cup {Initial, Foreign}
    /\ pc = "start"
    /\ page = start
    /\ visited = {} /\ count = 0 /\ taken = 0
    /\ followed = <<>> /\ pages = <<>> /\ items = <<>>
    /\ outcome = "open"

End(why) == outcome' = why /\ pc' = "done"

-----------------------------------------------------------------------------
(* Mutants: the definitions below as a plausible slip would have them.     *)
SeedNothing == {}
PolicyOfTheSearch == asked
BudgetSpentLate == count + 1 > (IF option.pages = 0 THEN MaximumPages ELSE option.pages)
ItemBudgetOfThePage(n) == option.items # 0 /\ taken + 1 >= option.items
SameItemAgain == taken
BudgetIgnoresGuard == IF option.pages = 0 THEN MaximumPages + 1 ELSE option.pages

-----------------------------------------------------------------------------
(* validateListOptions; an absent page budget is the traversal guard.      *)
OptionsValid == option.pages \in 0..MaximumPages /\ option.items \in 0..MaximumItems
PageBudget == IF option.pages = 0 THEN MaximumPages ELSE option.pages
BudgetSpent == count + 1 >= PageBudget
ItemBudgetSpent(n) == option.items # 0 /\ n >= option.items
NextItem == taken + 1

(* A resumed traversal counts the reference it begins with as visited.     *)
Seed == IF start = Initial THEN {} ELSE {start}

(* The refinements a page of a search may carry: those asked for on the    *)
(* initial page, none on a continuation (requireRefinements).  A list reads*)
(* no refinements: it takes a page that carries some and drops them.       *)
PolicyOfContinuation == {}
Policy == IF page = Initial THEN asked ELSE PolicyOfContinuation
Acceptable(groups) == search => ToSet(groups) \subseteq Policy /\ IsInjective(groups)
Refinements(p) == IF search THEN content[At(p)].refinements ELSE <<>>

Reject ==
    /\ pc = "start"
    /\ ~OptionsValid \/ start = Foreign
    /\ End("failed")
    /\ UNCHANGED <<call, loop, history>>

(* A list or search inspects the Service first; a continuation does not.   *)
Start ==
    /\ pc = "start"
    /\ OptionsValid /\ start # Foreign
    /\ pc' = IF start = Initial THEN "inspect" ELSE "request"
    /\ visited' = Seed
    /\ UNCHANGED <<call, page, count, taken, history, outcome>>

Inspected ==
    /\ pc = "inspect"
    /\ IF advertised THEN pc' = "request" /\ UNCHANGED outcome ELSE End("failed")
    /\ UNCHANGED <<call, loop, history>>

InspectFails ==
    /\ pc = "inspect"
    /\ End("failed")
    /\ UNCHANGED <<call, loop, history>>

RequestFails ==
    /\ pc = "request"
    /\ End("failed")
    /\ UNCHANGED <<call, loop, history>>

(* The page is parsed: refused as a whole for refinements it may not carry.*)
Refused ==
    /\ pc = "request"
    /\ ~Acceptable(content[At(page)].refinements)
    /\ End("failed")
    /\ UNCHANGED <<call, loop, history>>

Answered ==
    /\ pc = "request"
    /\ Acceptable(content[At(page)].refinements)
    /\ pages' = Append(pages, page)
    /\ taken' = 0
    /\ pc' = "consume"
    /\ UNCHANGED <<call, page, visited, count, followed, items, outcome>>

TakeItem ==
    /\ pc = "consume"
    /\ taken < content[At(page)].items
    /\ taken' = NextItem
    /\ items' = Append(items, <<page, NextItem>>)
    /\ IF ItemBudgetSpent(Len(items) + 1) THEN End("items") ELSE UNCHANGED <<pc, outcome>>
    /\ UNCHANGED <<call, page, visited, count, followed, pages>>

Stop ==
    /\ pc = "consume"
    /\ End("stopped")
    /\ UNCHANGED <<call, loop, history>>

(* The page is consumed.  A spent budget ends the sequence quietly, also   *)
(* when the budget is only the guard; then the continuation is compared, as*)
(* spelled, with those seen, and resolved when it is requested.            *)
PageConsumed == pc = "consume" /\ taken = content[At(page)].items
NextRef == link[At(page)]

EndOfChain ==
    /\ PageConsumed
    /\ NextRef = NoNext
    /\ End("exhausted")
    /\ UNCHANGED <<call, loop, history>>

SpendBudget ==
    /\ PageConsumed
    /\ NextRef # NoNext
    /\ BudgetSpent
    /\ End("budget")
    /\ UNCHANGED <<call, loop, history>>

LoopDetected ==
    /\ PageConsumed
    /\ ~BudgetSpent
    /\ NextRef \in visited
    /\ End("loop")
    /\ UNCHANGED <<call, loop, history>>

FollowNext ==
    /\ PageConsumed
    /\ ~BudgetSpent
    /\ NextRef \notin visited \cup {NoNext}
    /\ visited' = visited \cup {NextRef}
    /\ \/ /\ NextRef = Foreign
          /\ End("failed")
          /\ UNCHANGED <<page, count, followed>>
       \/ /\ NextRef \in Refs
          /\ page' = NextRef
          /\ count' = count + 1
          /\ followed' = Append(followed, NextRef)
          /\ pc' = "request"
          /\ UNCHANGED outcome
    /\ UNCHANGED <<call, taken, pages, items>>

(* The caller resumes a traversal that ended at its budget, with a new call*)
Resume ==
    /\ pc = "done" /\ outcome = "budget"
    /\ NextRef \in Refs
    /\ start' = NextRef /\ page' = NextRef
    /\ visited' = {} /\ count' = 0 /\ taken' = 0
    /\ followed' = <<>> /\ pages' = <<>> /\ items' = <<>>
    /\ outcome' = "open" /\ pc' = "start"
    /\ UNCHANGED <<link, content, advertised, option, search, asked>>

Client ==
    \/ Reject \/ Start \/ Inspected \/ InspectFails
    \/ RequestFails \/ Refused \/ Answered \/ TakeItem
    \/ EndOfChain \/ SpendBudget \/ LoopDetected \/ FollowNext

Done == pc = "done" /\ UNCHANGED vars

Next == Client \/ Stop \/ Resume \/ Done

Spec == Init /\ [][Next]_vars

-----------------------------------------------------------------------------
Named == Refs \cup {Initial}

TypeOK ==
    /\ pc \in {"start", "inspect", "request", "consume", "done"}
    /\ page \in Named \cup {Foreign} /\ start \in Named \cup {Foreign}
    /\ visited \subseteq Refs \cup {Foreign}
    /\ count \in 0..(MaximumPages - 1)
    /\ taken \in Nat
    /\ followed \in Seq(Refs) /\ pages \in Seq(Named) /\ items \in Seq(Named \X Nat)
    /\ outcome \in {"open", "exhausted", "budget", "items", "stopped", "loop", "failed"}

(* Items reach the consumer page by page and in order, none skipped or     *)
(* repeated, however the pages were cut (collectionItems, offeringItems).  *)
Records(p, n) == [i \in 1..n |-> <<p, i>>]
ItemsFollowThePages ==
    items = FlattenSeq([n \in 1..Len(pages) |->
        Records(pages[n], IF n = Len(pages) /\ pc # "request" THEN taken
                          ELSE content[At(pages[n])].items)])

(* The item budget spans pages, and ends the traversal at once: no page is *)
(* requested for a caller that already has all the items it asked for.     *)
NothingRequestedBeyondItemBudget ==
    option.items > 0 =>
        /\ Len(items) <= option.items
        /\ Len(items) = option.items /\ items # <<>> => pc = "done"

(* No reference is requested twice by one traversal, the one it was resumed*)
(* with included.                                                          *)
NoReferenceRequestedTwice ==
    IsInjective(IF start \in Refs THEN <<start>> \o followed ELSE followed)

(* A page reaches the consumer with refinements only when it is the initial*)
(* page of a search, and then only those asked for, each once; a resumed   *)
(* traversal has none however it began (OFR-14, OFR-15, FLT-30).           *)
RefinementsOnlyWhereAsked ==
    \A n \in DOMAIN pages :
        LET groups == Refinements(pages[n])
        IN  /\ groups # <<>> => n = 1 /\ start = Initial /\ search
            /\ ToSet(groups) \subseteq asked /\ IsInjective(groups)

(* A traversal as its consumer is promised one, on spelled references.     *)
(* Options outside their bounds are refused before they set a budget.  A   *)
(* spent budget ends the sequence quietly even when it is only the guard.  *)
Abstract == INSTANCE Traversal WITH
    PageIds <- Named \cup {Foreign},
    link <- [p \in Named \cup {Foreign} |->
                IF p # Foreign /\ link[At(p)] \in Refs THEN link[At(p)] ELSE NoNext],
    origin <- start,
    budget <- IF OptionsValid THEN PageBudget ELSE MaximumPages,
    verdicts <- {"budget"},
    outcome <- IF outcome = "items" THEN "stopped" ELSE outcome

ImplementsTraversal == Abstract!TSpec
=============================================================================
