-------------------------- MODULE DirectoryTraversal --------------------------
(***************************************************************************)
(* A search of the ODP directory (directory/client.go, directory/search.go)*)
(* as a caller sees it: Search or SearchServices begins with a POST,       *)
(* ContinueSearch or ContinueSearchServices with a GET of a continuation;  *)
(* traverse walks the pages, requestJSON follows redirects for each, and   *)
(* sequence hands out items and reports the records that were unusable.    *)
(***************************************************************************)
EXTENDS Integers, Sequences, SequencesExt

CONSTANTS
    Targets,        \* continuation URLs of the directory, resolved
    Refs,           \* continuation references, as pages spell them
    Search,         \* the search endpoint
    NoNext,         \* the absent continuation
    Foreign,        \* a reference that leaves the origin or does not parse
    Resolve(_),     \* Resolve(r): the URL reference r names
    DefaultPages,   \* defaultPages, 16 in the code
    MaximumPages,   \* maximumPages, 10000 in the code
    MaximumItems,   \* maximumItems, 10000 in the code
    MaximumRedirects,  \* maximumRedirects, 5 in the code
    Options,        \* the IterationOptions callers pass: [pages, items]
    Contents        \* bound: what a page may hold: [usable, unusable] records

ASSUME ConstantsAssumption ==
    /\ Search \notin Targets
    /\ NoNext \notin Refs /\ Foreign \notin Refs /\ NoNext # Foreign
    /\ NoNext \notin Targets \cup {Search}
    /\ \A r \in Refs : Resolve(r) \in Targets
    /\ DefaultPages \in 1..MaximumPages /\ MaximumPages \in Nat
    /\ MaximumItems \in Nat /\ MaximumRedirects \in Nat
    /\ Options \subseteq [pages : Int, items : Int]
    /\ Contents \subseteq [usable : Nat, unusable : Nat]

PageIds == Targets \cup {Search}

VARIABLES
    link,       \* the directory: the continuation each page carries
    content,    \* and how many of its records parse, and do not
    option,     \* the caller's IterationOptions
    start,      \* what the caller begins with: Search or a reference
    pc,         \* "start", "request", "consume" or "done"
    current,    \* traverse: current, the URL of the page to request
    method,     \* traverse: method
    body,       \* traverse: whether requestBody holds the search request
    pageNumber, \* traverse: pageNumber
    visited,    \* traverse: visited
    wire,       \* requestJSON: the call on the wire; "at" is the address it is at,
                \* which a redirect changes to another one of the same page
    taken,      \* records of the current page handed to the consumer
    origin,     \* history: the URL the traversal began with
    followed,   \* history: the continuations followed
    pages,      \* history: the pages yielded
    items,      \* history: the items yielded, as <<page, position>>
    issues,     \* history: the issues reported, as <<page, position>>
    outcome     \* "open", then how the sequence ended

call == <<link, content, option, start>>
loop == <<current, method, body, pageNumber, visited>>
history == <<origin, followed, pages, items, issues>>
vars == <<call, pc, loop, wire, taken, history, outcome>>

Addresses == {"asked", "moved"}
NoWire == [method |-> "none", body |-> FALSE, redirects |-> 0, at |-> "asked"]

Begin == IF start \in Refs THEN Resolve(start) ELSE Search

Init ==
    /\ link \in [PageIds -> Refs \cup {NoNext, Foreign}]
    /\ content \in [PageIds -> Contents]
    /\ option \in Options
    /\ start \in Refs \cup {Search, Foreign}
    /\ pc = "start"
    /\ current = Begin
    /\ method = IF start = Search THEN "POST" ELSE "GET"
    /\ body = (start = Search)
    /\ pageNumber = 0 /\ visited = {}
    /\ wire = NoWire /\ taken = 0
    /\ origin = Begin
    /\ followed = <<>> /\ pages = <<>> /\ items = <<>> /\ issues = <<>>
    /\ outcome = "open"

End(why) == outcome' = why /\ pc' = "done"

(* pageBudget, and the bounds sequence puts on MaxItems.                   *)
PageBudget == IF option.pages = 0 THEN DefaultPages ELSE option.pages
OptionsValid ==
    /\ option.pages = 0 \/ option.pages \in 1..MaximumPages
    /\ option.items \in 0..MaximumItems

-----------------------------------------------------------------------------
(* Mutants: the definitions below as a plausible slip would have them.     *)
VisitRaw(r) == visited \cup {r}
GuardIsTheDefault == option.pages = 0
ItemBudgetSpentLate(n) == option.items # 0 /\ n > option.items
ReportedWhenNoneIsUsable(p) == content[p].usable = 0
ContinuationKeepsBody == body
ForgetHop(w) == w.redirects

-----------------------------------------------------------------------------
Visit(r) == visited \cup {Resolve(r)}
BudgetSpent == pageNumber + 1 >= PageBudget
GuardReached == PageBudget = MaximumPages
ItemBudgetSpent(n) == option.items # 0 /\ n >= option.items
Reported(p) == TRUE
ContinuationBody == FALSE
CountHop(w) == w.redirects + 1
BecomesGet(status, w) == status = 303 \/ (status \in {301, 302} /\ w.method = "POST")

Send(m, b) == wire' = [NoWire EXCEPT !.method = m, !.body = b]

(* Options outside their bounds, and a continuation that does not resolve, *)
(* end the sequence before any request.                                    *)
Reject ==
    /\ pc = "start"
    /\ ~OptionsValid \/ start = Foreign
    /\ End("failed")
    /\ UNCHANGED <<call, loop, wire, taken, history>>

(* Search posts its request, ContinueSearch gets the continuation; the set *)
(* of visited pages begins empty for both.                                 *)
Start ==
    /\ pc = "start"
    /\ OptionsValid /\ start # Foreign
    /\ pc' = "request"
    /\ Send(method, body)
    /\ UNCHANGED <<call, loop, taken, history, outcome>>

(* A redirect within the origin: the next hop, as a GET where the status   *)
(* asks for one.  The rewriting is requestJSON's own; traverse keeps its   *)
(* method and body.                                                        *)
Redirected(status, address) ==
    /\ pc = "request"
    /\ wire.redirects # MaximumRedirects
    /\ wire' = [method |-> IF BecomesGet(status, wire) THEN "GET" ELSE wire.method,
                body |-> wire.body /\ ~BecomesGet(status, wire),
                redirects |-> CountHop(wire),
                at |-> address]
    /\ UNCHANGED <<call, pc, loop, taken, history, outcome>>

(* The call fails: no connection, a status or body that is refused, a      *)
(* redirect that has no usable Location, leaves the origin or is one too   *)
(* many, or a page whose envelope does not parse.                          *)
RequestFails ==
    /\ pc = "request"
    /\ End("failed")
    /\ wire' = NoWire
    /\ UNCHANGED <<call, loop, taken, history>>

(* The page is parsed record by record and yielded; the records that are   *)
(* unusable are reported before its first item is handed out.              *)
Answered ==
    /\ pc = "request"
    /\ pages' = Append(pages, current)
    /\ issues' = IF Reported(current)
                 THEN issues \o [i \in 1..content[current].unusable |-> <<current, i>>]
                 ELSE issues
    /\ taken' = 0
    /\ pc' = "consume"
    /\ wire' = NoWire
    /\ UNCHANGED <<call, loop, origin, followed, items, outcome>>

TakeItem ==
    /\ pc = "consume"
    /\ taken < content[current].usable
    /\ taken' = taken + 1
    /\ items' = Append(items, <<current, taken + 1>>)
    /\ IF ItemBudgetSpent(Len(items) + 1) THEN End("items") ELSE UNCHANGED <<pc, outcome>>
    /\ UNCHANGED <<call, loop, wire, origin, followed, pages, issues>>

Stop ==
    /\ pc = "consume"
    /\ End("stopped")
    /\ UNCHANGED <<call, loop, wire, taken, history>>

(* The page is consumed: its continuation, if any, is checked against the  *)
(* budget first, then resolved, then looked up among the visited pages.    *)
PageConsumed == pc = "consume" /\ taken = content[current].usable

EndOfChain ==
    /\ PageConsumed
    /\ link[current] = NoNext
    /\ End("exhausted")
    /\ UNCHANGED <<call, loop, wire, taken, history>>

SpendBudget ==
    /\ PageConsumed
    /\ link[current] # NoNext
    /\ BudgetSpent
    /\ End(IF GuardReached THEN "limit" ELSE "budget")
    /\ UNCHANGED <<call, loop, wire, taken, history>>

Unresolvable ==
    /\ PageConsumed
    /\ link[current] = Foreign
    /\ ~BudgetSpent
    /\ End("failed")
    /\ UNCHANGED <<call, loop, wire, taken, history>>

LoopDetected ==
    /\ PageConsumed
    /\ link[current] \in Refs
    /\ ~BudgetSpent
    /\ Resolve(link[current]) \in visited
    /\ End("loop")
    /\ UNCHANGED <<call, loop, wire, taken, history>>

FollowNext ==
    /\ PageConsumed
    /\ link[current] \in Refs
    /\ ~BudgetSpent
    /\ Resolve(link[current]) \notin visited
    /\ visited' = Visit(link[current])
    /\ current' = Resolve(link[current])
    /\ method' = "GET" /\ body' = ContinuationBody
    /\ pageNumber' = pageNumber + 1
    /\ Send("GET", ContinuationBody)
    /\ followed' = Append(followed, Resolve(link[current]))
    /\ pc' = "request"
    /\ UNCHANGED <<call, taken, origin, pages, items, issues, outcome>>

(* The caller resumes a traversal that ended at its budget, with a new call*)
Resume ==
    /\ pc = "done" /\ outcome = "budget"
    /\ link[current] \in Refs
    /\ current' = Resolve(link[current]) /\ origin' = Resolve(link[current])
    /\ method' = "GET" /\ body' = FALSE
    /\ pageNumber' = 0 /\ visited' = {}
    /\ Send("GET", FALSE)
    /\ taken' = 0
    /\ followed' = <<>> /\ pages' = <<>> /\ items' = <<>> /\ issues' = <<>>
    /\ outcome' = "open" /\ pc' = "request"
    /\ UNCHANGED call

Client ==
    \/ Reject
    \/ Start
    \/ \E status \in {301, 302, 303, 307, 308}, address \in Addresses :
          Redirected(status, address)
    \/ RequestFails
    \/ Answered
    \/ TakeItem
    \/ EndOfChain
    \/ SpendBudget
    \/ Unresolvable
    \/ LoopDetected
    \/ FollowNext

Done == pc = "done" /\ UNCHANGED vars

Next == Client \/ Stop \/ Resume \/ Done

Spec == Init /\ [][Next]_vars
(* The client's loop runs on and every call on the wire is answered.       *)
FairSpec == Spec /\ WF_vars(Client)

-----------------------------------------------------------------------------
TypeOK ==
    /\ pc \in {"start", "request", "consume", "done"}
    /\ current \in PageIds /\ origin \in PageIds
    /\ method \in {"GET", "POST"} /\ body \in BOOLEAN
    /\ pageNumber \in 0..(MaximumPages - 1)
    /\ visited \subseteq Targets
    /\ wire \in [method : {"GET", "POST", "none"}, body : BOOLEAN, redirects : 0..MaximumRedirects,
                at : Addresses]
    /\ taken \in Nat
    /\ followed \in Seq(Targets) /\ pages \in Seq(PageIds)
    /\ items \in Seq(PageIds \X Nat) /\ issues \in Seq(PageIds \X Nat)
    /\ outcome \in {"open", "exhausted", "budget", "items", "stopped",
                    "loop", "failed", "limit"}

(* Every record of a page that was reached is accounted for once: usable   *)
(* ones as items in page order, up to the page being consumed, unusable    *)
(* ones as issues, whatever neighbours they arrived with (parsePage,       *)
(* sequence).                                                              *)
Records(p, n) == [i \in 1..n |-> <<p, i>>]
EveryRecordIsAccountedFor ==
    /\ issues = FlattenSeq([n \in 1..Len(pages) |-> Records(pages[n], content[pages[n]].unusable)])
    /\ items = FlattenSeq([n \in 1..Len(pages) |->
           Records(pages[n], IF n = Len(pages) /\ pc # "request" THEN taken
                             ELSE content[pages[n]].usable)])

(* The item budget ends the traversal at once: no page is requested for a  *)
(* caller that already has all the items it asked for (sequence).          *)
NothingRequestedBeyondItemBudget ==
    option.items > 0 =>
        /\ Len(items) <= option.items
        /\ Len(items) = option.items => pc # "request"

(* The search request is on the wire exactly while the call is still the   *)
(* POST it began as: no redirect and no continuation carries it along on a *)
(* GET, and none drops it from a POST (requestJSON, traverse).             *)
SearchBodyTravelsWithPost == wire.body <=> wire.method = "POST"

(* Every traversal ends, whatever the directory links and redirects to.    *)
EveryTraversalEnds == []<>(pc = "done")

(* A traversal as its consumer is promised one, on resolved URLs.  Options *)
(* outside their bounds have no budget: pageBudget refuses them.  A budget *)
(* that reaches the traversal's own guard is reported as an error when it  *)
(* is spent, any other ends the sequence quietly: "stopping at the caller's*)
(* budget is what the caller asked for, while reaching the guard means the *)
(* directory never stopped offering continuations" (client.go).            *)
AbstractBudget == IF OptionsValid THEN PageBudget ELSE DefaultPages
Abstract == INSTANCE Traversal WITH
    link <- [p \in PageIds |-> IF link[p] \in Refs THEN Resolve(link[p]) ELSE NoNext],
    budget <- AbstractBudget,
    verdicts <- IF AbstractBudget = MaximumPages THEN {"limit"} ELSE {"budget"},
    outcome <- IF outcome = "items" THEN "stopped" ELSE outcome

ImplementsTraversal == Abstract!TSpec

(* No page is handed out twice by one traversal.                           *)
NoPageRepeated == IsInjective(pages)
=============================================================================
