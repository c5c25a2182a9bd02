---------------------------- MODULE PageIterator ----------------------------
(***************************************************************************)
(* IteratePages and IterateItems of the root package (pagination.go): an   *)
(* iterator over the pages of a list or search, and over their items.      *)
(* The consumer runs between two steps of the iterator and may stop it at  *)
(* any item; its context may be cancelled at any time; a load may fail.    *)
(***************************************************************************)
EXTENDS Naturals, Sequences, SequencesExt

CONSTANTS
    Refs,               \* continuation references a loader can be asked for
    First,              \* the page the caller already holds
    NoNext,             \* the absent continuation
    MaxTraversalPages,  \* the protocol's page limit, 16 in the code
    MaxSize             \* bound: items on a page

ASSUME ConstantsAssumption ==
    /\ First \notin Refs
    /\ NoNext \notin Refs \cup {First}
    /\ MaxTraversalPages \in Nat \ {0}
    /\ MaxSize \in Nat

PageIds == Refs \cup {First}

VARIABLES
    link,      \* what the loader answers: the continuation of each page
    size,      \* and how many items the page has
    page,      \* page: the page the loop holds
    count,     \* count: the loop's counter
    visited,   \* visited: the continuations seen so far
    taken,     \* items of the current page the consumer has been given
    context,   \* "live" or "cancelled": the caller's context
    pc,        \* where the iterator is
    followed,  \* history: the references the loader was asked for
    pages,     \* history: the pages yielded
    items,     \* history: the items yielded, as <<page, position>>
    outcome    \* "open", then how the sequence ended: "ended" without an error

vars == <<link, size, page, count, visited, taken, context, pc,
          followed, pages, items, outcome>>
server == <<link, size>>

Init ==
    /\ link \in [PageIds -> Refs \cup {NoNext}]
    /\ size \in [PageIds -> 0..MaxSize]
    /\ page = First
    /\ count = 0
    /\ visited = {}
    /\ taken = 0
    /\ context = "live"
    /\ pc = "yield"
    /\ followed = <<>>
    /\ pages = <<>>
    /\ items = <<>>
    /\ outcome = "open"

End(why) == outcome' = why /\ pc' = "done"

-----------------------------------------------------------------------------
(* Mutants: the definitions below as a plausible slip would have them.     *)
PageConsumedEarly == taken + 1 >= size[page]
VisitNothing == visited
LoopGoesOnOnceMore == count + 1 <= MaxTraversalPages

-----------------------------------------------------------------------------
PageConsumed == taken = size[page]
Visit == visited \cup {link[page]}
CountUp == count + 1
LoopGoesOn == count + 1 < MaxTraversalPages

(* The loop's condition holds: the page is yielded.                        *)
Yield ==
    /\ pc = "yield"
    /\ pages' = Append(pages, page)
    /\ taken' = 0
    /\ pc' = "consume"
    /\ UNCHANGED <<server, page, count, visited, context, followed, items, outcome>>

(* IterateItems hands the page's items on one at a time.                   *)
TakeItem ==
    /\ pc = "consume"
    /\ taken < size[page]
    /\ taken' = taken + 1
    /\ items' = Append(items, <<page, taken + 1>>)
    /\ UNCHANGED <<server, page, count, visited, context, pc, followed, pages, outcome>>

(* The consumer's yield returned false: at an item, or at the page itself. *)
Stop ==
    /\ pc = "consume"
    /\ End("stopped")
    /\ UNCHANGED <<server, page, count, visited, taken, context, followed, pages, items>>

(* The page is consumed and carries no continuation.                       *)
EndOfChain ==
    /\ pc = "consume"
    /\ PageConsumed
    /\ link[page] = NoNext
    /\ End("ended")
    /\ UNCHANGED <<server, page, count, visited, taken, context, followed, pages, items>>

(* ErrPaginationLoop: the continuation was seen before.                    *)
LoopDetected ==
    /\ pc = "consume"
    /\ PageConsumed
    /\ link[page] \in visited
    /\ End("loop")
    /\ UNCHANGED <<server, page, count, visited, taken, context, followed, pages, items>>

(* A new continuation: the context is checked before the loader is asked.  *)
Advance ==
    /\ pc = "consume"
    /\ PageConsumed
    /\ link[page] \notin visited \cup {NoNext}
    /\ visited' = Visit
    /\ \/ /\ context = "cancelled"
          /\ End("cancelled")
          /\ UNCHANGED followed
       \/ /\ context = "live"
          /\ pc' = "load"
          /\ followed' = Append(followed, link[page])
          /\ UNCHANGED outcome
    /\ UNCHANGED <<server, page, count, taken, context, pages, items>>

(* The loader answers, and the loop goes round while its counter allows.   *)
Load ==
    /\ pc = "load"
    /\ page' = link[page]
    /\ count' = CountUp
    /\ pc' = IF LoopGoesOn THEN "yield" ELSE "over"
    /\ UNCHANGED <<server, visited, taken, context, followed, pages, items, outcome>>

LoadFails ==
    /\ pc = "load"
    /\ End("failed")
    /\ UNCHANGED <<server, page, count, visited, taken, context, followed, pages, items>>

(* The loop ran its course.  The page just loaded is not yielded, and an   *)
(* error says so only when that page carries a continuation of its own.    *)
Over ==
    /\ pc = "over"
    /\ End(IF link[page] # NoNext THEN "limit" ELSE "ended")
    /\ UNCHANGED <<server, page, count, visited, taken, context, followed, pages, items>>

(* The caller's context, cancelled from elsewhere.                         *)
Cancel ==
    /\ context = "live"
    /\ pc # "done"
    /\ context' = "cancelled"
    /\ UNCHANGED <<server, page, count, visited, taken, pc, followed, pages, items, outcome>>

Iterator ==
    Yield \/ TakeItem \/ EndOfChain \/ LoopDetected \/ Advance \/ Load \/ LoadFails \/ Over

(* A sequence that ended stays ended.                                      *)
Done == pc = "done" /\ UNCHANGED vars

Next == Iterator \/ Stop \/ Cancel \/ Done

Spec == Init /\ [][Next]_vars

-----------------------------------------------------------------------------
TypeOK ==
    /\ link \in [PageIds -> Refs \cup {NoNext}]
    /\ size \in [PageIds -> 0..MaxSize]
    /\ page \in PageIds
    /\ count \in 0..MaxTraversalPages
    /\ visited \subseteq Refs
    /\ taken \in 0..MaxSize
    /\ context \in {"live", "cancelled"}
    /\ pc \in {"yield", "consume", "load", "over", "done"}
    /\ followed \in Seq(Refs)
    /\ pages \in Seq(PageIds)
    /\ items \in Seq(PageIds \X (1..MaxSize))
    /\ outcome \in {"open", "ended", "stopped", "loop", "failed", "cancelled", "limit"}

(* The items a consumer has been given are those of the yielded pages, page*)
(* by page and in order: none skipped, repeated or reordered (IterateItems)*)
ItemsOf(p, n) == [i \in 1..n |-> <<p, i>>]
ItemsFollowThePages ==
    items = FlattenSeq([n \in 1..Len(pages) |->
        ItemsOf(pages[n], IF n = Len(pages) /\ pc # "yield" THEN taken
                          ELSE size[pages[n]])])

(* IteratePages is a traversal.  Its quiet end is "exhausted" when the last*)
(* page handed out has no continuation, and a spent budget otherwise.  Its *)
(* limit is a guard, and yet may end it either way: as an error, or quietly*)
(* when the page it fetched and did not hand out is the last.              *)
AbstractOutcome ==
    IF outcome # "ended" THEN outcome
    ELSE IF link[Last(pages)] = NoNext THEN "exhausted" ELSE "budget"

Abstract == INSTANCE Traversal WITH
    origin <- First, budget <- MaxTraversalPages, verdicts <- {"budget", "limit"},
    outcome <- AbstractOutcome

ImplementsTraversal == Abstract!TSpec

(* A sequence that ends without an error has handed out its whole chain.   *)
QuietEndIsComplete == outcome = "ended" => link[Last(pages)] = NoNext
=============================================================================
