----------------------------- MODULE Traversal -----------------------------
(***************************************************************************)
(* What a page traversal promises to the code that consumes it, whatever   *)
(* loop drives it: the iterator of the root package, the Agent's loops     *)
(* over Collection and Offering pages, and the Directory's traverse.       *)
(*                                                                         *)
(* The answering side is a graph: "link" gives the continuation each page  *)
(* carries.  The page a traversal begins with is its "origin"; every other *)
(* page is named by the continuation that leads to it.                     *)
(***************************************************************************)
EXTENDS Naturals, Sequences, SequencesExt

CONSTANTS
    PageIds,   \* the first page and every page a continuation can name
    NoNext     \* the absent continuation of a last page

VARIABLES
    link,      \* link[p]: the continuation page p carries, or NoNext
    origin,    \* the page the current traversal began with
    followed,  \* the continuations followed so far, in order
    pages,     \* the pages handed to the consumer, in order
    budget,    \* the pages this traversal may hand out
    verdicts,  \* what may be said of it once spent: "budget", quietly, when
               \* the caller set it, "limit", as an error, when it is a guard
    outcome    \* "open" until the sequence ends, then why it ended

tvars == <<link, origin, followed, pages, budget, verdicts, outcome>>

(* Endings a consumer sees as a sequence that just ends, and as an error.  *)
Quiet == {"exhausted", "budget", "stopped"}
Errors == {"loop", "failed", "cancelled", "limit"}

TInit ==
    /\ link \in [PageIds -> PageIds \cup {NoNext}]
    /\ origin \in PageIds
    /\ followed = <<>>
    /\ pages = <<>>
    /\ budget \in Nat \ {0}
    /\ verdicts \subseteq {"budget", "limit"}
    /\ outcome = "open"

(* A page reaches the consumer: the origin first, then each followed page. *)
Deliver ==
    /\ outcome = "open"
    /\ Len(pages) < budget
    /\ Len(pages) <= Len(followed)
    /\ pages' = Append(pages, IF pages = <<>> THEN origin ELSE Last(followed))
    /\ UNCHANGED <<link, origin, followed, budget, verdicts, outcome>>

(* Only the continuation of the page last handed out is followed, and only *)
(* when it was not followed before.                                        *)
Follow ==
    /\ outcome = "open"
    /\ pages # <<>>
    /\ Len(followed) < Len(pages)
    /\ link[Last(pages)] \notin ToSet(followed) \cup {NoNext}
    /\ followed' = Append(followed, link[Last(pages)])
    /\ UNCHANGED <<link, origin, pages, budget, verdicts, outcome>>

(* "exhausted" is said of a chain whose last page was handed out, "loop" of*)
(* a continuation that was followed before, and of a full budget only what *)
(* this budget's nature allows.                                            *)
Finish(why) ==
    /\ outcome = "open"
    /\ why = "exhausted" => pages # <<>> /\ link[Last(pages)] = NoNext
    /\ why \in {"budget", "limit"} => Len(pages) = budget /\ why \in verdicts
    /\ why = "loop" => pages # <<>> /\ link[Last(pages)] \in ToSet(followed) \cup {origin}
    /\ outcome' = why
    /\ UNCHANGED <<link, origin, followed, pages, budget, verdicts>>

(* A caller whose budget ran out resumes at the continuation it was left.  *)
ResumeAt(start) ==
    /\ outcome = "budget"
    /\ start = link[Last(pages)]
    /\ start # NoNext
    /\ origin' = start
    /\ followed' = <<>>
    /\ pages' = <<>>
    /\ outcome' = "open"
    /\ UNCHANGED <<link, budget, verdicts>>

TNext ==
    \/ Deliver
    \/ Follow
    \/ \E why \in Quiet \cup Errors : Finish(why)
    \/ \E start \in PageIds : ResumeAt(start)

TSpec == TInit /\ [][TNext]_tvars
=============================================================================
