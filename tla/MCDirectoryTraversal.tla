------------------------ MODULE MCDirectoryTraversal ------------------------
(***************************************************************************)
(* DirectoryTraversal for TLC: every graph over the search endpoint and two*)
(* continuation URLs, one of which is spelled in two ways; pages of usable *)
(* records, of unusable ones, and of both; a default budget of two pages   *)
(* below a guard of three, an item limit of two, and two redirects.        *)
(***************************************************************************)
EXTENDS DirectoryTraversal

CONSTANTS a1, a2, b1, A, B

MCRefs == {a1, a2, b1}
MCTargets == {A, B}
MCResolve(r) == IF r = b1 THEN B ELSE A

(* Default, within bounds, at the guard, beyond them; item limits likewise.*)
MCOptions ==
    [pages : {-1, 0, 1, 3, 4}, items : {0}] \cup [pages : {3}, items : {-1, 2, 3}]
MCContents ==
    {[usable |-> 2, unusable |-> 0], [usable |-> 1, unusable |-> 1], [usable |-> 0, unusable |-> 1]}
=============================================================================
