-------------------------- MODULE MCAgentTraversal --------------------------
(***************************************************************************)
(* AgentTraversal for TLC: every graph over the initial page and two       *)
(* continuation URLs, one spelled in two ways; pages of two items, and     *)
(* empty ones with a refinement group, once or twice, under a guard of     *)
(* three pages and an item limit of three, so that it falls within a page. *)
(***************************************************************************)
EXTENDS AgentTraversal

CONSTANTS a1, a2, b1, A, B, color

MCRefs == {a1, a2, b1}
MCTargets == {A, B}
MCResolve(r) == IF r = b1 THEN B ELSE A
MCOptions == [pages : {-1, 0, 1, 2, 4}, items : {0}] \cup [pages : {0}, items : {-1, 2, 3, 4}]
MCFilters == {color}
MCContents ==
    [items : {2}, refinements : {<<>>}] \cup [items : {0}, refinements : {<<color>>, <<color, color>>}]
=============================================================================
