-------------------------- MODULE MCFederatedSearch --------------------------
(***************************************************************************)
(* FederatedSearch for TLC: three Services at most, one Offering each, and *)
(* requests for the default and for one slot, with one out of bounds; the  *)
(* Services outnumber the slots, so goroutines wait, and finish in orders  *)
(* the directory did not list them in.                                     *)
(***************************************************************************)
EXTENDS FederatedSearch

Asked(c) == [services |-> 0, offerings |-> 0, concurrency |-> c]
MCRequests == {Asked(0), Asked(1), Asked(3), [Asked(0) EXCEPT !.services = -1]}
==============================================================================
