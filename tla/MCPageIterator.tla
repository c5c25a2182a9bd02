--------------------------- MODULE MCPageIterator ---------------------------
(***************************************************************************)
(* PageIterator for TLC: every graph of continuations over a first page and*)
(* three references, with pages of at most two items, under a limit of two *)
(* pages, so that chains end before, at and after the limit and loops of   *)
(* every length occur.                                                     *)
(***************************************************************************)
EXTENDS PageIterator
=============================================================================
