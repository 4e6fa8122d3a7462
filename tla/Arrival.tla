------------------------------- MODULE Arrival -------------------------------
(***************************************************************************)
(* How data comes over a connection: in order, and in pieces that may end  *)
(* anywhere, at most `cuts' times somewhere else than where it was         *)
(* written to.                                                             *)
(***************************************************************************)
EXTENDS Naturals, Sequences

VARIABLES cuts

\* A piece of what is under way: all of it or some of it.
Pieces(queue) ==
  IF queue = <<>> THEN {}
  ELSE {Len(queue)} \cup (IF cuts = 0 THEN {} ELSE 1..(Len(queue) - 1))
Cut(queue, n) == cuts' = IF n = Len(queue) THEN cuts ELSE cuts - 1
=============================================================================
