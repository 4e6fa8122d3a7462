------------------------------ MODULE Sublists ------------------------------
(* What a loop that deletes some elements of a list leaves of it.          *)
EXTENDS Naturals, Sequences, FiniteSets

\* The rank of position i among the positions of I.
Rank(I, i) == Cardinality(I \cap 1..i)

\* The members of S that s lists, in the order of s.
Keep(s, S) ==
  LET I == {i \in DOMAIN s : s[i] \in S}
  IN  [k \in 1..Cardinality(I) |-> s[CHOOSE i \in I : Rank(I, i) = k]]
=============================================================================
