--------------------------- MODULE OrderedChoice ---------------------------
(***************************************************************************)
(* What Array.prototype.filter leaves of a list, without recursion: the    *)
(* members at the positions chosen, each at its rank among them.           *)
(***************************************************************************)
EXTENDS Integers, FiniteSets

\* How many of the positions chosen come up to i.
Rank(chosen, i) == Cardinality({j \in chosen : j <= i})

Filtered(s, chosen) ==
    [k \in 1..Cardinality(chosen) |-> s[CHOOSE i \in chosen : Rank(chosen, i) = k]]
=============================================================================
