--------------------------- MODULE MCCacicElection ---------------------------
(***************************************************************************)
(* Instances of CacicElection for TLC: one submitter and one slate of the  *)
(* administration, two names, two requests at a time and one voter.        *)
(***************************************************************************)
EXTENDS CacicElection, TLC

CONSTANTS s1, a1, n1, n2, r1, r2, v1

\* The members of each set are interchangeable: no definition names one of them.
Symmetry ==
    Permutations({n1, n2}) \cup Permutations({r1, r2})
=============================================================================
