------------------------ MODULE MCBallotTransaction ------------------------
(***************************************************************************)
(* Instances of BallotTransaction for TLC: one subject submits twice, once *)
(* through the poll page and once through the direct link, so that the two *)
(* submissions meet in the subject's lock.  The subject may administer the *)
(* poll, so that its erasure writes the poll row.                          *)
(***************************************************************************)
EXTENDS BallotTransaction

CONSTANTS u1, r1, r2

VoterOfBoth == [r \in Requests |-> u1]
=============================================================================
