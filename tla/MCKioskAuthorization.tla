------------------------ MODULE MCKioskAuthorization ------------------------
(***************************************************************************)
(* Instances of KioskAuthorization for TLC.                                *)
(***************************************************************************)
EXTENDS KioskAuthorization, TLC

CONSTANTS t1, t2, v1, s1, s2, k1, k2

EveryoneIsV1 == [t \in Attempts |-> v1]

Interchangeable ==
    Permutations(Attempts) \cup Permutations(Submissions) \cup Permutations(Sessions)

Started == {a \in Attempts : attempt[a].pc # "idle"}
Sent == {s \in Submissions : submission[s].pc # "idle"}

\* At most three requests.  The life of a TOTP code takes more periods than the life
\* of an authorization: time goes on that far only in one session and with nothing
\* submitted.
MaxRequests == 3
ShortTime == 2

Bounds ==
    /\ Cardinality(Started) + Cardinality(Sent) <= MaxRequests
    /\ Sent # {} => now <= ShortTime - Cardinality(Started) + 1
    /\ now > 1 /\ Cardinality(Started) > 1 =>
          \A a \in Started : attempt[a].session = session
=============================================================================
