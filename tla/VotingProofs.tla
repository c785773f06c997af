---------------------------- MODULE VotingProofs ----------------------------
(***************************************************************************)
(* Proofs about the two ways a ballot is cast: the vote transaction of a   *)
(* subject who is logged in (BallotTransaction), for every set of subjects *)
(* and requests, and the kiosk where one votes with a code                 *)
(* (KioskAuthorization), for every set of requests, voters, sessions,      *)
(* limits and lifetimes.                                                   *)
(***************************************************************************)
EXTENDS BallotTransaction, KioskAuthorization, TLAPS

-----------------------------------------------------------------------------
(* The vote transaction.                                                   *)

USE RequestsAssumption, SubjectsAssumption, VersionAssumption, NoBallotAssumption

\* The invariant holds before any request arrives.
LEMMA InitIInv == Init => IInv
<1> SUFFICES ASSUME Init PROVE IInv
  OBVIOUS
<1>1. TypeOK
  BY DEF Init, TypeOK, PollRows, Clocks
<1>2. Cast = {}
  BY DEF Init, Cast
<1>3. RowsConsistent
  BY <1>2 DEF Init, RowsConsistent
<1>4. \A r \in Requests : ~InTransaction(r)
  BY DEF Init, InTransaction
<1>5. AtMostOneBallot /\ MarkerIffBallot /\ BallotsKeepPolicy /\ ErasedSubjectsAreNotNamed
  BY <1>2 DEF Init, AtMostOneBallot, MarkerIffBallot, BallotsKeepPolicy, ErasedSubjectsAreNotNamed
<1> QED
  BY <1>1, <1>3, <1>4, <1>5 DEF IInv

\* The part of IInv that speaks of the rows only.
RowsSafe ==
    /\ RowsConsistent
    /\ AtMostOneBallot
    /\ MarkerIffBallot
    /\ BallotsKeepPolicy
    /\ ErasedSubjectsAreNotNamed

\* A step that leaves the ballots, the markers, the revocations and the policy
\* alone keeps RowsSafe.
LEMMA RowsSafeFrame ==
  ASSUME RowsSafe,
         UNCHANGED <<revoked, markers, erasedMarkers, ballot>>,
         poll'.policy = poll.policy,
         poll'.definition <= poll'.version,
         users \subseteq users',
         \A b \in Cast : pc'[b] = pc[b]
  PROVE  RowsSafe'
<1>1. Cast' = Cast /\ \A s : OwnedBy(s)' = OwnedBy(s)
  BY DEF Cast, OwnedBy
<1>2. RowsConsistent'
  BY <1>1 DEF RowsSafe, RowsConsistent
<1>3. AtMostOneBallot' /\ MarkerIffBallot' /\ BallotsKeepPolicy'
  BY <1>1 DEF RowsSafe, AtMostOneBallot, MarkerIffBallot, BallotsKeepPolicy
<1>4. ErasedSubjectsAreNotNamed'
  BY <1>1 DEF RowsSafe, ErasedSubjectsAreNotNamed
<1> QED
  BY <1>2, <1>3, <1>4 DEF RowsSafe

\* The checks before the transaction only record what the request saw.
LEMMA AdmitIInv ==
  ASSUME IInv, NEW r \in Requests, Admit(r)
  PROVE  IInv'
<1> USE DEF rowVars, requestVars
<1>1. TypeOK'
  BY DEF IInv, TypeOK, Admit, PollRows
<1>2. RowsSafe'
  <2>1. RowsSafe /\ TypeOK
    BY DEF IInv, RowsSafe
  <2>2. /\ UNCHANGED <<revoked, markers, erasedMarkers, ballot>>
        /\ users \subseteq users'
    BY DEF Admit
  <2>3. poll'.policy = poll.policy /\ poll'.definition <= poll'.version
    BY <2>1 DEF RowsSafe, RowsConsistent, TypeOK, PollRows, Admit
  <2>4. \A b \in Cast : pc'[b] = pc[b]
    BY <2>1 DEF RowsSafe, RowsConsistent, Cast, TypeOK, InTransaction, Admit
  <2> QED
    BY <2>1, <2>2, <2>3, <2>4, RowsSafeFrame
<1>3. ASSUME NEW q \in Requests, InTransaction(q)'
      PROVE  SnapshotCurrent(q)'
  <2>1. \A t : OwnedBy(t)' = OwnedBy(t)
    BY DEF Admit, OwnedBy, Cast
  <2> QED
    BY <1>3, <2>1 DEF IInv, RowsConsistent, TypeOK, PollRows, InTransaction, SnapshotCurrent, Admit
<1> QED
  BY <1>1, <1>2, <1>3 DEF IInv, RowsSafe

\* The voting window opens and closes without touching a row.
LEMMA ClockTickIInv ==
  ASSUME IInv, ClockTick
  PROVE  IInv'
<1> USE DEF rowVars, requestVars
<1>1. TypeOK'
  BY DEF IInv, TypeOK, ClockTick, Clocks, PollRows
<1>2. RowsSafe'
  <2>1. RowsSafe /\ TypeOK
    BY DEF IInv, RowsSafe
  <2>2. /\ UNCHANGED <<revoked, markers, erasedMarkers, ballot>>
        /\ users \subseteq users'
    BY DEF ClockTick
  <2>3. poll'.policy = poll.policy /\ poll'.definition <= poll'.version
    BY <2>1 DEF RowsSafe, RowsConsistent, TypeOK, PollRows, ClockTick
  <2>4. \A b \in Cast : pc'[b] = pc[b]
    BY <2>1 DEF RowsSafe, RowsConsistent, Cast, TypeOK, InTransaction, ClockTick
  <2> QED
    BY <2>1, <2>2, <2>3, <2>4, RowsSafeFrame
<1>3. ASSUME NEW q \in Requests, InTransaction(q)'
      PROVE  SnapshotCurrent(q)'
  <2>1. \A t : OwnedBy(t)' = OwnedBy(t)
    BY DEF ClockTick, OwnedBy, Cast
  <2> QED
    BY <1>3, <2>1 DEF IInv, RowsConsistent, TypeOK, PollRows, InTransaction, SnapshotCurrent, ClockTick
<1> QED
  BY <1>1, <1>2, <1>3 DEF IInv, RowsSafe

\* A status change writes the poll row, never a ballot.
LEMMA UpdatePollStatusIInv ==
  ASSUME IInv, NEW status \in {"PUBLISHED", "CLOSED"}, UpdatePollStatus(status)
  PROVE  IInv'
<1> USE DEF rowVars, requestVars
<1>1. TypeOK'
  <2>1. poll' \in PollRows
    <3>1. poll \in PollRows /\ poll.version + 1 \in Nat
      BY DEF IInv, TypeOK, PollRows
    <3> QED
      BY <3>1 DEF UpdatePollStatus, PollRows
  <2> QED
    BY <2>1 DEF IInv, TypeOK, UpdatePollStatus
<1>2. RowsSafe'
  <2>1. RowsSafe /\ TypeOK
    BY DEF IInv, RowsSafe
  <2>2. /\ UNCHANGED <<revoked, markers, erasedMarkers, ballot>>
        /\ users \subseteq users'
    BY DEF UpdatePollStatus
  <2>3. poll'.policy = poll.policy /\ poll'.definition <= poll'.version
    BY <2>1 DEF RowsSafe, RowsConsistent, TypeOK, PollRows, UpdatePollStatus
  <2>4. \A b \in Cast : pc'[b] = pc[b]
    BY <2>1 DEF RowsSafe, RowsConsistent, Cast, TypeOK, InTransaction, UpdatePollStatus
  <2> QED
    BY <2>1, <2>2, <2>3, <2>4, RowsSafeFrame
<1>3. ASSUME NEW q \in Requests, InTransaction(q)'
      PROVE  SnapshotCurrent(q)'
  <2>1. \A t : OwnedBy(t)' = OwnedBy(t)
    BY DEF UpdatePollStatus, OwnedBy, Cast
  <2> QED
    BY <1>3, <2>1 DEF IInv, RowsConsistent, TypeOK, PollRows, InTransaction, SnapshotCurrent, UpdatePollStatus
<1> QED
  BY <1>1, <1>2, <1>3 DEF IInv, RowsSafe

\* syncUser creates a User row only for a subject that is not revoked.
LEMMA SyncUserIInv ==
  ASSUME IInv, NEW s \in Subjects, SyncUser(s)
  PROVE  IInv'
<1> USE DEF rowVars, requestVars
<1>1. TypeOK'
  BY DEF IInv, TypeOK, SyncUser, PollRows
<1>2. RowsSafe'
  <2>1. RowsSafe /\ TypeOK
    BY DEF IInv, RowsSafe
  <2>2. /\ UNCHANGED <<revoked, markers, erasedMarkers, ballot>>
        /\ users \subseteq users'
    BY DEF SyncUser
  <2>3. poll'.policy = poll.policy /\ poll'.definition <= poll'.version
    BY <2>1 DEF RowsSafe, RowsConsistent, TypeOK, PollRows, SyncUser
  <2>4. \A b \in Cast : pc'[b] = pc[b]
    BY <2>1 DEF RowsSafe, RowsConsistent, Cast, TypeOK, InTransaction, SyncUser
  <2> QED
    BY <2>1, <2>2, <2>3, <2>4, RowsSafeFrame
<1>3. ASSUME NEW q \in Requests, InTransaction(q)'
      PROVE  SnapshotCurrent(q)'
  <2>1. \A t : OwnedBy(t)' = OwnedBy(t)
    BY DEF SyncUser, OwnedBy, Cast
  <2> QED
    BY <1>3, <2>1 DEF IInv, RowsConsistent, TypeOK, PollRows, InTransaction, SnapshotCurrent, SyncUser
<1> QED
  BY <1>1, <1>2, <1>3 DEF IInv, RowsSafe

\* The kiosk's validation only remembers the voter.
LEMMA ValidateKioskVoterIInv ==
  ASSUME IInv, NEW s \in Subjects, ValidateKioskVoter(s)
  PROVE  IInv'
<1> USE DEF rowVars, requestVars
<1>1. TypeOK'
  BY DEF IInv, TypeOK, ValidateKioskVoter, PollRows
<1>2. RowsSafe'
  <2>1. RowsSafe /\ TypeOK
    BY DEF IInv, RowsSafe
  <2>2. /\ UNCHANGED <<revoked, markers, erasedMarkers, ballot>>
        /\ users \subseteq users'
    BY DEF ValidateKioskVoter
  <2>3. poll'.policy = poll.policy /\ poll'.definition <= poll'.version
    BY <2>1 DEF RowsSafe, RowsConsistent, TypeOK, PollRows, ValidateKioskVoter
  <2>4. \A b \in Cast : pc'[b] = pc[b]
    BY <2>1 DEF RowsSafe, RowsConsistent, Cast, TypeOK, InTransaction, ValidateKioskVoter
  <2> QED
    BY <2>1, <2>2, <2>3, <2>4, RowsSafeFrame
<1>3. ASSUME NEW q \in Requests, InTransaction(q)'
      PROVE  SnapshotCurrent(q)'
  <2>1. \A t : OwnedBy(t)' = OwnedBy(t)
    BY DEF ValidateKioskVoter, OwnedBy, Cast
  <2> QED
    BY <1>3, <2>1 DEF IInv, RowsConsistent, TypeOK, PollRows, InTransaction, SnapshotCurrent, ValidateKioskVoter
<1> QED
  BY <1>1, <1>2, <1>3 DEF IInv, RowsSafe

\* The kiosk's bare upsert may recreate the User row of a revoked subject, and
\* still names no ballot of it.
LEMMA SyncKioskVoterIInv ==
  ASSUME IInv, NEW s \in Subjects, SyncKioskVoter(s)
  PROVE  IInv'
<1> USE DEF rowVars, requestVars
<1>1. TypeOK'
  BY DEF IInv, TypeOK, SyncKioskVoter, PollRows
<1>2. RowsSafe'
  <2>1. RowsSafe /\ TypeOK
    BY DEF IInv, RowsSafe
  <2>2. /\ UNCHANGED <<revoked, markers, erasedMarkers, ballot>>
        /\ users \subseteq users'
    BY DEF SyncKioskVoter
  <2>3. poll'.policy = poll.policy /\ poll'.definition <= poll'.version
    BY <2>1 DEF RowsSafe, RowsConsistent, TypeOK, PollRows, SyncKioskVoter
  <2>4. \A b \in Cast : pc'[b] = pc[b]
    BY <2>1 DEF RowsSafe, RowsConsistent, Cast, TypeOK, InTransaction, SyncKioskVoter
  <2> QED
    BY <2>1, <2>2, <2>3, <2>4, RowsSafeFrame
<1>3. ASSUME NEW q \in Requests, InTransaction(q)'
      PROVE  SnapshotCurrent(q)'
  <2>1. \A t : OwnedBy(t)' = OwnedBy(t)
    BY DEF SyncKioskVoter, OwnedBy, Cast
  <2> QED
    BY <1>3, <2>1 DEF IInv, RowsConsistent, TypeOK, PollRows, InTransaction, SnapshotCurrent, SyncKioskVoter
<1> QED
  BY <1>1, <1>2, <1>3 DEF IInv, RowsSafe

\* A refused or failed transaction leaves nothing behind.
LEMMA RejectIInv ==
  ASSUME IInv, NEW r \in Requests, pc[r] # "committed", Reject(r)
  PROVE  IInv'
<1> USE DEF rowVars, requestVars
<1>1. TypeOK'
  BY DEF IInv, TypeOK, Reject, Finish, PollRows
<1>2. RowsSafe'
  <2>1. RowsSafe /\ TypeOK
    BY DEF IInv, RowsSafe
  <2>2. /\ UNCHANGED <<revoked, markers, erasedMarkers, ballot>>
        /\ users \subseteq users'
    BY DEF Reject, Finish
  <2>3. poll'.policy = poll.policy /\ poll'.definition <= poll'.version
    BY <2>1 DEF RowsSafe, RowsConsistent, TypeOK, PollRows, Reject, Finish
  <2>4. \A b \in Cast : pc'[b] = pc[b]
    BY <2>1 DEF RowsSafe, RowsConsistent, Cast, TypeOK, InTransaction, Reject, Finish
  <2> QED
    BY <2>1, <2>2, <2>3, <2>4, RowsSafeFrame
<1>3. ASSUME NEW q \in Requests, InTransaction(q)'
      PROVE  SnapshotCurrent(q)'
  <2>1. \A t : OwnedBy(t)' = OwnedBy(t)
    BY DEF Reject, Finish, OwnedBy, Cast
  <2> QED
    BY <1>3, <2>1 DEF IInv, RowsConsistent, TypeOK, PollRows, InTransaction, SnapshotCurrent, Reject, Finish
<1> QED
  BY <1>1, <1>2, <1>3 DEF IInv, RowsSafe

\* The snapshot Begin takes is current because nothing has happened since.
LEMMA SnapshotOfType ==
  ASSUME TypeOK, NEW r \in Requests
  PROVE  SnapshotOf(r) \in Snapshots
BY DEF TypeOK, SnapshotOf, Snapshots, OwnedBy, Cast

\* The snapshot is taken and holds what the tables hold.
LEMMA BeginIInv ==
  ASSUME IInv, NEW r \in Requests, Begin(r), ~Reject(r)
  PROVE  IInv'
<1> USE DEF rowVars, requestVars
<1>1. SnapshotOf(r) \in Snapshots
  BY SnapshotOfType DEF IInv
<1>2. /\ SameVersion(r)
      /\ pc' = [pc EXCEPT ![r] = "begun"]
      /\ snap' = [snap EXCEPT ![r] = SnapshotOf(r)]
      /\ UNCHANGED <<poll, clock, kioskPending, rowVars, seen, missed>>
      /\ pc[r] = "admitted"
  BY DEF Begin
<1>3. TypeOK'
  BY <1>1, <1>2 DEF IInv, TypeOK
<1>4. RowsSafe'
  <2>1. RowsSafe /\ TypeOK
    BY DEF IInv, RowsSafe
  <2>2. poll.definition <= poll.version
    BY <2>1 DEF RowsSafe, RowsConsistent
  <2>3. \A b \in Cast : pc'[b] = pc[b]
    BY <1>2, <2>1 DEF RowsSafe, RowsConsistent, Cast, TypeOK
  <2> QED
    BY <1>2, <2>1, <2>2, <2>3, RowsSafeFrame
<1>5. ASSUME NEW q \in Requests, InTransaction(q)'
      PROVE  SnapshotCurrent(q)'
  <2>1. \A t : OwnedBy(t)' = OwnedBy(t)
    BY <1>2 DEF OwnedBy, Cast
  <2>2. CASE q = r
    <3>1. /\ snap'[r] = SnapshotOf(r)
          /\ pc'[r] = "begun"
          /\ seen'[r] = poll.version
      BY <1>2 DEF IInv, TypeOK, SameVersion
    <3>2. poll.definition <= poll.version
      BY DEF IInv, RowsConsistent
    <3>3. Voter[r] \in markers \cup erasedMarkers \/ ~snap'[r].marker
      <4>1. snap'[r].marker = (Voter[r] \in markers)
        BY <3>1 DEF SnapshotOf
      <4> QED
        BY <4>1
    <3> QED
      BY <1>1, <1>2, <2>1, <2>2, <3>1, <3>2, <3>3
      DEF IInv, TypeOK, PollRows, SnapshotCurrent, SnapshotOf
  <2>3. CASE q # r
    BY <1>2, <1>5, <2>1, <2>3 DEF IInv, TypeOK, InTransaction, SnapshotCurrent
  <2> QED
    BY <2>2, <2>3
<1> QED
  BY <1>3, <1>4, <1>5 DEF IInv, RowsSafe

\* Only one transaction of a subject holds its advisory lock.
LEMMA LockIInv ==
  ASSUME IInv, NEW r \in Requests, Lock(r), ~Reject(r)
  PROVE  IInv'
<1> USE DEF rowVars, requestVars
<1>1. TypeOK'
  BY DEF IInv, TypeOK, Lock, PollRows
<1>2. RowsSafe'
  <2>1. RowsSafe /\ TypeOK
    BY DEF IInv, RowsSafe
  <2>2. /\ UNCHANGED <<revoked, markers, erasedMarkers, ballot>>
        /\ users \subseteq users'
    BY DEF Lock
  <2>3. poll'.policy = poll.policy /\ poll'.definition <= poll'.version
    BY <2>1 DEF RowsSafe, RowsConsistent, TypeOK, PollRows, Lock
  <2>4. \A b \in Cast : pc'[b] = pc[b]
    BY <2>1 DEF RowsSafe, RowsConsistent, Cast, TypeOK, InTransaction, Lock
  <2> QED
    BY <2>1, <2>2, <2>3, <2>4, RowsSafeFrame
<1>3. ASSUME NEW q \in Requests, InTransaction(q)'
      PROVE  SnapshotCurrent(q)'
  <2>1. \A t : OwnedBy(t)' = OwnedBy(t)
    BY DEF Lock, OwnedBy, Cast
  <2> QED
    BY <1>3, <2>1 DEF IInv, RowsConsistent, TypeOK, PollRows, InTransaction, SnapshotCurrent, Lock
<1> QED
  BY <1>1, <1>2, <1>3 DEF IInv, RowsSafe

\* An edit of the poll keeps the policy its ballots were cast under.
LEMMA UpdatePollIInv ==
  ASSUME IInv, NEW policy \in Policies, UpdatePoll(policy)
  PROVE  IInv'
<1> USE DEF rowVars, requestVars
<1>1. TypeOK'
  <2>1. poll' \in PollRows
    <3>1. poll \in PollRows /\ poll.version + 1 \in Nat
      BY DEF IInv, TypeOK, PollRows
    <3> QED
      BY <3>1 DEF UpdatePoll, PollRows
  <2> QED
    BY <2>1 DEF IInv, TypeOK, UpdatePoll, NotePollWrite, Conflicts
<1>2. RowsSafe'
  <2>1. CASE Cast = {}
    <3>1. Cast' = {} /\ \A s : OwnedBy(s)' = {} /\ OwnedBy(s) = {}
      BY <2>1 DEF UpdatePoll, Cast, OwnedBy
    <3>2. poll'.definition <= poll'.version
      BY DEF IInv, TypeOK, PollRows, UpdatePoll
    <3> QED
      BY <2>1, <3>1, <3>2 DEF IInv, RowsSafe, RowsConsistent, AtMostOneBallot, MarkerIffBallot,
         BallotsKeepPolicy, ErasedSubjectsAreNotNamed, UpdatePoll
  <2>2. CASE Cast # {}
    <3>1. RowsSafe
      BY DEF IInv, RowsSafe
    <3>2. poll'.policy = poll.policy /\ poll'.definition <= poll'.version
      BY <2>2 DEF IInv, TypeOK, PollRows, UpdatePoll, PolicyChangeAllowed
    <3> QED
      BY <3>1, <3>2, RowsSafeFrame DEF UpdatePoll
  <2> QED
    BY <2>1, <2>2
<1>3. ASSUME NEW q \in Requests, InTransaction(q)'
      PROVE  SnapshotCurrent(q)'
  <2>1. "poll" \in missed'[q]
    BY <1>3 DEF UpdatePoll, NotePollWrite, InTransaction
  <2>2. "user" \in missed'[q] <=> "user" \in missed[q]
    BY <1>3 DEF UpdatePoll, NotePollWrite, InTransaction
  <2> QED
    BY <1>3, <2>1, <2>2 DEF IInv, InTransaction, SnapshotCurrent, UpdatePoll
<1> QED
  BY <1>1, <1>2, <1>3 DEF IInv, RowsSafe

\* Deleting the poll cascades to ballots and markers together.
LEMMA DeletePollIInv ==
  ASSUME IInv, DeletePoll
  PROVE  IInv'
<1> USE DEF rowVars, requestVars
<1>1. TypeOK'
  <2>1. poll' \in PollRows
    BY DEF IInv, TypeOK, DeletePoll, PollRows
  <2> QED
    BY <2>1 DEF IInv, TypeOK, DeletePoll, NotePollWrite, Conflicts
<1>2. RowsSafe'
  <2>1. Cast' = {} /\ \A s : OwnedBy(s)' = {}
    BY DEF DeletePoll, Cast, OwnedBy
  <2>2. poll'.definition <= poll'.version
    BY DEF IInv, TypeOK, PollRows, RowsConsistent, DeletePoll
  <2> QED
    BY <2>1, <2>2 DEF RowsSafe, RowsConsistent, AtMostOneBallot, MarkerIffBallot,
       BallotsKeepPolicy, ErasedSubjectsAreNotNamed, DeletePoll
<1>3. ASSUME NEW q \in Requests, InTransaction(q)'
      PROVE  SnapshotCurrent(q)'
  <2>1. "poll" \in missed'[q]
    BY <1>3 DEF DeletePoll, NotePollWrite, InTransaction
  <2>2. "user" \in missed'[q] <=> "user" \in missed[q]
    BY <1>3 DEF DeletePoll, NotePollWrite, InTransaction
  <2> QED
    BY <1>3, <2>1, <2>2 DEF IInv, InTransaction, SnapshotCurrent, DeletePoll
<1> QED
  BY <1>1, <1>2, <1>3 DEF IInv, RowsSafe

\* hardDelete moves the subject's rows to its anonymised id, all at once, and
\* every open transaction of the subject records the loss.
LEMMA EraseSubjectIInv ==
  ASSUME IInv, NEW s \in Subjects, EraseSubject(s)
  PROVE  IInv'
<1> USE DEF rowVars, requestVars
<1>1. /\ poll' \in PollRows
      /\ poll'.policy = poll.policy
      /\ poll'.definition = poll.definition
      /\ poll'.definition <= poll'.version
  <2>1. poll \in PollRows /\ poll.version + 1 \in Nat /\ poll.definition <= poll.version
    BY DEF IInv, TypeOK, PollRows, RowsConsistent
  <2>2. poll' = poll \/ poll' = [poll EXCEPT !.version = @ + 1]
    BY DEF EraseSubject
  <2> QED
    BY <2>1, <2>2 DEF PollRows
<1>2. CASE s \notin users
  <2>1. s \notin markers /\ OwnedBy(s) = {}
    <3>1. s \notin markers
      BY <1>2 DEF IInv, RowsConsistent
    <3>2. ASSUME NEW b \in OwnedBy(s) PROVE FALSE
      <4>1. s \in erasedMarkers
        BY <3>1, <3>2 DEF IInv, MarkerIffBallot, OwnedBy
      <4> QED
        BY <3>2, <4>1 DEF IInv, RowsConsistent, ErasedSubjectsAreNotNamed
    <3> QED
      BY <3>1, <3>2
  <2>2. \A u : OwnedBy(u)' = OwnedBy(u)
    BY <1>2 DEF EraseSubject, OwnedBy, Cast
  <2>3. TypeOK'
    BY <1>2 DEF IInv, TypeOK, EraseSubject
  <2>4. RowsSafe'
    BY <1>2, <2>1, <2>2 DEF IInv, RowsSafe, RowsConsistent, AtMostOneBallot, MarkerIffBallot,
       BallotsKeepPolicy, ErasedSubjectsAreNotNamed, EraseSubject, Cast
  <2>5. ASSUME NEW q \in Requests, InTransaction(q)'
        PROVE  SnapshotCurrent(q)'
    <3>1. SnapshotCurrent(q)
      BY <2>5 DEF IInv, InTransaction, EraseSubject
    <3> QED
      BY <1>2, <2>2, <2>5, <3>1 DEF SnapshotCurrent, EraseSubject
  <2> QED
    BY <2>3, <2>4, <2>5 DEF IInv, RowsSafe
<1>3. CASE s \in users
  <2>1. /\ users' = users \ {s}
        /\ markers' = markers \ {s}
        /\ erasedMarkers' = IF s \in markers THEN erasedMarkers \cup {s} ELSE erasedMarkers
        /\ revoked' = revoked \cup {s}
        /\ pc' = pc /\ seen' = seen /\ snap' = snap
    BY <1>3 DEF EraseSubject
  <2>2. ballot' = [b \in Requests |-> IF b \in OwnedBy(s)
                                     THEN [ballot[b] EXCEPT !.owner = "erased"]
                                     ELSE ballot[b]]
    BY <1>3 DEF EraseSubject
  <2>3. \A b \in OwnedBy(s) :
           /\ ballot[b] \in Ballots
           /\ [ballot[b] EXCEPT !.owner = "erased"] \in Ballots
           /\ [ballot[b] EXCEPT !.owner = "erased"].owner = "erased"
           /\ [ballot[b] EXCEPT !.owner = "erased"].caster = ballot[b].caster
           /\ [ballot[b] EXCEPT !.owner = "erased"].policy = ballot[b].policy
    BY DEF IInv, TypeOK, OwnedBy, Cast, Ballots
  <2>4. /\ \A b \in Cast : ballot'[b].caster = ballot[b].caster
        /\ \A b \in Cast : ballot'[b].policy = ballot[b].policy
        /\ \A b \in Cast : ballot'[b].owner = "nobody" <=> ballot[b].owner = "nobody"
    BY <2>2, <2>3 DEF OwnedBy, Cast
  <2>5. Cast' = Cast
    BY <2>2, <2>3 DEF Cast
  <2>6. /\ OwnedBy(s)' = {}
        /\ \A u : u # s => OwnedBy(u)' = OwnedBy(u)
    BY <2>2, <2>3, <2>4, <2>5 DEF OwnedBy, Cast
  <2>7. TypeOK'
    <3>1. ballot' \in [Requests -> Ballots \cup {NoBallot}]
      BY <2>2, <2>3 DEF IInv, TypeOK
    <3>2. missed' \in [Requests -> SUBSET Conflicts]
      BY <1>3 DEF IInv, TypeOK, EraseSubject, Conflicts
    <3> QED
      BY <1>1, <2>1, <3>1, <3>2 DEF IInv, TypeOK, EraseSubject
  <2>8. RowsSafe'
    <3>1. RowsConsistent'
      BY <1>1, <2>1, <2>5 DEF IInv, RowsConsistent
    <3>2. AtMostOneBallot' /\ BallotsKeepPolicy'
      BY <1>1, <2>4, <2>5 DEF IInv, AtMostOneBallot, BallotsKeepPolicy
    <3>3. MarkerIffBallot'
      BY <2>1, <2>4, <2>5 DEF IInv, MarkerIffBallot
    <3>4. ErasedSubjectsAreNotNamed'
      BY <2>1, <2>6 DEF IInv, ErasedSubjectsAreNotNamed
    <3> QED
      BY <3>1, <3>2, <3>3, <3>4 DEF RowsSafe
  <2>9. ASSUME NEW q \in Requests, InTransaction(q)'
        PROVE  SnapshotCurrent(q)'
    <3>1. SnapshotCurrent(q) /\ InTransaction(q)
      BY <2>1, <2>9 DEF IInv, InTransaction
    <3>2. Voter[q] = s => missed'[q] = missed[q] \cup {"user", "ballot"}
      BY <1>3, <3>1 DEF EraseSubject
    <3>3. Voter[q] # s => missed'[q] = missed[q]
      BY <1>3 DEF EraseSubject, IInv, TypeOK
    <3>4. Voter[q] \in markers \cup erasedMarkers => Voter[q] \in (markers \cup erasedMarkers)'
      BY <2>1
    <3> QED
      BY <1>1, <2>1, <2>6, <3>1, <3>2, <3>3, <3>4 DEF SnapshotCurrent
  <2> QED
    BY <2>7, <2>8, <2>9 DEF IInv, RowsSafe
<1> QED
  BY <1>2, <1>3

\* What the conflicts a transaction did not record tell it at its commit.
LEMMA HoldingFacts ==
  ASSUME IInv, NEW r \in Requests, pc[r] = "holding", PollIntact(r)
  PROVE  /\ snap[r].poll.policy = poll.policy
         /\ seen[r] >= poll.definition
         /\ snap[r].marker => Voter[r] \in markers \cup erasedMarkers
         /\ "ballot" \notin missed[r] => snap[r].own \subseteq OwnedBy(Voter[r])
         /\ UserRowIntact(r) => Voter[r] \in users /\ Voter[r] \notin revoked
BY DEF IInv, InTransaction, SnapshotCurrent, PollIntact, UserRowIntact

\* Any commit that keeps the rows safe keeps the whole invariant.
LEMMA CommitFrame ==
  ASSUME IInv, NEW r \in Requests, Commit(r),
         markers' \subseteq Subjects,
         markers \subseteq markers',
         ballot' \in [Requests -> Ballots \cup {NoBallot}],
         \A q \in Requests : Voter[q] # Voter[r] => OwnedBy(Voter[q]) \subseteq OwnedBy(Voter[q])',
         RowsSafe'
  PROVE  IInv'
<1>1. TypeOK'
  BY DEF IInv, TypeOK, Commit, NoteBallotWrite, Finish, Conflicts, InTransaction
<1>2. ASSUME NEW q \in Requests, InTransaction(q)'
      PROVE  SnapshotCurrent(q)'
  <2>1. q # r /\ InTransaction(q) /\ SnapshotCurrent(q)
    BY <1>2 DEF IInv, TypeOK, Commit, Finish, InTransaction
  <2>2. /\ pc'[q] = pc[q] /\ snap'[q] = snap[q] /\ seen'[q] = seen[q]
        /\ poll' = poll /\ users' = users /\ revoked' = revoked
        /\ erasedMarkers' = erasedMarkers
    BY <2>1 DEF IInv, TypeOK, Commit, Finish
  <2>3. Voter[q] # Voter[r] => missed'[q] = missed[q]
    BY <2>1 DEF Commit, NoteBallotWrite
  <2>4. Voter[q] = Voter[r] => missed'[q] = missed[q] \cup {"ballot"}
    BY <2>1 DEF Commit, NoteBallotWrite
  <2> QED
    BY <2>1, <2>2, <2>3, <2>4 DEF SnapshotCurrent
<1> QED
  BY <1>1, <1>2 DEF IInv, RowsSafe

\* A new PollResponse row: CommitFirst and CommitAnother.
LEMMA CommitInsertIInv ==
  ASSUME IInv, NEW r \in Requests, Commit(r), CommitAnother(r) \/ CommitFirst(r)
  PROVE  IInv'
<1> DEFINE s == Voter[r]
<1>1. /\ pc[r] = "holding" /\ PollIntact(r)
      /\ ballot' = [ballot EXCEPT ![r] = NewBallot(r)]
      /\ markers' = markers \cup {s} \/ (markers' = markers /\ snap[r].marker)
      /\ snap[r].poll.policy.anonymous \/ UserRowIntact(r)
      /\ markers' # markers => UserRowIntact(r)
      /\ UNCHANGED <<poll, users, revoked, erasedMarkers>>
      /\ pc' = [pc EXCEPT ![r] = "committed"]
  BY DEF Commit, CommitAnother, CommitFirst, CanInsertMarker, CanInsertResponse, Finish
<1>2. /\ snap[r].poll.policy = poll.policy
      /\ snap[r].marker => s \in markers \cup erasedMarkers
      /\ UserRowIntact(r) => s \in users /\ s \notin revoked
  BY <1>1, HoldingFacts
<1>3. r \notin Cast /\ s \in Subjects
  BY <1>1 DEF IInv, RowsConsistent
<1>4. /\ NewBallot(r) \in Ballots
      /\ NewBallot(r).caster = s
      /\ NewBallot(r).policy = poll.policy
      /\ NewBallot(r).owner = IF poll.policy.anonymous THEN "nobody" ELSE "voter"
  BY <1>2, <1>3 DEF IInv, TypeOK, PollRows, NewBallot, Ballots
<1>5. /\ Cast' = Cast \cup {r}
      /\ ballot'[r] = NewBallot(r)
      /\ \A b \in Cast : ballot'[b] = ballot[b]
  BY <1>1, <1>3, <1>4 DEF IInv, TypeOK, Cast
<1>6. /\ \A u : u # s => OwnedBy(u)' = OwnedBy(u)
      /\ OwnedBy(s)' \subseteq OwnedBy(s) \cup {r}
      /\ poll.policy.anonymous => OwnedBy(s)' = OwnedBy(s)
  BY <1>3, <1>4, <1>5 DEF OwnedBy
<1>7. RowsSafe'
  <2>1. RowsConsistent'
    BY <1>1, <1>2, <1>5 DEF IInv, TypeOK, RowsConsistent
  <2>2. AtMostOneBallot'
    <3>1. CASE CommitAnother(r)
      BY <1>1, <1>2, <3>1 DEF CommitAnother, AtMostOneBallot
    <3>2. CASE CommitFirst(r)
      <4>1. s \notin markers /\ s \notin erasedMarkers
        BY <1>2, <3>2 DEF CommitFirst, CanInsertMarker, IInv, RowsConsistent
      <4>2. \A b \in Cast : ballot[b].caster # s
        BY <1>3, <4>1 DEF IInv, MarkerIffBallot
      <4> QED
        BY <1>1, <1>4, <1>5, <4>2 DEF IInv, AtMostOneBallot
    <3> QED
      BY <3>1, <3>2
  <2>3. MarkerIffBallot'
    <3>1. s \in (markers \cup erasedMarkers)'
      BY <1>1, <1>2
    <3>2. \A u \in Subjects : u # s => (u \in (markers \cup erasedMarkers)' <=> u \in markers \cup erasedMarkers)
      BY <1>1
    <3> QED
      BY <1>4, <1>5, <3>1, <3>2 DEF IInv, MarkerIffBallot
  <2>4. BallotsKeepPolicy'
    BY <1>1, <1>4, <1>5 DEF IInv, BallotsKeepPolicy
  <2>5. ErasedSubjectsAreNotNamed'
    <3>1. CASE UserRowIntact(r)
      BY <1>1, <1>2, <1>6, <3>1 DEF IInv, ErasedSubjectsAreNotNamed
    <3>2. CASE ~UserRowIntact(r)
      BY <1>1, <1>2, <1>6, <3>2 DEF IInv, ErasedSubjectsAreNotNamed
    <3> QED
      BY <3>1, <3>2
  <2> QED
    BY <2>1, <2>2, <2>3, <2>4, <2>5 DEF RowsSafe
<1>8. ballot' \in [Requests -> Ballots \cup {NoBallot}]
  BY <1>1, <1>4 DEF IInv, TypeOK
<1>9. markers' \subseteq Subjects /\ markers \subseteq markers'
  BY <1>1, <1>3 DEF IInv, TypeOK
<1>10. \A q \in Requests : Voter[q] # Voter[r] => OwnedBy(Voter[q]) \subseteq OwnedBy(Voter[q])'
  BY <1>6
<1> QED
  BY <1>7, <1>8, <1>9, <1>10, CommitFrame

\* An edit rewrites one row of the voter in place.
LEMMA CommitEditIInv ==
  ASSUME IInv, NEW r \in Requests, Commit(r), CommitEdit(r)
  PROVE  IInv'
<1>1. PICK b \in snap[r].own : ballot' = [ballot EXCEPT ![b].version = seen[r], ![b].answers = r]
  BY DEF CommitEdit
<1>2. /\ pc[r] = "holding" /\ PollIntact(r) /\ "ballot" \notin missed[r]
      /\ UNCHANGED <<poll, users, revoked, erasedMarkers, markers>>
      /\ pc' = [pc EXCEPT ![r] = "committed"]
  BY DEF Commit, CommitEdit, Finish
<1>3. b \in OwnedBy(Voter[r])
  BY <1>1, <1>2, HoldingFacts
<1>4. b \in Cast /\ b \in Requests /\ ballot[b] \in Ballots
  BY <1>3 DEF OwnedBy, Cast, IInv, TypeOK
<1>5. /\ ballot'[b] \in Ballots
      /\ ballot'[b].caster = ballot[b].caster
      /\ ballot'[b].owner = ballot[b].owner
      /\ ballot'[b].policy = ballot[b].policy
      /\ \A c \in Requests : c # b => ballot'[c] = ballot[c]
  BY <1>1, <1>4 DEF IInv, TypeOK, Ballots
<1>6. ballot' \in [Requests -> Ballots \cup {NoBallot}]
  BY <1>1, <1>4, <1>5 DEF IInv, TypeOK
<1>7. Cast' = Cast
  BY <1>4, <1>5 DEF Cast
<1>8. \A u : OwnedBy(u)' = OwnedBy(u)
  BY <1>5, <1>7 DEF OwnedBy, Cast
<1>9. \A c \in Cast : /\ ballot'[c].caster = ballot[c].caster
                       /\ ballot'[c].owner = ballot[c].owner
                       /\ ballot'[c].policy = ballot[c].policy
  BY <1>5 DEF Cast
<1>10. RowsSafe'
  <2>1. RowsConsistent'
    BY <1>2, <1>7 DEF IInv, TypeOK, RowsConsistent
  <2>2. AtMostOneBallot' /\ MarkerIffBallot' /\ BallotsKeepPolicy'
    BY <1>2, <1>7, <1>9 DEF IInv, AtMostOneBallot, MarkerIffBallot, BallotsKeepPolicy
  <2>3. ErasedSubjectsAreNotNamed'
    BY <1>2, <1>8 DEF IInv, ErasedSubjectsAreNotNamed
  <2> QED
    BY <2>1, <2>2, <2>3 DEF RowsSafe
<1>11. markers' \subseteq Subjects /\ markers \subseteq markers'
  BY <1>2 DEF IInv, TypeOK
<1> QED
  BY <1>6, <1>8, <1>10, <1>11, CommitFrame

\* Every step preserves the invariant.
LEMMA NextIInv == IInv /\ [Next]_vars => IInv'
<1> SUFFICES ASSUME IInv, [Next]_vars PROVE IInv'
  OBVIOUS
<1>1. CASE UNCHANGED vars
  BY <1>1 DEF vars, rowVars, requestVars, IInv, TypeOK, RowsConsistent, InTransaction, SnapshotCurrent,
     OwnedBy, Cast, AtMostOneBallot, MarkerIffBallot, BallotsKeepPolicy, ErasedSubjectsAreNotNamed
<1>2. ASSUME NEW r \in Requests, RequestStep(r) PROVE IInv'
  <2>1. CASE Reject(r) /\ pc[r] # "committed"
    BY <2>1, RejectIInv
  <2>2. CASE Begin(r)
    BY <2>1, <2>2, BeginIInv DEF Begin
  <2>3. CASE Lock(r)
    BY <2>1, <2>3, LockIInv DEF Lock
  <2>4. CASE Commit(r)
    BY <2>4, CommitInsertIInv, CommitEditIInv DEF Commit
  <2>5. CASE Abort(r)
    BY <2>1, <2>5 DEF Abort, InTransaction
  <2> QED
    BY <1>2, <2>2, <2>3, <2>4, <2>5 DEF RequestStep
<1>3. ASSUME NEW s \in Subjects,
             SyncUser(s) \/ ValidateKioskVoter(s) \/ SyncKioskVoter(s) \/ EraseSubject(s)
      PROVE  IInv'
  BY <1>3, SyncUserIInv, ValidateKioskVoterIInv, SyncKioskVoterIInv, EraseSubjectIInv
<1> QED
  BY <1>1, <1>2, <1>3, AdmitIInv, ClockTickIInv, UpdatePollIInv, UpdatePollStatusIInv,
     DeletePollIInv DEF Next

\* The invariant of the vote transaction holds in every reachable state, for every
\* set of subjects and submissions and every number of poll writes.
THEOREM BallotInvariant == Spec => []IInv
BY InitIInv, NextIInv, PTL DEF Spec

\* Type correctness.
THEOREM BallotTypes == Spec => []TypeOK
<1>1. IInv => TypeOK
  BY DEF IInv
<1> QED
  BY <1>1, BallotInvariant, PTL

\* A poll without multiple responses holds at most one ballot per subject.
THEOREM OneBallotPerSubject == Spec => []AtMostOneBallot
<1>1. IInv => AtMostOneBallot
  BY DEF IInv
<1> QED
  BY <1>1, BallotInvariant, PTL

\* A subject's marker exists exactly when one of its ballots does.
THEOREM MarkersAndBallotsAgree == Spec => []MarkerIffBallot
<1>1. IInv => MarkerIffBallot
  BY DEF IInv
<1> QED
  BY <1>1, BallotInvariant, PTL

\* A ballot's privacy and response policy never changes under it.
THEOREM PolicyIsFrozenByBallots == Spec => []BallotsKeepPolicy
<1>1. IInv => BallotsKeepPolicy
  BY DEF IInv
<1> QED
  BY <1>1, BallotInvariant, PTL

\* No marker and no ballot names an erased subject.
THEOREM ErasureIsComplete == Spec => []ErasedSubjectsAreNotNamed
<1>1. IInv => ErasedSubjectsAreNotNamed
  BY DEF IInv
<1> QED
  BY <1>1, BallotInvariant, PTL

\* Only the commit of a vote writes answers: of a row it inserts, or of a row its
\* own voter owns.
LEMMA AnswersWrittenByCommit ==
  ASSUME IInv, [Next]_vars, NEW b \in Requests, AnswersWritten(b)
  PROVE  \E r \in Requests :
            /\ pc[r] = "holding" /\ PollIntact(r)
            /\ ballot'[b].version = seen[r]
            /\ \/ CommitAnother(r) /\ b = r /\ ballot'[b] = NewBallot(r)
               \/ CommitFirst(r) /\ b = r /\ ballot'[b] = NewBallot(r)
               \/ b \in OwnedBy(Voter[r]) /\ ballot'[b].caster = Voter[r]
<1> USE DEF rowVars, requestVars
<1>1. PICK r \in Requests : Commit(r)
  <2>1. ballot' # ballot
    BY DEF AnswersWritten
  <2>2. ~DeletePoll
    BY DEF AnswersWritten, DeletePoll
  <2>3. ASSUME NEW s \in Subjects, EraseSubject(s) PROVE FALSE
    <3>1. s \in users
      BY <2>1, <2>3 DEF EraseSubject
    <3>2. ballot'[b] = IF b \in OwnedBy(s) THEN [ballot[b] EXCEPT !.owner = "erased"]
                                          ELSE ballot[b]
      BY <2>3, <3>1 DEF EraseSubject
    <3>3. b \in OwnedBy(s) => ballot[b] # NoBallot /\ ballot[b] \in Ballots
      BY DEF OwnedBy, Cast, IInv, TypeOK
    <3> QED
      BY <3>2, <3>3 DEF AnswersWritten, Ballots
  <2> QED
    BY <2>1, <2>2, <2>3 DEF Next, vars, RequestStep, Admit, Begin, Lock, Abort, Reject, UpdatePoll,
       UpdatePollStatus, ClockTick, SyncUser, ValidateKioskVoter, SyncKioskVoter
<1>2. CASE CommitAnother(r) \/ CommitFirst(r)
  <2>1. ballot' = [ballot EXCEPT ![r] = NewBallot(r)]
    BY <1>2 DEF CommitAnother, CommitFirst
  <2>2. b = r /\ ballot'[b] = NewBallot(r)
    BY <2>1 DEF AnswersWritten, IInv, TypeOK
  <2>3. ballot'[b].version = seen[r]
    BY <2>2 DEF NewBallot
  <2> QED
    BY <1>1, <1>2, <2>2, <2>3 DEF Commit
<1>3. CASE CommitEdit(r)
  <2>1. PICK c \in snap[r].own : ballot' = [ballot EXCEPT ![c].version = seen[r], ![c].answers = r]
    BY <1>3 DEF CommitEdit
  <2>2. c \in OwnedBy(Voter[r])
    BY <1>1, <1>3, <2>1, HoldingFacts DEF Commit, CommitEdit
  <2>3. c = b /\ ballot[b] \in Ballots /\ ballot[b].caster = Voter[r]
    BY <2>1, <2>2 DEF AnswersWritten, IInv, TypeOK, OwnedBy, Cast
  <2>4. ballot'[b].version = seen[r] /\ ballot'[b].caster = Voter[r]
    BY <2>1, <2>3 DEF IInv, TypeOK, Ballots
  <2> QED
    BY <1>1, <2>2, <2>3, <2>4 DEF Commit
<1> QED
  BY <1>1, <1>2, <1>3 DEF Commit

\* Answers are stored only for the definition the request was admitted with.
THEOREM AnswersFitTheDefinition == Spec => AnswersMatchDefinition
<1>1. ASSUME IInv, [Next]_vars
      PROVE  [\A b \in Requests :
                AnswersWritten(b) => ballot'[b].version >= poll.definition]_vars
  BY <1>1, AnswersWrittenByCommit, HoldingFacts
<1> QED
  BY <1>1, BallotInvariant, PTL DEF Spec, AnswersMatchDefinition

\* The one write left to a revoked subject is an unlinked further ballot.
THEOREM RevokedSubjectsWriteNothingLinked == Spec => RevokedWriteOnlyUnlinked
<1>1. ASSUME IInv, [Next]_vars
      PROVE  [\A b \in Requests :
                AnswersWritten(b) /\ ballot'[b].caster \in revoked
                  => ballot'[b].policy.anonymous /\ ballot'[b].policy.multiple]_vars
  <2>1. SUFFICES ASSUME NEW b \in Requests, AnswersWritten(b), ballot'[b].caster \in revoked
                 PROVE  ballot'[b].policy.anonymous /\ ballot'[b].policy.multiple
    OBVIOUS
  <2>2. PICK r \in Requests :
            /\ pc[r] = "holding" /\ PollIntact(r)
            /\ \/ CommitAnother(r) /\ b = r /\ ballot'[b] = NewBallot(r)
               \/ CommitFirst(r) /\ b = r /\ ballot'[b] = NewBallot(r)
               \/ b \in OwnedBy(Voter[r]) /\ ballot'[b].caster = Voter[r]
    BY <1>1, <2>1, AnswersWrittenByCommit
  <2>3. b \notin OwnedBy(Voter[r]) \/ Voter[r] \notin revoked
    BY <1>1 DEF IInv, ErasedSubjectsAreNotNamed
  <2>4. CASE ballot'[b] = NewBallot(r)
    <3>1. ballot'[b].caster = Voter[r] /\ ballot'[b].policy = snap[r].poll.policy
      BY <2>4 DEF NewBallot
    <3>2. ~UserRowIntact(r)
      BY <1>1, <2>1, <2>2, <3>1, HoldingFacts
    <3>3. ~CommitFirst(r)
      BY <3>2 DEF CommitFirst, CanInsertMarker
    <3>4. CommitAnother(r)
      BY <2>1, <2>2, <2>3, <3>1, <3>3
    <3> QED
      BY <3>1, <3>2, <3>4 DEF CommitAnother, CanInsertResponse
  <2> QED
    BY <2>1, <2>2, <2>3, <2>4
<1> QED
  BY <1>1, BallotInvariant, PTL DEF Spec, RevokedWriteOnlyUnlinked

-----------------------------------------------------------------------------
(* The kiosk.                                                              *)

USE KioskAssumption DEF KioskAssumption

\* The types the proofs rest on.
Types ==
    /\ now \in Nat \ {0}
    /\ attempt \in [Attempts -> AttemptStates]
    /\ tokenKey \subseteq Attempts
    /\ reservation \subseteq Attempts
    /\ replay \subseteq [voter : Voters, counter : Nat, until : Nat]
    /\ cookie \in Attempts \cup {NoToken}
    /\ session \in Sessions
    /\ submission \in [Submissions -> SubmissionStates]

\* A token is stored by the authorize request of its name and no earlier.
Issued(a) == attempt[a].pc \in {"stored", "issued", "answered", "failed"}

TokensAreIssued ==
    /\ \A t \in tokenKey \cup reservation : Issued(t)
    /\ cookie # NoToken => Issued(cookie)
    /\ \A s \in Submissions :
          submission[s].pc # "idle" =>
             submission[s].token \in Attempts /\ Issued(submission[s].token)

\* A submission that acts on a token has it to itself; the token it spent is gone.
TokensAreHeldOnce ==
    /\ NeverUnderBothKeys
    /\ OneSubmissionAtATime
    /\ \A s \in Submissions :
          submission[s].pc = "done" =>
             /\ submission[s].token \notin tokenKey
             /\ \A o \in Submissions :
                   submission[o].token = submission[s].token => ~Holding(o)

\* A submission that reserved its token belongs to the session that obtained it.
HoldersAreBound ==
    \A s \in Submissions :
        submission[s].pc = "reserved" =>
            attempt[submission[s].token].session = submission[s].session

KInv == Types /\ TokensAreIssued /\ TokensAreHeldOnce /\ HoldersAreBound

-----------------------------------------------------------------------------
(* Types *)

\* Updating fields of a request's state.
LEMMA AttemptFields ==
  ASSUME NEW q \in AttemptStates
  PROVE  /\ \A state \in {"counted", "validated", "stored", "issued", "answered", "failed"} :
               [q EXCEPT !.pc = state] \in AttemptStates
         /\ \A state \in {"counted", "failed"}, k \in Sessions, t \in Attempts \cup {NoToken} :
               [q EXCEPT !.pc = state, !.session = k, !.previous = t] \in AttemptStates
         /\ \A counter \in Nat, at \in Nat :
               [q EXCEPT !.pc = "validated", !.counter = counter, !.at = at] \in AttemptStates
BY DEF AttemptStates

LEMMA SubmissionFields ==
  ASSUME NEW q \in SubmissionStates
  PROVE  \A state \in {"reserved", "releasing", "committed", "done", "failed"} :
            [q EXCEPT !.pc = state] \in SubmissionStates
BY DEF SubmissionStates

LEMMA InitKInv == KioskInit => KInv
<1> SUFFICES ASSUME KioskInit PROVE KInv
  OBVIOUS
<1>1. attempt \in [Attempts -> AttemptStates]
  BY DEF KioskInit, AttemptStates
<1>2. submission \in [Submissions -> SubmissionStates]
  BY DEF KioskInit, SubmissionStates
<1>3. \A s \in Submissions : submission[s].pc = "idle"
  BY DEF KioskInit
<1> QED
  BY <1>1, <1>2, <1>3
  DEF KioskInit, KInv, Types, TokensAreIssued, TokensAreHeldOnce, HoldersAreBound,
      NeverUnderBothKeys, OneSubmissionAtATime, Holding

\* What the steps of an authorize request do to the attempts: one of them moves on,
\* and what was issued stays issued, in its session.
AttemptMoves(a) ==
    /\ attempt' \in [Attempts -> AttemptStates]
    /\ \A b \in Attempts \ {a} : attempt'[b] = attempt[b]
    /\ Issued(a) => Issued(a)' /\ attempt'[a].session = attempt[a].session

LEMMA PcMoves ==
  ASSUME Types, NEW a \in Attempts,
         NEW state \in {"stored", "issued", "answered", "failed"},
         attempt' = [attempt EXCEPT ![a].pc = state]
  PROVE  AttemptMoves(a) /\ Issued(a)' /\ attempt'[a] = [attempt[a] EXCEPT !.pc = state]
<1> DEFINE q == [attempt[a] EXCEPT !.pc = state]
<1>1. attempt[a] \in AttemptStates
  BY DEF Types
<1>2. q \in AttemptStates
  BY <1>1, AttemptFields
<1>3. q.pc = state /\ q.session = attempt[a].session
  BY <1>1 DEF AttemptStates
<1>4. attempt' = [attempt EXCEPT ![a] = q]
  OBVIOUS
<1> HIDE DEF q
<1>5. AttemptMoves(a) /\ Issued(a)' /\ attempt'[a] = q
  BY <1>2, <1>3, <1>4 DEF Types, AttemptMoves, Issued
<1> QED
  BY <1>5 DEF q

\* The steps of an authorize request, seen from the tokens.
LEMMA AuthorizeMoves ==
  ASSUME KInv, NEW a \in Attempts, Authorize(a)
  PROVE  /\ AttemptMoves(a)
         /\ \A t \in tokenKey' : t \in tokenKey \/ (t = a /\ ~Issued(a) /\ Issued(a)')
         /\ UNCHANGED <<now, reservation, session, submission>>
         /\ cookie' = cookie \/ (cookie' = a /\ Issued(a)')
         /\ replay' \subseteq [voter : Voters, counter : Nat, until : Nat]
<1> USE DEF redisVars, browserVars, voteVars
<1>0. Types /\ attempt[a] \in AttemptStates /\ EmailOf[a] \in Voters
  BY DEF KInv, Types
<1>1. CASE ReserveAttempt(a)
  <2> DEFINE state == IF attemptCount[session][EmailOf[a]] + 1 > AttemptLimit
                      \/ globalCount[EmailOf[a]] + 1 > GlobalLimit
                   THEN "failed" ELSE "counted"
             q == [attempt[a] EXCEPT !.pc = state, !.session = session, !.previous = cookie]
  <2>1. attempt' = [attempt EXCEPT ![a].pc = state, ![a].session = session,
                                   ![a].previous = cookie]
    BY <1>1 DEF ReserveAttempt
  <2>2. state \in {"counted", "failed"}
    OBVIOUS
  <2> HIDE DEF state
  <2>3. q \in AttemptStates
    BY <1>0, <2>2, AttemptFields DEF Types
  <2>4. attempt' = [attempt EXCEPT ![a] = q]
    BY <2>1
  <2> HIDE DEF q
  <2>5. AttemptMoves(a)
    <3>1. ~Issued(a)
      BY <1>1 DEF Issued, ReserveAttempt
    <3> QED
      BY <1>0, <2>3, <2>4, <3>1 DEF AttemptMoves, Types
  <2> QED
    BY <1>0, <1>1, <2>5 DEF ReserveAttempt, Types
<1>2. CASE Validate(a)
  <2>1. PICK counter \in {now - 1, now, now + 1} :
           attempt' = [attempt EXCEPT ![a].pc = "validated", ![a].counter = counter,
                                      ![a].at = now]
    BY <1>2 DEF Validate
  <2>2. counter \in Nat /\ now \in Nat
    BY <1>0 DEF Types
  <2> DEFINE q == [attempt[a] EXCEPT !.pc = "validated", !.counter = counter, !.at = now]
  <2>3. q \in AttemptStates
    BY <1>0, <2>2, AttemptFields
  <2>4. attempt' = [attempt EXCEPT ![a] = q]
    BY <2>1
  <2> HIDE DEF q
  <2>5. AttemptMoves(a)
    BY <1>0, <1>2, <2>3, <2>4 DEF AttemptMoves, Issued, Validate, Types
  <2> QED
    BY <1>0, <1>2, <2>5 DEF Validate, Types
<1>3. CASE StoreToken(a)
  <2>1. AttemptMoves(a) /\ Issued(a)'
    BY <1>0, <1>3, PcMoves DEF StoreToken
  <2> QED
    BY <1>0, <1>3, <2>1 DEF StoreToken, Issued, Types
<1>4. CASE BurnTotp(a)
  <2>1. AttemptMoves(a) /\ Issued(a)'
    <3>1. CASE ReplayedStep(a)
      BY <1>0, <1>4, <3>1, PcMoves DEF BurnTotp
    <3>2. CASE ~ReplayedStep(a)
      BY <1>0, <1>4, <3>2, PcMoves DEF BurnTotp
    <3> QED
      BY <3>1, <3>2
  <2>2. ReplayKeys(a) \subseteq [voter : Voters, counter : Nat, until : Nat]
    BY <1>0 DEF ReplayKeys, Types, AttemptStates, TotpReplayPeriods
  <2> QED
    BY <1>0, <1>4, <2>1, <2>2 DEF BurnTotp, Types
<1>5. CASE BurnTotpFails(a)
  <2>1. AttemptMoves(a) /\ Issued(a)'
    BY <1>0, <1>5, PcMoves DEF BurnTotpFails
  <2>2. ReplayKeys(a) \subseteq [voter : Voters, counter : Nat, until : Nat]
    BY <1>0 DEF ReplayKeys, Types, AttemptStates, TotpReplayPeriods
  <2> QED
    BY <1>0, <1>5, <2>1, <2>2 DEF BurnTotpFails, Types
<1>6. CASE Answer(a)
  <2>1. AttemptMoves(a) /\ Issued(a)'
    BY <1>0, <1>6, PcMoves DEF Answer
  <2> QED
    BY <1>0, <1>6, <2>1 DEF Answer, Types
<1>7. CASE RetirePreviousFails(a)
  <2>1. AttemptMoves(a) /\ Issued(a)'
    BY <1>0, <1>7, PcMoves DEF RetirePreviousFails
  <2> QED
    BY <1>0, <1>7, <2>1 DEF RetirePreviousFails, Types
<1>8. CASE AttemptStops(a)
  <2>1. AttemptMoves(a) /\ Issued(a)'
    BY <1>0, <1>8, PcMoves DEF AttemptStops
  <2> QED
    BY <1>0, <1>8, <2>1 DEF AttemptStops, Types
<1> QED
  BY <1>1, <1>2, <1>3, <1>4, <1>5, <1>6, <1>7, <1>8 DEF Authorize

\* What was issued stays issued, and keeps its session.
LEMMA AuthorizeKeepsKInv ==
  ASSUME KInv, NEW a \in Attempts, Authorize(a)
  PROVE  KInv'
<1>1. /\ AttemptMoves(a)
      /\ \A t \in tokenKey' : t \in tokenKey \/ (t = a /\ ~Issued(a) /\ Issued(a)')
      /\ UNCHANGED <<now, reservation, session, submission>>
      /\ cookie' = cookie \/ (cookie' = a /\ Issued(a)')
      /\ replay' \subseteq [voter : Voters, counter : Nat, until : Nat]
  BY AuthorizeMoves
<1>2. \A b \in Attempts : Issued(b) => Issued(b)' /\ attempt'[b].session = attempt[b].session
  BY <1>1 DEF AttemptMoves, Issued
<1>3. Types'
  BY <1>1 DEF KInv, Types, AttemptMoves
<1>4. TokensAreIssued'
  BY <1>1, <1>2 DEF KInv, Types, TokensAreIssued
<1>5. TokensAreHeldOnce'
  <2>1. \A s \in Submissions : submission[s].pc # "idle" /\ submission[s].token = a => Issued(a)
    BY DEF KInv, TokensAreIssued
  <2>2. a \in reservation => Issued(a)
    BY DEF KInv, TokensAreIssued
  <2>3. \A s \in Submissions : Holding(s)' <=> Holding(s)
    BY <1>1 DEF Holding
  <2>4. NeverUnderBothKeys'
    BY <1>1, <2>1, <2>2, <2>3 DEF KInv, TokensAreHeldOnce, NeverUnderBothKeys, Holding
  <2>5. OneSubmissionAtATime'
    BY <1>1, <2>3 DEF KInv, TokensAreHeldOnce, OneSubmissionAtATime
  <2> QED
    BY <1>1, <2>1, <2>3, <2>4, <2>5 DEF KInv, TokensAreHeldOnce
<1>6. HoldersAreBound'
  BY <1>1, <1>2 DEF KInv, TokensAreIssued, HoldersAreBound
<1> QED
  BY <1>3, <1>4, <1>5, <1>6 DEF KInv

\* A submission that moves on.
LEMMA SubmissionMoves ==
  ASSUME Types, NEW s \in Submissions,
         NEW state \in {"reserved", "releasing", "committed", "done", "failed"},
         submission' = [submission EXCEPT ![s].pc = state]
  PROVE  /\ submission' \in [Submissions -> SubmissionStates]
         /\ \A o \in Submissions \ {s} : submission'[o] = submission[o]
         /\ submission'[s].pc = state
         /\ submission'[s].token = submission[s].token
         /\ submission'[s].session = submission[s].session
<1> DEFINE q == [submission[s] EXCEPT !.pc = state]
<1>1. submission[s] \in SubmissionStates
  BY DEF Types
<1>2. q \in SubmissionStates
  BY <1>1, SubmissionFields
<1>3. q.pc = state /\ q.token = submission[s].token /\ q.session = submission[s].session
  BY <1>1 DEF SubmissionStates
<1>4. submission' = [submission EXCEPT ![s] = q]
  OBVIOUS
<1> HIDE DEF q
<1> QED
  BY <1>2, <1>3, <1>4 DEF Types

\* The steps of a submission, seen from its token.
SubmissionKeeps(s) ==
    /\ submission' \in [Submissions -> SubmissionStates]
    /\ \A o \in Submissions \ {s} : submission'[o] = submission[o]
    /\ submission'[s].token = submission[s].token
    /\ submission'[s].session = submission[s].session
    /\ submission[s].pc # "idle" /\ submission'[s].pc # "idle"
    /\ UNCHANGED <<now, replay, attempt, session>>
    /\ cookie' \in {cookie, NoToken}

LEMMA ReserveTokenKeepsKInv ==
  ASSUME KInv, NEW s \in Submissions, ReserveToken(s)
  PROVE  KInv'
<1> DEFINE t == submission[s].token
<1>0. Types /\ submission[s].pc = "sent" /\ t \in Attempts /\ Issued(t)
  BY DEF KInv, TokensAreIssued, ReserveToken
<1>1. CASE TokenFree(t)
  <2>1. PICK state \in {"reserved", "failed"} :
           /\ submission' = [submission EXCEPT ![s].pc = state]
           /\ state = "reserved" => attempt[t].session = submission[s].session
    BY <1>1 DEF ReserveToken, Bound
  <2>2. SubmissionKeeps(s) /\ submission'[s].pc = state
    BY <1>0, <2>1, SubmissionMoves DEF ReserveToken, SubmissionKeeps, browserVars
  <2>3. tokenKey' = tokenKey \ {t} /\ reservation' = reservation \cup {t}
    BY <1>1 DEF ReserveToken
  <2>4. \A o \in Submissions : submission[o].token = t => ~Holding(o) /\ submission[o].pc # "done"
    BY <1>0, <1>1 DEF KInv, TokensAreHeldOnce, NeverUnderBothKeys, TokenFree
  <2> HIDE DEF t
  <2>5. Types'
    BY <1>0, <2>2, <2>3 DEF Types, SubmissionKeeps
  <2>6. TokensAreIssued'
    BY <1>0, <2>2, <2>3 DEF KInv, TokensAreIssued, SubmissionKeeps, Issued, t
  <2>7. TokensAreHeldOnce'
    BY <1>0, <2>2, <2>3, <2>4
    DEF KInv, TokensAreHeldOnce, NeverUnderBothKeys, OneSubmissionAtATime, SubmissionKeeps, Holding, t
  <2>8. HoldersAreBound'
    BY <2>1, <2>2 DEF KInv, HoldersAreBound, SubmissionKeeps, t
  <2> QED
    BY <2>5, <2>6, <2>7, <2>8 DEF KInv
<1>2. CASE ~TokenFree(t)
  <2>1. SubmissionKeeps(s) /\ submission'[s].pc = "failed" /\ UNCHANGED <<tokenKey, reservation>>
    BY <1>0, <1>2, SubmissionMoves DEF ReserveToken, SubmissionKeeps, browserVars
  <2>2. Types' /\ TokensAreIssued' /\ HoldersAreBound'
    BY <1>0, <2>1 DEF KInv, Types, TokensAreIssued, HoldersAreBound, SubmissionKeeps, Issued
  <2>3. TokensAreHeldOnce'
    BY <1>0, <2>1
    DEF KInv, TokensAreHeldOnce, NeverUnderBothKeys, OneSubmissionAtATime, SubmissionKeeps, Holding
  <2> QED
    BY <2>2, <2>3 DEF KInv
<1> QED
  BY <1>1, <1>2

\* The steps after the reservation: the submission acts on its token, hands it back
\* or gives it up.
LEMMA HolderStep ==
  ASSUME KInv, NEW s \in Submissions, Holding(s) \/ submission[s].pc = "sent",
         SubmissionKeeps(s),
         submission[s].token \in Attempts,
         submission'[s].pc \in {"committed", "releasing", "done", "failed"},
         submission[s].pc = "sent" => submission'[s].pc = "failed",
         reservation' \in {reservation, reservation \ {submission[s].token}},
         tokenKey' \ tokenKey \subseteq {submission[s].token},
         tokenKey \subseteq tokenKey',
         tokenKey' # tokenKey =>
            /\ submission[s].pc = "releasing" /\ submission'[s].pc = "failed"
            /\ reservation' = reservation \ {submission[s].token}
  PROVE  KInv'
<1> DEFINE t == submission[s].token
<1>0. Types /\ Issued(t)
  BY DEF KInv, TokensAreIssued, Holding
<1>1. Types'
  BY <1>0 DEF Types, SubmissionKeeps
<1>2. TokensAreIssued'
  BY <1>0 DEF KInv, TokensAreIssued, SubmissionKeeps, Issued
<1>3. HoldersAreBound'
  BY DEF KInv, HoldersAreBound, SubmissionKeeps
<1>4. \A o \in Submissions \ {s} : Holding(s) /\ submission[o].token = t =>
         ~Holding(o) /\ submission[o].pc # "done"
  BY DEF KInv, TokensAreHeldOnce, OneSubmissionAtATime
<1>5. Holding(s) => t \notin tokenKey
  BY DEF KInv, TokensAreHeldOnce, NeverUnderBothKeys
<1>6. \A o \in Submissions \ {s} : Holding(o)' <=> Holding(o)
  BY DEF SubmissionKeeps, Holding
<1>7. Holding(s)' => Holding(s) /\ tokenKey' = tokenKey
  BY DEF SubmissionKeeps, Holding
<1>8. NeverUnderBothKeys'
  BY <1>4, <1>5, <1>6, <1>7
  DEF KInv, TokensAreHeldOnce, NeverUnderBothKeys, SubmissionKeeps, Holding
<1>9. OneSubmissionAtATime'
  BY <1>6, <1>7 DEF KInv, TokensAreHeldOnce, OneSubmissionAtATime, SubmissionKeeps
<1>10. ASSUME NEW d \in Submissions, submission'[d].pc = "done"
       PROVE  /\ submission'[d].token \notin tokenKey'
              /\ \A o \in Submissions :
                    submission'[o].token = submission'[d].token => ~Holding(o)'
  <2>1. CASE d = s
    BY <1>10, <2>1, <1>4, <1>5, <1>6 DEF SubmissionKeeps, Holding
  <2>2. CASE d # s
    BY <1>10, <2>2, <1>4, <1>6, <1>7 DEF KInv, TokensAreHeldOnce, SubmissionKeeps, Holding
  <2> QED
    BY <2>1, <2>2
<1>11. TokensAreHeldOnce'
  BY <1>8, <1>9, <1>10 DEF TokensAreHeldOnce
<1> QED
  BY <1>1, <1>2, <1>3, <1>11 DEF KInv

LEMMA SubmitKeepsKInv ==
  ASSUME KInv, NEW s \in Submissions, Submit(s)
  PROVE  KInv'
<1> USE DEF redisVars, browserVars, voteVars
<1>0. Types /\ (submission[s].pc # "idle" => submission[s].token \in Attempts)
  BY DEF KInv, TokensAreIssued
<1>1. CASE ReserveToken(s)
  BY <1>1, ReserveTokenKeepsKInv
<1>2. CASE CastVote(s)
  <2>1. SubmissionKeeps(s) /\ submission'[s].pc = "committed"
    BY <1>0, <1>2, SubmissionMoves DEF CastVote, SubmissionKeeps
  <2> QED
    BY <1>0, <1>2, <2>1, HolderStep DEF CastVote, Holding
<1>3. CASE CastVoteUnacknowledged(s)
  <2>1. SubmissionKeeps(s) /\ submission'[s].pc = "releasing"
    BY <1>0, <1>3, SubmissionMoves DEF CastVoteUnacknowledged, SubmissionKeeps
  <2> QED
    BY <1>0, <1>3, <2>1, HolderStep DEF CastVoteUnacknowledged, Holding
<1>4. CASE CastVoteFails(s)
  <2>1. SubmissionKeeps(s) /\ submission'[s].pc = "releasing"
    BY <1>0, <1>4, SubmissionMoves DEF CastVoteFails, SubmissionKeeps
  <2> QED
    BY <1>0, <1>4, <2>1, HolderStep DEF CastVoteFails, Holding
<1>5. CASE Release(s)
  <2>1. SubmissionKeeps(s) /\ submission'[s].pc = "failed"
    BY <1>0, <1>5, SubmissionMoves DEF Release, SubmissionKeeps
  <2> QED
    BY <1>0, <1>5, <2>1, HolderStep DEF Release, Holding
<1>6. CASE Finalize(s)
  <2>1. SubmissionKeeps(s) /\ submission'[s].pc = "done"
    BY <1>0, <1>6, SubmissionMoves DEF Finalize, CookieCleared, SubmissionKeeps
  <2> QED
    BY <1>0, <1>6, <2>1, HolderStep DEF Finalize, Holding
<1>7. CASE SubmissionStops(s)
  <2>1. SubmissionKeeps(s) /\ submission'[s].pc = "failed"
    BY <1>0, <1>7, SubmissionMoves DEF SubmissionStops, SubmissionKeeps
  <2> QED
    BY <1>0, <1>7, <2>1, HolderStep DEF SubmissionStops, Holding
<1> QED
  BY <1>1, <1>2, <1>3, <1>4, <1>5, <1>6, <1>7 DEF Submit

LEMMA SendKeepsKInv ==
  ASSUME KInv, NEW s \in Submissions, Send(s)
  PROVE  KInv'
<1> DEFINE q == [pc |-> "sent", token |-> cookie, session |-> session]
<1>0. Types /\ cookie \in Attempts /\ Issued(cookie)
  BY DEF KInv, Types, TokensAreIssued, Send
<1>1. q \in SubmissionStates
  BY <1>0 DEF Types, SubmissionStates
<1>2. submission' = [submission EXCEPT ![s] = q]
  BY DEF Send
<1>3. UNCHANGED <<now, attempt, tokenKey, reservation, replay, cookie, session>>
  BY DEF Send, redisVars, browserVars
<1>4. /\ submission'[s].pc = "sent"
      /\ submission'[s].token = cookie
      /\ \A o \in Submissions \ {s} : submission'[o] = submission[o]
      /\ submission[s].pc = "idle"
  BY <1>0, <1>2 DEF Types, Send
<1> HIDE DEF q
<1>5. Types'
  BY <1>0, <1>1, <1>2, <1>3 DEF Types
<1>6. TokensAreIssued' /\ HoldersAreBound'
  BY <1>0, <1>3, <1>4 DEF KInv, TokensAreIssued, Issued, HoldersAreBound
<1>7. \A o \in Submissions :
         /\ Holding(o)' <=> Holding(o)
         /\ Holding(o) \/ submission[o].pc = "done" => o # s
  BY <1>4 DEF Holding
<1>8. NeverUnderBothKeys' /\ OneSubmissionAtATime'
  BY <1>3, <1>4, <1>7 DEF KInv, TokensAreHeldOnce, NeverUnderBothKeys, OneSubmissionAtATime
<1>9. ASSUME NEW d \in Submissions, submission'[d].pc = "done"
      PROVE  /\ submission'[d].token \notin tokenKey'
             /\ \A o \in Submissions :
                   submission'[o].token = submission'[d].token => ~Holding(o)'
  BY <1>3, <1>4, <1>7, <1>9 DEF KInv, TokensAreHeldOnce
<1> QED
  BY <1>5, <1>6, <1>8, <1>9 DEF KInv, TokensAreHeldOnce

\* The steps that only drop tokens, forget the cookie or let time pass.
LEMMA DroppingKeepsKInv ==
  ASSUME KInv, UNCHANGED <<attempt, submission>>,
         tokenKey' \subseteq tokenKey, reservation' \subseteq reservation,
         replay' \subseteq replay, cookie' \in {cookie, NoToken},
         session' \in Sessions, now' \in {now, now + 1}
  PROVE  KInv'
<1>1. Types'
  BY DEF KInv, Types
<1>2. TokensAreIssued' /\ HoldersAreBound'
  BY DEF KInv, TokensAreIssued, Issued, HoldersAreBound
<1>3. TokensAreHeldOnce'
  BY DEF KInv, TokensAreHeldOnce, NeverUnderBothKeys, OneSubmissionAtATime, Holding
<1> QED
  BY <1>1, <1>2, <1>3 DEF KInv

LEMMA StepKInv == KInv /\ [KioskNext]_kioskVars => KInv'
<1> SUFFICES ASSUME KInv, [KioskNext]_kioskVars PROVE KInv'
  OBVIOUS
<1> USE DEF redisVars, browserVars, voteVars
<1>0. session \in Sessions
  BY DEF KInv, Types
<1>1. CASE Cancel
  BY <1>0, <1>1, DroppingKeepsKInv DEF Cancel, CookieCleared
<1>2. CASE ContextFails
  BY <1>0, <1>2, DroppingKeepsKInv DEF ContextFails
<1>3. CASE SwitchSession
  BY <1>3, DroppingKeepsKInv DEF SwitchSession
<1>4. CASE Tick
  BY <1>0, <1>4, DroppingKeepsKInv DEF Tick
<1>5. ASSUME NEW v \in Voters, AttemptWindowEnds(v)
      PROVE  KInv'
  BY <1>0, <1>5, DroppingKeepsKInv DEF AttemptWindowEnds
<1>6. ASSUME NEW t \in Attempts, Expire(t)
      PROVE  KInv'
  BY <1>0, <1>6, DroppingKeepsKInv DEF Expire
<1>7. CASE UNCHANGED kioskVars
  BY <1>0, <1>7, DroppingKeepsKInv DEF kioskVars
<1> QED
  BY <1>1, <1>2, <1>3, <1>4, <1>5, <1>6, <1>7, AuthorizeKeepsKInv, SubmitKeepsKInv, SendKeepsKInv
  DEF KioskNext

\* Every reachable state satisfies KInv.
THEOREM KioskInvariant == KioskSpec => []KInv
<1> QED
  BY InitKInv, StepKInv, PTL DEF KioskSpec

\* OneSubmissionAtATime: one reservation admits one submission, whatever is
\* repeated, lost or left behind by a process that died.
THEOREM OneHolderPerAuthorization == KioskSpec => []OneSubmissionAtATime
<1>1. KInv => OneSubmissionAtATime
  BY DEF KInv, TokensAreHeldOnce
<1> QED
  BY <1>1, KioskInvariant, PTL

\* SpentTokenIsNotRestored: a submission that knows of its vote gives its token to
\* nobody else.
THEOREM SpentTokensStaySpent == KioskSpec => []SpentTokenIsNotRestored
<1>1. KInv => SpentTokenIsNotRestored
  BY DEF KInv, TokensAreHeldOnce, NeverUnderBothKeys, Holding, SpentTokenIsNotRestored
<1> QED
  BY <1>1, KioskInvariant, PTL

\* VotesComeFromTheAuthorizingSession: the binding asserted at the reservation still
\* holds when the vote commits.
THEOREM VotesAreBoundToTheSession == KioskSpec => VotesComeFromTheAuthorizingSession
<1>1. KInv /\ [KioskNext]_kioskVars =>
        [\A s \in Submissions :
            submission[s].pc = "reserved" /\ voteVars' # voteVars /\ submission'[s].pc # "reserved"
            => attempt[submission[s].token].session = submission[s].session]_kioskVars
  BY DEF KInv, HoldersAreBound
<1> QED
  BY <1>1, KioskInvariant, PTL DEF KioskSpec, VotesComeFromTheAuthorizingSession

-----------------------------------------------------------------------------
(* TOTP codes *)

\* The counter of a code is within a period of its validation.
CountersAreRecent ==
    \A a \in Attempts :
        attempt[a].pc \in {"validated", "stored", "issued", "answered"} =>
            /\ attempt[a].at <= now
            /\ attempt[a].counter <= attempt[a].at + 1
            /\ attempt[a].at <= attempt[a].counter + 1

\* A request that may still burn its code is younger than MaxLatency.
BurnsAreTimely ==
    \A a \in Attempts :
        attempt[a].pc \in {"validated", "stored"} => now <= attempt[a].at + MaxLatency

\* A burnt code is on record until no request can hold it any more.
BurntCodesAreRecorded ==
    /\ \A used \in replay : used.counter + 3 <= used.until
    /\ \A a \in Attempts :
          attempt[a].pc \in {"issued", "answered"} =>
             ReplayedStep(a) \/ attempt[a].counter + 3 <= now

\* No two requests hold a token for one code.
CodesAreBurntOnce ==
    \A a, b \in Attempts :
        a # b /\ EmailOf[a] = EmailOf[b]
        /\ attempt[a].pc \in {"issued", "answered"} /\ attempt[b].pc \in {"issued", "answered"}
        => attempt[a].counter # attempt[b].counter

TInv ==
    /\ KInv
    /\ CountersAreRecent
    /\ BurnsAreTimely
    /\ BurntCodesAreRecorded
    /\ CodesAreBurntOnce

LEMMA InitTInv == KioskInit => TInv
<1> SUFFICES ASSUME KioskInit PROVE TInv
  OBVIOUS
<1>1. \A a \in Attempts : attempt[a].pc = "idle"
  BY DEF KioskInit
<1> QED
  BY <1>1, InitKInv
  DEF KioskInit, TInv, CountersAreRecent, BurnsAreTimely, BurntCodesAreRecorded, CodesAreBurntOnce

\* An attempt that is not about to burn a code changes nothing that TInv says of
\* codes, as long as the records stay.
LEMMA CodesFrame ==
  ASSUME TInv, KInv', now' = now, replay \subseteq replay', replay' \subseteq replay,
         \A a \in Attempts :
            \/ attempt'[a] = attempt[a]
            \/ attempt'[a].pc \in {"counted", "failed"}
            \/ /\ attempt'[a].counter = attempt[a].counter /\ attempt'[a].at = attempt[a].at
               /\ \/ attempt[a].pc = "validated" /\ attempt'[a].pc = "stored"
                  \/ attempt[a].pc = "issued" /\ attempt'[a].pc = "answered"
  PROVE  TInv'
<1>1. CountersAreRecent' /\ BurnsAreTimely'
  BY DEF TInv, CountersAreRecent, BurnsAreTimely
<1>2. BurntCodesAreRecorded'
  BY DEF TInv, BurntCodesAreRecorded, ReplayedStep
<1>3. CodesAreBurntOnce'
  BY DEF TInv, CodesAreBurntOnce
<1> QED
  BY <1>1, <1>2, <1>3 DEF TInv

LEMMA AuthorizeKeepsTInv ==
  ASSUME MaxLatency <= 1, TInv, NEW a \in Attempts, Authorize(a)
  PROVE  TInv'
<1> USE DEF redisVars, browserVars, voteVars
<1>0. /\ KInv' /\ Types /\ attempt[a] \in AttemptStates
      /\ \A b \in Attempts \ {a} : attempt'[b] = attempt[b]
      /\ now' = now
  BY AuthorizeKeepsKInv, AuthorizeMoves DEF TInv, KInv, Types, AttemptMoves
<1>1. CASE ReserveAttempt(a)
  <2>1. attempt'[a].pc \in {"counted", "failed"} /\ replay' = replay
    BY <1>0, <1>1 DEF ReserveAttempt, Types, AttemptStates
  <2> QED
    BY <1>0, <2>1, CodesFrame
<1>2. CASE Validate(a)
  <2>1. PICK counter \in {now - 1, now, now + 1} :
           attempt' = [attempt EXCEPT ![a].pc = "validated", ![a].counter = counter,
                                      ![a].at = now]
    BY <1>2 DEF Validate
  <2>2. /\ attempt'[a].pc = "validated"
        /\ attempt'[a].counter = counter
        /\ attempt'[a].at = now
    BY <1>0, <2>1 DEF Types, AttemptStates
  <2>3. replay' = replay
    BY <1>2 DEF Validate
  <2>4. now \in Nat /\ now <= counter + 1 /\ counter <= now + 1
    BY <1>0 DEF Types
  <2>5. CountersAreRecent' /\ BurnsAreTimely'
    BY <1>0, <2>2, <2>4 DEF TInv, CountersAreRecent, BurnsAreTimely
  <2>6. BurntCodesAreRecorded' /\ CodesAreBurntOnce'
    BY <1>0, <2>2, <2>3 DEF TInv, BurntCodesAreRecorded, CodesAreBurntOnce, ReplayedStep
  <2> QED
    BY <1>0, <2>5, <2>6 DEF TInv
<1>3. CASE StoreToken(a)
  <2>1. /\ attempt[a].pc = "validated" /\ replay' = replay
        /\ attempt'[a] = [attempt[a] EXCEPT !.pc = "stored"]
    BY <1>0, <1>3, PcMoves DEF StoreToken
  <2> QED
    BY <1>0, <2>1, CodesFrame DEF AttemptStates
<1>4. CASE BurnTotp(a) /\ ReplayedStep(a)
  <2>1. attempt'[a] = [attempt[a] EXCEPT !.pc = "failed"] /\ replay' = replay
    BY <1>0, <1>4, PcMoves DEF BurnTotp
  <2> QED
    BY <1>0, <2>1, CodesFrame DEF AttemptStates
<1>5. ASSUME attempt[a].pc = "stored", replay' = ReplayKeys(a)
      PROVE  /\ replay \subseteq replay'
             /\ \E used \in replay' :
                   used.voter = EmailOf[a] /\ used.counter = attempt[a].counter
             /\ \A used \in replay' : used.counter + 3 <= used.until
  <2> DEFINE burnt == [voter |-> EmailOf[a], counter |-> attempt[a].counter,
                       until |-> now + TotpReplayPeriods]
  <2>1. replay' = replay \cup {burnt}
    BY <1>5 DEF ReplayKeys
  <2>2. burnt.counter + 3 <= burnt.until
    BY <1>0, <1>5 DEF TInv, CountersAreRecent, Types, AttemptStates, TotpReplayPeriods
  <2>3. burnt.voter = EmailOf[a] /\ burnt.counter = attempt[a].counter
    OBVIOUS
  <2> HIDE DEF burnt
  <2> QED
    BY <2>1, <2>2, <2>3 DEF TInv, BurntCodesAreRecorded
<1>6. CASE BurnTotp(a) /\ ~ReplayedStep(a)
  <2>1. /\ attempt[a].pc = "stored" /\ replay' = ReplayKeys(a)
        /\ attempt'[a] = [attempt[a] EXCEPT !.pc = "issued"]
    BY <1>0, <1>6, PcMoves DEF BurnTotp
  <2>2. /\ attempt'[a].pc = "issued"
        /\ attempt'[a].counter = attempt[a].counter
        /\ attempt'[a].at = attempt[a].at
    BY <1>0, <2>1 DEF AttemptStates
  <2>3. CountersAreRecent' /\ BurnsAreTimely'
    BY <1>0, <2>1, <2>2 DEF TInv, CountersAreRecent, BurnsAreTimely
  <2>4. BurntCodesAreRecorded'
    <3>1. ReplayedStep(a)'
      BY <1>5, <2>1, <2>2 DEF ReplayedStep
    <3>2. ASSUME NEW b \in Attempts \ {a}, attempt[b].pc \in {"issued", "answered"}
          PROVE  ReplayedStep(b)' \/ attempt'[b].counter + 3 <= now'
      <4>1. ReplayedStep(b) \/ attempt[b].counter + 3 <= now
        BY <3>2 DEF TInv, BurntCodesAreRecorded
      <4>2. ReplayedStep(b) => ReplayedStep(b)'
        BY <1>0, <1>5, <2>1 DEF ReplayedStep
      <4> QED
        BY <1>0, <4>1, <4>2
    <3>3. \A used \in replay' : used.counter + 3 <= used.until
      BY <1>5, <2>1
    <3> QED
      BY <1>0, <3>1, <3>2, <3>3 DEF BurntCodesAreRecorded
  <2>5. ASSUME NEW b \in Attempts \ {a}, EmailOf[b] = EmailOf[a],
               attempt[b].pc \in {"issued", "answered"}
        PROVE  attempt[b].counter # attempt[a].counter
    <3> SUFFICES ASSUME attempt[b].counter = attempt[a].counter PROVE FALSE
      OBVIOUS
    <3>1. ~ReplayedStep(b)
      BY <1>6, <2>5 DEF ReplayedStep
    <3>2. attempt[a].counter + 3 <= now
      BY <2>5, <3>1 DEF TInv, BurntCodesAreRecorded
    <3>3. now <= attempt[a].at + 1 /\ attempt[a].at <= attempt[a].counter + 1
      BY <1>0, <2>1 DEF TInv, CountersAreRecent, BurnsAreTimely, Types, AttemptStates
    <3> QED
      BY <1>0, <3>2, <3>3 DEF Types, AttemptStates
  <2>6. CodesAreBurntOnce'
    BY <1>0, <2>2, <2>5 DEF TInv, CodesAreBurntOnce
  <2> QED
    BY <1>0, <2>3, <2>4, <2>6 DEF TInv
<1>7. CASE BurnTotpFails(a)
  <2>1. /\ attempt[a].pc = "stored" /\ replay' \in {replay, ReplayKeys(a)}
        /\ attempt'[a] = [attempt[a] EXCEPT !.pc = "failed"]
    BY <1>0, <1>7, PcMoves DEF BurnTotpFails
  <2>2. attempt'[a].pc = "failed"
    BY <1>0, <2>1 DEF AttemptStates
  <2>3. CASE replay' = replay
    BY <1>0, <2>2, <2>3, CodesFrame
  <2>4. CASE replay' = ReplayKeys(a)
    <3>1. BurntCodesAreRecorded'
      BY <1>0, <1>5, <2>1, <2>2, <2>4 DEF TInv, BurntCodesAreRecorded, ReplayedStep
    <3>2. CountersAreRecent' /\ BurnsAreTimely' /\ CodesAreBurntOnce'
      BY <1>0, <2>2 DEF TInv, CountersAreRecent, BurnsAreTimely, CodesAreBurntOnce
    <3> QED
      BY <1>0, <3>1, <3>2 DEF TInv
  <2> QED
    BY <2>1, <2>3, <2>4
<1>8. CASE Answer(a)
  <2>1. /\ attempt[a].pc = "issued" /\ replay' = replay
        /\ attempt'[a] = [attempt[a] EXCEPT !.pc = "answered"]
    BY <1>0, <1>8, PcMoves DEF Answer
  <2> QED
    BY <1>0, <2>1, CodesFrame DEF AttemptStates
<1>9. CASE RetirePreviousFails(a) \/ AttemptStops(a)
  <2>1. attempt'[a] = [attempt[a] EXCEPT !.pc = "failed"] /\ replay' = replay
    BY <1>0, <1>9, PcMoves DEF RetirePreviousFails, AttemptStops
  <2> QED
    BY <1>0, <2>1, CodesFrame DEF AttemptStates
<1> QED
  BY <1>1, <1>2, <1>3, <1>4, <1>6, <1>7, <1>8, <1>9 DEF Authorize

LEMMA TickKeepsTInv ==
  ASSUME TInv, Tick
  PROVE  TInv'
<1>1. KInv'
  BY StepKInv DEF TInv, KioskNext
<1>2. /\ attempt' = attempt /\ now' = now + 1 /\ now \in Nat
      /\ replay' = {used \in replay : used.until > now + 1}
  BY DEF Tick, TInv, KInv, Types
<1>3. \A a \in Attempts : attempt[a].counter \in Nat /\ attempt[a].at \in Nat
  BY DEF TInv, KInv, Types, AttemptStates
<1>4. \A used \in replay : used.counter \in Nat /\ used.until \in Nat
  BY DEF TInv, KInv, Types
<1>5. CountersAreRecent'
  BY <1>2, <1>3 DEF TInv, CountersAreRecent
<1>6. BurnsAreTimely'
  BY <1>2, <1>3 DEF TInv, BurnsAreTimely, Tick
<1>7. BurntCodesAreRecorded'
  <2>1. \A used \in replay' : used.counter + 3 <= used.until
    BY <1>2 DEF TInv, BurntCodesAreRecorded
  <2>2. ASSUME NEW a \in Attempts, attempt[a].pc \in {"issued", "answered"}
        PROVE  ReplayedStep(a)' \/ attempt[a].counter + 3 <= now + 1
    <3>1. CASE attempt[a].counter + 3 <= now
      BY <1>2, <1>3, <3>1
    <3>2. CASE ReplayedStep(a)
      <4>1. PICK used \in replay : used.voter = EmailOf[a] /\ used.counter = attempt[a].counter
        BY <3>2 DEF ReplayedStep
      <4>2. used.counter + 3 <= used.until
        BY <4>1 DEF TInv, BurntCodesAreRecorded
      <4>3. CASE used.until > now + 1
        BY <1>2, <4>1, <4>3 DEF ReplayedStep
      <4>4. CASE ~(used.until > now + 1)
        BY <1>2, <1>4, <4>1, <4>2, <4>4
      <4> QED
        BY <4>3, <4>4
    <3> QED
      BY <2>2, <3>1, <3>2 DEF TInv, BurntCodesAreRecorded
  <2> QED
    BY <1>2, <2>1, <2>2 DEF BurntCodesAreRecorded
<1>8. CodesAreBurntOnce'
  BY <1>2 DEF TInv, CodesAreBurntOnce
<1> QED
  BY <1>1, <1>5, <1>6, <1>7, <1>8 DEF TInv

LEMMA StepTInv == MaxLatency <= 1 /\ TInv /\ [KioskNext]_kioskVars => TInv'
<1> SUFFICES ASSUME MaxLatency <= 1, TInv, [KioskNext]_kioskVars PROVE TInv'
  OBVIOUS
<1>1. KInv'
  BY StepKInv DEF TInv
<1>2. ASSUME UNCHANGED <<now, attempt, replay>> PROVE TInv'
  BY <1>1, <1>2, CodesFrame
<1>3. ASSUME NEW s \in Submissions, Send(s) \/ Submit(s) PROVE TInv'
  BY <1>2, <1>3 DEF Send, Submit, ReserveToken, CastVote, CastVoteUnacknowledged,
     CastVoteFails, Release, Finalize, SubmissionStops, redisVars
<1>4. CASE Cancel \/ ContextFails \/ SwitchSession \/ UNCHANGED kioskVars
  BY <1>2, <1>4 DEF Cancel, ContextFails, SwitchSession, redisVars, kioskVars
<1>5. ASSUME NEW v \in Voters, AttemptWindowEnds(v) PROVE TInv'
  BY <1>2, <1>5 DEF AttemptWindowEnds
<1>6. ASSUME NEW t \in Attempts, Expire(t) PROVE TInv'
  BY <1>2, <1>6 DEF Expire
<1> QED
  BY <1>3, <1>4, <1>5, <1>6, TickKeepsTInv, AuthorizeKeepsTInv DEF KioskNext

\* TotpAuthorizesOnce: as long as an authorize request ends within a period of its
\* validation, a code authorizes once, although requests overlap and their answers
\* and calls are lost.
THEOREM CodesAuthorizeOnce ==
  ASSUME MaxLatency <= 1
  PROVE  KioskSpec => []TotpAuthorizesOnce
<1>1. TInv /\ [KioskNext]_kioskVars => TInv'
  BY StepTInv
<1>2. TInv => TotpAuthorizesOnce
  BY DEF TInv, CodesAreBurntOnce, TotpAuthorizesOnce
<1> QED
  BY <1>1, <1>2, InitTInv, PTL DEF KioskSpec
=============================================================================
