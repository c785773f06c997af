------------------------ MODULE CacicElectionProofs ------------------------
(***************************************************************************)
(* Proofs about CacicElection for every set of submitters, slates, names,  *)
(* voters and requests.                                                    *)
(***************************************************************************)
EXTENDS CacicElection, TLAPS

USE SlatesAssumption, OptionsAssumption

\* A vote element offers options of the poll, whatever the slates are.
LEMMA VoteElementType ==
  ASSUME NEW rows \in Tables
  PROVE  VoteElement(rows) \subseteq Options \cup {Blank}
<1> SUFFICES ASSUME NEW s \in Listed(rows)
             PROVE  [slate |-> s, name |-> rows[s].name] \in Options
  BY DEF VoteElement
<1>1. s \in Slates /\ rows[s] \in SlateRows
  BY DEF Listed, Present, Tables
<1> QED
  BY <1>1 DEF SlateRows, Options

\* The same of what updatePoll stores.
LEMMA ElementForType ==
  ASSUME NEW phase, NEW rows \in Tables
  PROVE  ElementFor(phase, rows) \subseteq Options \cup {Blank}
BY VoteElementType DEF ElementFor

\* The invariant holds in a new poll.
LEMMA InitIInv == Init => IInv
<1> SUFFICES ASSUME Init PROVE IInv
  OBVIOUS
<1>1. NoSlates \in Tables
  BY DEF NoSlates, Tables
<1>2. TypeOK
  <2>1. element \subseteq Options \cup {Blank}
    BY <1>1, ElementForType DEF Init
  <2> QED
    BY <1>1, <2>1 DEF Init, TypeOK, Polls, Phases, Idle, Waiting
<1>3. Present(slates) = {} /\ ~HasVotes
  BY DEF Init, Present, NoSlates, HasVotes
<1>4. \A r \in Requests : WorkCurrent(r)
  BY DEF Init, WorkCurrent, Idle
<1>5. \A v \in Voters : VotingCurrent(v)
  BY DEF Init, VotingCurrent, Waiting
<1>6. BallotListsTheSlates /\ SlateNamesAreUnique
  BY <1>3 DEF Init, BallotListsTheSlates, SlateNamesAreUnique
<1>7. VotesFitTheBallot /\ VotersAreEnrolled /\ TransitionedElectionsStayReady
  BY <1>3 DEF Init, VotesFitTheBallot, VotersAreEnrolled, HasVotes, TransitionedElectionsStayReady
<1> QED
  BY <1>2, <1>3, <1>4, <1>5, <1>6, <1>7 DEF IInv, Init

\* Open slate transactions only learn that they missed something.
LEMMA WorkMissesFact ==
  ASSUME TypeOK, NEW missing \in [Phases -> SUBSET (Slates \cup Reads)],
         NEW r \in Requests
  PROVE  /\ WorkMisses(missing)[r].pc = work[r].pc
         /\ WorkMisses(missing)[r].phase = work[r].phase
         /\ WorkMisses(missing)[r].seen = work[r].seen
         /\ work[r].missed \subseteq WorkMisses(missing)[r].missed
         /\ work[r].pc # "idle" =>
              WorkMisses(missing)[r].missed = work[r].missed \cup missing[work[r].phase]
         /\ WorkMisses(missing) \in [Requests ->
              [pc : {"idle", "submitting", "administering"}, phase : Phases,
               seen : Tables, missed : SUBSET (Slates \cup Reads)]]
BY DEF WorkMisses, TypeOK

\* Open votes only become stale.
LEMMA VotesStaleFact ==
  ASSUME TypeOK
  PROVE  /\ VotesStale \in [Voters -> [pc : {"idle", "voting"},
                              element : SUBSET (Options \cup {Blank}), stale : BOOLEAN]]
         /\ \A v \in Voters : VotesStale[v].pc = "voting" => VotesStale[v].stale
BY DEF VotesStale, TypeOK

\* What each commit of a slate transaction does: it writes one row, and the vote
\* element when its snapshot was in the voting phase.
SlateCommit(r, s, row, named) ==
    /\ work[r].pc # "idle"
    /\ CommitAllowed(r, s, named)
    /\ slates' = [slates EXCEPT ![s] = row]
    /\ Refresh(r, s, row)
    /\ SlateWritten(r, s, named)
    /\ UNCHANGED <<poll, window, enrolled, votes, transitioned>>

\* The row keeps the names unique: another name is free in the snapshot, and an
\* operation that sets no name writes the name it found.
NameKept(r, s, row, named) ==
    IF named THEN row \in SlateRows /\ NameFree(r, s, row.name)
             ELSE row = NoSlate \/ (s \in Present(work[r].seen) /\ row.name = work[r].seen[s].name)

\* The parts of the tables a slate commit hides from the transactions of others.
Hidden(r, s, named) ==
    {s} \cup (IF named THEN {"names"} ELSE {}) \cup BallotIf(work[r].phase = "ELECTION")

\* A commit whose transaction is current keeps the invariant.
LEMMA SlateCommitIInv ==
  ASSUME IInv, NEW r \in Requests, NEW s \in Slates, NEW row \in SlateRows \cup {NoSlate},
         NEW named \in BOOLEAN, SlateCommit(r, s, row, named), NameKept(r, s, row, named)
  PROVE  IInv'
<1>a. TypeOK /\ WorkCurrent(r)
  BY DEF IInv
<1> DEFINE missing == [phase \in Phases |-> Hidden(r, s, named)]
<1>b. missing \in [Phases -> SUBSET (Slates \cup Reads)]
  BY DEF Hidden, BallotIf, Reads
<1>c. /\ work' = [WorkMisses(missing) EXCEPT ![r] = Idle]
      /\ voting' = IF work[r].phase = "ELECTION" THEN VotesStale ELSE voting
  BY DEF SlateCommit, SlateWritten, Hidden
<1> HIDE DEF missing
<1>d. /\ work[r].missed \cap {s, "ballot"} = {}
      /\ named => "names" \notin work[r].missed
      /\ work[r].pc # "idle"
      /\ slates' = [slates EXCEPT ![s] = row]
      /\ UNCHANGED <<poll, window, enrolled, votes, transitioned>>
  BY DEF SlateCommit, CommitAllowed
<1>1. slates' \in Tables
  BY <1>a, <1>d DEF TypeOK, Tables
<1>2. /\ poll.status # "DELETED" /\ ~HasVotes /\ ~transitioned
      /\ work[r].phase = "ELECTION" <=> poll.phase = "ELECTION"
      /\ work[r].phase = "ELECTION" => work[r].seen = slates
      /\ work[r].seen[s] = slates[s]
      /\ named => \A t \in Present(slates) :
                     t \in Present(work[r].seen) /\ work[r].seen[t].name = slates[t].name
  BY <1>a, <1>d DEF WorkCurrent
<1>3. element' = ElementFor(poll.phase, slates')
  <2>1. CASE work[r].phase = "ELECTION"
    BY <2>1, <1>2, <1>d DEF SlateCommit, Refresh, ElementFor
  <2>2. CASE work[r].phase # "ELECTION"
    <3>1. element = ElementFor(poll.phase, slates)
      BY <1>2 DEF IInv, BallotListsTheSlates
    <3> QED
      BY <2>2, <3>1, <1>2 DEF SlateCommit, Refresh, ElementFor
  <2> QED
    BY <2>1, <2>2
<1>4. TypeOK'
  <2>1. element' \subseteq Options \cup {Blank}
    BY <1>1, <1>3, ElementForType
  <2>2. work' \in [Requests -> [pc : {"idle", "submitting", "administering"}, phase : Phases,
                       seen : Tables, missed : SUBSET (Slates \cup Reads)]]
    <3>1. Idle \in [pc : {"idle", "submitting", "administering"}, phase : Phases,
                    seen : Tables, missed : SUBSET (Slates \cup Reads)]
      BY DEF Idle, NoSlates, Phases, Tables
    <3>2. WorkMisses(missing) \in [Requests -> [pc : {"idle", "submitting", "administering"},
                phase : Phases, seen : Tables, missed : SUBSET (Slates \cup Reads)]]
      BY <1>a, <1>b, WorkMissesFact
    <3> QED
      BY <3>1, <3>2, <1>c
  <2>3. voting' \in [Voters -> [pc : {"idle", "voting"},
                       element : SUBSET (Options \cup {Blank}), stale : BOOLEAN]]
    BY <1>a, <1>c, VotesStaleFact DEF TypeOK
  <2> QED
    BY <1>a, <1>1, <1>d, <2>1, <2>2, <2>3 DEF TypeOK
<1>5. ~HasVotes'
  BY <1>2, <1>d DEF HasVotes
<1>6. \A t \in Slates \ {s} : slates'[t] = slates[t]
  BY <1>a, <1>d DEF TypeOK, Tables
<1>7. slates'[s] = row
  BY <1>a, <1>d DEF TypeOK, Tables
<1>8. ASSUME NEW q \in Requests
      PROVE  WorkCurrent(q)'
  <2>1. CASE q = r
    <3>1. work'[q] = Idle
      BY <2>1, <1>a, <1>b, <1>c, WorkMissesFact
    <3> QED
      BY <3>1 DEF WorkCurrent, Idle
  <2>2. CASE q # r
    <3>1. WorkCurrent(q)
      BY DEF IInv
    <3>2. /\ work'[q].pc = work[q].pc
          /\ work'[q].phase = work[q].phase
          /\ work'[q].seen = work[q].seen
          /\ work[q].missed \subseteq work'[q].missed
          /\ work[q].pc # "idle" => Hidden(r, s, named) \subseteq work'[q].missed
      <4>1. work'[q] = WorkMisses(missing)[q]
        BY <2>2, <1>c, <1>a, <1>b, WorkMissesFact
      <4>2. work[q].phase \in Phases
        BY <1>a DEF TypeOK
      <4>3. missing[work[q].phase] = Hidden(r, s, named)
        BY <4>2 DEF missing
      <4> QED
        BY <4>1, <4>3, <1>a, <1>b, WorkMissesFact
    <3>3. work'[q].pc = "submitting" => work'[q].phase = "SLATE_SUBMISSION"
      BY <3>1, <3>2 DEF WorkCurrent
    <3>4. ASSUME work'[q].pc # "idle", "ballot" \notin work'[q].missed
          PROVE  /\ work'[q].phase # "ELECTION" /\ poll.phase # "ELECTION"
                 /\ \A t \in Slates \ work'[q].missed : work'[q].seen[t] = slates'[t]
                 /\ "names" \notin work'[q].missed =>
                      \A t \in Present(slates') :
                         t \in Present(work'[q].seen) /\ work'[q].seen[t].name = slates'[t].name
      <4>1. work[q].pc # "idle" /\ "ballot" \notin work[q].missed
        BY <3>2, <3>4
      <4>2. s \in work'[q].missed /\ work[r].phase # "ELECTION"
        BY <3>2, <3>4, <4>1 DEF Hidden, BallotIf
      <4>3. work'[q].phase # "ELECTION" /\ poll.phase # "ELECTION"
        BY <4>1, <4>2, <3>1, <3>2, <1>2 DEF WorkCurrent
      <4>4. \A t \in Slates \ work'[q].missed : work'[q].seen[t] = slates'[t]
        BY <4>1, <4>2, <3>1, <3>2, <1>6 DEF WorkCurrent
      <4>5. ASSUME "names" \notin work'[q].missed, NEW t \in Present(slates')
            PROVE  t \in Present(work'[q].seen) /\ work'[q].seen[t].name = slates'[t].name
        <5>1. ~named
          BY <4>5, <4>1, <3>2 DEF Hidden
        <5>2. t \in Present(slates) /\ slates'[t].name = slates[t].name
          BY <5>1, <1>2, <1>6, <1>7 DEF NameKept, Present
        <5>3. t \in Present(work[q].seen) /\ work[q].seen[t].name = slates[t].name
          BY <5>2, <4>1, <4>5, <3>1, <3>2 DEF WorkCurrent
        <5> QED
          BY <5>2, <5>3, <3>2
      <4> QED
        BY <4>3, <4>4, <4>5
    <3>5. poll' = poll /\ poll.status # "DELETED" /\ ~transitioned'
      BY <1>2, <1>d
    <3> QED
      BY <3>3, <3>4, <3>5, <1>5 DEF WorkCurrent
  <2> QED
    BY <2>1, <2>2
<1>9. ASSUME NEW v \in Voters
      PROVE  VotingCurrent(v)'
  <2>1. VotingCurrent(v)
    BY DEF IInv
  <2>2. CASE work[r].phase = "ELECTION"
    BY <2>2, <1>a, <1>c, VotesStaleFact DEF VotingCurrent
  <2>3. CASE work[r].phase # "ELECTION"
    BY <2>1, <2>3, <1>c, <1>2 DEF VotingCurrent
  <2> QED
    BY <2>2, <2>3
<1>10. SlateNamesAreUnique'
  <2> SUFFICES ASSUME NEW t \in Present(slates'), NEW u \in Present(slates'),
                      slates'[t].name = slates'[u].name, t # u
               PROVE  FALSE
    BY DEF SlateNamesAreUnique, Present
  <2>1. \A x \in Present(slates') \ {s} : x \in Present(slates) /\ slates'[x] = slates[x]
    BY <1>6 DEF Present
  <2>2. s \in Present(slates') => row # NoSlate
    BY <1>7 DEF Present
  <2>3. ASSUME NEW x \in Present(slates') \ {s}, s \in Present(slates')
        PROVE  slates[x].name # row.name
    <3>1. CASE named
      <4>1. x \in Present(work[r].seen) \ {s} /\ work[r].seen[x].name = slates[x].name
        BY <3>1, <2>1, <1>2
      <4> QED
        BY <4>1, <3>1 DEF NameKept, NameFree
    <3>2. CASE ~named
      <4>1. s \in Present(slates) /\ row.name = slates[s].name
        BY <3>2, <2>2, <2>3, <1>2 DEF NameKept, Present
      <4> QED
        BY <4>1, <2>1 DEF IInv, SlateNamesAreUnique
    <3> QED
      BY <3>1, <3>2
  <2> QED
    BY <2>1, <2>3, <1>7 DEF IInv, SlateNamesAreUnique
<1>11. BallotListsTheSlates'
  BY <1>3, <1>d DEF BallotListsTheSlates
<1>12. VotesFitTheBallot' /\ VotersAreEnrolled' /\ TransitionedElectionsStayReady'
  BY <1>2, <1>5, <1>d DEF VotesFitTheBallot, VotersAreEnrolled, HasVotes,
     TransitionedElectionsStayReady
<1> QED
  BY <1>2, <1>4, <1>5, <1>8, <1>9, <1>10, <1>11, <1>12, <1>d DEF IInv

\* submitCacicElectionSlate
LEMMA SubmitSlateIInv ==
  ASSUME IInv, NEW r \in Requests, NEW s \in Slates, NEW name \in Names, SubmitSlate(r, s, name)
  PROVE  IInv'
<1> DEFINE row == [name |-> name, status |-> "PENDING", enabled |-> TRUE]
<1>1. row \in SlateRows
  BY DEF SlateRows
<1>2. work[r].phase = "SLATE_SUBMISSION"
  BY DEF IInv, WorkCurrent, SubmitSlate
<1>3. SlateCommit(r, s, row, TRUE)
  BY <1>2 DEF SubmitSlate, SlateCommit, Refresh
<1>4. NameKept(r, s, row, TRUE)
  BY <1>1 DEF SubmitSlate, NameKept
<1> QED
  BY <1>1, <1>3, <1>4, SlateCommitIInv

\* The operations of the administration
LEMMA AdminIInv ==
  ASSUME IInv, NEW r \in Requests, NEW s \in Slates,
         \/ \E row \in SlateRows : CreateSlate(r, s, row) \/ UpdateSlate(r, s, row)
         \/ RejectSlate(r, s)
         \/ \E enabled \in BOOLEAN : EnableSlate(r, s, enabled)
         \/ DeleteSlate(r, s)
  PROVE  IInv'
<1>1. ASSUME NEW row \in SlateRows \cup {NoSlate}, NEW named \in BOOLEAN,
             AdminWrites(r, s, row, named), NameKept(r, s, row, named)
      PROVE  IInv'
  <2>1. SlateCommit(r, s, row, named)
    BY <1>1 DEF AdminWrites, SlateCommit
  <2> QED
    BY <1>1, <2>1, SlateCommitIInv
<1>2. s \in Present(work[r].seen) => work[r].seen[s] \in SlateRows
  BY DEF IInv, TypeOK, Tables, Present
<1>3. CASE \E row \in SlateRows : CreateSlate(r, s, row) \/ UpdateSlate(r, s, row)
  <2>1. PICK row \in SlateRows : CreateSlate(r, s, row) \/ UpdateSlate(r, s, row)
    BY <1>3
  <2>2. AdminWrites(r, s, row, TRUE) /\ NameKept(r, s, row, TRUE)
    BY <2>1 DEF CreateSlate, UpdateSlate, NameKept
  <2> QED
    BY <1>1, <2>2
<1>4. CASE RejectSlate(r, s)
  <2> DEFINE row == [work[r].seen[s] EXCEPT !.status = "REJECTED", !.enabled = FALSE]
  <2>1. row \in SlateRows /\ row.name = work[r].seen[s].name /\ s \in Present(work[r].seen)
    BY <1>2, <1>4 DEF RejectSlate, SlateRows
  <2>2. AdminWrites(r, s, row, FALSE) /\ NameKept(r, s, row, FALSE)
    BY <2>1, <1>4 DEF RejectSlate, NameKept
  <2> QED
    BY <1>1, <2>1, <2>2
<1>5. ASSUME NEW enabled \in BOOLEAN, EnableSlate(r, s, enabled)
      PROVE  IInv'
  <2> DEFINE row == [work[r].seen[s] EXCEPT !.enabled = enabled]
  <2>1. row \in SlateRows /\ row.name = work[r].seen[s].name /\ s \in Present(work[r].seen)
    BY <1>2, <1>5 DEF EnableSlate, SlateRows
  <2>2. AdminWrites(r, s, row, FALSE) /\ NameKept(r, s, row, FALSE)
    BY <2>1, <1>5 DEF EnableSlate, NameKept
  <2> QED
    BY <1>1, <2>1, <2>2
<1>6. CASE DeleteSlate(r, s)
  <2>1. AdminWrites(r, s, NoSlate, FALSE) /\ NameKept(r, s, NoSlate, FALSE)
    BY <1>6 DEF DeleteSlate, NameKept
  <2> QED
    BY <1>1, <2>1
<1> QED
  BY <1>3, <1>4, <1>5, <1>6

\* The parts of IInv that say nothing of open transactions.
RowsSafe ==
    /\ HasVotes => poll.status \in {"PUBLISHED", "CLOSED"}
    /\ transitioned => poll.phase = "ELECTION" /\ poll.status # "DRAFT"
    /\ BallotListsTheSlates
    /\ SlateNamesAreUnique
    /\ VotesFitTheBallot
    /\ VotersAreEnrolled
    /\ TransitionedElectionsStayReady

\* A step that leaves the tables alone leaves them safe.
LEMMA RowsSafeFrame ==
  ASSUME RowsSafe, UNCHANGED <<poll, slates, element, enrolled, votes, transitioned>>
  PROVE  RowsSafe'
BY DEF RowsSafe, HasVotes, BallotListsTheSlates, SlateNamesAreUnique, VotesFitTheBallot,
   VotersAreEnrolled, TransitionedElectionsStayReady, Present

\* The snapshot of a new slate transaction is current.
LEMMA BeginSlateChangeIInv ==
  ASSUME IInv, NEW r \in Requests, BeginSlateChange(r)
  PROVE  IInv'
<1>a. TypeOK /\ RowsSafe
  BY DEF IInv, RowsSafe
<1>b. /\ UNCHANGED <<poll, window, slates, element, enrolled, votes, voting, transitioned>>
      /\ ~HasVotes /\ ~transitioned /\ poll.status # "DELETED"
  BY <1>a DEF BeginSlateChange, Mutable, SubmissionOpen, RowsSafe, VotesFitTheBallot
<1>c. PICK pc \in {"submitting", "administering"} :
        /\ IF pc = "submitting" THEN SubmissionOpen ELSE Mutable
        /\ work' = [work EXCEPT ![r] =
                      [pc |-> pc, phase |-> poll.phase, seen |-> slates, missed |-> {}]]
  BY DEF BeginSlateChange
<1>1. TypeOK'
  <2>1. [pc |-> pc, phase |-> poll.phase, seen |-> slates, missed |-> {}] \in
          [pc : {"idle", "submitting", "administering"}, phase : Phases,
           seen : Tables, missed : SUBSET (Slates \cup Reads)]
    BY <1>a DEF TypeOK, Polls
  <2> QED
    BY <1>a, <1>b, <1>c, <2>1 DEF TypeOK
<1>2. RowsSafe'
  BY <1>a, <1>b, RowsSafeFrame
<1>3. ASSUME NEW q \in Requests
      PROVE  WorkCurrent(q)'
  <2>1. CASE q = r
    <3>1. work'[q] = [pc |-> pc, phase |-> poll.phase, seen |-> slates, missed |-> {}]
      BY <2>1, <1>a, <1>c DEF TypeOK
    <3>2. work'[q].pc = "submitting" => work'[q].phase = "SLATE_SUBMISSION"
      BY <3>1, <1>c DEF SubmissionOpen
    <3> QED
      BY <3>1, <3>2, <1>b DEF WorkCurrent, HasVotes
  <2>2. CASE q # r
    <3>1. work'[q] = work[q]
      BY <2>2, <1>a, <1>c DEF TypeOK
    <3> QED
      BY <3>1, <1>b DEF IInv, WorkCurrent, HasVotes, Present
  <2> QED
    BY <2>1, <2>2
<1>4. ASSUME NEW v \in Voters
      PROVE  VotingCurrent(v)'
  BY <1>b DEF IInv, VotingCurrent
<1> QED
  BY <1>1, <1>2, <1>3, <1>4 DEF IInv, RowsSafe

\* A failed slate transaction leaves nothing.
LEMMA SlateChangeFailsIInv ==
  ASSUME IInv, NEW r \in Requests, SlateChangeFails(r)
  PROVE  IInv'
<1>a. TypeOK /\ RowsSafe
  BY DEF IInv, RowsSafe
<1>b. /\ UNCHANGED <<poll, window, slates, element, enrolled, votes, voting, transitioned>>
      /\ work' = [work EXCEPT ![r] = Idle]
  BY DEF SlateChangeFails
<1>1. TypeOK'
  <2>1. Idle \in [pc : {"idle", "submitting", "administering"}, phase : Phases,
                  seen : Tables, missed : SUBSET (Slates \cup Reads)]
    BY DEF Idle, NoSlates, Phases, Tables
  <2> QED
    BY <1>a, <1>b, <2>1 DEF TypeOK
<1>2. RowsSafe'
  BY <1>a, <1>b, RowsSafeFrame
<1>3. ASSUME NEW q \in Requests
      PROVE  WorkCurrent(q)'
  <2>1. CASE q = r
    BY <2>1, <1>a, <1>b DEF TypeOK, WorkCurrent, Idle
  <2>2. CASE q # r
    <3>1. work'[q] = work[q]
      BY <2>2, <1>a, <1>b DEF TypeOK
    <3> QED
      BY <3>1, <1>b DEF IInv, WorkCurrent, HasVotes, Present
  <2> QED
    BY <2>1, <2>2
<1>4. ASSUME NEW v \in Voters
      PROVE  VotingCurrent(v)'
  BY <1>b DEF IInv, VotingCurrent
<1> QED
  BY <1>1, <1>2, <1>3, <1>4 DEF IInv, RowsSafe

\* updatePoll: no snapshot survives a step into or out of the voting phase.
LEMMA UpdatePollIInv ==
  ASSUME IInv, NEW phase \in Phases, UpdatePoll(phase)
  PROVE  IInv'
<1>a. TypeOK /\ RowsSafe
  BY DEF IInv, RowsSafe
<1> DEFINE missing == [ph \in Phases |-> BallotIf("ELECTION" \in {ph, phase})]
<1>b. missing \in [Phases -> SUBSET (Slates \cup Reads)]
  BY DEF BallotIf, Reads
<1>c. work' = WorkMisses(missing) /\ voting' = VotesStale
  BY DEF UpdatePoll, PollWritten
<1>d. /\ UNCHANGED <<slates, enrolled, votes>>
      /\ poll.status # "DELETED"
      /\ poll'.status = poll.status /\ poll'.phase = phase /\ poll' \in Polls
      /\ window' \in BOOLEAN
      /\ element' = ElementFor(phase, slates)
      /\ transitioned' = (transitioned \/ (poll.status = "PUBLISHED" /\ phase # poll.phase))
  BY <1>a DEF UpdatePoll, TypeOK, Polls
<1>e. \/ poll.status = "DRAFT" /\ ~HasVotes
      \/ phase = poll.phase
      \/ /\ poll.phase = "SLATE_SUBMISSION" /\ phase = "ELECTION"
         /\ poll.status = "PUBLISHED" /\ ~HasVotes
  BY DEF UpdatePoll, PhaseChangeAllowed
<1>f. HasVotes' <=> HasVotes
  BY <1>d DEF HasVotes
<1> HIDE DEF missing
<1>1. TypeOK'
  <2>1. element' \subseteq Options \cup {Blank}
    BY <1>a, <1>d, ElementForType DEF TypeOK
  <2>2. work' \in [Requests -> [pc : {"idle", "submitting", "administering"}, phase : Phases,
                       seen : Tables, missed : SUBSET (Slates \cup Reads)]]
    <3>1. WorkMisses(missing) \in [Requests -> [pc : {"idle", "submitting", "administering"},
                phase : Phases, seen : Tables, missed : SUBSET (Slates \cup Reads)]]
      <4>1. CASE Requests = {}
        BY <4>1 DEF WorkMisses
      <4>2. CASE Requests # {}
        BY <4>2, <1>a, <1>b, WorkMissesFact
      <4> QED
        BY <4>1, <4>2
    <3> QED
      BY <3>1, <1>c
  <2>3. transitioned' \in BOOLEAN
    BY <1>d
  <2> QED
    BY <1>a, <1>c, <1>d, <2>1, <2>2, <2>3, VotesStaleFact DEF TypeOK
<1>2. ASSUME NEW q \in Requests
      PROVE  WorkCurrent(q)'
  <2>1. WorkCurrent(q)
    BY DEF IInv
  <2>2. /\ work'[q].pc = work[q].pc
        /\ work'[q].phase = work[q].phase
        /\ work'[q].seen = work[q].seen
        /\ work[q].missed \subseteq work'[q].missed
        /\ work[q].pc # "idle" =>
             BallotIf("ELECTION" \in {work[q].phase, phase}) \subseteq work'[q].missed
    <3>1. missing[work[q].phase] = BallotIf("ELECTION" \in {work[q].phase, phase})
      BY <1>a DEF missing, TypeOK
    <3> QED
      BY <3>1, <1>a, <1>b, <1>c, WorkMissesFact
  <2>3. ASSUME work'[q].pc # "idle", "ballot" \notin work'[q].missed
        PROVE  work'[q].phase # "ELECTION" /\ phase # "ELECTION" /\ ~transitioned'
    <3>1. work[q].phase # "ELECTION" /\ phase # "ELECTION"
      BY <2>2, <2>3 DEF BallotIf
    <3>2. ~transitioned
      BY <2>1, <2>2, <2>3 DEF WorkCurrent
    <3> QED
      BY <3>1, <3>2, <2>2, <1>d, <1>e
  <2> QED
    BY <2>1, <2>2, <2>3, <1>d, <1>f DEF WorkCurrent, Present
<1>3. ASSUME NEW v \in Voters
      PROVE  VotingCurrent(v)'
  BY <1>a, <1>c, VotesStaleFact DEF VotingCurrent
<1>4. HasVotes => phase = poll.phase /\ element' = element
  <2>1. HasVotes => phase = poll.phase
    BY <1>a, <1>e DEF RowsSafe
  <2> QED
    BY <2>1, <1>a, <1>d DEF RowsSafe, BallotListsTheSlates
<1>5. transitioned' => poll'.phase = "ELECTION" /\ poll'.status # "DRAFT"
  BY <1>a, <1>d, <1>e DEF RowsSafe
<1>6. TransitionedElectionsStayReady'
  <2> SUFFICES ASSUME transitioned' PROVE Listed(slates) # {} /\ enrolled # {}
    BY <1>d DEF TransitionedElectionsStayReady
  <2>1. CASE transitioned
    BY <2>1, <1>a, <1>d DEF RowsSafe, TransitionedElectionsStayReady
  <2>2. CASE ~transitioned
    BY <2>2, <1>d, <1>e DEF UpdatePoll, Ready
  <2> QED
    BY <2>1, <2>2
<1>7. BallotListsTheSlates' /\ SlateNamesAreUnique'
  BY <1>a, <1>d DEF RowsSafe, BallotListsTheSlates, SlateNamesAreUnique, Present
<1>8. VotesFitTheBallot' /\ VotersAreEnrolled'
  BY <1>a, <1>d, <1>f, <1>4 DEF RowsSafe, VotesFitTheBallot, VotersAreEnrolled
<1>9. HasVotes' => poll'.status \in {"PUBLISHED", "CLOSED"}
  BY <1>a, <1>d, <1>f DEF RowsSafe
<1> QED
  BY <1>1, <1>2, <1>3, <1>5, <1>6, <1>7, <1>8, <1>9 DEF IInv

\* updatePollStatus: it leaves the phase and the ballot, and no draft comes back.
LEMMA UpdatePollStatusIInv ==
  ASSUME IInv, NEW next \in {"PUBLISHED", "CLOSED"}, UpdatePollStatus(next)
  PROVE  IInv'
<1>a. TypeOK /\ RowsSafe
  BY DEF IInv, RowsSafe
<1>b. /\ UNCHANGED <<window, slates, element, enrolled, votes, work, voting, transitioned>>
      /\ poll' \in Polls /\ poll'.status = next /\ poll'.phase = poll.phase
      /\ poll.status # "DELETED"
  BY <1>a DEF UpdatePollStatus, TypeOK, Polls
<1>1. TypeOK'
  BY <1>a, <1>b DEF TypeOK
<1>2. ASSUME NEW q \in Requests
      PROVE  WorkCurrent(q)'
  BY <1>b DEF IInv, WorkCurrent, HasVotes, Present
<1>3. ASSUME NEW v \in Voters
      PROVE  VotingCurrent(v)'
  BY <1>b DEF IInv, VotingCurrent
<1>4. RowsSafe'
  BY <1>a, <1>b DEF RowsSafe, HasVotes, BallotListsTheSlates, SlateNamesAreUnique,
     VotesFitTheBallot, VotersAreEnrolled, TransitionedElectionsStayReady, Present
<1> QED
  BY <1>1, <1>2, <1>3, <1>4 DEF IInv, RowsSafe

\* deletePoll leaves no row, and no open transaction that can commit.
LEMMA DeletePollIInv ==
  ASSUME IInv, DeletePoll
  PROVE  IInv'
<1>a. TypeOK /\ RowsSafe
  BY DEF IInv, RowsSafe
<1> DEFINE missing == [phase \in Phases |-> {"ballot"}]
<1>b. missing \in [Phases -> SUBSET (Slates \cup Reads)]
  BY DEF Reads
<1>c. work' = WorkMisses(missing) /\ voting' = VotesStale
  BY DEF DeletePoll
<1>d. /\ UNCHANGED <<window, transitioned>>
      /\ poll'.status = "DELETED" /\ poll'.phase = poll.phase /\ poll' \in Polls
      /\ slates' = NoSlates /\ element' = {} /\ enrolled' = {}
      /\ votes' = [v \in Voters |-> NoVote]
  BY <1>a DEF DeletePoll, TypeOK, Polls
<1> HIDE DEF missing
<1>1. TypeOK'
  <2>1. WorkMisses(missing) \in [Requests -> [pc : {"idle", "submitting", "administering"},
              phase : Phases, seen : Tables, missed : SUBSET (Slates \cup Reads)]]
    <3>1. CASE Requests = {}
      BY <3>1 DEF WorkMisses
    <3>2. CASE Requests # {}
      BY <3>2, <1>a, <1>b, WorkMissesFact
    <3> QED
      BY <3>1, <3>2
  <2> QED
    BY <1>a, <1>c, <1>d, <2>1, VotesStaleFact DEF TypeOK, NoSlates, Tables
<1>2. ASSUME NEW q \in Requests
      PROVE  WorkCurrent(q)'
  <2>1. /\ work'[q].pc = work[q].pc
        /\ work'[q].phase = work[q].phase
        /\ work[q].pc # "idle" => "ballot" \in work'[q].missed
    <3>1. missing[work[q].phase] = {"ballot"}
      BY <1>a DEF missing, TypeOK
    <3> QED
      BY <3>1, <1>a, <1>b, <1>c, WorkMissesFact
  <2> QED
    BY <2>1 DEF IInv, WorkCurrent
<1>3. ASSUME NEW v \in Voters
      PROVE  VotingCurrent(v)'
  BY <1>a, <1>c, VotesStaleFact DEF VotingCurrent
<1>4. ~HasVotes' /\ Present(slates') = {}
  BY <1>d DEF HasVotes, Present, NoSlates
<1>5. RowsSafe'
  BY <1>a, <1>d, <1>4 DEF RowsSafe, BallotListsTheSlates, SlateNamesAreUnique, HasVotes,
     VotesFitTheBallot, VotersAreEnrolled, TransitionedElectionsStayReady
<1> QED
  BY <1>1, <1>2, <1>3, <1>5 DEF IInv, RowsSafe

\* The schedule opens and closes.
LEMMA ClockTickIInv ==
  ASSUME IInv, ClockTick
  PROVE  IInv'
<1>a. TypeOK /\ RowsSafe
  BY DEF IInv, RowsSafe
<1>b. /\ window' = ~window
      /\ UNCHANGED <<poll, slates, element, enrolled, votes, work, voting, transitioned>>
  BY DEF ClockTick
<1>1. TypeOK'
  BY <1>a, <1>b DEF TypeOK
<1>2. RowsSafe'
  BY <1>a, <1>b, RowsSafeFrame
<1>3. ASSUME NEW q \in Requests
      PROVE  WorkCurrent(q)'
  BY <1>b DEF IInv, WorkCurrent, HasVotes, Present
<1>4. ASSUME NEW v \in Voters
      PROVE  VotingCurrent(v)'
  BY <1>b DEF IInv, VotingCurrent
<1> QED
  BY <1>1, <1>2, <1>3, <1>4 DEF IInv, RowsSafe

\* The enrollment list changes in a draft only, where nobody votes yet.
LEMMA ChangeEnrollmentIInv ==
  ASSUME IInv, NEW list \in SUBSET Voters, ChangeEnrollment(list)
  PROVE  IInv'
<1>a. TypeOK /\ RowsSafe
  BY DEF IInv, RowsSafe
<1>b. /\ poll.status = "DRAFT" /\ enrolled' = list
      /\ UNCHANGED <<poll, window, slates, element, votes, work, voting, transitioned>>
  BY DEF ChangeEnrollment, EligibilityMutable
<1>1. TypeOK'
  BY <1>a, <1>b DEF TypeOK
<1>2. ASSUME NEW q \in Requests
      PROVE  WorkCurrent(q)'
  BY <1>b DEF IInv, WorkCurrent, HasVotes, Present
<1>3. ASSUME NEW v \in Voters
      PROVE  VotingCurrent(v)'
  BY <1>b DEF IInv, VotingCurrent
<1>4. RowsSafe'
  BY <1>a, <1>b DEF RowsSafe, HasVotes, BallotListsTheSlates, SlateNamesAreUnique,
     VotesFitTheBallot, VotersAreEnrolled, TransitionedElectionsStayReady, Present
<1> QED
  BY <1>1, <1>2, <1>3, <1>4 DEF IInv, RowsSafe

\* A vote reads the ballot there is, or fails and leaves nothing.
LEMMA OpenVoteIInv ==
  ASSUME IInv, NEW v \in Voters, BeginVote(v) \/ VoteFails(v)
  PROVE  IInv'
<1>a. TypeOK /\ RowsSafe
  BY DEF IInv, RowsSafe
<1>b. UNCHANGED <<poll, window, slates, element, enrolled, votes, work, transitioned>>
  BY DEF BeginVote, VoteFails
<1>c. \/ voting' = [voting EXCEPT ![v] = Waiting]
      \/ /\ voting' = [voting EXCEPT ![v] = [pc |-> "voting", element |-> element,
                                             stale |-> FALSE]]
         /\ poll.phase = "ELECTION" /\ poll.status = "PUBLISHED" /\ v \in enrolled
  BY DEF BeginVote, VoteFails
<1>1. TypeOK'
  <2>1. voting' \in [Voters -> [pc : {"idle", "voting"},
                       element : SUBSET (Options \cup {Blank}), stale : BOOLEAN]]
    <3> DEFINE Rows == [pc : {"idle", "voting"}, element : SUBSET (Options \cup {Blank}),
                        stale : BOOLEAN]
    <3>1. Waiting \in Rows
      BY DEF Waiting
    <3>2. [pc |-> "voting", element |-> element, stale |-> FALSE] \in Rows
      BY <1>a DEF TypeOK
    <3>3. voting \in [Voters -> Rows]
      BY <1>a DEF TypeOK
    <3> HIDE DEF Rows
    <3>4. voting' \in [Voters -> Rows]
      BY <1>c, <3>1, <3>2, <3>3
    <3> QED
      BY <3>4 DEF Rows
  <2> QED
    BY <1>a, <1>b, <2>1 DEF TypeOK
<1>2. RowsSafe'
  BY <1>a, <1>b, RowsSafeFrame
<1>3. ASSUME NEW q \in Requests
      PROVE  WorkCurrent(q)'
  BY <1>b DEF IInv, WorkCurrent, HasVotes, Present
<1>4. ASSUME NEW u \in Voters
      PROVE  VotingCurrent(u)'
  <2>1. CASE u = v
    BY <2>1, <1>a, <1>b, <1>c DEF TypeOK, VotingCurrent, Waiting
  <2>2. CASE u # v
    <3>1. voting'[u] = voting[u]
      BY <2>2, <1>a, <1>c DEF TypeOK
    <3> QED
      BY <3>1, <1>b DEF IInv, VotingCurrent
  <2> QED
    BY <2>1, <2>2
<1> QED
  BY <1>1, <1>2, <1>3, <1>4 DEF IInv, RowsSafe

\* A vote that commits chose from the current vote element, and every slate change
\* that would alter it fails.
LEMMA CommitVoteIInv ==
  ASSUME IInv, NEW v \in Voters, NEW option \in Options \cup {Blank}, CommitVote(v, option)
  PROVE  IInv'
<1>a. TypeOK /\ RowsSafe /\ VotingCurrent(v)
  BY DEF IInv, RowsSafe
<1> DEFINE missing == [phase \in Phases |-> BallotIf(phase = "ELECTION")]
<1>b. missing \in [Phases -> SUBSET (Slates \cup Reads)]
  BY DEF BallotIf, Reads
<1>c. work' = WorkMisses(missing) /\ voting' = [voting EXCEPT ![v] = Waiting]
  BY DEF CommitVote, VoteWritten
<1>d. /\ UNCHANGED <<poll, window, slates, element, enrolled, transitioned>>
      /\ votes' = [votes EXCEPT ![v] = option]
      /\ poll.phase = "ELECTION" /\ poll.status \in {"PUBLISHED", "CLOSED"}
      /\ option \in element /\ v \in enrolled
  BY <1>a DEF CommitVote, VotingCurrent
<1> HIDE DEF missing
<1>1. TypeOK'
  <2>1. WorkMisses(missing) \in [Requests -> [pc : {"idle", "submitting", "administering"},
              phase : Phases, seen : Tables, missed : SUBSET (Slates \cup Reads)]]
    <3>1. CASE Requests = {}
      BY <3>1 DEF WorkMisses
    <3>2. CASE Requests # {}
      BY <3>2, <1>a, <1>b, WorkMissesFact
    <3> QED
      BY <3>1, <3>2
  <2>2. voting' \in [Voters -> [pc : {"idle", "voting"},
                       element : SUBSET (Options \cup {Blank}), stale : BOOLEAN]]
    BY <1>a, <1>c DEF TypeOK, Waiting
  <2> QED
    BY <1>a, <1>c, <1>d, <2>1, <2>2 DEF TypeOK
<1>2. ASSUME NEW q \in Requests
      PROVE  WorkCurrent(q)'
  <2>1. WorkCurrent(q)
    BY DEF IInv
  <2>2. /\ work'[q].pc = work[q].pc
        /\ work'[q].phase = work[q].phase
        /\ work[q].missed \subseteq work'[q].missed
        /\ work[q].pc # "idle" => BallotIf(work[q].phase = "ELECTION") \subseteq work'[q].missed
    <3>1. missing[work[q].phase] = BallotIf(work[q].phase = "ELECTION")
      BY <1>a DEF missing, TypeOK
    <3> QED
      BY <3>1, <1>a, <1>b, <1>c, WorkMissesFact
  <2>3. work'[q].pc # "idle" => "ballot" \in work'[q].missed
    BY <2>1, <2>2, <1>d DEF WorkCurrent, BallotIf
  <2> QED
    BY <2>1, <2>2, <2>3 DEF WorkCurrent
<1>3. ASSUME NEW u \in Voters
      PROVE  VotingCurrent(u)'
  <2>1. CASE u = v
    BY <2>1, <1>a, <1>c DEF TypeOK, VotingCurrent, Waiting
  <2>2. CASE u # v
    <3>1. voting'[u] = voting[u]
      BY <2>2, <1>a, <1>c DEF TypeOK
    <3> QED
      BY <3>1, <1>d DEF IInv, VotingCurrent
  <2> QED
    BY <2>1, <2>2
<1>4. \A u \in Voters : votes'[u] = IF u = v THEN option ELSE votes[u]
  BY <1>a, <1>d DEF TypeOK
<1>5. VotesFitTheBallot'
  <2>1. ASSUME NEW u \in Voters
        PROVE  votes'[u] \in element \cup {NoVote}
    BY <1>a, <1>d, <1>4 DEF RowsSafe, VotesFitTheBallot, HasVotes
  <2> QED
    BY <2>1, <1>d DEF VotesFitTheBallot
<1>6. VotersAreEnrolled'
  BY <1>a, <1>d, <1>4 DEF RowsSafe, VotersAreEnrolled
<1>7. /\ BallotListsTheSlates' /\ SlateNamesAreUnique' /\ TransitionedElectionsStayReady'
      /\ transitioned' => poll'.phase = "ELECTION" /\ poll'.status # "DRAFT"
  BY <1>a, <1>d DEF RowsSafe, BallotListsTheSlates, SlateNamesAreUnique, Present,
     TransitionedElectionsStayReady
<1> QED
  BY <1>1, <1>2, <1>3, <1>5, <1>6, <1>7, <1>d DEF IInv

\* Every step keeps the invariant.
LEMMA NextIInv == IInv /\ [Next]_vars => IInv'
<1> SUFFICES ASSUME IInv, [Next]_vars PROVE IInv'
  OBVIOUS
<1>1. CASE UNCHANGED vars
  BY <1>1 DEF vars, IInv, TypeOK, WorkCurrent, VotingCurrent, HasVotes, Present,
     BallotListsTheSlates, SlateNamesAreUnique, VotesFitTheBallot, VotersAreEnrolled,
     TransitionedElectionsStayReady
<1>2. ASSUME NEW r \in Requests, SlateStep(r)
      PROVE  IInv'
  <2>1. CASE BeginSlateChange(r) \/ SlateChangeFails(r)
    BY <2>1, BeginSlateChangeIInv, SlateChangeFailsIInv
  <2>2. ASSUME NEW s \in Slates, NEW name \in Names, SubmitSlate(r, s, name)
        PROVE  IInv'
    BY <2>2, SubmitSlateIInv
  <2>3. ASSUME NEW s \in Slates,
               \/ \E row \in SlateRows : CreateSlate(r, s, row) \/ UpdateSlate(r, s, row)
               \/ RejectSlate(r, s)
               \/ \E enabled \in BOOLEAN : EnableSlate(r, s, enabled)
               \/ DeleteSlate(r, s)
        PROVE  IInv'
    BY <2>3, AdminIInv
  <2> QED
    BY <1>2, <2>1, <2>2, <2>3 DEF SlateStep
<1>3. ASSUME NEW v \in Voters, VoteStep(v)
      PROVE  IInv'
  BY <1>3, OpenVoteIInv, CommitVoteIInv DEF VoteStep
<1>4. ASSUME NEW phase \in Phases, UpdatePoll(phase)
      PROVE  IInv'
  BY <1>4, UpdatePollIInv
<1>5. ASSUME NEW status \in {"PUBLISHED", "CLOSED"}, UpdatePollStatus(status)
      PROVE  IInv'
  BY <1>5, UpdatePollStatusIInv
<1>6. CASE DeletePoll \/ ClockTick
  BY <1>6, DeletePollIInv, ClockTickIInv
<1>7. ASSUME NEW list \in SUBSET Voters, ChangeEnrollment(list)
      PROVE  IInv'
  BY <1>7, ChangeEnrollmentIInv
<1> QED
  BY <1>1, <1>2, <1>3, <1>4, <1>5, <1>6, <1>7 DEF Next

\* The inductive invariant holds in every reachable state.
THEOREM ElectionInvariant == Spec => []IInv
BY InitIInv, NextIInv, PTL DEF Spec

\* Types are kept.
THEOREM ElectionTypes == Spec => []TypeOK
<1>1. IInv => TypeOK
  BY DEF IInv
<1> QED
  BY <1>1, ElectionInvariant, PTL

\* buildCacicElectionVoteElement: the vote element lists the approved and enabled
\* slates, whoever changes what at the same time.
THEOREM VoteElementIsCurrent == Spec => []BallotListsTheSlates
<1>1. IInv => BallotListsTheSlates
  BY DEF IInv
<1> QED
  BY <1>1, ElectionInvariant, PTL

\* assertUniqueSlateName: names stay unique without a unique index.
THEOREM NamesAreUnique == Spec => []SlateNamesAreUnique
<1>1. IInv => SlateNamesAreUnique
  BY DEF IInv
<1> QED
  BY <1>1, ElectionInvariant, PTL

\* saveResponse and the refresh: every counted vote is for an option of the ballot,
\* and from an enrolled voter.
THEOREM CountedVotesAreValid == Spec => [](VotesFitTheBallot /\ VotersAreEnrolled)
<1>1. IInv => VotesFitTheBallot /\ VotersAreEnrolled
  BY DEF IInv
<1> QED
  BY <1>1, ElectionInvariant, PTL

\* assertElectionTransitionReady: what it found stays there.
THEOREM TransitionsStayReady == Spec => []TransitionedElectionsStayReady
<1>1. IInv => TransitionedElectionsStayReady
  BY DEF IInv
<1> QED
  BY <1>1, ElectionInvariant, PTL

\* A slate transaction that commits knows that nobody has voted.
LEMMA SlateStepBeforeVotes ==
  ASSUME IInv, NEW r \in Requests, SlateStep(r), HasVotes
  PROVE  UNCHANGED <<slates, element>>
<1>1. CASE BeginSlateChange(r) \/ SlateChangeFails(r)
  BY <1>1 DEF BeginSlateChange, SlateChangeFails
<1>2. ASSUME NEW s, NEW named, CommitAllowed(r, s, named), work[r].pc # "idle"
      PROVE  FALSE
  BY <1>2 DEF IInv, WorkCurrent, CommitAllowed
<1>3. ASSUME NEW s, NEW name, SubmitSlate(r, s, name)
      PROVE  FALSE
  <2>1. work[r].pc # "idle" /\ CommitAllowed(r, s, TRUE)
    BY <1>3 DEF SubmitSlate
  <2> QED
    BY <2>1, <1>2
<1>4. ASSUME NEW s, NEW row, NEW named, AdminWrites(r, s, row, named)
      PROVE  FALSE
  <2>1. work[r].pc # "idle" /\ CommitAllowed(r, s, named)
    BY <1>4 DEF AdminWrites
  <2> QED
    BY <2>1, <1>2
<1> QED
  BY <1>1, <1>3, <1>4 DEF SlateStep, CreateSlate, UpdateSlate, RejectSlate, EnableSlate,
     DeleteSlate

\* isCacicElectionPollMutable: all voters choose among the same slates.
THEOREM AllVotersHaveOneBallot == Spec => OneBallotForAll
<1>1. IInv /\ [Next]_vars =>
        [HasVotes /\ poll'.status # "DELETED" => UNCHANGED <<slates, element>>]_vars
  <2> SUFFICES ASSUME IInv, Next, HasVotes, poll'.status # "DELETED"
               PROVE  UNCHANGED <<slates, element>>
    BY DEF vars
  <2>1. ASSUME NEW r \in Requests, SlateStep(r)
        PROVE  UNCHANGED <<slates, element>>
    BY <2>1, SlateStepBeforeVotes
  <2>2. ASSUME NEW phase \in Phases, UpdatePoll(phase)
        PROVE  UNCHANGED <<slates, element>>
    <3>1. phase = poll.phase
      BY <2>2 DEF UpdatePoll, PhaseChangeAllowed
    <3>2. element = ElementFor(phase, slates)
      BY <2>2, <3>1 DEF IInv, BallotListsTheSlates, UpdatePoll
    <3> QED
      BY <2>2, <3>2 DEF UpdatePoll
  <2>3. CASE DeletePoll
    <3>1. poll'.status = "DELETED"
      BY <2>3 DEF DeletePoll, IInv, TypeOK, Polls
    <3> QED
      BY <3>1
  <2>4. ASSUME NEW status, UpdatePollStatus(status)
        PROVE  UNCHANGED <<slates, element>>
    BY <2>4 DEF UpdatePollStatus
  <2>5. ASSUME NEW list, ChangeEnrollment(list)
        PROVE  UNCHANGED <<slates, element>>
    BY <2>5 DEF ChangeEnrollment
  <2>6. ASSUME NEW v, VoteStep(v)
        PROVE  UNCHANGED <<slates, element>>
    BY <2>6 DEF VoteStep, BeginVote, VoteFails, CommitVote
  <2>7. CASE ClockTick
    BY <2>7 DEF ClockTick
  <2> QED
    BY <2>1, <2>2, <2>3, <2>4, <2>5, <2>6, <2>7 DEF Next
<1> QED
  BY <1>1, ElectionInvariant, PTL DEF Spec, OneBallotForAll
=============================================================================
