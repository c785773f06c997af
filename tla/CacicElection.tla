---------------------------- MODULE CacicElection ----------------------------
(***************************************************************************)
(* The slates of a CACiC election, the phase of its poll, the enrollment   *)
(* list and the generated vote element, which lists the approved slates.   *)
(*                                                                         *)
(* Every transaction here is SERIALIZABLE except updatePollStatus.  Slate  *)
(* changes and votes are two steps, the reads at their snapshot and the    *)
(* commit; two that wrote one row, or read what the other wrote, do not    *)
(* both commit.  Transactions that write the Poll row exclude each other   *)
(* and are single steps.                                                   *)
(***************************************************************************)
CONSTANTS
    Submitters,  \* voters who may submit a slate; a voter has at most one
    AdminSlates, \* ids of slates an administrator may create
    Names,       \* slate names, up to case and accents
    Voters,      \* the people the enrollment list may hold
    Requests,    \* requests that change slates
    NoSlate,
    NoVote,
    Blank        \* the options every vote element has besides the slates

Slates == Submitters \cup AdminSlates

SlateRows ==
    [name : Names, status : {"PENDING", "APPROVED", "REJECTED"}, enabled : BOOLEAN]

Options == [slate : Slates, name : Names]

ASSUME SlatesAssumption ==
    /\ Submitters \cap AdminSlates = {}
    /\ NoSlate \notin SlateRows
    /\ Slates \cap {"names", "ballot"} = {}
ASSUME OptionsAssumption ==
    /\ Blank \notin Options
    /\ NoVote \notin Options \cup {Blank}

VARIABLES
    poll,        \* status and phase of the Poll row; "NONE" is a regular poll
    window,      \* now is within the schedule of the poll
    slates,      \* CacicElectionSlate rows
    element,     \* options of the generated vote element; {} when there is none
    enrolled,    \* PollEligibilityEnrollment rows
    votes,       \* the option each voter's response holds
    work,        \* the slate transaction of each request
    voting,      \* the vote transaction of each voter
    transitioned \* the poll became an election while it was published (history)

vars == <<poll, window, slates, element, enrolled, votes, work, voting, transitioned>>

-----------------------------------------------------------------------------

Phases == {"NONE", "SLATE_SUBMISSION", "ELECTION"}

\* What a slate transaction reads besides its slate: all names, when it sets one, and
\* in the voting phase the ballot: all slates, the vote element and the votes.
Reads == {"names", "ballot"}

Polls == [status : {"DRAFT", "PUBLISHED", "CLOSED", "DELETED"}, phase : Phases]

Tables == [Slates -> SlateRows \cup {NoSlate}]

NoSlates == [s \in Slates |-> NoSlate]

Idle == [pc |-> "idle", phase |-> "NONE", seen |-> NoSlates, missed |-> {}]
Waiting == [pc |-> "idle", element |-> {}, stale |-> FALSE]

TypeOK ==
    /\ poll \in Polls
    /\ window \in BOOLEAN
    /\ slates \in Tables
    /\ element \subseteq Options \cup {Blank}
    /\ enrolled \subseteq Voters
    /\ votes \in [Voters -> Options \cup {Blank, NoVote}]
    /\ work \in [Requests -> [pc : {"idle", "submitting", "administering"},
                              phase : Phases, seen : Tables,
                              missed : SUBSET (Slates \cup Reads)]]
    /\ voting \in [Voters -> [pc : {"idle", "voting"},
                              element : SUBSET (Options \cup {Blank}), stale : BOOLEAN]]
    /\ transitioned \in BOOLEAN

Present(rows) == {s \in Slates : rows[s] # NoSlate}

Listed(rows) == {s \in Present(rows) : rows[s].status = "APPROVED" /\ rows[s].enabled}

\* The options buildCacicElectionVoteElement gives.
VoteElement(rows) ==
    {[slate |-> s, name |-> rows[s].name] : s \in Listed(rows)} \cup {Blank}

ElementFor(phase, rows) == IF phase = "ELECTION" THEN VoteElement(rows) ELSE {}

HasVotes == \E v \in Voters : votes[v] # NoVote

\* createPoll takes any mode and phase; the status is always DRAFT.
Init ==
    /\ poll \in [status : {"DRAFT"}, phase : Phases]
    /\ window \in BOOLEAN
    /\ slates = NoSlates
    /\ element = ElementFor(poll.phase, slates)
    /\ enrolled = {}
    /\ votes = [v \in Voters |-> NoVote]
    /\ work = [r \in Requests |-> Idle]
    /\ voting = [v \in Voters |-> Waiting]
    /\ transitioned = FALSE

-----------------------------------------------------------------------------
(* Conflicts of SERIALIZABLE transactions *)

\* Every open slate transaction misses the parts missing gives for its phase.
WorkMisses(missing) ==
    [r \in Requests |->
       IF work[r].pc = "idle" THEN work[r]
       ELSE [work[r] EXCEPT !.missed = @ \cup missing[work[r].phase]]]

VotesStale ==
    [v \in Voters |-> [voting[v] EXCEPT !.stale = @ \/ voting[v].pc # "idle"]]

BallotIf(condition) == IF condition THEN {"ballot"} ELSE {}

SlateWrittenUnnoticed(r, s, named) ==
    work' = [work EXCEPT ![r] = Idle] /\ UNCHANGED voting

\* A commit that set the name of slate s read all names; one that refreshed the vote
\* element wrote what votes read, and counted them.
SlateWritten(r, s, named) ==
    LET refreshed == work[r].phase = "ELECTION"
        parts == {s} \cup (IF named THEN {"names"} ELSE {}) \cup BallotIf(refreshed)
    IN /\ work' = [WorkMisses([phase \in Phases |-> parts]) EXCEPT ![r] = Idle]
       /\ voting' = IF refreshed THEN VotesStale ELSE voting

PollWrittenUnnoticed(next) == UNCHANGED <<work, voting>>

\* updatePoll reads the slates to build the vote element and rewrites the elements
\* a refresh writes; it counts the votes, which read the poll.
PollWritten(next) ==
    /\ work' = WorkMisses([phase \in Phases |-> BallotIf("ELECTION" \in {phase, next})])
    /\ voting' = VotesStale

\* saveResponse reads the poll and its elements, and adds what slate changes count.
VoteWritten(v) ==
    /\ work' = WorkMisses([phase \in Phases |-> BallotIf(phase = "ELECTION")])
    /\ voting' = [voting EXCEPT ![v] = Waiting]

-----------------------------------------------------------------------------
(* Slates *)

SubmissionOpen ==
    poll.status = "PUBLISHED" /\ poll.phase = "SLATE_SUBMISSION" /\ window

MutableWhilePublished == poll.phase # "NONE" /\ poll.status \in {"DRAFT", "PUBLISHED"}

\* isCacicElectionPollMutable
Mutable ==
    /\ poll.phase # "NONE"
    /\ ~HasVotes
    /\ \/ poll.status = "DRAFT"
       \/ poll.status = "PUBLISHED" /\ poll.phase = "SLATE_SUBMISSION"

\* A slate transaction reads the poll, and so fixes its snapshot of the slates.  The
\* same check before the transaction only refuses earlier.
BeginSlateChange(r) ==
    /\ work[r].pc = "idle"
    /\ \E pc \in {"submitting", "administering"} :
          /\ IF pc = "submitting" THEN SubmissionOpen ELSE Mutable
          /\ work' = [work EXCEPT ![r] =
                        [pc |-> pc, phase |-> poll.phase, seen |-> slates, missed |-> {}]]
    /\ UNCHANGED <<poll, window, slates, element, enrolled, votes, voting, transitioned>>

SlateChangeFails(r) ==
    /\ work[r].pc # "idle"
    /\ work' = [work EXCEPT ![r] = Idle]
    /\ UNCHANGED <<poll, window, slates, element, enrolled, votes, voting, transitioned>>

\* assertUniqueSlateName
NameFree(r, s, name) ==
    \A t \in Present(work[r].seen) \ {s} : work[r].seen[t].name # name

CommitAllowed(r, s, named) ==
    /\ work[r].missed \cap {s, "ballot"} = {}
    /\ named => "names" \notin work[r].missed

\* submitCacicElectionSlate: a first submission, or another one until the slate is
\* approved.
SubmitSlate(r, s, name) ==
    /\ work[r].pc = "submitting"
    /\ s \in Submitters
    /\ CommitAllowed(r, s, TRUE)
    /\ NameFree(r, s, name)
    /\ s \in Present(work[r].seen) => work[r].seen[s].status # "APPROVED"
    /\ slates' = [slates EXCEPT ![s] =
                    [name |-> name, status |-> "PENDING", enabled |-> TRUE]]
    /\ SlateWritten(r, s, TRUE)
    /\ UNCHANGED <<poll, window, element, enrolled, votes, transitioned>>

\* refreshCacicElectionVoteElement, from the snapshot and the row just written.
Refresh(r, s, row) ==
    element' = IF work[r].phase = "ELECTION"
               THEN VoteElement([work[r].seen EXCEPT ![s] = row]) ELSE element

\* Every operation of the administration ends with the refresh.
AdminWrites(r, s, row, named) ==
    /\ work[r].pc = "administering"
    /\ CommitAllowed(r, s, named)
    /\ slates' = [slates EXCEPT ![s] = row]
    /\ Refresh(r, s, row)
    /\ SlateWritten(r, s, named)
    /\ UNCHANGED <<poll, window, enrolled, votes, transitioned>>

\* createAdminCacicElectionSlate: only an approved slate can be enabled.
CreateSlate(r, s, row) ==
    /\ s \in AdminSlates \ Present(work[r].seen)
    /\ NameFree(r, s, row.name)
    /\ row.status # "REJECTED"
    /\ row.enabled => row.status = "APPROVED"
    /\ AdminWrites(r, s, row, TRUE)

\* updateAdminCacicElectionSlate: the status may stay as it is; a slate that is not
\* approved is disabled.
UpdateSlate(r, s, row) ==
    /\ s \in Present(work[r].seen)
    /\ NameFree(r, s, row.name)
    /\ row.status \in {"PENDING", "APPROVED", work[r].seen[s].status}
    /\ row.enabled => row.status = "APPROVED"
    /\ AdminWrites(r, s, row, TRUE)

RejectSlate(r, s) ==
    /\ s \in Present(work[r].seen)
    /\ AdminWrites(r, s, [work[r].seen[s] EXCEPT !.status = "REJECTED", !.enabled = FALSE],
                   FALSE)

\* updateCacicElectionSlateEnabled
EnableSlate(r, s, enabled) ==
    /\ s \in Present(work[r].seen)
    /\ enabled => work[r].seen[s].status = "APPROVED"
    /\ AdminWrites(r, s, [work[r].seen[s] EXCEPT !.enabled = enabled], FALSE)

\* deleteCacicElectionSlate
DeleteSlate(r, s) ==
    /\ s \in Present(work[r].seen)
    /\ AdminWrites(r, s, NoSlate, FALSE)

-----------------------------------------------------------------------------
(* The poll *)

\* assertPollPolicyTransition
PhaseChangeAllowed(phase) ==
    \/ poll.status = "DRAFT" /\ ~HasVotes
    \/ phase = poll.phase
    \/ /\ poll.phase = "SLATE_SUBMISSION" /\ phase = "ELECTION"
       /\ poll.status = "PUBLISHED" /\ ~HasVotes

SlateReady(phase) ==
    phase = "ELECTION" /\ poll.phase # "ELECTION" => Listed(slates) # {}

\* assertElectionTransitionReady
Ready(phase) ==
    phase = "ELECTION" /\ poll.phase # "ELECTION" => Listed(slates) # {} /\ enrolled # {}

\* updatePoll: phase, schedule and elements.
UpdatePoll(phase) ==
    /\ poll.status # "DELETED"
    /\ PhaseChangeAllowed(phase)
    /\ Ready(phase)
    /\ poll' = [poll EXCEPT !.phase = phase]
    /\ window' \in BOOLEAN
    /\ element' = ElementFor(phase, slates)
    /\ transitioned' = (transitioned \/ (poll.status = "PUBLISHED" /\ phase # poll.phase))
    /\ PollWritten(phase)
    /\ UNCHANGED <<slates, enrolled, votes>>

\* updatePollStatus runs READ COMMITTED, in conflict with nothing that does not
\* write the Poll row.
UpdatePollStatus(next) ==
    /\ <<poll.status, next>> \in {<<"DRAFT", "PUBLISHED">>, <<"PUBLISHED", "CLOSED">>,
                                  <<"CLOSED", "PUBLISHED">>}
    /\ poll' = [poll EXCEPT !.status = next]
    /\ UNCHANGED <<window, slates, element, enrolled, votes, work, voting, transitioned>>

\* Everything that belongs to the poll goes with its row.
DeletePoll ==
    /\ poll.status # "DELETED"
    /\ poll' = [poll EXCEPT !.status = "DELETED"]
    /\ slates' = NoSlates
    /\ element' = {}
    /\ enrolled' = {}
    /\ votes' = [v \in Voters |-> NoVote]
    /\ work' = WorkMisses([phase \in Phases |-> {"ballot"}])
    /\ voting' = VotesStale
    /\ UNCHANGED <<window, transitioned>>

ClockTick ==
    /\ window' = ~window
    /\ UNCHANGED <<poll, slates, element, enrolled, votes, work, voting, transitioned>>

\* assertEligibilityMutable
EligibilityMutable == poll.status = "DRAFT"

\* Adding, importing, deleting and clearing reach every list; each advances the
\* poll's version, and so excludes a concurrent change of its status.
ChangeEnrollment(list) ==
    /\ EligibilityMutable
    /\ enrolled' = list
    /\ UNCHANGED <<poll, window, slates, element, votes, work, voting, transitioned>>

-----------------------------------------------------------------------------
(* Votes *)

\* saveResponse: poll, vote element, enrollment and marker in one snapshot.
BeginVote(v) ==
    /\ voting[v].pc = "idle"
    /\ poll = [status |-> "PUBLISHED", phase |-> "ELECTION"] /\ window
    /\ v \in enrolled
    /\ votes[v] = NoVote
    /\ voting' = [voting EXCEPT ![v] = [pc |-> "voting", element |-> element,
                                        stale |-> FALSE]]
    /\ UNCHANGED <<poll, window, slates, element, enrolled, votes, work, transitioned>>

CommitVote(v, option) ==
    /\ voting[v].pc = "voting" /\ ~voting[v].stale
    /\ option \in voting[v].element
    /\ votes' = [votes EXCEPT ![v] = option]
    /\ VoteWritten(v)
    /\ UNCHANGED <<poll, window, slates, element, enrolled, transitioned>>

VoteFails(v) ==
    /\ voting[v].pc = "voting"
    /\ voting' = [voting EXCEPT ![v] = Waiting]
    /\ UNCHANGED <<poll, window, slates, element, enrolled, votes, work, transitioned>>

-----------------------------------------------------------------------------

SlateStep(r) ==
    \/ BeginSlateChange(r) \/ SlateChangeFails(r)
    \/ \E s \in Slates :
          \/ \E name \in Names : SubmitSlate(r, s, name)
          \/ \E row \in SlateRows : CreateSlate(r, s, row) \/ UpdateSlate(r, s, row)
          \/ RejectSlate(r, s)
          \/ \E enabled \in BOOLEAN : EnableSlate(r, s, enabled)
          \/ DeleteSlate(r, s)

VoteStep(v) ==
    BeginVote(v) \/ VoteFails(v) \/ \E option \in Options \cup {Blank} : CommitVote(v, option)

Next ==
    \/ \E r \in Requests : SlateStep(r)
    \/ \E phase \in Phases : UpdatePoll(phase)
    \/ \E status \in {"PUBLISHED", "CLOSED"} : UpdatePollStatus(status)
    \/ DeletePoll \/ ClockTick
    \/ \E list \in SUBSET Voters : ChangeEnrollment(list)
    \/ \E v \in Voters : VoteStep(v)

Spec == Init /\ [][Next]_vars

-----------------------------------------------------------------------------
(* Properties *)

\* buildCacicElectionVoteElement and the refresh: whoever changes slates, phases and
\* status at the same time, the vote element of an election lists exactly the
\* approved and enabled slates, under their names.
BallotListsTheSlates ==
    poll.status # "DELETED" => element = ElementFor(poll.phase, slates)

\* assertUniqueSlateName: no two slates of an election have one name, also when they
\* are submitted at the same time.
SlateNamesAreUnique ==
    \A s, t \in Present(slates) : slates[s].name = slates[t].name => s = t

\* Every vote that was counted chose an option the ballot has.
VotesFitTheBallot ==
    HasVotes =>
        /\ poll.phase = "ELECTION"
        /\ \A v \in Voters : votes[v] \in element \cup {NoVote}

\* isCacicElectionPollMutable counts the responses in its transaction: once a vote
\* is cast neither the slates nor the ballot change, so all voters choose among the
\* same slates.
OneBallotForAll ==
    [][HasVotes /\ poll'.status # "DELETED" => UNCHANGED <<slates, element>>]_vars

\* ensureEnrollmentListVotingAllowed and assertEligibilityMutable: who voted is on
\* the enrollment list, then and ever after.
VotersAreEnrolled == \A v \in Voters : votes[v] # NoVote => v \in enrolled

\* assertElectionTransitionReady: an election that began from its submission phase
\* has a slate and an enrolled voter for good.
TransitionedElectionsStayReady ==
    transitioned /\ poll.status # "DELETED" => Listed(slates) # {} /\ enrolled # {}

\* As long as a slate transaction can commit, what it read is what the tables hold,
\* and nobody has voted.
WorkCurrent(r) ==
    /\ work[r].pc = "submitting" => work[r].phase = "SLATE_SUBMISSION"
    /\ work[r].pc # "idle" /\ "ballot" \notin work[r].missed =>
         /\ poll.status # "DELETED" /\ ~HasVotes /\ ~transitioned
         /\ work[r].phase = "ELECTION" <=> poll.phase = "ELECTION"
         /\ work[r].phase = "ELECTION" => work[r].seen = slates
         /\ \A s \in Slates \ work[r].missed : work[r].seen[s] = slates[s]
         /\ "names" \notin work[r].missed =>
              \A s \in Present(slates) :
                 s \in Present(work[r].seen) /\ work[r].seen[s].name = slates[s].name

\* As long as a vote can commit, it chooses from the vote element there is.
VotingCurrent(v) ==
    voting[v].pc = "voting" /\ ~voting[v].stale =>
        /\ poll.phase = "ELECTION" /\ poll.status \in {"PUBLISHED", "CLOSED"}
        /\ voting[v].element = element
        /\ v \in enrolled

\* The inductive invariant behind the properties above: the transactions that can
\* commit are current, and the voting phase is never left once anyone has voted or
\* the election has begun from its submission phase.
IInv ==
    /\ TypeOK
    /\ \A r \in Requests : WorkCurrent(r)
    /\ \A v \in Voters : VotingCurrent(v)
    /\ HasVotes => poll.status \in {"PUBLISHED", "CLOSED"}
    /\ transitioned => poll.phase = "ELECTION" /\ poll.status # "DRAFT"
    /\ BallotListsTheSlates
    /\ SlateNamesAreUnique
    /\ VotesFitTheBallot
    /\ VotersAreEnrolled
    /\ TransitionedElectionsStayReady

\* "At least one approved and enabled slate is required before the election
\* starts", and one eligible enrollment. It does not hold of a poll created in the
\* voting phase and published: see TransitionedElectionsStayReady for what does.
ElectionsStartReady ==
    poll = [status |-> "PUBLISHED", phase |-> "ELECTION"] => Listed(slates) # {} /\ enrolled # {}

\* "CACiC election slates are frozen after publication or voting starts." Only the
\* second half holds (OneBallotForAll): a change that began in the draft may commit
\* after the publication.
PublishedSlatesAreFrozen ==
    [][poll = [status |-> "PUBLISHED", phase |-> "ELECTION"] /\ poll'.status # "DELETED"
         => slates' = slates]_vars
=============================================================================
