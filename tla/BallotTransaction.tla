------------------------- MODULE BallotTransaction -------------------------
(***************************************************************************)
(* The vote transaction of one regular poll, against everything that can   *)
(* run beside it: other submissions of the same voter, edits, the poll     *)
(* administration, the erasure of a subject and the user synchronisation.  *)
(*                                                                         *)
(* A submission is a request r that goes                                   *)
(*     idle -> admitted -> begun -> holding -> committed | rejected        *)
(* "admitted" is the read of submitResponse                                *)
(* outside the transaction, "begun" the transaction's first read (it fixes *)
(* the snapshot of a SERIALIZABLE transaction), "holding" the time the     *)
(* subject's advisory lock is held while eligibility is asked of a remote  *)
(* service.                                                                *)
(*                                                                         *)
(* PostgreSQL is modelled by what the code relies on: a snapshot per       *)
(* transaction, unique keys, foreign keys, first-committer-wins on rows,   *)
(* and the read-write conflicts between SERIALIZABLE transactions.         *)
(* missed[r] collects what commits of others took from r's snapshot.       *)
(***************************************************************************)
EXTENDS Naturals, FiniteSets

CONSTANTS
    Subjects,     \* Keycloak subjects that may hold a User row and vote
    Admins,       \* the subjects that may be the creator or last editor of the poll
    Requests,     \* submissions; each inserts at most one PollResponse
    Voter,        \* the authenticated subject of each request
    LinkRequests, \* the requests that come through the poll's direct link
    MaxVersion,   \* bound on the number of writes to the Poll row
    NoBallot      \* stands for the absence of a PollResponse row

ASSUME SubjectsAssumption == Admins \subseteq Subjects
ASSUME RequestsAssumption ==
    /\ Voter \in [Requests -> Subjects]
    /\ LinkRequests \subseteq Requests
ASSUME VersionAssumption == MaxVersion \in Nat \ {0}

VARIABLES
    poll,           \* the Poll row
    clock,          \* where "now" is, relative to the voting window
    users,          \* subjects with a User row
    revoked,        \* subjects with a RevokedVotingSubject row
    markers,        \* subjects with a PollVoter row
    erasedMarkers,  \* subjects whose PollVoter row was re-pointed by hardDelete
    ballot,         \* PollResponse rows, by the request that inserted them
    kioskPending,   \* subjects whose TOTP a kiosk validated, not yet synchronised
    pc,             \* progress of each request
    seen,           \* poll.updatedAt at admission
    snap,           \* the snapshot of the vote transaction
    missed          \* changes committed by others since the snapshot

rowVars == <<users, revoked, markers, erasedMarkers, ballot>>
requestVars == <<pc, seen, snap, missed>>
vars == <<poll, clock, rowVars, kioskPending, requestVars>>

-----------------------------------------------------------------------------
(* Data *)

\* What resolvePollResponseOptions can store: editing excludes both multiple
\* responses and the anonymous style.  The three named styles behave alike here.
Policies ==
    {p \in [anonymous : BOOLEAN, multiple : BOOLEAN,
            editing : BOOLEAN, directLink : BOOLEAN] :
        p.editing => ~p.multiple /\ ~p.anonymous}

\* version stands for updatedAt, definition for the version that last wrote the
\* poll's content; "DELETED" is the absence of the row.
PollRows ==
    [status : {"DRAFT", "PUBLISHED", "CLOSED", "DELETED"},
     version : Nat, definition : Nat, policy : Policies]

Clocks == {"early", "open", "late"}

\* A PollResponse: who cast it (not stored when the poll is anonymous), whose id
\* its userId column holds, under which policy and version it was written, and
\* the request whose answers it holds.
Ballots ==
    [caster : Subjects, owner : {"voter", "erased", "nobody"},
     policy : Policies, version : Nat, answers : Requests]

ASSUME NoBallotAssumption == NoBallot \notin Ballots

Snapshots ==
    [poll : PollRows, user : BOOLEAN, revoked : BOOLEAN, marker : BOOLEAN,
     own : SUBSET Requests]

NoSnapshot == [poll |-> "none"]

Conflicts == {"poll", "user", "ballot"}

InTransaction(r) == pc[r] \in {"begun", "holding"}

\* pg_advisory_xact_lock on the subject's hash: held from the lock to the end
\* of a vote transaction; the other holders run in one step.
SubjectLocked(s) == \E r \in Requests : pc[r] = "holding" /\ Voter[r] = s

\* PollResponse rows of the poll.
Cast == {b \in Requests : ballot[b] # NoBallot}

OwnedBy(s) ==
    {b \in Cast : ballot[b].caster = s /\ ballot[b].owner = "voter"}

VotingOpen == poll.status = "PUBLISHED" /\ clock = "open"

TypeOK ==
    /\ poll \in PollRows
    /\ clock \in Clocks
    /\ users \subseteq Subjects
    /\ revoked \subseteq Subjects
    /\ markers \subseteq Subjects
    /\ erasedMarkers \subseteq Subjects
    /\ kioskPending \subseteq Subjects
    /\ ballot \in [Requests -> Ballots \cup {NoBallot}]
    /\ pc \in [Requests -> {"idle", "admitted", "begun", "holding",
                            "committed", "rejected"}]
    /\ seen \in [Requests -> Nat]
    /\ snap \in [Requests -> Snapshots \cup {NoSnapshot}]
    /\ missed \in [Requests -> SUBSET Conflicts]

Init ==
    /\ poll \in [status : {"DRAFT"}, version : {1}, definition : {1},
                 policy : Policies]
    /\ clock = "early"
    /\ users = {}
    /\ revoked = {}
    /\ markers = {}
    /\ erasedMarkers = {}
    /\ kioskPending = {}
    /\ ballot = [r \in Requests |-> NoBallot]
    /\ pc = [r \in Requests |-> "idle"]
    /\ seen = [r \in Requests |-> 0]
    /\ snap = [r \in Requests |-> NoSnapshot]
    /\ missed = [r \in Requests |-> {}]

-----------------------------------------------------------------------------
(* Submission *)

\* submitResponse and submitDirectLinkResponse up to saveResponse: an
\* authenticated principal (its User row was synchronised at login and its
\* revocation checked) finds the poll open.  The principal may become stale at
\* any later point.
Admit(r) ==
    /\ pc[r] = "idle"
    /\ Voter[r] \in users \ revoked
    /\ VotingOpen
    /\ r \in LinkRequests => poll.policy.directLink
    /\ pc' = [pc EXCEPT ![r] = "admitted"]
    /\ seen' = [seen EXCEPT ![r] = poll.version]
    /\ UNCHANGED <<poll, clock, kioskPending, rowVars, snap, missed>>

AnyVersion(r) == TRUE

SameVersion(r) == seen[r] = poll.version

\* A finished transaction keeps nothing but its outcome.
Finish(r, outcome) ==
    /\ pc' = [pc EXCEPT ![r] = outcome]
    /\ seen' = [seen EXCEPT ![r] = 0]
    /\ snap' = [snap EXCEPT ![r] = NoSnapshot]

Reject(r) ==
    /\ Finish(r, "rejected")
    /\ missed' = [missed EXCEPT ![r] = {}]
    /\ UNCHANGED <<poll, clock, kioskPending, rowVars>>

SnapshotOf(r) ==
    [poll |-> poll,
     user |-> Voter[r] \in users,
     revoked |-> Voter[r] \in revoked,
     marker |-> Voter[r] \in markers,
     own |-> OwnedBy(Voter[r])]

\* The first statement of the transaction reads the poll again and fixes the
\* snapshot every later read of the transaction sees.
Begin(r) ==
    /\ pc[r] = "admitted"
    /\ IF VotingOpen /\ SameVersion(r) /\ (r \in LinkRequests => poll.policy.directLink)
       THEN /\ pc' = [pc EXCEPT ![r] = "begun"]
            /\ snap' = [snap EXCEPT ![r] = SnapshotOf(r)]
            /\ UNCHANGED <<poll, clock, kioskPending, rowVars, seen, missed>>
       ELSE Reject(r)

LockUnchecked(r) ==
    /\ pc[r] = "begun"
    /\ ~SubjectLocked(Voter[r])
    /\ pc' = [pc EXCEPT ![r] = "holding"]
    /\ UNCHANGED <<poll, clock, kioskPending, rowVars, seen, snap, missed>>

\* The advisory lock is granted; the revocation is read in the snapshot taken
\* before the wait.
Lock(r) ==
    /\ pc[r] = "begun"
    /\ ~SubjectLocked(Voter[r])
    /\ IF snap[r].revoked
       THEN Reject(r)
       ELSE /\ pc' = [pc EXCEPT ![r] = "holding"]
            /\ UNCHANGED <<poll, clock, kioskPending, rowVars, seen, snap, missed>>

\* The transaction or its remote eligibility check fails or times out.
Abort(r) ==
    /\ InTransaction(r)
    /\ Reject(r)

UserRowInSnapshot(r) == snap[r].user

\* The User row a foreign key points to is in the snapshot and still there.
UserRowIntact(r) == snap[r].user /\ "user" \notin missed[r]

\* Two SERIALIZABLE transactions read what the other writes: this one read the
\* poll that updatePoll or deletePoll replaced, those counted the responses.
PollIntact(r) == "poll" \notin missed[r]

MarkerNotUnique(r) == UserRowIntact(r)

\* PollVoter's primary key and its foreign key to User.
CanInsertMarker(r) == UserRowIntact(r) /\ Voter[r] \notin markers

\* createResponse: only a named response has a foreign key to User.
CanInsertResponse(r) == snap[r].poll.policy.anonymous \/ UserRowIntact(r)

NewBallot(r) ==
    [caster |-> Voter[r],
     owner |-> IF snap[r].poll.policy.anonymous THEN "nobody" ELSE "voter",
     policy |-> snap[r].poll.policy,
     version |-> seen[r],
     answers |-> r]

\* Rows of this voter written by r are a conflict for the voter's other
\* transactions that still wait for the lock.
NoteBallotWrite(r) ==
    missed' = [q \in Requests |->
                 IF q = r THEN {}
                 ELSE IF InTransaction(q) /\ Voter[q] = Voter[r]
                      THEN missed[q] \cup {"ballot"} ELSE missed[q]]

CommitAnotherUnmarked(r) ==
    /\ snap[r].poll.policy.multiple
    /\ CanInsertResponse(r)
    /\ ballot' = [ballot EXCEPT ![r] = NewBallot(r)]
    /\ UNCHANGED markers

\* allowMultipleResponses: an existing marker is left alone.
CommitAnother(r) ==
    /\ snap[r].poll.policy.multiple
    /\ snap[r].marker \/ CanInsertMarker(r)
    /\ CanInsertResponse(r)
    /\ markers' = IF snap[r].marker THEN markers ELSE markers \cup {Voter[r]}
    /\ ballot' = [ballot EXCEPT ![r] = NewBallot(r)]

CommitFirst(r) ==
    /\ ~snap[r].poll.policy.multiple
    /\ ~snap[r].marker
    /\ CanInsertMarker(r)
    /\ CanInsertResponse(r)
    /\ markers' = markers \cup {Voter[r]}
    /\ ballot' = [ballot EXCEPT ![r] = NewBallot(r)]

\* The answers of the voter's response are replaced in place, unless another
\* commit touched the row.
CommitEdit(r) ==
    /\ ~snap[r].poll.policy.multiple
    /\ snap[r].marker
    /\ snap[r].poll.policy.editing
    /\ "ballot" \notin missed[r]
    /\ \E b \in snap[r].own :
          ballot' = [ballot EXCEPT ![b].version = seen[r], ![b].answers = r]
    /\ UNCHANGED markers

Commit(r) ==
    /\ pc[r] = "holding"
    /\ PollIntact(r)
    /\ CommitAnother(r) \/ CommitFirst(r) \/ CommitEdit(r)
    /\ NoteBallotWrite(r)
    /\ Finish(r, "committed")
    /\ UNCHANGED <<poll, clock, kioskPending, users, revoked, erasedMarkers>>

-----------------------------------------------------------------------------
(* Poll administration *)

\* The SERIALIZABLE transactions on the poll conflict with every open vote.
NotePollWrite ==
    missed' = [q \in Requests |->
                 IF InTransaction(q) THEN missed[q] \cup {"poll"} ELSE missed[q]]

PolicyAlwaysChanges(policy) == TRUE

\* assertPollPolicyTransition, with the responses counted in the transaction.
PolicyChangeAllowed(policy) == Cast # {} => policy = poll.policy

\* updatePoll: content and policy, never the status.
UpdatePoll(policy) ==
    /\ poll.status # "DELETED"
    /\ poll.version < MaxVersion
    /\ PolicyChangeAllowed(policy)
    /\ poll' = [poll EXCEPT !.version = @ + 1, !.definition = poll.version + 1,
                            !.policy = policy]
    /\ NotePollWrite
    /\ UNCHANGED <<clock, kioskPending, rowVars, pc, seen, snap>>

ValidStatusTransition(current, next) ==
    \/ current = "DRAFT" /\ next = "PUBLISHED"
    \/ current = "PUBLISHED" /\ next = "CLOSED"
    \/ current = "CLOSED" /\ next = "PUBLISHED"

\* updatePollStatus runs READ COMMITTED: it is no conflict for an open vote.
UpdatePollStatus(status) ==
    /\ ValidStatusTransition(poll.status, status)
    /\ poll.version < MaxVersion
    /\ poll' = [poll EXCEPT !.version = @ + 1, !.status = status]
    /\ UNCHANGED <<clock, kioskPending, rowVars, requestVars>>

\* deletePoll: responses and markers go with the row.
DeletePoll ==
    /\ poll.status # "DELETED"
    /\ poll' = [poll EXCEPT !.status = "DELETED"]
    /\ markers' = {}
    /\ erasedMarkers' = {}
    /\ ballot' = [r \in Requests |-> NoBallot]
    /\ NotePollWrite
    /\ UNCHANGED <<clock, kioskPending, users, revoked, pc, seen, snap>>

ClockTick ==
    /\ \/ clock = "early" /\ clock' = "open"
       \/ clock = "open" /\ clock' = "late"
    /\ UNCHANGED <<poll, kioskPending, rowVars, requestVars>>

-----------------------------------------------------------------------------
(* Subjects *)

\* KeycloakAuthService.syncUser: under the subject's lock, never for a revoked
\* subject.
SyncUser(s) ==
    /\ ~SubjectLocked(s)
    /\ s \notin revoked
    /\ users' = users \cup {s}
    /\ UNCHANGED <<poll, clock, kioskPending, revoked, markers, erasedMarkers, ballot, requestVars>>

\* PollKioskAuthorizationService.authorize up to assertCanContinue: the Account
\* Manager, which no longer knows a deleted account, validates the TOTP of a
\* subject that can still submit to the open poll.
ValidateKioskVoter(s) ==
    /\ s \notin revoked
    /\ VotingOpen
    /\ s \in markers => poll.policy.multiple \/ poll.policy.editing
    /\ kioskPending' = kioskPending \cup {s}
    /\ UNCHANGED <<poll, clock, rowVars, requestVars>>

\* syncLocalVoter, the next step of authorize: a bare upsert of the User row.
SyncKioskVoter(s) ==
    /\ s \in kioskPending
    /\ kioskPending' = kioskPending \ {s}
    /\ users' = users \cup {s}
    /\ UNCHANGED <<poll, clock, revoked, markers, erasedMarkers, ballot, requestVars>>

\* hardDelete re-points what the subject owns to an anonymised user and deletes
\* the User row; without a User row it only records the revocation.  Re-pointing
\* createdById or updatedById of the poll advances its updatedAt.
EraseSubject(s) ==
    /\ ~SubjectLocked(s)
    /\ revoked' = revoked \cup {s}
    /\ IF s \in users
       THEN /\ users' = users \ {s}
            /\ markers' = markers \ {s}
            /\ erasedMarkers' = IF s \in markers THEN erasedMarkers \cup {s}
                                                 ELSE erasedMarkers
            /\ ballot' = [b \in Requests |->
                            IF b \in OwnedBy(s)
                            THEN [ballot[b] EXCEPT !.owner = "erased"]
                            ELSE ballot[b]]
            /\ missed' = [q \in Requests |->
                            IF InTransaction(q) /\ Voter[q] = s
                            THEN missed[q] \cup {"user", "ballot"} ELSE missed[q]]
            /\ \/ UNCHANGED poll
               \/ /\ s \in Admins
                  /\ poll.status # "DELETED"
                  /\ poll.version < MaxVersion
                  /\ poll' = [poll EXCEPT !.version = @ + 1]
       ELSE UNCHANGED <<poll, users, markers, erasedMarkers, ballot, missed>>
    /\ UNCHANGED <<clock, kioskPending, pc, seen, snap>>

RequestStep(r) == Begin(r) \/ Lock(r) \/ Commit(r) \/ Abort(r)

Next ==
    \/ \E r \in Requests : Admit(r)
    \/ \E r \in Requests : RequestStep(r)
    \/ \E policy \in Policies : UpdatePoll(policy)
    \/ \E status \in {"PUBLISHED", "CLOSED"} : UpdatePollStatus(status)
    \/ DeletePoll
    \/ ClockTick
    \/ \E s \in Subjects : SyncUser(s)
    \/ \E s \in Subjects : ValidateKioskVoter(s)
    \/ \E s \in Subjects : SyncKioskVoter(s)
    \/ \E s \in Subjects : EraseSubject(s)

Spec == Init /\ [][Next]_vars

-----------------------------------------------------------------------------
(* Inductive invariant *)

\* What the rows satisfy together, by the schema's keys and the erasure.
RowsConsistent ==
    /\ poll.definition <= poll.version
    /\ markers \subseteq users
    /\ erasedMarkers \subseteq revoked
    /\ \A b \in Cast : pc[b] = "committed"

\* What an open transaction still knows, unless a conflict was recorded.
SnapshotCurrent(r) ==
    /\ snap[r] \in Snapshots
    /\ "poll" \notin missed[r] =>
          /\ snap[r].poll.policy = poll.policy
          /\ seen[r] >= poll.definition
          /\ snap[r].marker => Voter[r] \in markers \cup erasedMarkers
          /\ "ballot" \notin missed[r] => snap[r].own \subseteq OwnedBy(Voter[r])
    /\ snap[r].user /\ "user" \notin missed[r] =>
          /\ Voter[r] \in users
          /\ Voter[r] \in revoked => snap[r].revoked
    /\ pc[r] = "holding" => ~snap[r].revoked

-----------------------------------------------------------------------------
(* Properties *)

\* saveResponse: a poll that does not allow multiple responses holds at most one
\* ballot per subject, however its submissions interleave with each other, with
\* policy changes and with the erasure of the subject.
AtMostOneBallot ==
    ~poll.policy.multiple =>
        \A a, b \in Cast : ballot[a].caster = ballot[b].caster => a = b

\* saveResponse: a subject's marker (under its own or its anonymised id) exists
\* exactly when a ballot of that subject does, so that "already voted" and the
\* turnout agree with the ballots even where no ballot names its voter.
MarkerIffBallot ==
    \A s \in Subjects :
        s \in markers \cup erasedMarkers <=> \E b \in Cast : ballot[b].caster = s

\* assertPollPolicyTransition against saveResponse: the privacy and response
\* policy under which a ballot was cast is the policy the poll has now, and an
\* anonymous poll stores no voter with any of its ballots.
BallotsKeepPolicy ==
    \A b \in Cast :
        /\ ballot[b].policy = poll.policy
        /\ ballot[b].owner = "nobody" <=> poll.policy.anonymous

\* hardDelete: once a subject is revoked, no marker and no ballot names it, not
\* even one a transaction of that subject was writing meanwhile.
ErasedSubjectsAreNotNamed ==
    \A s \in revoked : s \notin markers /\ OwnedBy(s) = {}

\* saveResponse against all writers: the inductive invariant behind the four
\* above.  It adds that rows respect the schema's foreign keys and that an open
\* transaction without a recorded conflict still holds a current snapshot.
IInv ==
    /\ TypeOK
    /\ RowsConsistent
    /\ \A r \in Requests : InTransaction(r) => SnapshotCurrent(r)
    /\ AtMostOneBallot
    /\ MarkerIffBallot
    /\ BallotsKeepPolicy
    /\ ErasedSubjectsAreNotNamed

\* The step inserts the row b or replaces its answers.
AnswersWritten(b) ==
    /\ ballot'[b] # NoBallot
    /\ ballot[b] = NoBallot \/ ballot'[b].answers # ballot[b].answers

\* saveResponse: answers are stored only for the definition the request was
\* admitted with; a poll edited in between refuses them.
AnswersMatchDefinition ==
    [][\A b \in Requests :
          AnswersWritten(b) => ballot'[b].version >= poll.definition]_vars

\* saveResponse and hardDelete: after the revocation committed, the only write a
\* request of that subject still gets through is a further ballot of an anonymous
\* poll with multiple responses, which no row ties to the subject.
RevokedWriteOnlyUnlinked ==
    [][\A b \in Requests :
          AnswersWritten(b) /\ ballot'[b].caster \in revoked
            => ballot'[b].policy.anonymous /\ ballot'[b].policy.multiple]_vars

\* "This subject is no longer allowed to vote.": no ballot is added for a subject
\* whose revocation has committed. It does not hold: a further unlinked ballot may
\* follow, which RevokedWriteOnlyUnlinked bounds.
RevokedCastNothing ==
    [][\A b \in Requests :
          ballot[b] = NoBallot /\ ballot'[b] # NoBallot
            => ballot'[b].caster \notin revoked]_vars

\* "this keyed digest blocks identity recreation after anonymization": a subject
\* that is revoked gets no User row again. It does not hold: syncLocalVoter of the
\* kiosk consults no revocation.
RevokedNotRecreated ==
    [][\A s \in Subjects : s \in revoked /\ s \notin users => s \notin users']_vars
=============================================================================
