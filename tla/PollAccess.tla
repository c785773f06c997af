----------------------------- MODULE PollAccess -----------------------------
(***************************************************************************)
(* Who may find, open, vote in and read the results of a poll, while time  *)
(* passes and administrators configure, publish, close and reopen it.      *)
(* The same questions are answered more than once in the code: by the      *)
(* filter of a list and by the check of one poll, by a page that offers    *)
(* something and by the server that gives it, by the page that reads a     *)
(* file and by the server that imports it.                                 *)
(*                                                                         *)
(* A vote is two steps: the check that voting is open, and the commit,     *)
(* which a change of status in between does not stop (BallotTransaction).  *)
(* Claims are the values the token or the User row gives, already split.   *)
(***************************************************************************)
EXTENDS Integers, FiniteSets, SequencesExt

CONSTANTS
    PollIds,
    Accounts,        \* signed-in users
    Claims,          \* the claims of each account: [own, attributes], values by name
    Attended,        \* the pairs <<event, account>> the Event Manager knows
    UnespEmails,     \* the e-mails in the university's domain
    ComputerScience, \* the enrollment numbers with the code of that course
    Unusable,        \* raw values that are blank or too long for an enrollment number
    Unset,           \* null
    Settings,        \* what an administrator may submit
    Created,         \* those each poll may be created with
    Enrolled,        \* the enrollment numbers in the lists of the polls that use one
    Files,           \* the files an administrator may import
    MonthLength,     \* units of time in a month
    MaxTime,         \* bound on time
    MaxChanges,      \* bound on changes of a poll by administrators
    MaxBallots       \* bound on votes, those under way included

ASSUME TimeAssumption == MonthLength \in Nat \ {0} /\ MaxTime \in Nat

\* validatePollPublicationSchedule, and no attendance without an event.
ASSUME SettingsAssumption ==
    \A s \in Settings :
        /\ s.endsAt # Unset /\ s.visibleFrom # Unset => s.visibleFrom < s.endsAt
        /\ s.endsAt # Unset /\ s.startsAt # Unset => s.startsAt < s.endsAt
        /\ s.source \in {"eventAttendance", "eventAttendanceUnesp", "eventAttendanceStudents"}
              => s.event # Unset

\* What the input of a poll is made of; null is not a time.
ASSUME SubmittedAssumption ==
    /\ Unset \notin Nat
    /\ Settings \subseteq
          [phase : {"none", "slateSubmission", "election"},
           style : {"public", "secret", "partiallySecret", "anonymous"},
           source : {"authenticatedUsers", "unespUsers", "computerScienceStudents",
                     "eventAttendance", "eventAttendanceUnesp", "eventAttendanceStudents",
                     "enrollmentList"},
           verified : BOOLEAN, event : {s.event : s \in Settings}, directLink : BOOLEAN,
           resultsPublic : BOOLEAN, resultsLive : BOOLEAN,
           visibleFrom : Nat \cup {Unset}, startsAt : Nat \cup {Unset},
           endsAt : Nat \cup {Unset}]

VARIABLES
    polls,     \* the Poll rows with their enrollment lists
    now,       \* time
    voting,    \* votes between their check and their commit
    voted,     \* the accounts with a ballot in each poll
    late,      \* those whose ballot was stored after the poll was first closed (history)
    closed,    \* the polls that were closed at least once (history)
    kept,      \* results a reader was given and compares with later ones (history)
    changes    \* changes so far (bounded)

histories == <<late, closed, kept>>
accessVars == <<polls, now, voting, voted, histories, changes>>

-----------------------------------------------------------------------------
(* Claims.                                                                 *)

ValuesOf(f, name) == IF name \in DOMAIN f THEN f[name] ELSE << >>

\* Name by name, the claim itself before the attribute of that name.
ReadClaimValues(u, names) ==
    FlattenSeq([i \in DOMAIN names |->
        ValuesOf(Claims[u].own, names[i]) \o ValuesOf(Claims[u].attributes, names[i])])

NormalizeEnrollmentNumber(v) == IF v \in Unusable THEN Unset ELSE v

\* The first usable value.
ReadUserEnrollmentNumber(u) ==
    LET numbers == SelectSeq(
            ReadClaimValues(u, <<"enrollmentNumber", "enrollment_number",
                                 "academicId", "academic_id">>),
            LAMBDA v : NormalizeEnrollmentNumber(v) # Unset)
    IN  IF numbers = << >> THEN Unset ELSE numbers[1]

HasUnespEmail(u) ==
    ToSet(ReadClaimValues(u, <<"email", "secondary_emails", "secondaryEmails">>))
        \cap UnespEmails # {}

HasUndergraduateUnespRole(u) ==
    "aluno-graduacao" \in ToSet(ReadClaimValues(u, <<"unesp_role", "unespRole">>))

HasVerifiedUnespRole(u) ==
    "true" \in ToSet(ReadClaimValues(u,
        <<"unespRoleVerified", "isUnespRoleVerified",
          "unesp_role_verified", "is_unesp_role_verified">>))

-----------------------------------------------------------------------------
(* Eligibility: the account passes, is denied, or cannot be checked now:   *)
(* the Event Manager answers each check in the time that check gives it,   *)
(* 2 s and one attempt for a list and a vote, 10 s and three attempts for  *)
(* one poll, or does not.                                                  *)

Denied(condition) == IF condition THEN "passes" ELSE "denied"

\* The first check that does not pass decides.
InOrder(first, second) == IF first = "passes" THEN second ELSE first

EventAttendance(p, u, answered) ==
    IF ~answered THEN "unavailable" ELSE Denied(<<polls[p].event, u>> \in Attended)

ComputerScienceStudent(p, u) ==
    Denied(/\ HasUndergraduateUnespRole(u)
           /\ ReadUserEnrollmentNumber(u) \in ComputerScience
           /\ polls[p].verified => HasVerifiedUnespRole(u))

EnrollmentList(p, u) == Denied(ReadUserEnrollmentNumber(u) \in polls[p].enrolled)

EnsureVotingAllowed(p, u, answered) ==
    CASE polls[p].source = "authenticatedUsers" -> "passes"
      [] polls[p].source = "unespUsers" -> Denied(HasUnespEmail(u))
      [] polls[p].source = "computerScienceStudents" -> ComputerScienceStudent(p, u)
      [] polls[p].source = "eventAttendance" -> EventAttendance(p, u, answered)
      [] polls[p].source = "eventAttendanceUnesp" ->
            InOrder(EventAttendance(p, u, answered), Denied(HasUnespEmail(u)))
      [] polls[p].source = "eventAttendanceStudents" ->
            InOrder(EventAttendance(p, u, answered), ComputerScienceStudent(p, u))
      [] polls[p].source = "enrollmentList" -> EnrollmentList(p, u)
      [] OTHER -> "denied"

\* Once it is answered.
Eligible(p, u) == EnsureVotingAllowed(p, u, TRUE) = "passes"

-----------------------------------------------------------------------------
(* Visibility.                                                             *)

Reached(t) == t # Unset => t <= now

PublicReadablePollWhere(p) ==
    \/ polls[p].status = "PUBLISHED" /\ Reached(polls[p].visibleFrom)
    \/ polls[p].status = "CLOSED" /\ polls[p].resultsPublic /\ Reached(polls[p].visibleFrom)

IsPollPubliclyVisible(p) ==
    /\ Reached(polls[p].visibleFrom)
    /\ polls[p].status = "PUBLISHED" \/ (polls[p].status = "CLOSED" /\ polls[p].resultsPublic)

PollVotingOpenWhere(p) ==
    /\ polls[p].status = "PUBLISHED"
    /\ Reached(polls[p].visibleFrom)
    /\ Reached(polls[p].startsAt)
    /\ polls[p].endsAt # Unset => polls[p].endsAt > now

IsCacicElectionVotingPoll(p) == polls[p].phase = "election"

\* An open slate submission may be read by everyone who is signed in.
ShouldRequireVotingEligibilityForRead(p) == polls[p].phase # "slateSubmission"

\* A poll that is not found is denied as well.
GetPublishedPoll(p, u, answered) ==
    InOrder(Denied(PublicReadablePollWhere(p)),
            IF ShouldRequireVotingEligibilityForRead(p)
            THEN EnsureVotingAllowed(p, u, answered) ELSE "passes")

AssertPublishedPollReadable(p, u, answered) ==
    InOrder(Denied(PublicReadablePollWhere(p)),
            IF ShouldRequireVotingEligibilityForRead(p)
            THEN EnsureVotingAllowed(p, u, answered) ELSE "passes")

GetPublishedPollByDirectLink(p) == polls[p].directLink /\ PublicReadablePollWhere(p)

\* Mutant: polls of one event share a check whoever else they are restricted to.
KeyOfEvent(p) ==
    IF polls[p].event # Unset THEN <<polls[p].event>> ELSE <<p>>

\* Polls restricted to the attendance of one event share the check of one request.
CheckKey(p) ==
    IF polls[p].source \in {"eventAttendance", "eventAttendanceUnesp", "eventAttendanceStudents"}
    THEN <<polls[p].source, polls[p].event, polls[p].verified>> ELSE <<p>>

\* The catalogue of an account, when only the checks made for the polls of "heard" are
\* answered in time: what cannot be checked is left out.
ListPublicPolls(u, heard) ==
    LET readable == {p \in PollIds : PublicReadablePollWhere(p)}
        Checked(p) == CHOOSE q \in readable : CheckKey(q) = CheckKey(p)
    IN  {p \in readable :
            EnsureVotingAllowed(Checked(p), u, Checked(p) \in heard) = "passes"}

-----------------------------------------------------------------------------
(* Observers of elections: those of this month and of the month before.    *)

InObserverWindow(t) == t \div MonthLength \in {now \div MonthLength - 1, now \div MonthLength}

ObserverElectionPollWhere(p) ==
    /\ polls[p].phase # "none"
    /\ \/ polls[p].startsAt # Unset /\ InObserverWindow(polls[p].startsAt)
       \/ /\ polls[p].startsAt = Unset
          /\ polls[p].visibleFrom # Unset /\ InObserverWindow(polls[p].visibleFrom)
       \/ /\ polls[p].startsAt = Unset /\ polls[p].visibleFrom = Unset
          /\ polls[p].publishedAt # Unset /\ InObserverWindow(polls[p].publishedAt)
       \/ /\ polls[p].startsAt = Unset /\ polls[p].visibleFrom = Unset
          /\ polls[p].publishedAt = Unset /\ InObserverWindow(polls[p].createdAt)

FirstGiven(dates) == dates[SelectInSeq(dates, LAMBDA t : t # Unset)]

IsObserverReadableElectionPoll(p) ==
    /\ polls[p].phase # "none"
    /\ InObserverWindow(FirstGiven(<<polls[p].startsAt, polls[p].visibleFrom,
                                     polls[p].publishedAt, polls[p].createdAt>>))

-----------------------------------------------------------------------------
(* Results.                                                                *)

\* Mutant: live results are published whatever the secrecy.
LiveResultsVisible(p) ==
    /\ IsPollPubliclyVisible(p)
    /\ polls[p].resultsPublic
    /\ \/ polls[p].status = "CLOSED"
       \/ ~IsCacicElectionVotingPoll(p) /\ polls[p].resultsLive

AssertPublicResultsVisible(p) ==
    /\ IsPollPubliclyVisible(p)
    /\ polls[p].resultsPublic
    /\ \/ polls[p].status = "CLOSED"
       \/ /\ ~IsCacicElectionVotingPoll(p)
          /\ polls[p].resultsLive
          /\ polls[p].style = "public"

AreAnswersReleased(p, audience) ==
    IF IsCacicElectionVotingPoll(p) THEN polls[p].status = "CLOSED"
    ELSE \/ audience # "admin"
         \/ polls[p].style # "anonymous"
         \/ polls[p].status = "CLOSED"

\* What a list of participants says of one of them.
ToPollResultsVoter(p, u, audience) ==
    CASE audience = "admin" -> <<"user", u>>
      [] audience = "public" -> <<"participant", p, u>>
      [] audience = "observer" ->
            IF ReadUserEnrollmentNumber(u) = Unset THEN <<"redacted">>
            ELSE <<"enrollment", ReadUserEnrollmentNumber(u)>>

\* The ballots are sent as rows, or counted in aggregates.
ToPollResults(p, audience) ==
    [responseCount |-> Cardinality(voted[p]),
     ballots |-> IF AreAnswersReleased(p, audience) THEN voted[p] ELSE {},
     voters  |-> IF audience # "public" \/ polls[p].style = "partiallySecret"
                 THEN {ToPollResultsVoter(p, u, audience) : u \in voted[p]} ELSE {}]

GetPublicPollResults(p, u, answered) ==
    InOrder(Denied(AssertPublicResultsVisible(p)), EnsureVotingAllowed(p, u, answered))

GetDirectLinkPublicPollResults(p) ==
    /\ polls[p].directLink
    /\ PublicReadablePollWhere(p)
    /\ AssertPublicResultsVisible(p)

ReadPublicResults(p) ==
    \/ GetDirectLinkPublicPollResults(p)
    \/ \E u \in Accounts : GetPublicPollResults(p, u, TRUE) = "passes"

\* Administrators read any poll, observers the elections of their window.
ReadAdminResults(p, audience) == audience = "observer" => IsObserverReadableElectionPoll(p)

MayReadResults(p, audience) ==
    IF audience = "public" THEN ReadPublicResults(p) ELSE ReadAdminResults(p, audience)

\* Ballots whose order must not be told from two readings.
MustNotCompare(p, audience) ==
    IF audience = "public" THEN polls[p].style # "public" ELSE polls[p].style = "anonymous"

KeepResults(p, audience) ==
    /\ kept = Unset
    /\ MustNotCompare(p, audience)
    /\ voted[p] # {}
    /\ MayReadResults(p, audience)
    /\ kept' = [poll |-> p, audience |-> audience, results |-> ToPollResults(p, audience)]
    /\ UNCHANGED <<polls, now, voting, voted, late, closed, changes>>

-----------------------------------------------------------------------------
(* What the pages offer.                                                   *)

\* The page of a poll it has opened.
ShouldShowPublicResults(p) ==
    IF polls[p].phase = "election" THEN polls[p].resultsPublic /\ polls[p].status = "CLOSED"
    ELSE /\ polls[p].resultsPublic
         /\ \/ polls[p].status = "CLOSED"
            \/ polls[p].resultsLive /\ polls[p].style = "public"

\* The page that lists the catalogue.
CanShowResults(p) ==
    IF polls[p].phase = "election" THEN polls[p].resultsPublic /\ polls[p].status = "CLOSED"
    ELSE polls[p].resultsPublic /\ (polls[p].resultsLive \/ polls[p].status = "CLOSED")

IsPollVotingOpen(p) ==
    /\ polls[p].status = "PUBLISHED"
    /\ (IF polls[p].visibleFrom = Unset THEN -1 ELSE polls[p].visibleFrom) <= now
    /\ (IF polls[p].startsAt = Unset THEN -1 ELSE polls[p].startsAt) <= now
    /\ (IF polls[p].endsAt = Unset THEN MaxTime + 1 ELSE polls[p].endsAt) > now

CanVoteInPoll(p) == IsPollVotingOpen(p) /\ polls[p].phase # "slateSubmission"

-----------------------------------------------------------------------------
(* Votes.                                                                  *)

\* submitResponse or submitDirectLinkResponse, and the checks of saveResponse.
SubmitResponse(p, u, byLink, answered) ==
    InOrder(Denied(/\ PollVotingOpenWhere(p)
                   /\ polls[p].phase # "slateSubmission"
                   /\ byLink => polls[p].directLink),
            IF byLink THEN "passes" ELSE EnsureVotingAllowed(p, u, answered))

BeginVote(p, u) ==
    /\ \E byLink \in BOOLEAN : SubmitResponse(p, u, byLink, TRUE) = "passes"
    /\ u \notin voted[p]
    /\ Cardinality(voting) + Cardinality(UNION {voted[q] \X {q} : q \in PollIds}) < MaxBallots
    /\ voting' = voting \cup {<<p, u>>}
    /\ UNCHANGED <<polls, now, voted, histories, changes>>

\* The remaining reads of the transaction see its snapshot: the ballot is stored
\* although the poll may have been closed meanwhile.
CommitVote(p, u) ==
    /\ <<p, u>> \in voting
    /\ voting' = voting \ {<<p, u>>}
    /\ voted' = [voted EXCEPT ![p] = @ \cup {u}]
    /\ late' = IF p \in closed THEN [late EXCEPT ![p] = @ \cup {u}] ELSE late
    /\ UNCHANGED <<polls, now, closed, kept, changes>>

-----------------------------------------------------------------------------
(* Administration.                                                         *)

\* resolvePollMetadata and the other resolutions of what was submitted.
ResolvePollMetadata(s) ==
    [s EXCEPT !.style = IF s.phase = "election" THEN "anonymous" ELSE @,
              !.source = IF s.phase = "election" THEN "enrollmentList" ELSE @,
              !.verified = @ /\ s.phase # "election"
                             /\ s.source \in {"computerScienceStudents", "eventAttendanceStudents"},
              !.event = IF s.phase = "election" THEN Unset ELSE @,
              !.directLink = @ /\ s.phase = "none",
              !.resultsPublic = IF s.phase = "none" THEN @ ELSE s.phase = "election",
              !.resultsLive = @ /\ s.phase = "none" /\ s.resultsPublic]

AssertPollPolicyTransition(p, r) ==
    LET q == polls[p]
    IN  \/ q.status = "DRAFT" /\ voted[p] = {}
        \/ /\ q.phase = "slateSubmission" /\ r.phase = "election"
           /\ q.status # "CLOSED" /\ voted[p] = {}
        \/ /\ q.phase = r.phase
           /\ <<q.source, q.verified, q.event>> = <<r.source, r.verified, r.event>>
           /\ voted[p] # {} => q.style = r.style /\ q.directLink = r.directLink

\* Votes that were admitted before the change are refused.
Save(p, s) ==
    LET r == ResolvePollMetadata(s)
    IN  /\ changes < MaxChanges
        /\ AssertPollPolicyTransition(p, r)
        /\ r.phase = "election" /\ polls[p].phase # "election" => polls[p].enrolled # {}
        /\ changes' = changes + 1
        /\ polls' = [polls EXCEPT ![p] = [f \in DOMAIN polls[p] |->
                        IF f \in DOMAIN r THEN r[f] ELSE polls[p][f]]]
        /\ voting' = {v \in voting : v[1] # p}
        /\ UNCHANGED <<now, voted, histories>>

\* A closed poll may be published again.
UpdatePollStatus(p, next) ==
    /\ changes < MaxChanges
    /\ <<polls[p].status, next>> \in {<<"DRAFT", "PUBLISHED">>, <<"PUBLISHED", "CLOSED">>,
                                      <<"CLOSED", "PUBLISHED">>}
    /\ changes' = changes + 1
    /\ polls' = [polls EXCEPT ![p].status = next,
                              ![p].publishedAt = IF @ = Unset THEN now ELSE @]
    /\ closed' = IF next = "CLOSED" THEN closed \cup {p} ELSE closed
    /\ UNCHANGED <<now, voting, voted, late, kept>>

-----------------------------------------------------------------------------
(* Import of enrollment numbers. A file is its header line, with what      *)
(* separates its cells and how often each delimiter appears within quotes  *)
(* there, and its other lines.                                             *)

Delimiters == <<",", ";", "tab">>

UnquotedDelimiters(f, d) == IF d = f.delimiter THEN Len(f.headers) - 1 ELSE 0

\* The first of the candidates that is counted most.
MostCounted(candidates, Count(_)) ==
    candidates[CHOOSE i \in DOMAIN candidates : \A j \in DOMAIN candidates :
        IF j < i THEN Count(candidates[j]) < Count(candidates[i])
                 ELSE Count(candidates[j]) <= Count(candidates[i])]

\* The server counts outside quotes, the page everywhere in the line.
DetectCsvDelimiter(f) == MostCounted(Delimiters, LAMBDA d : UnquotedDelimiters(f, d))

PageDelimiter(f) ==
    MostCounted(Delimiters, LAMBDA d : UnquotedDelimiters(f, d) + f.quoted[d])

\* Another delimiter than the file's leaves every line in one cell.
WholeLines(f) == [headers |-> <<"line">>, rows |-> [i \in DOMAIN f.rows |-> <<"line">>]]

ParseCsv(f, d) ==
    LET table == IF d = f.delimiter \/ Len(f.headers) = 1
                 THEN [headers |-> f.headers, rows |-> f.rows] ELSE WholeLines(f)
    IN  IF \/ \E i, j \in DOMAIN table.headers : i # j /\ table.headers[i] = table.headers[j]
           \/ \E i \in DOMAIN table.rows : Len(table.rows[i]) # Len(table.headers)
        THEN [headers |-> << >>, rows |-> << >>]
        ELSE table

Column(table, header) ==
    LET i == CHOOSE i \in DOMAIN table.headers : table.headers[i] = header
    IN  [k \in DOMAIN table.rows |-> table.rows[k][i]]

\* What the dialog of the page offers to choose from.
OfferedHeaders(f) == ToSet(ParseCsv(f, PageDelimiter(f)).headers)

\* What the server then reads, if it finds the header.
ParseEligibilityCsvImport(f, header) ==
    LET table == ParseCsv(f, DetectCsvDelimiter(f))
    IN  IF header \in ToSet(table.headers) THEN Column(table, header) ELSE Unset

NormalizeEnrollmentNumbers(values) ==
    {NormalizeEnrollmentNumber(values[i]) : i \in DOMAIN values} \ {Unset}

ImportEligibilityEnrollments(p, f, mode) ==
    /\ changes < MaxChanges
    /\ polls[p].status = "DRAFT"
    /\ \E header \in OfferedHeaders(f) :
          LET values == ParseEligibilityCsvImport(f, header)
              numbers == IF values = Unset THEN {} ELSE NormalizeEnrollmentNumbers(values)
          IN  /\ numbers # {}
              /\ polls' = [polls EXCEPT ![p].enrolled =
                              IF mode = "replace" THEN numbers ELSE @ \cup numbers]
    /\ changes' = changes + 1
    /\ voting' = {v \in voting : v[1] # p}
    /\ UNCHANGED <<now, voted, histories>>

-----------------------------------------------------------------------------
Tick ==
    /\ now < MaxTime
    /\ now' = now + 1
    /\ UNCHANGED <<polls, voting, voted, histories, changes>>

\* createPoll, a draft with what was submitted, and the first import into its list.
NewPoll(s) ==
    LET r == ResolvePollMetadata(s)
        draft == [status |-> "DRAFT", publishedAt |-> Unset, createdAt |-> 0,
                  enrolled |-> IF r.source = "enrollmentList" THEN Enrolled ELSE {}]
    IN  [f \in DOMAIN r \cup DOMAIN draft |-> IF f \in DOMAIN r THEN r[f] ELSE draft[f]]

AccessInit ==
    /\ polls \in {f \in [PollIds -> {NewPoll(s) : s \in Settings}] :
                     \A p \in PollIds : \E s \in Created[p] : f[p] = NewPoll(s)}
    /\ now = 0
    /\ voting = {}
    /\ voted = [p \in PollIds |-> {}]
    /\ late = [p \in PollIds |-> {}]
    /\ closed = {}
    /\ kept = Unset
    /\ changes = 0

AccessNext ==
    \/ \E p \in PollIds :
          \/ \E s \in Settings : Save(p, s)
          \/ \E next \in {"PUBLISHED", "CLOSED"} : UpdatePollStatus(p, next)
          \/ \E f \in Files, mode \in {"append", "replace"} :
                ImportEligibilityEnrollments(p, f, mode)
          \/ \E audience \in {"public", "observer", "admin"} : KeepResults(p, audience)
          \/ \E u \in Accounts : BeginVote(p, u) \/ CommitVote(p, u)
    \/ Tick

AccessSpec == AccessInit /\ [][AccessNext]_accessVars

-----------------------------------------------------------------------------
(* Properties.                                                             *)

\* Given when the Event Manager answers, and at worst unavailable when it does not.
NotDenied(answered, unanswered) == answered = "passes" /\ unanswered # "denied"

\* Live results of a ballot that is not public: the list of polls offers them, and the
\* server denies them.
LiveAndSecret(p) == polls[p].status # "CLOSED" /\ polls[p].style # "public"

\* What a catalogue lists is not denied when it is opened, with its images and with the
\* results the list offers, but for those of LiveAndSecret; and what an eligible account
\* can open is listed when its check is answered (listPublicPolls, getPublishedPoll).
ListedPollsOpen ==
    \A u \in Accounts : \A p \in PollIds :
        /\ \A heard \in SUBSET PollIds : p \in ListPublicPolls(u, heard) =>
              /\ NotDenied(GetPublishedPoll(p, u, TRUE), GetPublishedPoll(p, u, FALSE))
              /\ CanShowResults(p) /\ ~LiveAndSecret(p) =>
                    NotDenied(GetPublicPollResults(p, u, TRUE), GetPublicPollResults(p, u, FALSE))
        /\ \A answered \in BOOLEAN : GetPublishedPoll(p, u, answered) = "passes" =>
              /\ NotDenied(AssertPublishedPollReadable(p, u, TRUE),
                           AssertPublishedPollReadable(p, u, FALSE))
              /\ Eligible(p, u) => p \in ListPublicPolls(u, PollIds)

\* A poll a page has opened, by its id or by its link, is not denied the results the page
\* asks for, nor the vote the page offers.
OpenedPollsAnswer ==
    \A p \in PollIds : \A u \in Accounts :
        /\ \A answered \in BOOLEAN : GetPublishedPoll(p, u, answered) = "passes" =>
              /\ ShouldShowPublicResults(p) =>
                    NotDenied(GetPublicPollResults(p, u, TRUE), GetPublicPollResults(p, u, FALSE))
              /\ CanVoteInPoll(p) =>
                    NotDenied(SubmitResponse(p, u, FALSE, TRUE), SubmitResponse(p, u, FALSE, FALSE))
        /\ GetPublishedPollByDirectLink(p) =>
              /\ ShouldShowPublicResults(p) => GetDirectLinkPublicPollResults(p)
              /\ CanVoteInPoll(p) => SubmitResponse(p, u, TRUE, FALSE) = "passes"

\* At every moment of every poll's life the two implementations of each rule agree, each
\* call with an answer of the Event Manager of its own: what lists and pages offer is not
\* denied, but for LiveAndSecret, and observers are listed what they may read.
OffersAreNotDenied ==
    /\ ListedPollsOpen
    /\ OpenedPollsAnswer
    /\ \A p \in PollIds : ObserverElectionPollWhere(p) <=> IsObserverReadableElectionPoll(p)

\* "a participant list or aggregate delta can be correlated with the latest vote by
\* timing" (assertPublicResultsVisible): the public results of a ballot that is not public,
\* and what administrators are given of the answers of an anonymous one, differ from an
\* earlier reading only by ballots stored after a first closing: those of a reopened poll
\* or under way when it closed.
SecretVotesArePublishedTogether ==
    kept # Unset /\ MayReadResults(kept.poll, kept.audience) =>
        LET p == kept.poll
            results == ToPollResults(p, kept.audience)
        IN  IF kept.audience = "public"
            THEN /\ results.responseCount - kept.results.responseCount <= Cardinality(late[p])
                 /\ results.voters \ kept.results.voters \subseteq
                       {ToPollResultsVoter(p, u, "public") : u \in late[p]}
            ELSE kept.results.ballots # {} =>
                    results.ballots \ kept.results.ballots \subseteq late[p]

\* "Ver resultados" on the list of polls: the results it offers can be read. It does not
\* hold: live results are offered whatever the secrecy of the ballot (LiveAndSecret).
ListedResultsAreReadable ==
    \A u \in Accounts : \A p \in ListPublicPolls(u, PollIds) :
        CanShowResults(p) => GetPublicPollResults(p, u, TRUE) = "passes"
=============================================================================
