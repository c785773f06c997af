# Verification of CACiC Voto

TLA+ models of the voting service (`src/apps/backend`) and of the pages that use it
(`src/apps/frontend`), the TLC configurations that check them and the TLAPS proofs about
them. Paths are relative to `src/apps/backend/src/app/` unless they start with
`frontend:`, which stands for `src/apps/frontend/src/app/`, or with `src/`.

## 1. The system

Members of a student body answer polls, or vote in the elections of their centre
(CACiC), in a browser or at a voting kiosk run by an operator. The service is a
NestJS application that runs in several processes over one PostgreSQL database
and one Redis. It signs people in with Keycloak, checks TOTP codes with the
Account Manager, which also asks it by gRPC to erase people (LGPD), reads attendance
from the Event Manager, and keeps poll images in S3. An Angular frontend uses it over
HTTP and server-sent events.

| component | state it keeps | operations | interacts with | hard behaviour | module |
|---|---|---|---|---|---|
| vote transaction (`polls/poll-responses.service.ts`) | `PollResponse`, `PollAnswer`, `PollVoter` | submit, submit by direct link, edit | poll, eligibility, subject lock, revocations, realtime | concurrent submissions of one voter, edits of the poll and erasure meanwhile, stale snapshots | `BallotTransaction` |
| poll administration (`polls/poll-mutations.service.ts` and helpers) | `Poll`, `PollElement`, `PollElementOption`, audit | create, update, change status, delete | votes, elections, images | policy against votes already cast, optimistic versions, identities of elements that have answers | `BallotTransaction`, `PollDefinition`, `PollDraft` |
| LGPD (`lgpd/voting-lgpd.service.ts`) | `RevokedVotingSubject`, `VotingDeletionRequest` | schedule, cancel, hard delete, export | every table that names a user | erasure against votes, sign-ins and kiosk in flight; repeated and reordered requests | `BallotTransaction` (hard delete) |
| kiosk (`polls/poll-kiosk-authorization.service.ts`, `polls/admin-poll-kiosk.controller.ts`) | token, reservation, TOTP replay and attempt keys in Redis; a cookie | authorize, context, submit, cancel | Account Manager, votes, users | one token, one ballot; lost answers; expiry | `KioskAuthorization` |
| images (`polls/poll-images.service.ts`, `polls/poll-image-mutations.service.ts`) | `PollImage`, `PollObjectDeletion`, objects in S3 | upload, attach, delete, periodic cleanup | S3, poll updates | two stores without a common transaction, crashes, several cleanup workers | `PollImageObjects` |
| sessions (`auth/auth-session-store.service.ts`, `auth/keycloak-auth.service.ts`) | session and refresh lock in Redis, user cache | sign in, authenticate, refresh, log out | Keycloak, users | rotating refresh tokens, leases that lapse, logout during a refresh | `AuthSession` |
| login flow (`auth/auth.controller.ts`, `auth/authorization-state.service.ts`; `frontend:auth/*`) | PKCE state in Redis, two cookies, markers in the browser | start, callback, silent check, logout | Keycloak, Redis, several tabs | callbacks delivered twice, frames that never answer, tabs that share cookies, answers after a logout | `SignIn` |
| CACiC election (`polls/poll-cacic-election*.ts`) | slates and members, phase of the poll, generated vote element | submit, create, update, review, enable, delete a slate | poll administration, eligibility, votes | slates change while phases advance; names unique without an index | `CacicElection` |
| eligibility (`polls/poll-eligibility.service.ts`, `polls/poll-user-claims.ts`) | enrollment list | import, check | claims, Event Manager | list replaced during voting; several names for one claim; files read by the page and by the server | `PollAccess`, `CacicElection` |
| queries (`polls/poll-query.service.ts`, `polls/poll-visibility.ts`) | none | lists, single polls, links | every reader | the same rule as a query, as a check and on the page | `PollAccess` |
| answer validation (`polls/poll-response.validator.ts`) | none | validate | vote | many element types, scheduling slots | `AnswerRules` |
| results (`polls/poll-results.service.ts`; `frontend:polls/poll-result-formatting.ts`) | none | aggregate, deltas, export | votes, realtime | secrecy against timing, questions edited after the answers, two implementations of the counting | `PollSummaries`, `PollAccess` |
| realtime (`polls/poll-results-realtime.service.ts`, `realtime/sse-replay.service.ts`; `frontend:polls/public-poll-results-page.component.ts`) | event list, sequence and pending counter in Redis; streams; what a page shows | record, publish, replay, refresh | results, browsers | record and publish are two calls; replay against live events; late refreshes against final results | `ResultsStream` |
| vote page (`frontend:polls/poll-vote-*.ts`) | answers, state of the response | load, answer, submit, edit | HTTP API | late answers, stale definitions, answers the server refuses | `VotePage` |
| administration page (`frontend:admin/*`) | draft, lists, flags | edit, save, publish, import, review slates, images | HTTP API | many asynchronous operations on one draft, versions adopted without content | `PollDraft`, `BuilderPage` |
| gRPC, event manager client, feature flags, bootstrap | none to speak of | adapters | external services | start and stop | |

What makes each part correct:

* **votes**: one ballot per subject unless the poll allows several; marker and
  ballot agree; a ballot keeps the policy it was cast under and fits the
  definition it was validated against.
* **erasure**: nothing names an erased subject, not even what was in flight.
* **kiosk**: one submission at a time acts on an authorization, by the session that obtained
  it; a code authorizes once; a spent authorization is not restored.
* **images**: an image that can be seen has an object; an object nobody can see is
  deleted in the end; a save wins against the cleanup.
* **sessions**: a refresh never revives an ended session; a rotating token is
  used once; a code is redeemed once; a page neither redirects in circles nor waits for
  ever, and one that signed out stays out.
* **elections**: all voters choose among the same slates; the vote element lists
  exactly the approved and enabled ones; names are unique.
* **definitions and results**: answers survive every edit and are counted under what
  their voter saw, by the server and by the pages alike.
* **access**: what lists and pages offer the server does not deny; secret votes become
  known together.
* **realtime**: a page ends with the newest results; final results are not rolled back.
* **pages**: what the controls can produce the server accepts; what the page says and
  overwrites belongs to the poll it shows.

## 2. Modules

| module | models | instance | proofs |
|---|---|---|---|
| `BallotTransaction` | votes × poll administration × erasure × user synchronisation | `MCBallotTransaction` | `VotingProofs` |
| `KioskAuthorization` | the kiosk's tokens in Redis | `MCKioskAuthorization` | `VotingProofs` |
| `PollImageObjects` | images, objects and deletion intents | `MCPollImageObjects` | `PollImageObjectsProofs` |
| `CacicElection` | slates × phases × enrollment × vote element × votes | `MCCacicElection` | `CacicElectionProofs` |
| `SessionRegister` | what a stored session promises (abstract) | | |
| `AuthSession` | refresh, lease, logout; implements `SessionRegister` | `MCVotePage` | `SessionProofs` |
| `SignIn` | tabs, cookies, silent checks, callbacks, logout | `MCSignIn` | `SessionProofs` |
| `ResultsStream` | commit → Redis → event stream → page | `MCResultsStream` | `StreamProofs` |
| `PollDefinition` | rows, identifiers and snapshots of elements × answers | `MCPollDefinition` | `ResultsProofs` |
| `PollSummaries` | the counting of answers by server and pages, over `PollDefinition` | `MCPollDefinition` | `ResultsProofs` |
| `PollAccess` | eligibility, visibility, offers and results of polls through time | `MCPollDefinition` | `ResultsProofs` |
| `AnswerRules` | what the server accepts as an answer (pure) | `MCVotePage` | `FormProofs` |
| `VotePage` | the page that votes × the server with `AnswerRules` | `MCVotePage` | `FormProofs` |
| `PollDraft` | the builder's draft, the request of a save, its validation and resolution | `MCPollDraft` | `FormProofs` |
| `BuilderPage` | the administration page's asynchronous operations × the server × other administrators | `MCBuilderPage` | `BuilderPageProofs` |
| `OrderedChoice` | `Array.prototype.filter`, as a definition without recursion (pure) | | `FormProofs`, `StreamProofs` |

### BallotTransaction

One poll. `poll` is its row (`version` stands for `updatedAt`, `definition` for the
version that last changed what voters answer), `markers` the `PollVoter` rows,
`ballot` the `PollResponse` rows, one slot per request that may create one,
`users` and `revoked` the rows the erasure changes, `clock` the voting window.

`saveResponse` is three steps, because PostgreSQL takes the snapshot of a
SERIALIZABLE transaction at its first statement and the advisory lock is waited
for after that:

1. `Begin`: the snapshot, the poll's version and the voting window
   (`poll-responses.service.ts` 267-293);
2. `Lock`: the subject's advisory lock, the revocation and the marker, read from
   the snapshot (295-349);
3. `Commit`: the first ballot, a further one or an edit, or a rollback (323-430).

`missed` records what others committed since the snapshot and PostgreSQL would
notice: a row both wrote, a foreign key whose user is gone, the read-write cycle
with a writer of the poll. `CanInsertMarker`, `UserRowIntact`, `PollIntact` are
those checks. What PostgreSQL would *not* notice stays possible.

`UpdatePoll`, `UpdatePollStatus`, `DeletePoll`, `EraseSubject` and `SyncUser` are
single steps: each is one transaction, with a lock or a serialization check that
orders it against the votes. The kiosk's `authorize` is two (`ValidateKioskVoter`,
`SyncKioskVoter`), since it validates before it writes and holds no lock between.

### KioskAuthorization

An `authorize` request and the token it may issue share a name. Every Lua script
is one step; between two awaits requests interleave, fail or die. A token is under
`tokenKey`, under `reservation` while a submission acts on it, or nowhere. Time is
counted in TOTP periods (30 s): a code is accepted one period early or late, and
its replay key lives four (`TOTP_REPLAY_TTL_SECONDS`). `MaxLatency` bounds how long
`authorize` takes between the validation at the Account Manager and
`reserveTotpStep`. `CastVoteUnacknowledged` is a commit whose answer is lost.

### PollImageObjects

One poll. `row` is the `PollImage` row, `object` the objects in S3, `intent` the
`PollObjectDeletion` row (`waiting` until `nextAttemptAt`), `job` what a deleting
request or a cleanup run is doing. Each S3 call, each transaction and each read
outside one is a step; `AttemptFails` is a call that throws with or without having
had its effect, `RunStops` the process dying. `unanswered` is a history variable: the
uploads whose commit succeeded without its answer. A claim compares `nextAttemptAt` with
what was fetched; `Invalidate` removes the fetched intents whose claim would match no row.

### SessionRegister and AuthSession

`AuthSession` follows one stored session: `Observe` is `authenticateSession` or
`refreshSession` reading it; `AcquireRefreshLock`, `WaitForRefreshLockRelease` and
`Reread` are `refreshStoredSession` and its second attempt after the wait;
`RenewFirst` to `ReleaseRefreshLock` are `refreshStoredSessionWithLock`, one step per
call to Redis or Keycloak. `LeaseLapses` is the lock's TTL running out, at any time,
`Renew` the owner's timer noticing. Two history variables: `reused`, whether a token was
presented after its rotation, and `disturbed`, whether a lease lapsed under a request
that was using it or a token was lost between Keycloak and Redis. `SessionRegister` is the
promise: opened once, generations one by one, never back once ended. `AuthSession`
implements it with `phase` and `generation` computed from `stored`.

### SignIn

One browser. A login, the state it stores in Redis, its code and the session it creates
share a number. The pages (tabs) share `stateCookie` and `sessionCookie`; each has its own
markers. `Callback` is one handler in three deliveries' states: it consumes the state,
exchanges the code and stores the session. A page that opens (`Initialize`) asks for the
current user, then checks in a hidden frame (`FrameTimesOut` is its timer) and falls back to
a redirect. A callback may be delivered twice, an answer may be lost, a session may expire
at any moment (`Fault`). `silent`, `signedOut` and `overtaken` are history variables for the
properties; `overtaken` are the signed-out pages that were told of the old session by an
answer sent before the logout and delivered after it.

### CacicElection

One election. `slates` are its `CacicElectionSlate` rows, named by the voter who
submitted them (who has at most one) or by an id an administrator's slate gets;
`element` is what the generated vote element offers, `{}` while the poll has none;
`Blank` stands for its blank and null options, which every vote element has. Names are
compared up to case and accents, so a member of `Names` is a class of spellings. `votes`
holds the option a ballot chose; that a ballot is one per subject is `BallotTransaction`'s
matter.

A slate operation is `BeginSlateChange` (its snapshot, taken when the transaction reads
the poll) and its commit (`SubmitSlate`, `CreateSlate`, `UpdateSlate`, `RejectSlate`,
`EnableSlate`, `DeleteSlate`, which includes the refresh of the vote element). Names are
compared, and the vote element is built, from the slates `seen` at the snapshot. A vote is
`BeginVote` and `CommitVote`. `missed` and `stale` say what others committed since the
snapshot that PostgreSQL must refuse: two transactions that wrote one row or read what
the other wrote. `updatePollStatus` is READ COMMITTED and writes only the Poll row, so it
refuses nobody. `updatePoll`, `deletePoll` and the changes of the enrollment list write the
Poll row under SERIALIZABLE and are single steps.

### ResultsStream

One page watches one poll, PUBLIC with live results or ANONYMOUS (then the page is the
administration's). Events carry no answers, only "read again" and "read for the last time",
so results are a number: how many commits (votes, edits, closings) they contain. A
publication goes through `batch` (`ShouldPublishUpdate`), `record` (`Record`, the Lua
script, or `RecordFails`) and `publish` (`Publish`, `PublishFails`, up to `MaxAttempts`
times); a publication is best effort and may die. The server's side of a stream subscribes first, reads
the replay and merges both (`FinishReplay`). The page reconnects with its cursor, throttles
refreshes with a timer, drops late answers by load and revision, and settles the final
results with `reconcileFinalResults`. A stream the server ends (its lifetime, the heartbeat,
an event after the results were withdrawn: `ServerEnds`) delivers nothing more, but what it
had sent still arrives before the page notices (`StreamEnds`). `lost` is a history variable: why a commit may be missing
on the page for good.

### PollDefinition and PollSummaries

`rows` are `PollElement` and `PollElementOption` together, `answers` the `PollAnswer` rows
with their snapshot. A save is one step (`UpdatePoll`): `RemoveElements` deletes what has no
answers and retires what has, `SyncElements` matches the submitted elements with the rows,
by stored or external id, and `BackfillSnapshots` gives answers without a snapshot the
element they were given to. Identifiers are pairs of a poll and a name; those of the
migrated release belong to the space `Legacy`. How saves and votes interleave is
`BallotTransaction`'s subject; here it is the long sequence of them.

`PollSummaries` computes the aggregates of `buildPollResultAggregates` (`Aggregates`), whose
query leaves the order of options open (`Readings`), and what the pages compute from rows
(`QuestionSummary`, `ElementVersions`).

### PollAccess

Several polls, accounts and time. `EnsureVotingAllowed` is the eligibility of an account by
each source, three-valued because the Event Manager may not answer. Whether it does is a
parameter of each call (`answered`), and for a list the set of polls it answered about
(`heard`): the list gives it 2 s and one attempt and leaves out what it did not hear of, the
check of one poll 10 s and three attempts, so that neither says anything of the other.
`PublicReadablePollWhere`
and its like are the filters of queries, `IsPollPubliclyVisible` and its like the checks of
one poll, `ShouldShowPublicResults`, `CanVoteInPoll`, `CanShowResults` what pages offer.
Settings go through `ResolvePollMetadata`, as a save's do. A vote is two steps, since a
closing may come between its check and its commit. `kept` is a reader that keeps one result
and compares. The import of a file is here with both parsers.

### AnswerRules and VotePage

`AnswerRules` has one operator for each kind of element of `normalizeAnswer` and its helpers; a
refusal carries its reason. `VotePage` keeps the page's own code for the same things apart
(`SchedulingSlots`, `ReadSingleGridAnswer`, `SchedulingAfter`, ...), which is the point: the
page offers, the server judges. Requests of the page are records on `wire`; they are handled and
answered in any order or lost, while the page is navigated elsewhere and the definition
changes.

### PollDraft and BuilderPage

`PollDraft` is the draft of the builder: one action for each control (`UpdateElementType`,
`UpdateVotingStyle`, ...), `ToSaveRequest`, and the server's side, `PollRefusals` for the
validation and `ResolvePoll` for the options it settles on.

`BuilderPage` abstracts the draft to a text and to which lists the poll uses. Each asynchronous
operation of the page is a task: it sends one request after another, with what the draft was
when it was sent, and its answers are applied under the conditions of the code
(`IsPollSelectionCurrent`, the version of the draft, nothing at all). The server handles one
request in one step; other administrators save, enroll, publish and delete.

## 3. Runs

| run | question | bounds and why they are enough |
|---|---|---|
| `ballot_votes` | Do two submissions of one subject, against every administrative change and its erasure, keep the votes correct? | One subject, who administers the poll, so that its erasure writes the poll row; two requests (page and direct link); three poll versions, enough for a policy or definition change, its publication and its closing. Conflicts are pairwise, so two requests meet in every order; the proofs cover every number of subjects, requests and versions. |
| `kiosk_submissions` | Does one submission at a time act on a token, does a spent token stay spent, does a code authorize once, and by whose session are votes cast? | Two authorizations, two submissions, at most three of them (`MaxRequests`): one can take a token another has just released; two operator sessions; time beyond the life of a replay key (four periods) only while nothing is submitted (`ShortTime`); one fault |
| `image_objects` | Does a live image keep its object, does a save win against the cleanup, and is every orphan deleted? | one image, two deleting handlers, one cleanup worker; images share nothing but the queue of a job, and two handlers and a worker make three concurrent deletions of one object |
| `sign_in` | Is a code redeemed once, do silent checks end, does a signed-out page stay out, does every start end? | one page that is used and another tab that logs in, three logins (the frame, the redirect and one that somebody asks for), one fault, faults and the other tab in separate behaviours (`FaultsInOnePage`) |
| `election_slates` | Do slate changes, reviews, phase and status changes, enrollment changes and votes, interleaved, keep one ballot for all, listing the slates, with unique names? | one submitter and one administrator's slate, two names (so names collide), two open slate transactions, one voter: conflicts are pairwise, votes meet only through the slates, and each property relates two rows at most; the proofs cover every number |
| `results_stream` | Does a quiet page show every commit or know why not, are final results kept, does the page catch up? | two commits (a vote and a closing, or two votes of one batch), one fault of any kind, two loads, two requests in flight so that they overtake, two reconnections, a replay of one event and a buffer of one, so that both overflow |
| `poll_definitions` | Do answers survive every edit and count under what was seen, by both counters? And, in other behaviours: do lists, checks and offers agree, and what do readings of secret results give away? | one migrated and one new poll with the same names, three saves (change, change back, change again), two votes; six definitions that reorder, replace, retype, drop and bring back. Two polls with six settings between them, two accounts whose claims come under different names, three changes, two ballots, two units of time: before, in and after every window |
| `vote_pages` | Does the server accept what the controls can produce, and is "registered" true? And, in other behaviours: does the session implement `SessionRegister` whatever fails, and are refreshes serial while leases are kept? | one element of each kind, since elements are validated one by one; one revision, two loads, two submissions, one lost message. Two requests with two attempts each, a logout, two exchanges: a stale owner can meet a newer generation and an ended session |
| `poll_drafts` | Is a refused draft correctable on the page, and does an accepted one stay as it was asked? | five edits and two saves: a switch away, a change and a switch back, before and after a save; two elements (one to compare an order), two days and times that make windows short, overlapping and good |
| `poll_draft_event` | **violated**: "Sem evento vinculado" | see findings |
| `builder_pages` | Does the page overwrite only what it showed, do lists belong to the poll shown, what may leave buttons disabled? | two polls and room for a third, three operations of the administrator at once or one after the other ("Nova" at any time, as on the page), one of another administrator, one lost request: two tasks that overlap, and what a third one then writes |
| `builder_page_new` | **violated**: the buttons of saving are disabled only while a request is under way | see findings |

`poll_definitions` is the sum of two specifications that share nothing (`MCPollDefinition`):
each behaviour is one of `PollSummaries` or one of `PollAccess`, chosen by `part` at the
start; so is `vote_pages` (`MCVotePage`) with `VotePage` and `AuthSession`. It keeps the number
of runs down and gives each of them the same checks as a run of its own.

`CHECK_DEADLOCK FALSE` is used throughout: requests are finite, and when all have
ended and nothing is left to time out the model stops.

Symmetry is used in `kiosk_submissions`, `vote_pages` (the requests of a session),
`election_slates` and `poll_definitions`: requests, sessions, names of slates and voters are interchangeable, the
properties treat them alike and none is a liveness property.

Every property has a mutant in `PROJECT.json`: a plausible bug of the mapped code (a
lock without `NX`, a check skipped, a refresh that is not cancelled) under which TLC finds the
property violated.

### Findings

* **`poll_draft_event`.** The page lets an administrator choose "Sem evento vinculado". A save
  then sends `linkedEventId: undefined`, which JSON leaves out, and
  `poll-mutation-options.service.ts:97` reads a missing field as "keep the event". An event
  can be linked and replaced but never removed.
* **`builder_page_new`.** Selecting a poll disables the buttons of saving and the list of polls
  until it has loaded. "Nova" is not among them (`admin-poll-builder-page.component.html:9`), and
  `newPoll` starts a new generation without touching `saving`
  (`frontend:admin/admin-poll-builder-page-base.ts:273`). The `finally` of the selection then finds
  that it is no longer current and leaves `saving` set (`admin-poll-builder-page.component.ts:98`):
  nothing can be saved or selected until the page is loaded again.
  `OnlyNewLeavesButtonsDisabled` says that this is the only way there, and is proved.

### Known exceptions

Some definitions state what a comment or a reader would expect and do *not* hold. They are kept
in their modules, next to the weaker property the runs check, and TLC shows the trace of each
when it is added to the run of its module.

| definition | run | what happens |
|---|---|---|
| `RevokedNotRecreated` (`BallotTransaction`) | `ballot_votes` | `authorize` of the kiosk validates a voter, the voter is erased, and `syncLocalVoter` writes the `User` row with a bare upsert (`poll-kiosk-authorization.service.ts:680`), which `syncUser` would refuse; schema.prisma says the digest "blocks identity recreation" |
| `RevokedCastNothing` (`BallotTransaction`) | `ballot_votes` | the revocation is read after the lock from a snapshot older than it; a further ballot of an anonymous poll with multiple responses conflicts with nothing and commits. `RevokedWriteOnlyUnlinked` says that this is all that is possible |
| `OneBallotPerAuthorization` (`KioskAuthorization`) | `kiosk_submissions` | a vote whose commit is not acknowledged counts as failed and its token is released; a poll with multiple responses then accepts a second ballot. `SpentTokenIsNotRestored` is what holds |
| `EveryOrphanHasAnIntent` (`PollImageObjects`) | `image_objects` | the compensation of an upload that did commit withdraws the intent that a deletion wrote meanwhile. `OrphansAreDeleted` excepts these uploads |
| `PublishedSlatesAreFrozen` (`CacicElection`) | `election_slates` | a slate change that read a draft commits after `updatePollStatus` published it. Ballots stay consistent (`OneBallotForAll`) |
| `ElectionsStartReady` (`CacicElection`) | `election_slates` | `createPoll` accepts the voting phase and `updatePollStatus` asks for neither slates nor voters. `TransitionedElectionsStayReady` is what holds |
| `DistinctMutationsHaveDistinctIds` (`ResultsStream`) | `results_stream` | the replay keys expire and the numbers start again (`sse-replay.service.ts:20`) |
| `EditsCanBeSaved` (`VotePage`) | `vote_pages` | an answer to what is no longer in the definition is prefilled, sent and refused, and no control removes it |
| `ListedResultsAreReadable` (`PollAccess`) | `poll_definitions` | the list of polls offers live results whatever the secrecy of the ballot (`frontend:polls/public-polls-page.component.ts:67`), the server refuses them (`poll-results.service.ts:952`). `OffersAreNotDenied` excepts exactly these (`LiveAndSecret`) |

Also met while modelling, and inside the models without a property of their own: the page counts
quoted delimiters when it guesses the delimiter of a file
(`frontend:admin/csv-parser.ts:97`) and the server does not, so that a column can be offered and
then not be found, which refuses the import; secret results differ after a reopening, or by a
vote under way when the poll closed (`SecretVotesArePublishedTogether` says by how much).

### Fairness

* `PollImageObjects!FairSpec`: each instance starts a run every minute; its steps are
  strongly fair because a step may fail or the process die any number of times, but not
  for ever. Requests are not fair.
* `ResultsStream!FairSpec`: publications, the server's streams, and the requests and timers
  of the page are weakly fair: awaited promises, the event loop and `EventSource` go on.
  Nobody is bound to vote, navigate or retry, and faults are bounded.
* `SignIn!SignInSpec`: requests are answered, redirects followed and timers fire; Keycloak answers a
  silent login by itself. A person at the login form need not.

The other modules are checked for safety only and assume no fairness.

## 4. Proofs

`VotingProofs` has two parts. For `BallotTransaction` it proves, for every finite or infinite
set of subjects, administrators and requests and every bound on versions, eight theorems of
`Spec`. The bounds of TLC play no part.

`AtMostOneBallot` is not inductive. A transaction decides from its snapshot, and the
step that could break the property is the commit. The invariant `IInv` adds

* `RowsConsistent`: foreign keys hold: a marker has its user, a ballot its poll;
* `SnapshotCurrent(r)` for every open transaction: as long as `missed[r]` is empty in a
  part, the snapshot equals the tables in that part. This is what SERIALIZABLE buys, and
  what makes a decision taken from the snapshot valid at the commit;
* the four safety properties themselves, which need one another: an edit relies on
  `MarkerIffBallot` to find its ballot, a first ballot on the absent marker to be the only
  one, the policy change on the ballots counted.

One lemma per action shows that it keeps `IInv`; most leave the rows alone and go through
the frame lemma `RowsSafeFrame`, the commits through `CommitFrame`. `NextIInv` collects them,
`BallotInvariant` adds induction over time (`PTL`), and the invariants follow.
`AnswersFitTheDefinition` and `RevokedSubjectsWriteNothingLinked` are action properties
proved from `IInv` and `AnswersWrittenByCommit`: only a commit writes answers.

For `KioskAuthorization` it proves the four properties the run of the kiosk checks.
`OneSubmissionAtATime` is not inductive: a submission that releases its token, and one that
takes it, must be seen together with where the token is. `KInv` adds that a token exists only
once issued (`TokensAreIssued`), is under one key, is held by one submission and is gone when
that submission is done (`TokensAreHeldOnce`), and that its holder has the session that obtained
it (`HoldersAreBound`). `TotpAuthorizesOnce` needs time, and a hypothesis: `CodesAuthorizeOnce`
assumes `MaxLatency <= 1`, that is that `authorize` reserves a code at most one period (30 s)
after the Account Manager validated it. `TInv` says how old the code of each request may be
(`CountersAreRecent`, `BurnsAreTimely`) and that the record of a burnt code outlives every
request that may still hold the code (`BurntCodesAreRecorded`). With a slower `authorize` the
four periods of the record would not be enough.

`CacicElectionProofs` proves seven theorems of `CacicElection`, again for every value of
the constants. Here a transaction compares names and builds the vote element from an
earlier state, so no property of the tables is inductive alone. `IInv` adds

* `WorkCurrent(r)`: as long as a slate transaction can commit, the rows it read are the
  rows there are (all of them in the voting phase, their names when it sets one, its own
  row otherwise), the poll is on the same side of the voting phase and nobody has voted;
* `VotingCurrent(v)`: as long as a vote can commit, it chooses from the current ballot;
* that the voting phase is not left after a vote, nor after a published election entered it.

`SlateCommitIInv` is the heart: one lemma for the commit of all six operations, which say
only which row they write and why its name is free. `AllVotersHaveOneBallot` is an action
property: a slate change that commits knows there are no votes, and an update of the poll
after votes rebuilds the vote element from the same slates.

`PollImageObjectsProofs`: that an object is deleted only without a row depends on what every job
has queued. `IInv` says that jobs only queue images whose upload is over (`JobsAreAboutEnded`),
that an upload that is over never gives a row again (`UploadsAreStored`), and therefore that the
check before a deletion stays valid (`DeletionsAreUnreferenced`). `CleanupsSpareAttachedImages`
is the action property of the cleanup run.

`SessionProofs` has two parts. For `AuthSession` it proves the serial refreshes from `IInv`, whose
heart is `Undisturbed`: while no lease lapsed and no token was lost, whoever refreshes holds the
lease and has read the session that is stored, and between refreshes the stored token is the one
Keycloak accepts. `SessionImplementsRegister` is the refinement: `phase` and `generation`, computed
from `stored`, take the steps of `SessionRegister` or none; only a commit under the lease is a
`Refresh`, and it finds the generation it read.

For `SignIn` it proves three theorems. In `CodesInv`, for every login, either its state is not
consumed and nobody exchanges its code, or at most one delivery does and the code has not been
presented, or it has been, once (`OneRedeemer`). `SilentInv` is about the marker in the page's
storage: without it there was no silent check, with a hidden frame open there was that one, and a
page that signed out keeps the marker and has no frame (`Remembers`). `SilentChecksEnd` and the
action property `SignedOutStaysOut` follow, for any number of pages, logins, reloads and faults.

`FormProofs` is about what forms produce and validators refuse, for lists of elements of any length
and every kind. For `PollDraft`:

* `AcceptedPollsAreKept`: what a poll's elements are does not matter for its settings. The one rule
  the server enforces silently and the request does not state is that a verified role needs a
  source that knows roles; `RoleHasItsSource` says that every control keeps it. `RequestsAreKept`
  then compares the two sides case by case: regular poll, submission of slates, voting.
* `RefusalsAreCorrectable`: `DraftOK` says of each element that its settings are of its type, its
  numbers in their ranges and its options there when it has any (`ElementOK`), and that attendance
  has its event. Every control keeps it, `applyCacicElectionRules` and the answer of the server
  included, and the server's refusals of such a draft are the correctable ones.

For `VotePage`:

* `PagesTellTheTruth`: what a page says depends on answers under way. `PageInv` says that each is
  true of the server (`IsTrue`; responses are never taken back here), that it belongs to one load
  of the page, and that those of the present load are about the poll shown (`BelongsToItsLoad`).
* `ControlsAreEnough`: `ControlInv` adds that the answers on the page are well formed (the shapes
  controls make, `AllWellFormed`) whatever they are answers to, and good for the definition shown
  when they were given to it (`GoodFor`). It has to follow them through the whole round: from the
  controls to the request, through `NormalizeAnswer` of the validator to the stored response, back
  in the answer of a load (`Carries`) and into the controls again (`LoadsInOrder`: which message
  may bring what, in which load). For meetings this needs that the page's slots are the server's
  (`SchedulingSlots`) and that a list filtered keeps its order and shrinks (`OrderedChoice`).

`BuilderPageProofs` proves the three properties of the administration page. `IInv` says of the draft
and of every task that if the poll still is in the version it will send, then it is the poll as
the page was told of it (`Known`: versions only grow, and no two polls share one), that a
task's remaining requests are those of its operation and its answer of the poll it asked about
(`TaskOK`). `NoBlindOverwrite` depends on the first, `ListsAreOfThePollShown` on the second.
`OnlyNewLeavesThemDisabled` is about steps: a task that will enable a button enables it when it
ends or is still there, and the one step that takes that ability away is "Nova" during a selection
(`ButtonsKept`). "Nova" is enabled in all three, whatever is under way.

`ResultsProofs` has two parts. For `PollDefinition` and `PollSummaries`:

* `DefinitionInvariant`: a poll has one row for each name its clients know (`Named`), its current
  rows read as one of the definitions, in its order (`Defined`); every answer has its element,
  with the snapshot of what its voter saw or, as long as it has none, an element that still reads
  so (`AnswerOK`). One lemma for each part of a save: `RemoveElements`, `SyncElements`,
  `BackfillSnapshots`. `AnswersAreNotLost` follows.
* `SummariesAgree` and `ChoicesAreCounted`: both counters come down to cardinalities of the same
  sets of answers, and the entries of the aggregates to sums over their cells. What a sum over a
  finite set is would be an induction over data; it is argued by a least counterexample among the
  sizes instead, with the facts about cardinality of the library.

For `PollAccess`:

* `AccessInvariant`: nobody votes on a poll that collects slates, and what a reader keeps are the
  results of some ballots that are all still there; where it shows answers or participants, every
  ballot since then was stored after a first closing (`KeptOf`). `ReadingsAreNotCompared` follows:
  two readings differ by late ballots, as the property says.
* `OffersHold`: the rules written several times (as the filter of a query, as a check, on a page)
  agree for every account, poll and time, with an answer of the Event Manager of its own for each
  call. It is about denials: an offer may still meet an Event Manager that does not answer, and
  live results of ballots that are not public (`LiveAndSecret`) are offered and denied. Only few
  of the rules need the invariant.

`StreamProofs` proves the two invariants of `ResultsStream`, for every number of commits, requests
and faults and every size of the batch, the replay list, the buffer and the retries.

* `StreamInvariant`: the events in the Redis list, in the process and on the wire are of commits that
  exist (`Sound`), the list holds the last numbers given without a gap (`Numbered`), a connection
  holds in each phase what `replay` puts there (`Phases`), a load is the only request of its page
  (`RequestsInOrder`) and a request whose answer will be used was sent after the closing the page
  knows of (`Finals`). `ClosingCovered` is a part of it.
* `FollowAlways`: `QuietPagesAreCurrent` speaks of the end of a chain, so `Kept` says of every published
  commit where its news is. The page shows it or will read again (`Held`), or in each phase of the
  connection there is something that makes it: the newest event of the list differs from its cursor
  (`NewsInLog`), or the commit is in the replay or the buffer, or an event is on the wire. This holds
  while the page watches and `lost` is empty; `QuietPagesFollow` is the case where nothing is left to
  come. The proof depends on the order of `replay`: subscribe, buffer, read the list, deliver.

The attempt to prove it found that the model stated too little. An event that could not be recorded is
published without an id. When its connection drops before the page reads it, no replay holds it and the
page does not learn of its commit. `ConnectionDrops` now records that reason (`unrecorded`) in `lost`. The
run `results_stream` does not reach it, since a record with two attempts needs two faults to fail and
the run has one; with two faults and one attempt TLC agrees with the theorem in 1.1 million states.

Assumptions: the named `ASSUME`s of the modules and `MaxLatency <= 1` in `CodesAuthorizeOnce` alone.
Most say that the constants have the shapes the comments give them. Those with content are:

| assumption | says | because |
|---|---|---|
| `InviteeLimitsAssumption` (`PollDraft`) | the limits offered are 1..20 | the options of `frontend:admin/poll-builder-options.ts:69` |
| `DefinitionsAssumption` (`VotePage`, `PollDefinition`) | elements of a definition have distinct ids, options too; a choice has at least two | `poll-mutation-validation.service.ts` refuses others |
| `MigratedAssumption` (`PollDefinition`) | ids of the migrated release are unique among all polls | they were primary keys |
| `SettingsAssumption` (`PollAccess`) | windows are not empty, attendance names its event | `validatePollPublicationSchedule`, `poll-mutation-options.service.ts:103` |
| `StoredAssumption`, `NoneAssumption`, `ElementsAssumption`, `SubmittedAssumption` | finitely many polls at the start, and that markers such as `None` are not data | |

Model-checked only: liveness under fairness (`OrphansAreDeleted`, `PageCatchesUp`, `PagesInitialize`), since the prover has no `ENABLED`.

## 5. Abstractions and limits

General:

* `updatedAt` is a counter: two writes within one millisecond are assumed to differ.
* Bounds named in the constants (`Max...`) cap counters in the guards; `AttemptLimit`,
  `GlobalLimit`, `BatchSize`, `MaxAttempts`, `MaxReplay`, `MaxPending` and `MaxReconnects` are
  the code's own limits, made small.
* Texts, names, hashes and payloads are model values; wording, layout, logging and the audit
  log are left out.

By module:

* `PollImageObjects`: a PUT takes effect before its call fails, and an upload ends within the
  24 h of its intent.
* `AuthSession`: Keycloak rotates refresh tokens at every exchange and refuses used ones.
* `KioskAuthorization`: the browser has the cookie of the newest answer; the page of the kiosk
  is not modelled.
* `SignIn`: one user; a handler serves its request at once and its answer arrives later;
  cookies of answers that are lost are lost with them; a page that starts is not closed; the
  refresh that several requests share is one request; tracking cookies, the warning after an
  incomplete logout, the checks of return addresses and the verification of tokens are left out.
* `ResultsStream`: time is abstract: keys expire (`ReplayExpires`) only when nothing is under
  way and the stream is the newest, since their life and the stream's are both 15 min; a
  closing is a commit of its own; losing rights counts as a fault; results withdrawn before a
  connection refuse it like a session that ended, although they are looked at after the stream
  was accepted and the page then counts a broken connection. That a stream of an ended session
  is ended within a heartbeat is a step of the model (`ReauthorizationFails`), not a property.
* `BallotTransaction`: that a waiter gets the subject's lock is left to PostgreSQL: the lock ends
  with its transaction, which has a time limit.
* `PollDefinition`: saves and votes are single steps; grids, scales and meetings, whose counting is
  the same over other keys, are left out of the summaries.
* `PollAccess`: clocks agree and a page's copy of a poll is current; the flag that disables the
  verification of roles (and its lookup within the 2 s of the list), the order of lists, deletions and single changes of an enrollment list
  are left out; the slates an election needs are taken to be approved; a ballot is named by its
  voter and an account has one; a file read with a wrong delimiter has whole lines as fields.
* `AnswerRules`: whether a text is a date, a time or an address is a membership, and no text is
  a numeral.
* `VotePage`: voting stays open; a kiosk and slates are not modelled.
* `PollDraft`: the refusal of a voting phase without slates or enrollments
  (`poll-mutations.service.ts:439`) is left out, since other controls of the page add them;
  ids are random and distinct; time zones and daylight saving, images, and what the
  status of a poll forbids are left out (the last is in `BallotTransaction` and `PollAccess`); the
  server reports its first refusal, the model the set of reasons.
* `BuilderPage`: one image; the content of slates and results is abstract; the list of polls at
  the side is left out; what a published poll may not change is the lists it uses. Stored polls
  differ in `updatedAt`.

Not modelled: the ledger of deletion requests and the export of `lgpd`; the verification of
tokens with the JWKS and machine-token caches; the kiosk page; generated Prisma code; adapters
of external services (gRPC, Event Manager, feature flags), process start and shutdown;
presentation.
