---------------------------- MODULE ResultsStream ----------------------------
(***************************************************************************)
(* The live results of a poll, from the committed vote to the page:        *)
(* publishPollResultsForResponse batches the updates of anonymous polls,   *)
(* PollResultsRealtimeService records each one in Redis and then publishes *)
(* it, SseReplayService merges what Redis remembers with what is published *)
(* into the event stream of a page, and the page reads the results again   *)
(* over HTTP whenever an event tells it to.  Events carry no answer: they  *)
(* only say "read again" (refreshRequired) or "read for the last time"     *)
(* (final).                                                                *)
(*                                                                         *)
(* One page watches the poll: pages share nothing but the Redis keys they  *)
(* only read.  It is the public page of a PUBLIC poll with live results,   *)
(* or, when anonymous, the administration page of an ANONYMOUS poll.       *)
(* Results are a number: how many commits they contain.  `lost' is a       *)
(* history variable: why the page may miss a commit for good.              *)
(***************************************************************************)
EXTENDS Naturals, FiniteSets, SequencesExt, OrderedChoice

CONSTANTS
    MaxCommits,     \* bound: votes, edits and closings of the poll
    MaxFaults,      \* bound: failing calls, broken connections, lost rights
    MaxLoads,       \* bound: loads of the page (navigation, retry)
    MaxRequests,    \* bound: HTTP requests of the page in flight
    BatchSize,      \* RESULT_UPDATE_BATCH_SIZE
    MaxAttempts,    \* MAX_PUBLICATION_ATTEMPTS
    MaxReplay,      \* MAX_REPLAY_EVENTS
    MaxPending,     \* MAX_PENDING_REPLAY_EVENTS
    MaxReconnects   \* failed connections after which the page gives up

ASSUME BoundsAssumption ==
    /\ {MaxCommits, MaxFaults, MaxLoads, MaxRequests} \subseteq Nat
    /\ {BatchSize, MaxAttempts, MaxReplay, MaxPending, MaxReconnects} \subseteq Nat \ {0}

VARIABLES
    anonymous,      \* voting style: ANONYMOUS or PUBLIC; never changes
    poll,           \* [commits, closed]
    access,         \* [session: the page's session lives, visible: its poll's results do]
    publication,    \* commit -> its publication
    pending,        \* Redis: commits of an anonymous poll not yet announced
    redis,          \* Redis: [log, sequence], log oldest first
    stream,         \* the server's side of the page's event stream
    page,           \* the page
    requests,       \* the page's HTTP requests in flight
    faults, lost

backend == <<poll, publication, pending, redis>>
vars == <<anonymous, poll, access, publication, pending, redis, stream, page,
          requests, faults, lost>>

Commits == 1..MaxCommits
NoId == 0
Events == [id : Nat, commit : 0..MaxCommits, final : BOOLEAN]
NoEvent == [id |-> NoId, commit |-> 0, final |-> FALSE]

NoPublication == [pc |-> "none", final |-> FALSE, tries |-> 1, event |-> NoEvent]
NoStream == [phase |-> "off", newest |-> FALSE, buffered |-> <<>>,
             replay |-> <<>>, last |-> NoEvent, wire |-> <<>>]

\* A page that has just called load().
Loading(load, revision) ==
    [load |-> load, revision |-> revision, shown |-> 0, connection |-> "none", attempts |-> 0,
     cursor |-> NoEvent, timer |-> FALSE, final |-> "idle", finalSeen |-> 0]

Request(kind, p) == [kind |-> kind, load |-> p.load, revision |-> p.revision,
                     since |-> poll.commits, live |-> kind = "load" /\ (anonymous \/ ~poll.closed)]

Init ==
    /\ anonymous \in BOOLEAN
    /\ poll = [commits |-> 0, closed |-> FALSE]
    /\ access = [session |-> TRUE, visible |-> TRUE]
    /\ publication = [c \in Commits |-> NoPublication]
    /\ pending = 0
    /\ redis = [log |-> <<>>, sequence |-> 0]
    /\ stream = NoStream
    /\ page = Loading(1, 1)
    /\ requests = <<Request("load", page)>>
    /\ faults = 0
    /\ lost = {}

Fault == faults < MaxFaults /\ faults' = faults + 1

-----------------------------------------------------------------------------
(* Commits and their publication *)

Announce(isFinal) ==
    /\ poll.commits < MaxCommits
    /\ publication' = [publication EXCEPT ![poll.commits + 1] =
           [NoPublication EXCEPT !.pc = IF anonymous THEN "batch" ELSE "record",
                                 !.final = isFinal]]

\* submitResponse publishes after its transaction committed.
SubmitResponse ==
    /\ ~poll.closed
    /\ Announce(FALSE)
    /\ poll' = [poll EXCEPT !.commits = @ + 1]
    /\ UNCHANGED <<anonymous, access, pending, redis, stream, page, requests,
                   faults, lost>>

\* updatePollStatus("closed").
ClosePoll ==
    /\ ~poll.closed
    /\ Announce(TRUE)
    /\ poll' = [commits |-> poll.commits + 1, closed |-> TRUE]
    /\ UNCHANGED <<anonymous, access, pending, redis, stream, page, requests,
                   faults, lost>>

\* updatePollStatus("published") of a closed poll announces nothing.
ReopenPoll ==
    /\ poll.closed /\ poll.commits < MaxCommits
    /\ poll' = [poll EXCEPT !.closed = FALSE]
    /\ UNCHANGED <<anonymous, access, publication, pending, redis, stream, page,
                   requests, faults, lost>>

\* A publication is best effort: its process may stop, or the poll's row or
\* the count may fail to be read.
PublicationDies(c) ==
    /\ publication[c].pc \in {"batch", "record"}
    /\ Fault
    /\ publication' = [publication EXCEPT ![c].pc = "done"]
    /\ lost' = lost \cup {"unpublished"}
    /\ UNCHANGED <<anonymous, poll, access, pending, redis, stream, page,
                   requests>>

\* The updates of an anonymous poll are announced in batches; an unavailable
\* counter announces at once.
ShouldPublishUpdate(c) ==
    LET ready == publication' = [publication EXCEPT ![c].pc = "record"] IN
    /\ publication[c].pc = "batch"
    /\ \/ /\ publication[c].final \/ pending + 1 >= BatchSize
          /\ pending' = 0
          /\ ready
          /\ UNCHANGED <<faults, lost>>
       \/ /\ ~publication[c].final /\ pending + 1 < BatchSize
          /\ pending' = pending + 1
          /\ publication' = [publication EXCEPT ![c].pc = "done"]
          /\ lost' = lost \cup {"batched"}
          /\ UNCHANGED faults
       \/ Fault /\ ready /\ UNCHANGED <<pending, lost>>
    /\ UNCHANGED <<anonymous, poll, access, redis, stream, page, requests>>

\* The script: a repetition of the newest event is answered with it; anything
\* else takes the next number, is pushed and renews both keys.  A closing has no
\* key to recognise it by.
IsRepetition(c) ==
    ~publication[c].final /\ redis.log # <<>> /\ Last(redis.log).commit = c
Stored(c) ==
    IF IsRepetition(c) THEN Last(redis.log)
    ELSE [id |-> redis.sequence + 1, commit |-> c, final |-> publication[c].final]

Newest(log, n) == SubSeq(log, IF Len(log) > n THEN Len(log) - n + 1 ELSE 1, Len(log))
Recorded(c) ==
    IF IsRepetition(c) THEN redis
    ELSE [log |-> Newest(Append(redis.log, Stored(c)), MaxReplay),
          sequence |-> redis.sequence + 1]

\* An event equal to the last one delivered is skipped.
Before(last, events, i) == IF i = 1 THEN last ELSE events[i - 1]
Delivered(last, events) ==
    [kept   |-> Filtered(events, {i \in DOMAIN events : events[i].id # Before(last, events, i).id}),
     last   |-> IF events = <<>> THEN last ELSE Last(events),
     reused |-> \E i \in DOMAIN events :
                   /\ events[i].id = Before(last, events, i).id
                   /\ events[i].commit # Before(last, events, i).commit]

Deliver(s, events) ==
    [s EXCEPT !.wire = @ \o Delivered(s.last, events).kept,
              !.last = Delivered(s.last, events).last]
LostBy(s, events) == IF Delivered(s.last, events).reused THEN lost \cup {"reused"} ELSE lost

\* The stream ends under the page: EventSource connects again, with the last
\* id, and the public page closes it when that failed too often.
Broken ==
    [page EXCEPT !.attempts = @ + 1,
                 !.connection = IF ~anonymous /\ page.attempts + 1 >= MaxReconnects THEN "closed"
                                ELSE "reconnecting"]
EndStream == stream' = NoStream /\ page' = Broken

\* The server ends the stream: what it had not yet sent is forgotten, what it
\* had sent still arrives.
ServerEnds == stream' = [stream EXCEPT !.phase = "ended", !.replay = <<>>, !.buffered = <<>>]

\* An event of the channel reaches the page's process: it is checked against the
\* poll, then delivered, or buffered while the replay is read.  One without an
\* id is delivered at once.
Subscribed == stream.phase \in {"reading", "read", "live"}
ReachPage(event) ==
    IF ~Subscribed THEN UNCHANGED <<stream, page, lost>>
    ELSE IF ~access.visible THEN ServerEnds /\ UNCHANGED <<page, lost>>
    ELSE /\ UNCHANGED page
         /\ IF event.id = NoId
            THEN /\ stream' = [stream EXCEPT !.wire = Append(@, event)]
                 /\ UNCHANGED lost
            ELSE IF stream.phase = "live"
            THEN /\ stream' = Deliver(stream, <<event>>)
                 /\ lost' = LostBy(stream, <<event>>)
            ELSE /\ stream' = [stream EXCEPT
                                 !.buffered = Newest(Append(@, event), MaxPending)]
                 /\ lost' = IF Len(stream.buffered) = MaxPending
                            THEN lost \cup {"dropped"} ELSE lost

Miss(reason) ==
    /\ lost' = lost \cup {reason}
    /\ UNCHANGED <<stream, page>>
MissedByPage ==
    IF Subscribed THEN Miss("missed") ELSE UNCHANGED <<stream, page, lost>>

Record(c) ==
    /\ publication[c].pc = "record"
    /\ redis' = Recorded(c)
    /\ publication' = [publication EXCEPT ![c].pc = "publish", ![c].tries = 1,
                                          ![c].event = Stored(c)]
    /\ stream' = [stream EXCEPT !.newest = FALSE]
    /\ UNCHANGED <<anonymous, poll, access, pending, page, requests, faults, lost>>

\* The call fails, before or after the script ran.  The last attempt hands the
\* event to the streams of this process, without an id; the page's may be one.
RecordFails(c) ==
    /\ publication[c].pc = "record"
    /\ Fault
    /\ redis' \in {redis, Recorded(c)}
    /\ IF publication[c].tries < MaxAttempts
       THEN /\ publication' = [publication EXCEPT ![c].tries = @ + 1]
            /\ UNCHANGED <<stream, page, lost>>
       ELSE /\ publication' = [publication EXCEPT ![c].pc = "done"]
            /\ \/ Subscribed /\ ReachPage([id |-> NoId, commit |-> c,
                                           final |-> publication[c].final])
               \/ Miss("unpublished")
    /\ UNCHANGED <<anonymous, poll, access, pending, requests>>

\* PUBLISH reaches every subscribed process, or, when there is none, the
\* streams of this one.  The page's process may be away from the channel while
\* ioredis connects again.
Publish(c) ==
    /\ publication[c].pc = "publish"
    /\ publication' = [publication EXCEPT ![c].pc = "done"]
    /\ \/ ReachPage(publication[c].event) /\ UNCHANGED faults
       \/ Fault /\ MissedByPage
    /\ UNCHANGED <<anonymous, poll, access, pending, redis, requests>>

\* The call fails, before or after the message went out; the last attempt
\* leaves it to the streams of this process.
PublishFails(c) ==
    /\ publication[c].pc = "publish"
    /\ Fault
    /\ IF publication[c].tries < MaxAttempts
       THEN /\ publication' = [publication EXCEPT ![c].tries = @ + 1]
            /\ \/ ReachPage(publication[c].event)
               \/ UNCHANGED <<stream, page, lost>>
       ELSE /\ publication' = [publication EXCEPT ![c].pc = "done"]
            /\ \/ ReachPage(publication[c].event)
               \/ MissedByPage
    /\ UNCHANGED <<anonymous, poll, access, pending, redis, requests>>

-----------------------------------------------------------------------------
(* The server's side of the stream *)

MayRead == access.session /\ access.visible

\* streamPollResults: the access check, the subscription to the channel, and
\* only then the replay.  EventSource sends the last id it saw.
Connect ==
    /\ page.connection \in {"connecting", "reconnecting"}
    /\ MayRead
    /\ stream' = [NoStream EXCEPT !.phase = "reading", !.newest = TRUE,
                                     !.last = page.cursor]
    /\ page' = [page EXCEPT !.connection = "connected", !.attempts = 0]
    /\ UNCHANGED <<anonymous, backend, access, requests, faults, lost>>

\* An answer that is not a stream closes the EventSource for good; withdrawn results
\* are taken to be refused so too.
ConnectRefused ==
    /\ page.connection \in {"connecting", "reconnecting"}
    /\ ~MayRead
    /\ page' = [page EXCEPT !.connection = "closed"]
    /\ UNCHANGED <<anonymous, backend, access, stream, requests, faults, lost>>

ConnectFails ==
    /\ page.connection \in {"connecting", "reconnecting"}
    /\ Fault
    /\ page' = Broken
    /\ UNCHANGED <<anonymous, backend, access, stream, requests, lost>>

\* An event without an id that was on its way is in no replay.
ConnectionDrops ==
    /\ stream.phase # "off"
    /\ Fault
    /\ EndStream
    /\ lost' = IF \E i \in DOMAIN stream.wire : stream.wire[i].id = NoId
               THEN lost \cup {"unrecorded"} ELSE lost
    /\ UNCHANGED <<anonymous, backend, access, requests>>

\* A stream lives 15 minutes, far longer than it takes to read the replay.
LifetimeEnds ==
    /\ stream.phase = "live"
    /\ ServerEnds
    /\ UNCHANGED <<anonymous, backend, access, page, requests, faults, lost>>

\* The heartbeat authenticates the session again, every 30 s; it does not look
\* at the poll.
ReauthorizationFails ==
    /\ Subscribed
    /\ ~access.session
    /\ ServerEnds
    /\ UNCHANGED <<anonymous, backend, access, page, requests, faults, lost>>

\* The page has read all of a stream that ended.
StreamEnds ==
    /\ stream.phase = "ended" /\ stream.wire = <<>>
    /\ EndStream
    /\ UNCHANGED <<anonymous, backend, access, requests, faults, lost>>

\* Nothing for a page that never had an event.
ReadReplayAfterCursor(cursor) ==
    LET found == {i \in DOMAIN redis.log : redis.log[i].id = cursor.id} IN
    IF found = {} THEN <<>>
    ELSE SubSeq(redis.log, Min(found) + 1, Len(redis.log))

\* readReplay: the newest event for a page without a usable cursor, all later
\* events for one whose cursor is still in the list.
ReadReplay(cursor) ==
    LET found == {i \in DOMAIN redis.log : redis.log[i].id = cursor.id} IN
    IF redis.log = <<>> THEN <<>>
    ELSE IF cursor.id = NoId \/ found = {} THEN <<Last(redis.log)>>
    ELSE SubSeq(redis.log, Min(found) + 1, Len(redis.log))
CursorReused(cursor) ==
    \E i \in DOMAIN redis.log :
        redis.log[i].id = cursor.id /\ redis.log[i].commit # cursor.commit

StartReplay ==
    /\ stream.phase = "reading"
    /\ stream' = [stream EXCEPT !.phase = "read", !.replay = ReadReplay(stream.last)]
    /\ lost' = IF stream.last.id # NoId /\ CursorReused(stream.last)
               THEN lost \cup {"reused"} ELSE lost
    /\ UNCHANGED <<anonymous, backend, access, page, requests, faults>>

\* What arrived during the replay is forgotten.
FinishReplayOnly ==
    /\ stream.phase = "read"
    /\ stream' = [Deliver(stream, stream.replay) EXCEPT
                     !.phase = "live", !.replay = <<>>, !.buffered = <<>>]
    /\ lost' = LostBy(stream, stream.replay)
    /\ UNCHANGED <<anonymous, backend, access, page, requests, faults>>

FinishReplay ==
    LET events == stream.replay \o stream.buffered IN
    /\ stream.phase = "read"
    /\ stream' = [Deliver(stream, events) EXCEPT
                     !.phase = "live", !.replay = <<>>, !.buffered = <<>>]
    /\ lost' = LostBy(stream, events)
    /\ UNCHANGED <<anonymous, backend, access, page, requests, faults>>

\* Redis fails or takes more than ten seconds: only the buffer is delivered.
ReplayFails ==
    /\ stream.phase \in {"reading", "read"}
    /\ Fault
    /\ stream' = [Deliver(stream, stream.buffered) EXCEPT
                     !.phase = "live", !.replay = <<>>, !.buffered = <<>>]
    /\ lost' = LostBy(stream, stream.buffered) \cup {"unread"}
    /\ UNCHANGED <<anonymous, backend, access, page, requests>>

-----------------------------------------------------------------------------
(* The page *)

CloseResultsEvents(p) == [p EXCEPT !.timer = FALSE, !.connection = "none"]

\* retryLoad, offered with an error.  load() starts a generation of its own:
\* requests of the earlier ones are answered to nobody.
Load ==
    /\ "reported" \in lost
    /\ page.load < MaxLoads
    /\ Len(requests) < MaxRequests
    /\ stream' = NoStream
    /\ page' = Loading(page.load + 1, page.revision + 1)
    /\ requests' = Append(requests, Request("load", page'))
    /\ lost' = {}
    /\ UNCHANGED <<anonymous, backend, access, faults>>

IsLoadCurrent(request) == request.load = page.load

\* What the server read for a request: any state since it was sent.
Answers(request) == request.since..poll.commits

\* Results read before the ones on the page are shown all the same.
LostAfterShowing(commits) ==
    IF commits = poll.commits THEN {}
    ELSE IF commits < page.shown THEN lost \cup {"overtaken"}
    ELSE lost

Remaining(i) == RemoveAt(requests, i)

\* load() reads the poll, then its results, and opens the stream if the poll it
\* read was published.
LoadAnswered(i) ==
    /\ requests[i].kind = "load"
    /\ IsLoadCurrent(requests[i])
    /\ MayRead
    /\ requests' = Remaining(i)
    /\ \E commits \in Answers(requests[i]) :
         page' = [page EXCEPT
                    !.shown = commits,
                    !.connection = IF requests[i].live THEN "connecting" ELSE @]
    /\ UNCHANGED <<anonymous, backend, access, stream, faults, lost>>

\* Refreshes sent before a final event stay valid.
HandleEventKeepingRefreshes ==
    LET event == Head(stream.wire) IN
    /\ stream.wire # <<>>
    /\ Len(requests) < MaxRequests
    /\ stream' = [stream EXCEPT !.wire = Tail(@)]
    /\ IF event.final
       THEN /\ page' = [page EXCEPT !.final = "pending",
                                    !.finalSeen = IF @ = 0 THEN event.commit ELSE @]
            /\ requests' = Append(requests, Request("final", page'))
       ELSE page' = [page EXCEPT !.timer = TRUE] /\ UNCHANGED requests
    /\ UNCHANGED <<anonymous, backend, access, faults, lost>>

\* onmessage
HandleEvent ==
    LET event == Head(stream.wire)
        seen == IF event.id = NoId THEN page.cursor ELSE event
    IN
    /\ stream.wire # <<>>
    /\ Len(requests) < MaxRequests
    /\ stream' = [stream EXCEPT !.wire = Tail(@)]
    /\ \/ /\ event.final
          /\ page' = [page EXCEPT !.cursor = seen, !.revision = @ + 1,
                                  !.final = "pending",
                                  !.finalSeen = IF @ = 0 THEN event.commit ELSE @]
          /\ requests' = Append(requests, Request("final", page'))
       \/ /\ ~event.final
          /\ page' = [page EXCEPT !.cursor = seen, !.timer = TRUE]
          /\ UNCHANGED requests
    /\ UNCHANGED <<anonymous, backend, access, faults, lost>>

\* The refresh timer fires, 250 ms after the first event it stands for.
RefreshResults ==
    /\ page.timer
    /\ Len(requests) < MaxRequests
    /\ page' = [page EXCEPT !.timer = FALSE]
    /\ requests' = Append(requests, Request("refresh", page))
    /\ UNCHANGED <<anonymous, backend, access, stream, faults, lost>>

\* A refresh is shown unless a final event arrived since it was sent.
RefreshAnswered(i) ==
    /\ requests[i].kind = "refresh"
    /\ IsLoadCurrent(requests[i])
    /\ requests[i].revision = page.revision
    /\ MayRead
    /\ requests' = Remaining(i)
    /\ \E commits \in Answers(requests[i]) :
         /\ page' = [page EXCEPT !.shown = commits]
         /\ lost' = LostAfterShowing(commits)
    /\ UNCHANGED <<anonymous, backend, access, stream, faults>>

\* reconcileFinalResults
FinalAnswered(i) ==
    /\ requests[i].kind = "final"
    /\ IsLoadCurrent(requests[i])
    /\ MayRead
    /\ requests' = Remaining(i)
    /\ stream' = NoStream
    /\ \E commits \in Answers(requests[i]) :
         page' = CloseResultsEvents([page EXCEPT !.shown = commits,
                                                 !.final = "complete"])
    /\ UNCHANGED <<anonymous, backend, access, faults, lost>>

\* An answer to a load that is over, or a refresh overtaken by a final event.
AnswerDropped(i) ==
    /\ \/ ~IsLoadCurrent(requests[i])
       \/ requests[i].kind = "refresh" /\ requests[i].revision # page.revision
    /\ requests' = Remaining(i)
    /\ UNCHANGED <<anonymous, backend, access, stream, page, faults, lost>>

\* A failed request is reported on the page; the final one can be repeated.
RequestFails(i) ==
    /\ IsLoadCurrent(requests[i])
    /\ \/ Fault
       \/ ~MayRead /\ UNCHANGED faults
    /\ requests' = Remaining(i)
    /\ page' = IF requests[i].kind = "final" THEN [page EXCEPT !.final = "failed"] ELSE page
    /\ lost' = lost \cup {"reported"}
    /\ UNCHANGED <<anonymous, backend, access, stream>>

RetryFinalResults ==
    /\ page.final = "failed"
    /\ Len(requests) < MaxRequests
    /\ page' = [page EXCEPT !.final = "pending"]
    /\ requests' = Append(requests, Request("final", page))
    /\ UNCHANGED <<anonymous, backend, access, stream, faults, lost>>

-----------------------------------------------------------------------------
(* Environment *)

\* The session ends, or loses the right to read these results.
EndSession ==
    /\ access.session
    /\ Fault
    /\ access' = [access EXCEPT !.session = FALSE]
    /\ UNCHANGED <<anonymous, backend, stream, page, requests, lost>>

\* The public results of the poll are withdrawn.
HideResults ==
    /\ access.visible /\ ~anonymous
    /\ Fault
    /\ access' = [access EXCEPT !.visible = FALSE]
    /\ UNCHANGED <<anonymous, backend, stream, page, requests, lost>>

NothingUnderWay ==
    /\ stream.phase \in {"off", "live"} /\ stream.wire = <<>>
    /\ ~page.timer /\ requests = <<>>
    /\ \A c \in Commits : publication[c].pc \in {"none", "done"}

\* The keys expire 15 minutes after the last record, when calls and timers have
\* long ended and every stream opened before it has reached its lifetime of 15
\* minutes: the list goes and the numbers start again.
ReplayExpires ==
    /\ redis.sequence > 0
    /\ NothingUnderWay
    /\ Subscribed => stream.newest
    /\ redis' = [log |-> <<>>, sequence |-> 0]
    /\ lost' = IF Last(redis.log) # page.cursor THEN lost \cup {"expired"} ELSE lost
    /\ UNCHANGED <<anonymous, poll, access, publication, pending, stream, page,
                   requests, faults>>

-----------------------------------------------------------------------------

PublicationStep ==
    \E c \in Commits :
        ShouldPublishUpdate(c) \/ Record(c) \/ RecordFails(c) \/ Publish(c) \/ PublishFails(c)
StreamStep ==
    \/ Connect \/ ConnectRefused \/ LifetimeEnds \/ ReauthorizationFails \/ StreamEnds
    \/ StartReplay \/ FinishReplay
PageStep ==
    \/ HandleEvent \/ RefreshResults
    \/ \E i \in DOMAIN requests :
         \/ LoadAnswered(i) \/ RefreshAnswered(i)
         \/ FinalAnswered(i) \/ AnswerDropped(i) \/ RequestFails(i)
Environment ==
    \/ SubmitResponse \/ ClosePoll \/ ReopenPoll \/ EndSession \/ HideResults \/ ReplayExpires
    \/ ConnectFails \/ ConnectionDrops \/ ReplayFails \/ RetryFinalResults \/ Load
    \/ \E c \in Commits : PublicationDies(c)

Next == PublicationStep \/ StreamStep \/ PageStep \/ Environment

Spec == Init /\ [][Next]_vars

\* The processes, the network and the timers of the page go on; nobody is
\* bound to vote, to navigate or to retry.
FairSpec ==
    /\ Spec
    /\ WF_vars(PublicationStep)
    /\ WF_vars(StreamStep)
    /\ WF_vars(PageStep)

-----------------------------------------------------------------------------
(* Properties *)

TypeOK ==
    /\ anonymous \in BOOLEAN /\ access \in [session : BOOLEAN, visible : BOOLEAN]
    /\ poll \in [commits : 0..MaxCommits, closed : BOOLEAN]
    /\ publication \in [Commits -> [pc : {"none", "batch", "record", "publish", "done"},
            final : BOOLEAN, tries : 1..MaxAttempts, event : Events]]
    /\ pending \in 0..BatchSize
    /\ redis.log \in Seq(Events) /\ Len(redis.log) <= MaxReplay
    /\ redis.sequence \in Nat
    /\ stream.phase \in {"off", "reading", "read", "live", "ended"} /\ stream.newest \in BOOLEAN
    /\ \A q \in {stream.buffered, stream.replay, stream.wire} : q \in Seq(Events)
    /\ stream.last \in Events
    /\ page.load \in 1..MaxLoads
    /\ page.connection \in {"none", "connecting", "connected", "reconnecting", "closed"}
    /\ page.final \in {"idle", "pending", "failed", "complete"}
    /\ Len(requests) <= MaxRequests
    /\ faults \in 0..MaxFaults

\* A page whose stream is live, with nothing on its way to it, shows all the
\* commits, unless `lost' says why not: a publication that died or was held for
\* its batch, a message published while the process was away from the channel,
\* a replay that failed or came after the keys expired, a full buffer, an id
\* used twice, an event that was never recorded and whose connection broke, a
\* refresh overtaken by an older one, an error shown to the reader.  Neither the
\* gap between the first results and the subscription, nor the one between the
\* subscription and the replay, nor a trimmed list, nor events out of order lose
\* one.
QuietPagesAreCurrent ==
    (stream.phase = "live" /\ NothingUnderWay) => page.shown = poll.commits \/ lost # {}

\* Final results on the page were read after the closing whose event announced
\* them: no refresh sent earlier rolls them back.
CompleteResultsCoverTheClosing ==
    page.final = "complete" => page.shown >= page.finalSeen

\* In the end the page shows everything, or has said why not, or holds final
\* results, or has no stream.
PageCatchesUp ==
    <>[](\/ page.shown = poll.commits
         \/ lost # {} \/ page.connection \in {"closed", "none"})

\* sse-replay.service.spec.ts:65: retries are deduplicated "while preserving
\* distinct result mutations", whose ids it expects to differ. It does not hold: when
\* the replay keys expire, the numbers start again.
DistinctMutationsHaveDistinctIds ==
    \A c, d \in Commits :
        (/\ c # d
         /\ publication[c].event.id # NoId /\ publication[d].event.id # NoId)
        => publication[c].event.id # publication[d].event.id

=============================================================================
