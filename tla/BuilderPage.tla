---------------------------- MODULE BuilderPage -----------------------------
(***************************************************************************)
(* The administration page that edits polls, one administrator, and the    *)
(* server that other administrators also write to. The page shows a draft  *)
(* of one poll, the lists that belong to it (eligible enrollments, slates, *)
(* results), and runs asynchronous operations: each is a task that sends   *)
(* one request after another, and whose answers arrive in any order with   *)
(* those of the other tasks. What the controls do to the draft is in       *)
(* PollDraft, what the server checks of a slate in CacicElection, what     *)
(* becomes of the object of an image in PollImageObjects.                  *)
(***************************************************************************)
EXTENDS Integers, Sequences, FiniteSets

CONSTANTS
    None, Gone, Refused, \* no value, a poll deleted, a request that failed
    Polls,      \* ids of polls
    Stored,     \* the polls that exist at first
    Texts,      \* what an administrator may write in a poll
    Items,      \* enrollment numbers, and slates
    MaxOps,     \* bound on what the administrator does
    MaxOthers,  \* bound on what the other administrators do
    MaxFaults   \* bound on requests and answers lost

ASSUME StoredAssumption == Stored \subseteq Polls /\ IsFiniteSet(Stored) /\ Texts # {}

Lists == {"enrollments", "slates"}

PollRecords ==
    [id : Polls \cup {None}, text : Texts \cup {None}, uses : SUBSET Lists,
     status : {"draft", "published", "closed"}, image : BOOLEAN, version : Nat]

ASSUME NoneAssumption == None \notin Polls /\ {None, Gone} \cap PollRecords = {}

VARIABLES
    server,        \* the polls stored
    lists,         \* the enrollments and the slates of each poll
    imageOf,       \* the poll whose image is stored, or None
    clock,         \* the last updatedAt given
    draft,         \* builder.draft
    authoritative, \* authoritativePoll: what the server last said of the poll, or None
    shown,         \* the lists on the page: pairs of a poll and an item
    generation,    \* pollSelectionGeneration
    busy,          \* the flags that disable buttons
    tasks,         \* operations under way
    ops, others, faults,
    write          \* the last write of the page the server accepted (history)

store == <<server, lists, imageOf, clock>>
page == <<draft, authoritative, shown, generation, busy>>
vars == <<store, page, tasks, ops, others, faults, write>>

Flags == {"saving", "importing", "savingSlate", "uploading"}

BlankPoll == [id |-> None, text |-> None, uses |-> {}, status |-> "draft", image |-> FALSE,
              version |-> 0]

NoLists == [list \in Lists \cup {"results"} |-> {}]

Content(poll) == [poll EXCEPT !.version = 0]

Exists(p) == server[p] \notin {None, Gone}

Of(poll, items) == {poll} \X items

-----------------------------------------------------------------------------
(* Which selection an answer belongs to.                                   *)

\* Mutant: the draft may have become another poll's within one selection.
IsGenerationCurrent(gen, id) == gen = generation

IsPollSelectionCurrent(gen, id) == gen = generation /\ draft.id = id

\* Mutant: the version of whatever is stored is adopted.
AnyPollContent(left, right) == left.id = right.id

SamePollContent(left, right) == Content(left) = Content(right)

SetServerPoll(poll) == draft' = poll /\ authoritative' = poll

-----------------------------------------------------------------------------
(* Tasks. "rest" is what the task still asks for, the first of which has   *)
(* been sent with the draft of that moment; "reply" is the answer on its   *)
(* way, None before the server handles the request.                        *)

Task(op, rest, what) ==
    [n |-> ops, op |-> op, rest |-> rest, what |-> what, poll |-> draft.id, gen |-> generation,
     draft |-> draft, base |-> authoritative, reply |-> None]

Starts(task) == tasks' = tasks \cup {task} /\ ops' = ops + 1

Becomes(t, task) == tasks' = (tasks \ {t}) \cup {task}

\* A list is asked for only when the poll shown uses it.
Needed(list, poll) == poll.id # None /\ (list = "results" \/ list \in poll.uses)

\* Mutant: an operation that fails leaves the buttons disabled.
ReleasesUnlessRefused(t) == t.reply # Refused

\* The "finally" of a selection and of a change of a list does nothing when
\* another poll has been selected meanwhile.
Releases(t) ==
    CASE t.op = "select" -> t.gen = generation
      [] t.op \in {"enroll", "slate"} -> IsPollSelectionCurrent(t.gen, t.poll)
      [] OTHER -> TRUE

FlagsOf(t) == CASE t.op \in {"select", "save", "status", "delete"} -> {"saving"}
                [] t.op = "enroll" -> {"importing"}
                [] t.op = "slate" -> {"savingSlate"}
                [] t.op = "image" -> {IF Head(t.rest) = "post" THEN "saving" ELSE "uploading"}
                [] OTHER -> {}

Ends(t) ==
    /\ tasks' = tasks \ {t}
    /\ busy' = IF Releases(t) THEN busy \ FlagsOf(t) ELSE busy

\* The task asks for the first list the poll needs, and the page clears
\* those before it. A selection that is no longer current asks for nothing.
Loads(t, rest, poll, lists0) ==
    LET stale == t.op = "select" /\ t.gen # generation
        needed == {i \in DOMAIN rest : Needed(rest[i], poll)}
        first == CHOOSE i \in needed : \A j \in needed : i <= j
        cleared == {rest[i] : i \in {k \in DOMAIN rest : \A j \in needed : k < j}}
    IN  /\ shown' = [list \in DOMAIN lists0 |->
                        IF ~stale /\ list \in cleared THEN {} ELSE lists0[list]]
        /\ IF stale \/ needed = {} THEN Ends(t)
           ELSE /\ Becomes(t, [t EXCEPT !.rest = SubSeq(rest, first, Len(rest)),
                                        !.poll = poll.id, !.reply = None,
                                        !.gen = IF t.op = "select" THEN @ ELSE generation])
                /\ busy' = busy

-----------------------------------------------------------------------------
(* The administrator.                                                      *)

May(flag) == ops < MaxOps /\ flag \notin busy

Edits(poll) ==
    /\ ops < MaxOps /\ poll # draft
    /\ draft' = poll
    /\ UNCHANGED <<store, authoritative, generation, busy, others, faults, write>>

Begins(flag, task) ==
    /\ May(flag)
    /\ busy' = busy \cup {flag}
    /\ Starts(task)
    /\ UNCHANGED <<store, draft, authoritative, shown, generation, others, faults, write>>

SelectPoll(p) ==
    /\ May("saving") /\ Exists(p)
    /\ generation' = generation + 1
    /\ busy' = (busy \ {"importing", "savingSlate"}) \cup {"saving"}
    /\ shown' = NoLists
    /\ Starts([Task("select", <<"get">>, None) EXCEPT !.poll = p, !.gen = generation + 1])
    /\ UNCHANGED <<store, draft, authoritative, others, faults, write>>

\* "Nova" is never disabled, and what it leaves disabled is not its concern.
NewPoll ==
    /\ ops < MaxOps
    /\ generation' = generation + 1
    /\ draft' = BlankPoll /\ authoritative' = None
    /\ shown' = NoLists
    /\ busy' = busy \ {"importing", "savingSlate"}
    /\ ops' = ops + 1
    /\ UNCHANGED <<store, tasks, others, faults, write>>

\* The fields are not disabled while a request is under way.
EditText(text) ==
    /\ Edits([draft EXCEPT !.text = text])
    /\ ops' = ops + 1 /\ UNCHANGED <<shown, tasks>>

\* An election takes its voters from the list of enrollments; a submission
\* of slates, or a poll that is no election again, keeps the source it had.
UpdatePollMode(uses) ==
    /\ uses \in {draft.uses \cup {"slates"}, Lists, draft.uses \ {"slates"}}
    /\ Edits([draft EXCEPT !.uses = uses])
    /\ ops' = ops + 1 /\ UNCHANGED <<shown, tasks>>

UpdateVoterEligibilitySource(uses) ==
    /\ uses \in {draft.uses \ {"enrollments"}, draft.uses \cup {"enrollments"}}
    /\ Edits([draft EXCEPT !.uses = uses])
    /\ IF Needed("enrollments", draft')
       THEN Starts(Task("list", <<"enrollments">>, None)) /\ UNCHANGED shown
       ELSE /\ shown' = [shown EXCEPT !["enrollments"] = {}]
            /\ ops' = ops + 1 /\ UNCHANGED tasks

CanSave == draft.text # None /\ (draft.id = None => \E p \in Polls : server[p] = None)

Save == CanSave /\ Begins("saving", Task("save", <<IF draft.id = None THEN "post" ELSE "put">>, None))

SetStatus ==
    /\ draft.id # None
    /\ Begins("saving", Task("status", <<"status">>,
                             IF draft.status = "published" THEN "closed" ELSE "published"))

DeletePoll == draft.id # None /\ Begins("saving", Task("delete", <<"delete">>, None))

\* Numbers written or read from a file, one removed, or the whole list.
ChangeEnrollments(change) ==
    /\ Needed("enrollments", draft)
    /\ Begins("importing", Task("enroll", <<"change">>, change))

ChangeSlates(change) ==
    /\ Needed("slates", draft)
    /\ Begins("savingSlate", Task("slate", <<"change">>, change))

\* A poll that was never saved is created first.
UploadImage ==
    /\ CanSave /\ {"saving", "uploading"} \cap busy = {} /\ imageOf = None /\ ~draft.image
    /\ IF draft.id = None
       THEN Begins("saving", Task("image", <<"post", "upload", "put">>, None))
       ELSE Begins("uploading", Task("image", <<"upload", "put">>, None))

RemoveImage ==
    /\ draft.image /\ draft.id # None
    /\ Begins("uploading", Task("image", <<"removal">>, None))

-----------------------------------------------------------------------------
(* The server. A handler is one step: what two of them may do to each      *)
(* other is in CacicElection.                                              *)

Changed(items, change) ==
    CASE change.kind = "add" -> items \cup {change.item}
      [] change.kind = "replace" -> {change.item}
      [] change.kind = "remove" -> items \ {change.item}
      [] OTHER -> {}

ListOf(t) == IF t.op = "enroll" THEN "enrollments" ELSE "slates"

Accepts(t) ==
    LET p == t.poll
        request == Head(t.rest)
    IN  CASE request = "post" -> \E q \in Polls : server[q] = None
          [] request = "delete" -> TRUE
          [] request = "removal" -> imageOf = p
          [] request = "put" ->
                /\ Exists(p) /\ t.draft.text # None
                /\ t.draft.version = server[p].version
                /\ t.draft.image => imageOf = p
                /\ server[p].status # "draft" => t.draft.uses = server[p].uses
          [] request = "status" ->
                /\ Exists(p) /\ t.draft.version = server[p].version
                /\ <<server[p].status, t.what>> \in {<<"draft", "published">>,
                        <<"published", "closed">>, <<"closed", "published">>}
          [] request = "change" ->
                /\ Exists(p)
                /\ IF t.op = "enroll" THEN server[p].status = "draft"
                                      ELSE "slates" \in server[p].uses
          [] OTHER -> Exists(p)

Awaits(t, request) == t.reply = None /\ Head(t.rest) = request /\ Accepts(t)
Replies(t, reply) == Becomes(t, [t EXCEPT !.reply = reply])
Elsewhere == UNCHANGED <<page, ops, others, faults>>

\* The poll takes the next updatedAt.
Writes(p, poll) ==
    /\ clock' = clock + 1
    /\ server' = [server EXCEPT ![p] = [poll EXCEPT !.id = p, !.version = clock + 1]]

Refuses(t) ==
    /\ t.reply = None /\ ~Accepts(t)
    /\ Replies(t, Refused)
    /\ Elsewhere /\ UNCHANGED <<store, write>>

GetPoll(t) ==
    /\ Awaits(t, "get")
    /\ Replies(t, server[t.poll])
    /\ Elsewhere /\ UNCHANGED <<store, write>>

GetList(t) ==
    /\ \E list \in Lists : Awaits(t, list) /\ Replies(t, Of(t.poll, lists[list][t.poll]))
    /\ Elsewhere /\ UNCHANGED <<store, write>>

GetResults(t) ==
    /\ Awaits(t, "results")
    /\ Replies(t, Of(t.poll, {"results"}))
    /\ Elsewhere /\ UNCHANGED <<store, write>>

CreatePoll(t) ==
    /\ Awaits(t, "post")
    /\ LET p == CHOOSE q \in Polls : server[q] = None
       IN  Writes(p, t.draft) /\ Replies(t, server'[p])
    /\ Elsewhere /\ UNCHANGED <<lists, imageOf, write>>

UpdatePoll(t) ==
    /\ Awaits(t, "put")
    /\ Writes(t.poll, [t.draft EXCEPT !.status = server[t.poll].status])
    /\ imageOf' = IF server[t.poll].image /\ ~t.draft.image THEN None ELSE imageOf
    /\ Replies(t, server'[t.poll])
    /\ write' = [replaced |-> server[t.poll], baseline |-> t.base]
    /\ Elsewhere /\ UNCHANGED lists

UpdatePollStatus(t) ==
    /\ Awaits(t, "status")
    /\ Writes(t.poll, [server[t.poll] EXCEPT !.status = t.what])
    /\ Replies(t, server'[t.poll])
    /\ write' = [replaced |-> server[t.poll], baseline |-> t.base]
    /\ Elsewhere /\ UNCHANGED <<lists, imageOf>>

Deletes(p) ==
    /\ server' = [server EXCEPT ![p] = Gone]
    /\ lists' = [list \in Lists |-> [lists[list] EXCEPT ![p] = {}]]
    /\ imageOf' = IF imageOf = p THEN None ELSE imageOf
    /\ UNCHANGED clock

DeletePollOnServer(t) ==
    /\ Awaits(t, "delete")
    /\ Deletes(t.poll)
    /\ Replies(t, "done")
    /\ Elsewhere /\ UNCHANGED write

\* A change of the enrollments is a change of the poll, one of the slates is not.
ChangeList(t) ==
    /\ Awaits(t, "change")
    /\ lists' = [lists EXCEPT ![ListOf(t)][t.poll] = Changed(@, t.what)]
    /\ IF t.op = "enroll" THEN Writes(t.poll, server[t.poll]) ELSE UNCHANGED <<server, clock>>
    /\ Replies(t, Of(t.poll, lists'[ListOf(t)][t.poll]))
    /\ Elsewhere /\ UNCHANGED <<imageOf, write>>

StoreImage(t) ==
    /\ Awaits(t, "upload")
    /\ imageOf' = t.poll
    /\ Replies(t, "done")
    /\ Elsewhere /\ UNCHANGED <<server, lists, clock, write>>

\* The version of the poll does not change.
DeleteImage(t) ==
    /\ Awaits(t, "removal")
    /\ imageOf' = None
    /\ server' = [server EXCEPT ![t.poll].image = FALSE]
    /\ Replies(t, "done")
    /\ Elsewhere /\ UNCHANGED <<lists, clock, write>>

\* A request never arrives, or its answer never comes back.
Loses(t) ==
    /\ faults < MaxFaults /\ t.reply # Refused
    /\ Replies(t, Refused)
    /\ faults' = faults + 1
    /\ UNCHANGED <<store, page, ops, others, write>>

ByOthers == others < MaxOthers /\ others' = others + 1 /\ UNCHANGED <<page, tasks, ops, faults, write>>

OtherSaves(p, text) ==
    /\ ByOthers /\ Exists(p) /\ text # None
    /\ Writes(p, [server[p] EXCEPT !.text = text])
    /\ UNCHANGED <<lists, imageOf>>

OtherEnrolls(p, item) ==
    /\ ByOthers /\ Exists(p) /\ server[p].status = "draft"
    /\ lists' = [lists EXCEPT !["enrollments"][p] = @ \cup {item}]
    /\ Writes(p, server[p])
    /\ UNCHANGED imageOf

OtherPublishes(p) ==
    /\ ByOthers /\ Exists(p) /\ server[p].status # "published"
    /\ Writes(p, [server[p] EXCEPT !.status = "published"])
    /\ UNCHANGED <<lists, imageOf>>

OtherDeletes(p) == ByOthers /\ Exists(p) /\ Deletes(p)

-----------------------------------------------------------------------------
(* The answers.                                                            *)

Answered(t, op, requests) == t.op \in op /\ t.reply # None /\ Head(t.rest) \in requests
Here == UNCHANGED <<store, generation, ops, others, faults, write>>
Keeps == UNCHANGED <<draft, authoritative>>
All == <<"enrollments", "slates", "results">>

AnswerSelected(t) ==
    /\ Answered(t, {"select"}, {"get"})
    /\ IF t.reply = Refused \/ t.gen # generation
       THEN Ends(t) /\ Keeps /\ UNCHANGED shown
       ELSE SetServerPoll(t.reply) /\ Loads(t, All, t.reply, shown)
    /\ Here

AnswerList(t) ==
    /\ Answered(t, {"select", "save", "status", "list"}, Lists \cup {"results"})
    /\ Loads(t, Tail(t.rest), draft,
             IF t.reply # Refused /\ IsPollSelectionCurrent(t.gen, t.poll)
             THEN [shown EXCEPT ![Head(t.rest)] = t.reply] ELSE shown)
    /\ Keeps /\ Here

\* Whatever has been selected or written meanwhile, the poll saved is shown.
AnswerSaved(t) ==
    /\ Answered(t, {"save", "status"}, {"post", "put", "status"})
    /\ IF t.reply = Refused
       THEN Ends(t) /\ Keeps /\ UNCHANGED shown
       ELSE /\ SetServerPoll(t.reply)
            /\ Loads(t, IF t.op = "save" THEN All ELSE <<"slates">>, t.reply, shown)
    /\ Here

AnswerDeleted(t) ==
    /\ Answered(t, {"delete"}, {"delete"})
    /\ Ends(t)
    /\ IF t.reply = Refused THEN UNCHANGED <<draft, shown>>
       ELSE draft' = BlankPoll /\ shown' = [shown EXCEPT !["results"] = {}]
    /\ UNCHANGED authoritative /\ Here

\* The list changed here, and then the poll it belongs to is asked for.
ListChanged(t, items) ==
    /\ IF t.reply = Refused \/ ~IsPollSelectionCurrent(t.gen, t.poll)
       THEN Ends(t) /\ UNCHANGED shown
       ELSE /\ shown' = [shown EXCEPT ![ListOf(t)] = items]
            /\ Becomes(t, [t EXCEPT !.rest = <<"get">>, !.reply = None])
            /\ UNCHANGED busy
    /\ Keeps /\ Here

\* The server answers with the whole list, except for a removal.
AnswerEnrollmentsChanged(t) ==
    /\ Answered(t, {"enroll"}, {"change"})
    /\ ListChanged(t, IF t.what.kind = "remove"
                      THEN shown["enrollments"] \ Of(t.poll, {t.what.item}) ELSE t.reply)

\* The server answers with one slate.
AnswerSlatesChanged(t) ==
    /\ Answered(t, {"slate"}, {"change"})
    /\ ListChanged(t, IF t.what.kind = "remove"
                      THEN shown["slates"] \ Of(t.poll, {t.what.item})
                      ELSE shown["slates"] \cup Of(t.poll, {t.what.item}))

\* The version the change gave the poll becomes that of the draft, when
\* nothing else of the poll changed.
SynchronizePollVersion(t) ==
    /\ Answered(t, {"enroll"}, {"get"})
    /\ IF /\ t.reply # Refused
          /\ IsPollSelectionCurrent(t.gen, t.poll)
          /\ authoritative # None => SamePollContent(authoritative, t.reply)
          /\ draft.version = t.draft.version
       THEN /\ draft' = [draft EXCEPT !.version = t.reply.version]
            /\ authoritative' = [(IF authoritative = None THEN t.reply ELSE authoritative)
                                    EXCEPT !.version = t.reply.version]
       ELSE Keeps
    /\ Ends(t)
    /\ UNCHANGED shown /\ Here

ReloadPollAfterSlateChange(t) ==
    /\ Answered(t, {"slate"}, {"get"})
    /\ IF t.reply # Refused /\ IsPollSelectionCurrent(t.gen, t.poll)
       THEN SetServerPoll(t.reply) ELSE Keeps
    /\ Ends(t)
    /\ UNCHANGED shown /\ Here

AnswerCreatedForImages(t) ==
    /\ Answered(t, {"image"}, {"post"})
    /\ IF t.reply = Refused THEN Ends(t) /\ Keeps
       ELSE /\ SetServerPoll(t.reply)
            /\ busy' = (busy \ {"saving"}) \cup {"uploading"}
            /\ Becomes(t, [t EXCEPT !.rest = Tail(@), !.poll = t.reply.id, !.reply = None])
    /\ UNCHANGED shown /\ Here

\* The image goes to the draft shown now, which is saved as the poll of then.
AnswerUploaded(t) ==
    /\ Answered(t, {"image"}, {"upload"})
    /\ IF t.reply = Refused THEN Ends(t) /\ UNCHANGED draft
       ELSE /\ draft' = [draft EXCEPT !.image = TRUE]
            /\ Becomes(t, [t EXCEPT !.rest = Tail(@), !.draft = draft', !.base = authoritative,
                                    !.reply = None])
            /\ UNCHANGED busy
    /\ UNCHANGED <<authoritative, shown>> /\ Here

PersistCurrentDraftAfterImageChange(t) ==
    /\ Answered(t, {"image"}, {"put"})
    /\ Ends(t)
    /\ IF t.reply = Refused THEN Keeps ELSE SetServerPoll(t.reply)
    /\ UNCHANGED shown /\ Here

AnswerImageRemoved(t) ==
    /\ Answered(t, {"image"}, {"removal"})
    /\ Ends(t)
    /\ draft' = IF t.reply = Refused THEN draft ELSE [draft EXCEPT !.image = FALSE]
    /\ UNCHANGED <<authoritative, shown>> /\ Here

-----------------------------------------------------------------------------
\* No two polls were last changed in the same millisecond.
UpdatedAt == CHOOSE at \in [Stored -> 1..Cardinality(Stored)] :
                \A p, q \in Stored : p # q => at[p] # at[q]

Init ==
    /\ server = [p \in Polls |-> IF p \in Stored
                    THEN [BlankPoll EXCEPT !.id = p, !.text = CHOOSE text \in Texts : TRUE,
                                           !.uses = {"enrollments"}, !.version = UpdatedAt[p]]
                    ELSE None]
    /\ lists = [list \in Lists |-> [p \in Polls |-> {}]]
    /\ imageOf = None /\ clock = Cardinality(Stored)
    /\ draft = BlankPoll /\ authoritative = None
    /\ shown = NoLists /\ generation = 0
    /\ busy = {} /\ tasks = {}
    /\ ops = 0 /\ others = 0 /\ faults = 0
    /\ write = None

Changes == [kind : {"add", "replace", "remove", "clear"}, item : Items]

Administrator ==
    \/ \E p \in Polls : SelectPoll(p)
    \/ NewPoll
    \/ \E text \in Texts \cup {None} : EditText(text)
    \/ \E uses \in SUBSET Lists : UpdatePollMode(uses) \/ UpdateVoterEligibilitySource(uses)
    \/ Save \/ SetStatus \/ DeletePoll
    \/ \E change \in Changes : ChangeEnrollments(change)
    \/ \E change \in Changes : change.kind \in {"add", "remove"} /\ ChangeSlates(change)
    \/ UploadImage \/ RemoveImage

Others ==
    \E p \in Polls :
        \/ \E text \in Texts : OtherSaves(p, text)
        \/ \E item \in Items : OtherEnrolls(p, item)
        \/ OtherPublishes(p)
        \/ OtherDeletes(p)

Server(t) ==
    \/ Refuses(t) \/ GetPoll(t) \/ GetList(t) \/ GetResults(t)
    \/ CreatePoll(t) \/ UpdatePoll(t) \/ UpdatePollStatus(t) \/ DeletePollOnServer(t)
    \/ ChangeList(t) \/ StoreImage(t) \/ DeleteImage(t)

Page(t) ==
    \/ AnswerSelected(t) \/ AnswerList(t) \/ AnswerSaved(t) \/ AnswerDeleted(t)
    \/ AnswerEnrollmentsChanged(t) \/ SynchronizePollVersion(t)
    \/ AnswerSlatesChanged(t) \/ ReloadPollAfterSlateChange(t)
    \/ AnswerCreatedForImages(t) \/ AnswerUploaded(t)
    \/ PersistCurrentDraftAfterImageChange(t) \/ AnswerImageRemoved(t)

Next ==
    \/ Administrator
    \/ Others
    \/ \E t \in tasks : Server(t) \/ Page(t) \/ Loses(t)

Spec == Init /\ [][Next]_vars

-----------------------------------------------------------------------------
(* Properties.                                                             *)

\* What a save or a change of status replaces is what the page last showed
\* the administrator of that poll, though the version of the draft moves
\* with every change of the list of enrollments, answers arrive late, and
\* others write. (synchronizePollVersion, save, setStatus, and the image
\* flow, which saves whatever draft is shown.) Images are stored apart.
NoBlindOverwrite ==
    write # None =>
        /\ write.baseline # None
        /\ \A field \in {"id", "text", "uses", "status"} :
                write.replaced[field] = write.baseline[field]

\* What is added to a list on the page belongs to the poll of the draft: an
\* answer for a poll that was selected, deleted or replaced since adds
\* nothing. (isPollSelectionCurrent.)
ListsAreOfThePollShown ==
    [][\A list \in DOMAIN shown : \A pair \in shown'[list] \ shown[list] :
            pair[1] = draft'.id]_vars

\* Some request under way enables the button again when it ends, whatever its end.
IsReleased(flag) ==
    flag \in busy => \E t \in tasks : flag \in FlagsOf(t) /\ Releases(t)

\* "Nova" while the poll selected is loading: the answer comes for an earlier generation,
\* and the "finally" of selectPoll no longer enables what the selection disabled.
NewDuringSelection == NewPoll /\ \E t \in tasks : t.op = "select" /\ t.gen = generation

\* The buttons that a save, a selection or an upload disables are enabled again: no end
\* of a request, and nothing the administrator does meanwhile, leaves them disabled for
\* good, except "Nova" during a selection.
OnlyNewLeavesButtonsDisabled ==
    [][\A flag \in {"saving", "uploading"} :
            IsReleased(flag) => \/ IsReleased(flag)'
                                \/ flag = "saving" /\ NewDuringSelection]_vars

\* "expect(component.saving()).toBe(false)" once a selection has ended (the page's tests):
\* the buttons are disabled only while a request that disabled them is under way. It does
\* not hold: after NewDuringSelection they stay disabled until the page is loaded again.
SavingEndsWithItsRequest ==
    "saving" \in busy => \E t \in tasks : "saving" \in FlagsOf(t)
=============================================================================
