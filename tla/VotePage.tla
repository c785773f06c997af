------------------------------ MODULE VotePage ------------------------------
(***************************************************************************)
(* The page on which a voter answers a poll: loading, the controls of the  *)
(* elements, prefilling from the stored response, submission, and answers  *)
(* of requests that come back late or never. On the other side of the      *)
(* network: the administrator who changes the definition, and the server   *)
(* that validates with AnswerRules and stores the response. Voting stays   *)
(* open; the page of the kiosk and the slates are not modelled here.       *)
(***************************************************************************)
EXTENDS AnswerRules, OrderedChoice

CONSTANTS
    Polls,        \* polls the page may be navigated to
    DefinitionsOf, \* the definitions each poll may open with: sequences of elements
    RevisionsOf,  \* the definitions an administrator may give it later
    PoliciesOf,   \* how often a voter may answer each poll
    Words,        \* what a voter types into a text
    Names,        \* what a voter types as the name of an invitee
    Nothing,
    MaxLoads,     \* bound on navigations
    MaxRevisions, \* bound on changes of definitions
    MaxFaults,    \* bound on lost requests and answers
    MaxSubmissions \* bound on submissions

Policies == {"single", "editable", "multiple"}

\* A definition has distinct elements of known kinds; meetings are planned in minutes.
Definitions == UNION {DefinitionsOf[p] \cup RevisionsOf[p] : p \in Polls}

ElementTypes == {"section", "statement", "text", "singleChoice", "multipleChoice",
                 "singleSelectionGrid", "multipleSelectionGrid", "number", "date", "scheduling"}

ASSUME DefinitionsAssumption ==
    /\ Nothing \notin Definitions
    /\ \A d \in Definitions : \A i \in DOMAIN d :
          /\ d[i].type \in ElementTypes
          /\ \A j \in DOMAIN d : d[i].id = d[j].id => i = j
          /\ {d[i].bufferBefore, d[i].duration, d[i].bufferAfter} \subseteq Int
          /\ d[i].maxInvitees \in Nat
          /\ \A w \in d[i].windows : {w.start, w.end} \subseteq Int

VARIABLES
    definition,  \* server: the definition of every poll
    policy,      \* server: how often the voter may answer each poll
    response,    \* server: the latest response of the voter, with the definition it answered
    ballots,     \* server: the responses of the voter to each poll
    revisions,   \* definitions changed so far (bounded)
    generation,  \* page: pollLoadGeneration
    access,      \* page: the poll of the route
    elements,    \* page: the elements of the poll shown, Nothing while it loads
    answers,     \* page: the answers map
    state,       \* page: responseState
    stateLoad,   \* page: "idle", "loading" or "failed"
    saving,      \* page: a submission is under way
    based,       \* the definition the prefilled answers were given to (history)
    wire,        \* requests under way, with their answers
    faults,      \* requests failed so far (bounded)
    submissions  \* submissions made so far (bounded)

server == <<definition, policy, response, ballots, revisions>>
page == <<generation, access, elements, answers, state, stateLoad, saving, based>>
voteVars == <<server, page, wire, faults, submissions>>

EmptyState == [hasSubmitted |-> FALSE, canEdit |-> FALSE, canSubmitAnother |-> FALSE,
               response |-> Nothing]

-----------------------------------------------------------------------------
(* The controls.                                                           *)

\* Mutant: the page leaves no room for what must follow a meeting.
SlotsWithoutBufferAfter(e) ==
    UNION {{<<w.id, t>> : t \in {t \in FirstStart(e, w)..(w.end - e.duration) :
                                    (t - FirstStart(e, w)) % e.interval = 0}} : w \in e.windows}

\* The slots the page offers: it does not leave out windows that are too short.
SchedulingSlots(e) ==
    UNION {{<<w.id, t>> : t \in {t \in FirstStart(e, w)..LastStart(e, w) :
                                    (t - FirstStart(e, w)) % e.interval = 0}} : w \in e.windows}

AnswerTo(e) == ValueFor(answers, e.id)

TextsOf(v) == IF DOMAIN v = {"texts"} THEN v.texts ELSE {}

Toggled(S, x) == IF x \in S THEN S \ {x} ELSE S \cup {x}

\* The fields of an object that are texts, and those that are lists: of a list, its texts.
ReadSingleGridAnswer(v) ==
    IF IsObject(v) THEN Restrict(v.fields, {r \in DOMAIN v.fields : IsText(v.fields[r])})
    ELSE << >>

ReadMultipleGridAnswer(v) ==
    IF IsObject(v)
    THEN [r \in {r \in DOMAIN v.fields : IsList(v.fields[r])} |->
             [texts |-> TextsOf(v.fields[r])]]
    ELSE << >>

ReadSchedulingAnswer(v) ==
    [slotId   |-> IF IsObject(v) /\ "slotId" \in DOMAIN v.fields /\ IsText(v.fields["slotId"])
                  THEN v.fields["slotId"] ELSE [text |-> Empty],
     invitees |-> [invitees |->
                     IF /\ IsObject(v) /\ "invitees" \in DOMAIN v.fields
                        /\ DOMAIN v.fields["invitees"] = {"invitees"}
                     THEN v.fields["invitees"].invitees ELSE << >>]]

With(f, x, v) == [y \in DOMAIN f \cup {x} |-> IF y = x THEN v ELSE f[y]]

\* Typing: the first invitee, then the ones after it.
InviteesAfter(current, maxInvitees) ==
    {With(current, k, i) :
        k \in {k \in 1..maxInvitees : k <= Len(current) + 1},
        i \in [name : Names \cup {Empty}, email : Emails \cup Words \cup {Empty}]}

SchedulingAfter(e) ==
    LET current == ReadSchedulingAnswer(AnswerTo(e))
    IN  {[fields |-> [current EXCEPT !.slotId = [text |-> s]]] : s \in SchedulingSlots(e)}
          \cup (IF e.inviteeMode = "none" THEN {}
                ELSE {[fields |-> [current EXCEPT !.invitees = [invitees |-> k]]] :
                         k \in InviteesAfter(current.invitees.invitees, e.maxInvitees)})

\* The values one use of the controls of an element can give it.
ValuesAfter(e) ==
    CASE e.type \in {"section", "statement"} -> {}
      [] e.type = "text" -> {[text |-> t] : t \in Words \cup {Empty, Spaces}}
      [] e.type = "singleChoice" -> {[text |-> o] : o \in e.options}
      [] e.type = "multipleChoice" ->
            {[texts |-> Toggled(TextsOf(AnswerTo(e)), o)] : o \in e.options}
      [] e.type = "singleSelectionGrid" ->
            {[fields |-> With(ReadSingleGridAnswer(AnswerTo(e)), r, [text |-> c])] :
                r \in e.rows, c \in e.columns}
      [] e.type = "multipleSelectionGrid" ->
            LET current == ReadMultipleGridAnswer(AnswerTo(e))
            IN  {[fields |-> With(current, r,
                     [texts |-> Toggled(TextsOf(ValueFor(current, r)), c)])] :
                    r \in e.rows, c \in e.columns}
      [] e.type = "number" -> {[number |-> n] : n \in e.min..e.max}
      [] e.type = "date" -> {[text |-> t] : t \in Dates \cup {Empty}}
      [] e.type = "scheduling" -> SchedulingAfter(e)

CanVote ==
    /\ elements # Nothing
    /\ stateLoad = "idle"
    /\ ~state.hasSubmitted \/ state.canEdit \/ state.canSubmitAnother

SetAnswer ==
    /\ CanVote
    /\ \E i \in DOMAIN elements : \E v \in ValuesAfter(elements[i]) :
          answers' = With(answers, elements[i].id, v)
    /\ UNCHANGED <<server, generation, access, elements, state, stateLoad, saving, based,
                   wire, faults, submissions>>

-----------------------------------------------------------------------------
(* Requests.                                                               *)

Request(kind, p) == [kind |-> kind, generation |-> generation, poll |-> p, input |-> Nothing,
                     shown |-> Nothing, based |-> Nothing, reply |-> Nothing]

\* Mutant: answers of an earlier load are used.
AnyGeneration(m) == TRUE

IsPollLoadCurrent(m) == m.generation = generation

\* The route changes: everything the page holds is reset.
LoadPoll(p) ==
    /\ generation < MaxLoads
    /\ generation' = generation + 1
    /\ access' = p
    /\ elements' = Nothing
    /\ answers' = << >>
    /\ state' = EmptyState
    /\ stateLoad' = "idle"
    /\ saving' = FALSE
    /\ based' = Nothing
    /\ wire' = wire \cup {[Request("poll", p) EXCEPT !.generation = generation + 1]}
    /\ UNCHANGED <<server, faults, submissions>>

ReplyPoll(m) ==
    /\ m.kind = "poll" /\ m.reply = Nothing
    /\ wire' = (wire \ {m}) \cup {[m EXCEPT !.reply = [elements |-> definition[m.poll]]]}
    /\ UNCHANGED <<server, page, faults, submissions>>

LoadUserResponseState(p) == Request("state", p)

PollArrives(m) ==
    /\ m.kind = "poll" /\ m.reply # Nothing
    /\ IF IsPollLoadCurrent(m)
       THEN /\ elements' = m.reply.elements
            /\ state' = EmptyState
            /\ stateLoad' = "loading"
            /\ wire' = (wire \ {m}) \cup {LoadUserResponseState(m.poll)}
       ELSE /\ wire' = wire \ {m}
            /\ UNCHANGED <<elements, state, stateLoad>>
    /\ UNCHANGED <<server, generation, access, answers, saving, based, faults, submissions>>

RetryResponseState ==
    /\ stateLoad = "failed"
    /\ stateLoad' = "loading"
    /\ state' = EmptyState
    /\ wire' = wire \cup {LoadUserResponseState(access)}
    /\ UNCHANGED <<server, generation, access, elements, answers, saving, based, faults, submissions>>

ReadUserResponseState(p) ==
    [hasSubmitted     |-> ballots[p] > 0,
     canEdit          |-> policy[p] = "editable" /\ response[p] # Nothing,
     canSubmitAnother |-> policy[p] = "multiple",
     response         |-> response[p]]

ReplyState(m) ==
    /\ m.kind = "state" /\ m.reply = Nothing
    /\ wire' = (wire \ {m}) \cup {[m EXCEPT !.reply = ReadUserResponseState(m.poll)]}
    /\ UNCHANGED <<server, page, faults, submissions>>

StateArrives(m) ==
    /\ m.kind = "state" /\ m.reply # Nothing
    /\ wire' = wire \ {m}
    /\ IF IsPollLoadCurrent(m)
       THEN /\ state' = m.reply
            /\ stateLoad' = "idle"
            /\ IF m.reply.canEdit /\ ~m.reply.canSubmitAnother
               THEN answers' = m.reply.response.given /\ based' = m.reply.response.under
               ELSE UNCHANGED <<answers, based>>
       ELSE UNCHANGED <<state, stateLoad, answers, based>>
    /\ UNCHANGED <<server, generation, access, elements, saving, faults, submissions>>

-----------------------------------------------------------------------------
(* Submission.                                                             *)

\* Invitees without a name and without an e-mail are left out.
GivenInvitees(list) ==
    Filtered(list, {k \in DOMAIN list : Trim(list[k].name) # Empty \/ Trim(list[k].email) # Empty})

NormalizeValueForSubmission(e, v) ==
    IF e.type # "scheduling" \/ IsNull(v) THEN v
    ELSE LET read == ReadSchedulingAnswer(v)
         IN  [fields |-> [slotId   |-> read.slotId,
                          invitees |-> [invitees |-> GivenInvitees(read.invitees.invitees)]]]

BuildPollResponseAnswers ==
    [id \in ElementIds(elements) |->
        NormalizeValueForSubmission(
            elements[CHOOSE i \in DOMAIN elements : elements[i].id = id], ValueFor(answers, id))]

Submit ==
    /\ CanVote
    /\ ~saving
    /\ submissions < MaxSubmissions
    /\ submissions' = submissions + 1
    /\ saving' = TRUE
    /\ wire' = wire \cup {[Request("submit", access) EXCEPT
                              !.input = BuildPollResponseAnswers, !.shown = elements, !.based = based]}
    /\ UNCHANGED <<server, generation, access, elements, answers, state, stateLoad, based, faults>>

\* A poll that takes one response takes no other; the rest depends on the answers.
SaveResponse(m) ==
    LET p == m.poll
        taken == policy[p] = "single" /\ ballots[p] > 0
        reasons == RefusalsOf(definition[p], m.input)
    IN  /\ m.kind = "submit" /\ m.reply = Nothing
        /\ IF reasons # {} \/ taken
           THEN /\ wire' = (wire \ {m}) \cup
                        {[m EXCEPT !.reply = [accepted |-> FALSE,
                                              reasons  |-> IF taken THEN {} ELSE reasons,
                                              under    |-> definition[p]]]}
                /\ UNCHANGED <<response, ballots>>
           ELSE /\ response' = [response EXCEPT ![p] =
                        [given |-> ValidatePollResponse(definition[p], m.input),
                         under |-> definition[p]]]
                /\ ballots' = [ballots EXCEPT ![p] =
                        IF policy[p] = "multiple" THEN @ + 1 ELSE 1]
                /\ wire' = (wire \ {m}) \cup
                        {[m EXCEPT !.reply = [accepted |-> TRUE, response |-> response'[p]]]}
        /\ UNCHANGED <<definition, policy, revisions, page, faults, submissions>>

SubmittedResponseState(p, r) ==
    [hasSubmitted |-> TRUE, canEdit |-> policy[p] = "editable",
     canSubmitAnother |-> policy[p] = "multiple",
     response |-> IF policy[p] = "editable" THEN r ELSE Nothing]

SubmissionArrives(m) ==
    /\ m.kind = "submit" /\ m.reply # Nothing
    /\ wire' = wire \ {m}
    /\ IF ~IsPollLoadCurrent(m) THEN UNCHANGED <<answers, state, saving, based>>
       ELSE /\ saving' = FALSE
            /\ IF ~m.reply.accepted THEN UNCHANGED <<answers, state, based>>
               ELSE /\ state' = SubmittedResponseState(m.poll, m.reply.response)
                    /\ answers' = CASE policy[m.poll] = "multiple" -> << >>
                                    [] policy[m.poll] = "editable" -> m.reply.response.given
                                    [] OTHER -> answers
                    /\ based' = IF policy[m.poll] = "editable" THEN m.reply.response.under
                                ELSE based
    /\ UNCHANGED <<server, generation, access, elements, stateLoad, faults, submissions>>

\* A request or its answer is lost, whether or not the server handled it.
RequestFails(m) ==
    /\ faults < MaxFaults
    /\ faults' = faults + 1
    /\ wire' = wire \ {m}
    /\ IF ~IsPollLoadCurrent(m) THEN UNCHANGED <<stateLoad, saving>>
       ELSE /\ stateLoad' = IF m.kind = "state" THEN "failed" ELSE stateLoad
            /\ saving' = (saving /\ m.kind # "submit")
    /\ UNCHANGED <<server, generation, access, elements, answers, state, based, submissions>>

SaveDefinition(p) ==
    /\ revisions < MaxRevisions
    /\ revisions' = revisions + 1
    /\ \E d \in RevisionsOf[p] \ {definition[p]} : definition' = [definition EXCEPT ![p] = d]
    /\ UNCHANGED <<policy, response, ballots, page, wire, faults, submissions>>

-----------------------------------------------------------------------------
VoteInit ==
    /\ definition \in {f \in [Polls -> UNION {DefinitionsOf[p] : p \in Polls}] :
                          \A p \in Polls : f[p] \in DefinitionsOf[p]}
    /\ policy \in {f \in [Polls -> Policies] : \A p \in Polls : f[p] \in PoliciesOf[p]}
    /\ response = [p \in Polls |-> Nothing]
    /\ ballots = [p \in Polls |-> 0]
    /\ revisions = 0
    /\ generation = 0
    /\ access = Nothing
    /\ elements = Nothing
    /\ answers = << >>
    /\ state = EmptyState
    /\ stateLoad = "idle"
    /\ saving = FALSE
    /\ based = Nothing
    /\ wire = {}
    /\ faults = 0
    /\ submissions = 0

VoteNext ==
    \/ \E p \in Polls : LoadPoll(p) \/ SaveDefinition(p)
    \/ SetAnswer
    \/ RetryResponseState
    \/ Submit
    \/ \E m \in wire : \/ ReplyPoll(m) \/ PollArrives(m)
                       \/ ReplyState(m) \/ StateArrives(m)
                       \/ SaveResponse(m) \/ SubmissionArrives(m)
                       \/ RequestFails(m)

VoteSpec == VoteInit /\ [][VoteNext]_voteVars

-----------------------------------------------------------------------------
(* Properties.                                                             *)

\* What a voter may still have to fill in.
Incomplete == {"required", "slotMissing", "inviteeName", "inviteeEmail", "inviteeMissing"}

Refused == {m \in wire : m.kind = "submit" /\ m.reply # Nothing /\ ~m.reply.accepted}

\* Answers made with the controls of the page on the current definition, from nothing or
\* from a response to that definition, are refused only for what is missing
\* (poll-vote-*.ts and poll-response.validator.ts agree on every element).
RefusedOnlyWhenIncomplete ==
    \A m \in Refused :
        m.shown = m.reply.under /\ m.based \in {Nothing, m.reply.under}
            => m.reply.reasons \subseteq Incomplete

\* The page says that a response was registered only for the poll it shows, and only
\* when the server has it, whatever requests of earlier loads come back late.
SubmittedMeansRecorded ==
    state.hasSubmitted => ballots[access] > 0

\* "Voce pode editar sua resposta enquanto a votacao estiver aberta": an edit on the
\* current definition is refused only for what is missing, whatever the definition was
\* when the response was given. It does not hold: what is no longer in the definition
\* is prefilled, sent and refused, and no control removes it.
EditsCanBeSaved ==
    \A m \in Refused :
        m.shown = m.reply.under => m.reply.reasons \subseteq Incomplete
=============================================================================
