----------------------------- MODULE PollDraft ------------------------------
(***************************************************************************)
(* The draft of a poll in the administration page, what every control of   *)
(* the builder does to it, the request a save sends, and what the server   *)
(* makes of it: the checks of poll-mutation-validation.service.ts, the     *)
(* settings of poll-mutation-options.service.ts, and the poll it answers,  *)
(* which becomes the draft. Images and the network are in BuilderPage;     *)
(* elements are stored as PollDefinition says. Options are their labels:   *)
(* their ids are random and no two are the same.                           *)
(***************************************************************************)
EXTENDS Integers, Sequences, FiniteSets, SequencesExt, OrderedChoice

CONSTANTS
    None,
    Types,       \* kinds of elements the builder may give
    Styles, Sources,
    Events,      \* events of the event manager
    Days, Times, \* what the schedule of the poll and the windows of a meeting may name
    Durations, Buffers, InviteeLimits,
    MaxEdits,    \* bound on edits
    MaxSaves,    \* bound on saves
    MaxElements, MaxOptions \* bounds on what a draft holds

\* The limits the builder offers are limits the server takes.
ASSUME InviteeLimitsAssumption == InviteeLimits \subseteq 1..20

VARIABLES
    draft,     \* the draft of the builder
    stored,    \* the poll on the server, None before its first save
    linkable,  \* the events that may still be linked
    edits,     \* edits made (bounded)
    saves,     \* saves made (bounded)
    last       \* the save just made: what was asked, why it was refused (history)

vars == <<draft, stored, linkable, edits, saves, last>>

-----------------------------------------------------------------------------
(* Elements.                                                               *)

IsOptionChoice(t) == t \in {"singleChoice", "multipleChoice", "selectionDropdown"}
IsGrid(t) == t \in {"singleSelectionGrid", "multipleSelectionGrid"}
IsAnswer(t) == t \notin {"section", "statement"}

Larger(a, b) == IF a >= b THEN a ELSE b
TwoOptions == <<"text", "text">>

NoSettings == [setting \in {} |-> None]
Setting(e, name) == IF name \in DOMAIN e.settings THEN e.settings[name] ELSE None

EnsureChoiceOptions(options) == IF Len(options) >= 2 THEN options ELSE TwoOptions

EnsureGridSettings(grid) ==
    [axis \in {"rows", "columns"} |->
        IF grid # None /\ grid[axis] # << >> THEN grid[axis] ELSE TwoOptions]

EnsureLinearScaleSettings(scale) ==
    IF scale = None THEN [min |-> 1, max |-> 5]
    ELSE [scale EXCEPT !.max = Larger(@, scale.min + 1)]

CreateSchedulingAvailability(position, date) ==
    [date |-> date, start |-> IF position % 2 = 0 THEN 840 ELSE 540,
     end |-> IF position % 2 = 0 THEN 1020 ELSE 720]

\* The first window is tomorrow, the second the day after.
EnsureSchedulingSettings(s) ==
    LET windows == IF s = None \/ s.windows = << >>
                   THEN <<CreateSchedulingAvailability(1, 1), CreateSchedulingAvailability(2, 2)>>
                   ELSE s.windows
    IN  IF s = None
        THEN [duration |-> 30, before |-> 0, after |-> 0, inviteeMode |-> "optional",
              maxInvitees |-> 3, windows |-> windows]
        ELSE [s EXCEPT !.windows = windows,
                       !.maxInvitees = IF s.inviteeMode = "none" THEN 0
                                       ELSE IF @ \in InviteeLimits THEN @ ELSE 3]

CreateSettingsForType(t, e) ==
    CASE IsGrid(t) -> [grid |-> EnsureGridSettings(Setting(e, "grid"))]
      [] t = "linearScale" ->
            [linearScale |-> EnsureLinearScaleSettings(Setting(e, "linearScale"))]
      [] t = "starRating" ->
            [starRating |-> IF Setting(e, "starRating") = None THEN 5
                            ELSE Setting(e, "starRating")]
      [] t = "scheduling" ->
            [scheduling |-> EnsureSchedulingSettings(Setting(e, "scheduling"))]
      [] OTHER -> NoSettings

CreateElement(t) ==
    [generated |-> None, type |-> t, title |-> "text", required |-> IsAnswer(t),
     options |-> IF IsOptionChoice(t) THEN TwoOptions ELSE << >>,
     settings |-> CreateSettingsForType(t, [settings |-> NoSettings])]

\* The elements of an election are generated from its phase.
GeneratedElement(phase) ==
    [generated |-> phase, type |-> IF phase = "election" THEN "singleChoice" ELSE "statement",
     title |-> "text", required |-> phase = "election",
     options |-> IF phase = "election" THEN <<"text", "text", "text">> ELSE << >>,
     settings |-> NoSettings]

Custom(elements) ==
    Filtered(elements, {i \in DOMAIN elements : elements[i].generated = None})

-----------------------------------------------------------------------------
(* The draft.                                                              *)

BlankPoll ==
    [title |-> "blank", mode |-> "regular", phase |-> None, style |-> "secret",
     source |-> "authenticatedUsers", verifiedRole |-> FALSE, event |-> None,
     directLink |-> FALSE, resultsPublic |-> FALSE, resultsLive |-> FALSE,
     editing |-> FALSE, multiple |-> FALSE, starts |-> None, ends |-> None,
     elements |-> << >>]

ApplyCacicElectionRules(poll) ==
    LET phase == IF poll.phase = None THEN "slateSubmission" ELSE poll.phase
        base == [poll EXCEPT !.phase = phase, !.directLink = FALSE, !.resultsLive = FALSE,
                             !.elements = <<GeneratedElement(phase)>> \o Custom(@)]
    IN  IF poll.mode # "cacicElection"
        THEN [poll EXCEPT !.phase = None, !.elements = Custom(@)]
        ELSE IF phase = "election"
        THEN [base EXCEPT !.style = "anonymous", !.source = "enrollmentList",
                          !.verifiedRole = FALSE, !.event = None, !.resultsPublic = TRUE,
                          !.editing = FALSE, !.multiple = FALSE]
        ELSE [base EXCEPT !.resultsPublic = FALSE]

AttendanceSources ==
    {"eventAttendance", "eventAttendanceUnespUsers", "eventAttendanceComputerScienceStudents"}
ComputerScienceSources ==
    {"computerScienceStudents", "eventAttendanceComputerScienceStudents"}

InElection == draft.mode = "cacicElection"
InVoting == InElection /\ draft.phase = "election"

UpdateLinkedEvent ==
    IF InElection THEN {}
    ELSE {LET reset == e = None /\ draft.source \in AttendanceSources
          IN  [draft EXCEPT !.event = e,
                            !.source = IF reset THEN "authenticatedUsers" ELSE @,
                            !.verifiedRole = @ /\ ~reset] : e \in linkable \cup {None}}

UpdatePollMode ==
    {ApplyCacicElectionRules([draft EXCEPT !.mode = m]) : m \in {"regular", "cacicElection"}}

UpdateCacicElectionPhase ==
    IF ~InElection THEN {}
    ELSE {ApplyCacicElectionRules([draft EXCEPT !.phase = ph]) :
            ph \in {"slateSubmission", "election"}}

UpdateVotingStyle ==
    IF InVoting THEN {}
    ELSE {[draft EXCEPT !.style = s, !.editing = @ /\ s # "anonymous"] : s \in Styles}

UpdateVoterEligibilitySource ==
    IF InVoting THEN {}
    ELSE {[draft EXCEPT !.source = s, !.verifiedRole = @ /\ s \in ComputerScienceSources] :
            s \in {s \in Sources : s \in AttendanceSources => draft.event # None}}

UpdateRequireVerifiedUnespRole ==
    {[draft EXCEPT !.verifiedRole = draft.source \in ComputerScienceSources /\ c] : c \in BOOLEAN}

UpdateVisibility ==
    IF InElection THEN {}
    ELSE {[draft EXCEPT !.directLink = c] : c \in BOOLEAN}
           \cup {[draft EXCEPT !.resultsPublic = c, !.resultsLive = @ /\ c] : c \in BOOLEAN}
           \cup {[draft EXCEPT !.resultsLive = draft.resultsPublic /\ c] : c \in BOOLEAN}

UpdateAllowResponseEditing ==
    IF InVoting \/ draft.style = "anonymous" \/ draft.multiple THEN {}
    ELSE {[draft EXCEPT !.editing = c] : c \in BOOLEAN}

UpdateAllowMultipleResponses ==
    IF InVoting \/ draft.editing THEN {}
    ELSE {[draft EXCEPT !.multiple = c, !.editing = @ /\ ~c] : c \in BOOLEAN}

UpdateSchedule ==
    {[draft EXCEPT !.starts = d] : d \in Days \cup {None}}
      \cup {[draft EXCEPT !.ends = d] : d \in Days \cup {None}}

PollEdits ==
    UNION {{[draft EXCEPT !.title = t] : t \in {"text", "blank"}}, UpdateLinkedEvent,
           UpdatePollMode, UpdateCacicElectionPhase, UpdateVotingStyle,
           UpdateVoterEligibilitySource, UpdateRequireVerifiedUnespRole, UpdateVisibility,
           UpdateAllowResponseEditing, UpdateAllowMultipleResponses, UpdateSchedule}

-----------------------------------------------------------------------------
(* The controls of an element: the elements one use of them may leave.     *)

\* Adding, removing and renaming the members of a list of options.
OptionEdits(options) ==
    (IF Len(options) < MaxOptions THEN {Append(options, "text")} ELSE {})
      \cup {RemoveAt(options, k) : k \in DOMAIN options}
      \cup {[options EXCEPT ![k] = t] : k \in DOMAIN options, t \in {"text", "blank"}}

\* Mutant: an element keeps being required when it asks for nothing.
UpdateElementTypeOnly(e, t) ==
    [e EXCEPT !.type = t,
              !.options = IF IsOptionChoice(t) THEN EnsureChoiceOptions(@) ELSE << >>,
              !.settings = CreateSettingsForType(t, e)]

UpdateElementType(e, t) ==
    [e EXCEPT !.type = t,
              !.required = @ /\ IsAnswer(t),
              !.options = IF IsOptionChoice(t) THEN EnsureChoiceOptions(@) ELSE << >>,
              !.settings = CreateSettingsForType(t, e)]

GridEdits(e) ==
    LET grid == EnsureGridSettings(Setting(e, "grid"))
    IN  UNION {{[e EXCEPT !.settings = [grid |-> [grid EXCEPT ![axis] = options]]] :
                   options \in OptionEdits(grid[axis])} : axis \in {"rows", "columns"}}

LinearScaleEdits(e) ==
    LET scale == EnsureLinearScaleSettings(Setting(e, "linearScale"))
    IN  {[e EXCEPT !.settings = [linearScale |-> s]] :
            s \in {[min |-> n, max |-> Larger(scale.max, n + 1)] : n \in {0, 1}}
                  \cup {[scale EXCEPT !.max = Larger(n, scale.min + 1)] : n \in {2, 10}}}

WindowEdits(windows) ==
    (IF Len(windows) >= MaxOptions THEN {}
     ELSE {Append(windows, CreateSchedulingAvailability(Len(windows) + 1,
               IF windows = << >> THEN 1 ELSE windows[Len(windows)].date))})
      \cup {RemoveAt(windows, k) : k \in DOMAIN windows}
      \cup {[windows EXCEPT ![k].date = d] : k \in DOMAIN windows, d \in Days \cup {None}}
      \cup {[windows EXCEPT ![k].start = t] : k \in DOMAIN windows, t \in Times \cup {None}}
      \cup {[windows EXCEPT ![k].end = t] : k \in DOMAIN windows, t \in Times \cup {None}}

SchedulingEdits(e) ==
    LET s == EnsureSchedulingSettings(Setting(e, "scheduling"))
    IN  {[e EXCEPT !.settings = [scheduling |-> next]] : next \in
            {[s EXCEPT !.duration = n] : n \in Durations}
              \cup {[s EXCEPT !.before = n] : n \in Buffers}
              \cup {[s EXCEPT !.after = n] : n \in Buffers}
              \cup {[s EXCEPT !.maxInvitees = n] :
                       n \in {n \in InviteeLimits : s.inviteeMode # "none"}}
              \cup {[s EXCEPT !.inviteeMode = m,
                              !.maxInvitees = IF m = "none" THEN 0 ELSE Larger(@, 1)] :
                       m \in {"none", "optional", "required"}}
              \cup {[s EXCEPT !.windows = w] : w \in WindowEdits(s.windows)}}

ElementEdits(e) ==
    IF e.generated # None THEN {}
    ELSE {UpdateElementType(e, t) : t \in Types}
           \cup {[e EXCEPT !.title = t] : t \in {"text", "blank"}}
           \cup {[e EXCEPT !.required = c] : c \in {c \in BOOLEAN : IsAnswer(e.type)}}
           \cup (CASE IsOptionChoice(e.type) ->
                        {[e EXCEPT !.options = o] : o \in OptionEdits(e.options)}
                   [] IsGrid(e.type) -> GridEdits(e)
                   [] e.type = "linearScale" -> LinearScaleEdits(e)
                   [] e.type = "starRating" ->
                        {[e EXCEPT !.settings = [starRating |-> n]] : n \in {3, 10}}
                   [] e.type = "scheduling" -> SchedulingEdits(e)
                   [] OTHER -> {})

Moved(elements, i, j) ==
    InsertAt(RemoveAt(elements, i), j, elements[i])

\* Adding, moving, removing and changing an element.
EditedElements(elements) ==
    {Append(elements, CreateElement(t)) : t \in {t \in Types : Len(elements) < MaxElements}}
      \cup {Moved(elements, i, j) : i \in DOMAIN elements, j \in DOMAIN elements}
      \cup {RemoveAt(elements, i) : i \in DOMAIN elements}
      \cup UNION {{[elements EXCEPT ![i] = e] : e \in ElementEdits(elements[i])} :
                     i \in DOMAIN elements}

ElementListEdits ==
    {[draft EXCEPT !.elements = list] : list \in EditedElements(draft.elements)}

EditDraft ==
    /\ edits < MaxEdits
    /\ edits' = edits + 1
    /\ draft' \in PollEdits \cup ElementListEdits
    /\ last' = None
    /\ UNCHANGED <<stored, linkable, saves>>

-----------------------------------------------------------------------------
(* Saving.                                                                 *)

\* The request; it names no event when none is linked.
ToSaveRequest ==
    LET poll == ApplyCacicElectionRules(draft)
    IN  [poll EXCEPT !.resultsLive = poll.resultsPublic /\ @,
                     !.editing = poll.style # "anonymous" /\ ~poll.multiple /\ @]

\* Why the server refuses a request: the first of these reasons is its answer.
OptionRefusals(options, least) ==
    (IF Len(options) < least THEN {"fewOptions"} ELSE {})
      \cup (IF \E k \in DOMAIN options : options[k] = "blank" THEN {"label"} ELSE {})

WindowRefusals(s, w) ==
    IF w.date = None \/ w.start = None \/ w.end = None THEN {"windowBlank"}
    ELSE IF w.end - w.start < s.before + s.duration + s.after THEN {"windowShort"} ELSE {}

Overlap(v, w) == v.date = w.date /\ v.start < w.end /\ w.start < v.end

WindowsOverlap(s) ==
    \E j, k \in DOMAIN s.windows :
        /\ j < k
        /\ WindowRefusals(s, s.windows[j]) = {}
        /\ WindowRefusals(s, s.windows[k]) = {}
        /\ Overlap(s.windows[j], s.windows[k])

SchedulingRefusals(s) ==
    (UNION {WindowRefusals(s, s.windows[k]) : k \in DOMAIN s.windows})
      \cup (IF s.windows = << >> THEN {"windowMissing"} ELSE {})
      \cup (IF s.maxInvitees \in (IF s.inviteeMode = "none" THEN 0 ELSE 1)..20
            THEN {} ELSE {"invitees"})
      \cup (IF WindowsOverlap(s) THEN {"windowOverlap"} ELSE {})

SettingsRefusals(e) ==
    LET expected == CASE IsGrid(e.type) -> {"grid"}
                      [] e.type \in {"linearScale", "starRating", "scheduling"} -> {e.type}
                      [] OTHER -> {}
    IN  IF DOMAIN e.settings # expected THEN {"settings"}
        ELSE CASE IsGrid(e.type) -> OptionRefusals(e.settings["grid"].rows, 1)
                                      \cup OptionRefusals(e.settings["grid"].columns, 2)
               [] e.type = "linearScale" ->
                    LET scale == e.settings["linearScale"]
                    IN  IF scale.min \in {0, 1} /\ scale.max \in 2..10 /\ scale.max > scale.min
                        THEN {} ELSE {"scale"}
               [] e.type = "starRating" ->
                    IF e.settings["starRating"] \in 3..10 THEN {} ELSE {"stars"}
               [] e.type = "scheduling" -> SchedulingRefusals(e.settings["scheduling"])
               [] OTHER -> {}

ElementRefusals(e) ==
    UNION {IF e.title = "blank" THEN {"title"} ELSE {},
           IF ~IsAnswer(e.type) /\ e.required THEN {"requiredDisplay"} ELSE {},
           IF IsOptionChoice(e.type) THEN OptionRefusals(e.options, 2)
           ELSE IF e.options # << >> THEN {"options"} ELSE {},
           SettingsRefusals(e)}

\* The metadata the server resolves, with the event it keeps when none is named.
ResolvePollMetadata(r) ==
    LET kept == IF r.event # None THEN r.event
                ELSE IF stored # None THEN stored.event ELSE None
    IN  IF r.mode = "cacicElection" /\ r.phase = "election"
        THEN [r EXCEPT !.style = "anonymous", !.source = "enrollmentList",
                       !.verifiedRole = FALSE, !.event = None]
        ELSE [r EXCEPT !.event = kept,
                       !.verifiedRole = @ /\ r.source \in ComputerScienceSources]

\* Mutant: the results of an election are public in every phase.
ResolveAlwaysPublic(r) ==
    [ResolvePollMetadata(r) EXCEPT !.resultsPublic = r.mode = "cacicElection" \/ @]

ResolvePoll(r) ==
    LET metadata == ResolvePollMetadata(r)
        election == r.mode = "cacicElection"
        voting == election /\ r.phase = "election"
    IN  [metadata EXCEPT
            !.directLink = @ /\ ~election,
            !.resultsPublic = IF election THEN voting ELSE @,
            !.resultsLive = @ /\ r.resultsPublic /\ ~election,
            !.multiple = @ /\ ~voting,
            !.editing = @ /\ ~voting /\ metadata.style # "anonymous" /\ ~r.multiple]

RequestRefusals(r) ==
    LET event == ResolvePollMetadata(r).event
    IN  UNION ({ElementRefusals(r.elements[i]) : i \in DOMAIN r.elements}
          \cup {IF r.title = "blank" THEN {"title"} ELSE {},
                IF r.starts # None /\ r.ends # None /\ r.ends <= r.starts
                THEN {"schedule"} ELSE {},
                IF event = None /\ ResolvePollMetadata(r).source \in AttendanceSources
                THEN {"attendance"} ELSE {},
                IF event # None /\ event \notin linkable
                   /\ (stored = None \/ stored.event # event)
                THEN {"event"} ELSE {}})

\* The page saves a draft that has a title; an accepted poll becomes the draft.
Save ==
    /\ saves < MaxSaves
    /\ draft.title # "blank"
    /\ saves' = saves + 1
    /\ LET request == ToSaveRequest
           reasons == RequestRefusals(request)
       IN  /\ last' = [asked |-> request, reasons |-> reasons]
           /\ IF reasons = {}
              THEN /\ stored' = ResolvePoll(request)
                   /\ draft' = ApplyCacicElectionRules(stored')
              ELSE UNCHANGED <<stored, draft>>
    /\ UNCHANGED <<linkable, edits>>

\* The event is withdrawn; the options of the page were listed before.
EventEnds ==
    /\ \E e \in linkable : linkable' = linkable \ {e}
    /\ UNCHANGED <<draft, stored, edits, saves, last>>

-----------------------------------------------------------------------------
Init ==
    /\ draft = BlankPoll
    /\ stored = None
    /\ linkable = Events
    /\ edits = 0
    /\ saves = 0
    /\ last = None

Next == EditDraft \/ Save \/ EventEnds

Spec == Init /\ [][Next]_vars

-----------------------------------------------------------------------------
(* Properties.                                                             *)

\* What the administrator sees on the page and can put right.
Correctable == {"title", "label", "fewOptions", "windowBlank", "windowShort", "windowMissing",
                "windowOverlap", "schedule", "event"}

\* No sequence of the builder's controls leads to a draft that the server refuses for
\* something the page has no control for: settings of another kind of element, options of
\* an element without options, a required text, attendance without an event
\* (poll-builder-draft-*.ts against poll-mutation-validation.service.ts).
RefusedDraftsAreCorrectable ==
    last # None => last.reasons \subseteq Correctable

\* The poll a save leaves is the poll that was asked for: the server and the builder apply
\* the same rules to styles, voters, results and responses (the linked event apart).
AcceptedDraftsAreKept ==
    last # None /\ last.reasons = {} => stored = [last.asked EXCEPT !.event = stored.event]

\* "Sem evento vinculado": a poll saved without an event has none.
SavedEventsAreKept ==
    last # None /\ last.reasons = {} => stored.event = last.asked.event
=============================================================================
