---------------------------- MODULE AnswerRules ----------------------------
(***************************************************************************)
(* What the server accepts as the answer to an element, and in which form  *)
(* it is stored (poll-response.validator.ts). Answers have the shapes of   *)
(* JSON: nothing, a text, a number, a list of texts, a list of invitees,   *)
(* or an object. Texts are model values or slots and no text is a numeral. *)
(***************************************************************************)
EXTENDS Integers, Sequences, FiniteSets, Functions

CONSTANTS
    Empty,   \* the empty text
    Spaces,  \* a text of spaces
    Dates,   \* the texts that are dates
    Emails   \* the texts that are e-mail addresses

Null == [null |-> TRUE]
IsNull(v) == DOMAIN v = {"null"}
IsText(v) == DOMAIN v = {"text"}
IsNumber(v) == DOMAIN v = {"number"}
IsList(v) == DOMAIN v \in {{"texts"}, {"invitees"}}
IsObject(v) == DOMAIN v = {"fields"}

Trim(t) == IF t = Spaces THEN Empty ELSE t

Refusal(reason) == [refused |-> reason]
IsRefusal(v) == DOMAIN v = {"refused"}

\* Nothing, an empty text, an empty list or an empty object.
IsEmptyAnswer(v) ==
    \/ IsNull(v)
    \/ IsText(v) /\ v.text = Empty
    \/ DOMAIN v = {"texts"} /\ v.texts = {}
    \/ DOMAIN v = {"invitees"} /\ v.invitees = << >>
    \/ IsObject(v) /\ DOMAIN v.fields = {}

NullIfEmpty(v) == IF IsEmptyAnswer(v) THEN Null ELSE v

-----------------------------------------------------------------------------
(* Scheduling slots: a window and the minute at which the meeting starts.  *)

FirstStart(e, w) == w.start + e.bufferBefore
LastStart(e, w) == w.end - e.duration - e.bufferAfter

\* The slots the server accepts.
BuildSchedulingSlots(e) ==
    UNION {{<<w.id, t>> : t \in {t \in FirstStart(e, w)..LastStart(e, w) :
                                    (t - FirstStart(e, w)) % e.interval = 0}} :
           w \in {w \in e.windows :
                     w.end - w.start >= e.bufferBefore + e.duration + e.bufferAfter}}

-----------------------------------------------------------------------------
(* One operator per kind of element.                                       *)

NormalizeDisplayOnly(v) == IF IsNull(v) THEN Null ELSE Refusal("displayOnly")

NormalizeText(v) ==
    IF IsNull(v) THEN Null
    ELSE IF IsText(v) THEN [text |-> Trim(v.text)] ELSE Refusal("shape")

NormalizeSingleChoice(e, v) ==
    IF IsNull(v) THEN Null
    ELSE IF ~IsText(v) THEN Refusal("shape")
    ELSE IF Trim(v.text) = Empty THEN Null
    ELSE IF Trim(v.text) \in e.options THEN v ELSE Refusal("option")

\* An element of a list of invitees is not a text.
NormalizeMultipleChoice(e, v) ==
    IF IsNull(v) THEN Null
    ELSE IF ~IsList(v) THEN Refusal("shape")
    ELSE IF IsEmptyAnswer(v) THEN Null
    ELSE IF DOMAIN v # {"texts"} THEN Refusal("shape")
    ELSE IF v.texts \subseteq e.options THEN v ELSE Refusal("option")

MissingRow(e, fields) == e.required /\ \E r \in e.rows : r \notin DOMAIN fields

GridAnswer(e, fields) ==
    IF MissingRow(e, fields) THEN Refusal("required") ELSE NullIfEmpty([fields |-> fields])

NormalizeSingleSelectionGrid(e, v) ==
    IF IsNull(v) THEN Null
    ELSE IF ~IsObject(v) THEN Refusal("shape")
    ELSE IF ~(DOMAIN v.fields \subseteq e.rows) THEN Refusal("row")
    ELSE IF \E r \in DOMAIN v.fields : ~IsText(v.fields[r]) THEN Refusal("shape")
    ELSE LET chosen == {r \in DOMAIN v.fields : Trim(v.fields[r].text) # Empty}
         IN  IF \E r \in chosen : v.fields[r].text \notin e.columns THEN Refusal("column")
             ELSE GridAnswer(e, Restrict(v.fields, chosen))

NormalizeMultipleSelectionGrid(e, v) ==
    IF IsNull(v) THEN Null
    ELSE IF ~IsObject(v) THEN Refusal("shape")
    ELSE IF ~(DOMAIN v.fields \subseteq e.rows) THEN Refusal("row")
    ELSE IF \E r \in DOMAIN v.fields : ~IsList(v.fields[r]) THEN Refusal("shape")
    ELSE LET chosen == {r \in DOMAIN v.fields : ~IsEmptyAnswer(v.fields[r])}
         IN  IF \E r \in chosen : DOMAIN v.fields[r] # {"texts"} THEN Refusal("shape")
             ELSE IF \E r \in chosen : ~(v.fields[r].texts \subseteq e.columns)
                  THEN Refusal("column")
             ELSE GridAnswer(e, Restrict(v.fields, chosen))

\* A linear scale and a star rating; an empty text counts as no answer.
NormalizeNumber(e, v) ==
    IF IsNull(v) \/ (IsText(v) /\ v.text = Empty) THEN Null
    ELSE IF IsNumber(v) /\ v.number \in e.min..e.max THEN v ELSE Refusal("number")

NormalizeDate(v) ==
    IF IsNull(v) THEN Null
    ELSE IF ~IsText(v) THEN Refusal("shape")
    ELSE IF Trim(v.text) = Empty THEN Null
    ELSE IF v.text \in Dates THEN v ELSE Refusal("date")

InviteeRefusal(i) ==
    IF Trim(i.name) = Empty THEN {"inviteeName"}
    ELSE IF Trim(i.email) \notin Emails \cup {Empty} THEN {"inviteeEmail"} ELSE {}

InviteesRefusal(e, v) ==
    IF e.inviteeMode = "none" THEN {}
    ELSE IF "invitees" \notin DOMAIN v.fields THEN
         IF e.inviteeMode = "required" THEN {"inviteeMissing"} ELSE {}
    ELSE IF DOMAIN v.fields["invitees"] # {"invitees"} THEN {"shape"}
    ELSE LET invitees == v.fields["invitees"].invitees
         IN  (UNION {InviteeRefusal(invitees[k]) : k \in DOMAIN invitees})
                \cup (IF Len(invitees) > e.maxInvitees THEN {"inviteeLimit"} ELSE {})
                \cup (IF e.inviteeMode = "required" /\ invitees = << >>
                      THEN {"inviteeMissing"} ELSE {})

NormalizeScheduling(e, v) ==
    IF IsNull(v) THEN Null
    ELSE IF ~IsObject(v) THEN Refusal("shape")
    ELSE IF "slotId" \notin DOMAIN v.fields \/ ~IsText(v.fields["slotId"]) THEN Refusal("shape")
    ELSE IF Trim(v.fields["slotId"].text) = Empty THEN Refusal("slotMissing")
    ELSE IF v.fields["slotId"].text \notin BuildSchedulingSlots(e) THEN Refusal("slot")
    ELSE IF InviteesRefusal(e, v) # {} THEN Refusal(CHOOSE r \in InviteesRefusal(e, v) : TRUE)
    ELSE [fields |->
            [slotId   |-> v.fields["slotId"],
             invitees |-> [invitees |->
                 IF e.inviteeMode = "none" \/ "invitees" \notin DOMAIN v.fields THEN << >>
                 ELSE [k \in DOMAIN v.fields["invitees"].invitees |->
                         [name  |-> Trim(v.fields["invitees"].invitees[k].name),
                          email |-> Trim(v.fields["invitees"].invitees[k].email)]]]]]

NormalizeAnswer(e, v) ==
    CASE e.type \in {"section", "statement"} -> NormalizeDisplayOnly(v)
      [] e.type = "text" -> NormalizeText(v)
      [] e.type = "singleChoice" -> NormalizeSingleChoice(e, v)
      [] e.type = "multipleChoice" -> NormalizeMultipleChoice(e, v)
      [] e.type = "singleSelectionGrid" -> NormalizeSingleSelectionGrid(e, v)
      [] e.type = "multipleSelectionGrid" -> NormalizeMultipleSelectionGrid(e, v)
      [] e.type = "number" -> NormalizeNumber(e, v)
      [] e.type = "date" -> NormalizeDate(v)
      [] e.type = "scheduling" -> NormalizeScheduling(e, v)

-----------------------------------------------------------------------------
(* A response: one value for every element the client was shown.           *)

ElementIds(elements) == {elements[i].id : i \in DOMAIN elements}

ValueFor(input, id) == IF id \in DOMAIN input THEN input[id] ELSE Null

\* Why a response is refused: no reason when it is accepted.
RefusalsOf(elements, input) ==
    LET value == [i \in DOMAIN elements |->
                     NormalizeAnswer(elements[i], ValueFor(input, elements[i].id))]
    IN  {value[i].refused : i \in {i \in DOMAIN elements : IsRefusal(value[i])}}
          \cup (IF DOMAIN input \subseteq ElementIds(elements) THEN {} ELSE {"unknown"})
          \cup (IF \E i \in DOMAIN elements : elements[i].required /\ IsEmptyAnswer(value[i])
                THEN {"required"} ELSE {})

\* The answers stored: those that are not empty.
ValidatePollResponse(elements, input) ==
    LET Value(id) == NormalizeAnswer(elements[CHOOSE i \in DOMAIN elements : elements[i].id = id],
                                     ValueFor(input, id))
    IN  [id \in {id \in ElementIds(elements) : ~IsEmptyAnswer(Value(id))} |-> Value(id)]
=============================================================================
