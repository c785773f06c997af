--------------------------- MODULE PollDefinition ---------------------------
(***************************************************************************)
(* The definition of a poll while it collects answers: the rows of         *)
(* PollElement and PollElementOption, the answers stored under them with   *)
(* the snapshot of the element the voter saw, and the three readers that   *)
(* rebuild questions and counts from them (the contract, the aggregates of *)
(* the server, the summaries of the pages).                                *)
(*                                                                         *)
(* Every save and every vote is one serializable transaction; how they     *)
(* interleave is BallotTransaction's subject, so here each is one step.    *)
(* Rows of the releases before namespaced identifiers and before snapshots *)
(* (the migrated data) are the initial state.                              *)
(***************************************************************************)
EXTENDS Naturals, Sequences, FiniteSets, Functions

CONSTANTS
    Polls,        \* polls
    Voters,       \* voters, one response each, editable
    Definitions,  \* what an administrator may submit: sequences of elements
    Migrated,     \* a function from some polls to the definition they were migrated with
    Legacy,       \* the identifier space of the rows that were migrated
    None,         \* no snapshot
    Text,         \* the value of a text answer
    MaxSaves,     \* bound on the definitions saved
    MaxVotes      \* bound on the responses written

ElementOf(d) == {d[i].id : i \in DOMAIN d}

\* What validatePollInput lets through: distinct elements, distinct options,
\* and options exactly where the type has them.
ASSUME DefinitionsAssumption ==
    \A d \in Definitions \cup Range(Migrated) :
        /\ IsInjective([i \in DOMAIN d |-> d[i].id])
        /\ \A i \in DOMAIN d :
              /\ IsInjective(d[i].options)
              /\ (d[i].type = "choice") <=> (Len(d[i].options) >= 2)
              /\ (d[i].type = "text") <=> (d[i].options = << >>)

Elements == UNION {Range(d) : d \in Definitions \cup Range(Migrated)}

\* What elements are made of: nothing else is an element, and no text an option.
ASSUME ElementsAssumption ==
    /\ Definitions \cup Range(Migrated) \subseteq Seq(Elements)
    /\ Elements \subseteq
          [id : {e.id : e \in Elements}, type : {"choice", "text"},
           wording : {e.wording : e \in Elements},
           options : Seq(UNION {Range(e.options) : e \in Elements})]
    /\ None \notin [id : {e.id : e \in Elements}, type : {"choice", "text"},
                     wording : {e.wording : e \in Elements},
                     options : Seq(UNION {Range(e.options) : e \in Elements})]
    /\ Text \notin {[space |-> Legacy, id |-> o] : o \in UNION {Range(e.options) : e \in Elements}}

\* Element identifiers of two migrated polls differ, and so do the option
\* identifiers of two migrated elements: they are primary keys.
ASSUME MigratedAssumption ==
    /\ DOMAIN Migrated \subseteq Polls /\ IsFiniteSet(DOMAIN Migrated)
    /\ \A p, q \in DOMAIN Migrated :
          \A i \in DOMAIN Migrated[p], j \in DOMAIN Migrated[q] :
             \/ p = q /\ i = j
             \/ /\ Migrated[p][i].id # Migrated[q][j].id
                /\ Range(Migrated[p][i].options) \cap Range(Migrated[q][j].options) = {}

VARIABLES
    created,  \* the polls that exist
    rows,     \* PollElement with its options: a function of the stored identifier
    answers,  \* PollAnswer, with what the voter saw and chose (history)
    saves,    \* definitions saved so far (bounded)
    votes     \* responses written so far (bounded)

vars == <<created, rows, answers, saves, votes>>

-----------------------------------------------------------------------------
(* Stored identifiers: a name in the space of its parent.                  *)

Raw(id) == [space |-> Legacy, id |-> id]

Namespaced(parent, id) == [space |-> parent, id |-> id]

\* The name the clients know: a stored identifier of another parent is left as it is.
External(parent, stored) ==
    IF stored.space \in {Legacy, parent} THEN stored.id ELSE stored

\* The same identifier read without removing the namespace.
Undecoded(stored) == IF stored.space = Legacy THEN stored.id ELSE stored

-----------------------------------------------------------------------------
(* Reading the definition.                                                 *)

RowsOf(rs, p) == {s \in DOMAIN rs : rs[s].poll = p}
CurrentRows(rs, p) == {s \in RowsOf(rs, p) : ~rs[s].retired}

ContractElement(rs, s) ==
    [id      |-> External(rs[s].poll, s),
     type    |-> rs[s].type,
     wording |-> rs[s].wording,
     options |-> [i \in DOMAIN rs[s].options |-> External(s, rs[s].options[i])]]

\* The current elements in the order of their positions.
ContractPoll(rs, p) ==
    [i \in 1..Cardinality(CurrentRows(rs, p)) |->
        ContractElement(rs, CHOOSE s \in CurrentRows(rs, p) : rs[s].position = i)]

-----------------------------------------------------------------------------
(* Saving a definition.                                                    *)

StoredElementId(rs, p, e) ==
    IF Raw(e) \in RowsOf(rs, p) THEN Raw(e) ELSE Namespaced(p, e)

StoredOptionId(rs, s, o) ==
    IF s \in DOMAIN rs /\ Raw(o) \in Range(rs[s].options) THEN Raw(o) ELSE Namespaced(s, o)

\* The identifier is taken by another poll or by an option of another element.
Refused(rs, p, d) ==
    \E i \in DOMAIN d :
        LET s == StoredElementId(rs, p, d[i].id)
        IN  \/ s \in DOMAIN rs /\ rs[s].poll # p
            \/ \E t \in DOMAIN rs \ {s}, o \in Range(d[i].options) :
                  StoredOptionId(rs, s, o) \in Range(rs[t].options)

AnsweredRows(as) == {a.element : a \in as}

\* Mutant: every element missing from the input is deleted.
DeleteElements(rs, as, p, d) ==
    [s \in DOMAIN rs \ {s \in CurrentRows(rs, p) : External(p, s) \notin ElementOf(d)} |-> rs[s]]

\* Elements missing from the input: retired when somebody answered them, deleted otherwise.
RemoveElements(rs, as, p, d) ==
    LET gone == {s \in CurrentRows(rs, p) : External(p, s) \notin ElementOf(d)}
    IN  [s \in DOMAIN rs \ (gone \ AnsweredRows(as)) |->
            IF s \in gone THEN [rs[s] EXCEPT !.retired = TRUE] ELSE rs[s]]

\* Elements of the input: created, updated or taken out of retirement.
SyncElements(rs, as, p, d) ==
    LET stored == [i \in DOMAIN d |-> StoredElementId(rs, p, d[i].id)]
        kept == RemoveElements(rs, as, p, d)
    IN  [s \in DOMAIN kept \cup Range(stored) |->
            IF s \notin Range(stored) THEN kept[s]
            ELSE LET i == CHOOSE i \in DOMAIN d : stored[i] = s
                 IN  [poll     |-> p,
                      type     |-> d[i].type,
                      wording  |-> d[i].wording,
                      options  |-> [k \in DOMAIN d[i].options |->
                                       StoredOptionId(rs, s, d[i].options[k])],
                      position |-> i,
                      retired  |-> FALSE]]

\* Mutant: migrated answers stay without a snapshot.
NoBackfill(rs, as, p) == as

\* Answers of the releases without snapshots receive the element as it is now.
BackfillSnapshots(rs, as, p) ==
    {IF a.poll = p /\ a.snapshot = None
     THEN [a EXCEPT !.snapshot = ContractElement(rs, a.element)] ELSE a : a \in as}

\* The answers of a deleted element go with it (onDelete: Cascade).
CascadeAnswers(rs, as) == {a \in as : a.element \in DOMAIN rs}

CreatePoll(p) ==
    \E d \in Definitions :
        /\ p \notin created
        /\ saves < MaxSaves
        /\ ~Refused(rows, p, d)
        /\ created' = created \cup {p}
        /\ rows' = SyncElements(rows, {}, p, d)
        /\ saves' = saves + 1
        /\ UNCHANGED <<answers, votes>>

UpdatePoll(p) ==
    \E d \in Definitions :
        /\ p \in created
        /\ saves < MaxSaves
        /\ ~Refused(rows, p, d)
        /\ LET filled == BackfillSnapshots(rows, answers, p)
           IN  /\ rows' = SyncElements(rows, filled, p, d)
               /\ answers' = CascadeAnswers(rows', filled)
        /\ saves' = saves + 1
        /\ UNCHANGED <<created, votes>>

-----------------------------------------------------------------------------
(* Voting.                                                                 *)

\* Choosing is selecting offered options by their external names; a text answer has one value.
Selections(rs, s) ==
    IF rs[s].type = "choice"
    THEN (SUBSET {External(s, o) : o \in Range(rs[s].options)}) \ {{}}
    ELSE {{Text}}

\* The stored form of a choice.
NormalizeAnswer(rs, s, chosen) ==
    IF rs[s].type = "choice"
    THEN {o \in Range(rs[s].options) : External(s, o) \in chosen}
    ELSE chosen

\* A response: the current elements the voter answered, with the choices made.
CreateResponse(v, p, choice) ==
    {[poll     |-> p,
      voter    |-> v,
      element  |-> s,
      value    |-> NormalizeAnswer(rows, s, choice[s]),
      snapshot |-> ContractElement(rows, s),
      seen     |-> ContractElement(rows, s),
      chosen   |-> choice[s]] : s \in DOMAIN choice}

\* An edited response loses its answers and is written again.
Vote(v, p) ==
    /\ p \in created
    /\ votes < MaxVotes
    /\ votes' = votes + 1
    /\ \E answered \in (SUBSET CurrentRows(rows, p)) \ {{}} :
         \E choice \in [answered -> UNION {Selections(rows, s) : s \in answered}] :
            /\ \A s \in answered : choice[s] \in Selections(rows, s)
            /\ answers' = {a \in answers : ~(a.poll = p /\ a.voter = v)}
                              \cup CreateResponse(v, p, choice)
    /\ UNCHANGED <<created, rows, saves>>

-----------------------------------------------------------------------------
MigratedRows ==
    UNION {{<<Raw(Migrated[p][i].id),
              [poll     |-> p,
               type     |-> Migrated[p][i].type,
               wording  |-> Migrated[p][i].wording,
               options  |-> [k \in DOMAIN Migrated[p][i].options |-> Raw(Migrated[p][i].options[k])],
               position |-> i,
               retired  |-> FALSE]>> : i \in DOMAIN Migrated[p]} : p \in DOMAIN Migrated}

\* A migrated response has raw identifiers and no snapshot.
MigratedAnswer(rs, v, s, chosen) ==
    [poll     |-> rs[s].poll,
     voter    |-> v,
     element  |-> s,
     value    |-> NormalizeAnswer(rs, s, chosen),
     snapshot |-> None,
     seen     |-> ContractElement(rs, s),
     chosen   |-> chosen]

Init ==
    /\ created = DOMAIN Migrated
    /\ saves = 0
    /\ votes = 0
    /\ rows = [s \in {m[1] : m \in MigratedRows} |->
                  (CHOOSE m \in MigratedRows : m[1] = s)[2]]
    /\ \E v \in Voters, migratedVotes \in SUBSET DOMAIN rows :
         \E choice \in [migratedVotes -> UNION {Selections(rows, s) : s \in migratedVotes}] :
            /\ \A s \in migratedVotes : choice[s] \in Selections(rows, s)
            /\ answers = {MigratedAnswer(rows, v, s, choice[s]) : s \in migratedVotes}

Next ==
    \/ \E p \in Polls : CreatePoll(p) \/ UpdatePoll(p)
    \/ \E v \in Voters, p \in Polls : Vote(v, p)

Spec == Init /\ [][Next]_vars
=============================================================================
