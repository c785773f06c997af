--------------------------- MODULE PollSummaries ---------------------------
(***************************************************************************)
(* What is shown of the answers of PollDefinition: the aggregates the      *)
(* server sends for ballots whose rows stay private, and the summaries the *)
(* pages build from rows. Both rebuild the question every answer was given *)
(* to, from its snapshot or else from the current element.                 *)
(***************************************************************************)
EXTENDS PollDefinition, FiniteSetsExt

AnswersOf(p) == {a \in answers : a.poll = p}

-----------------------------------------------------------------------------
(* The aggregates of the server.                                           *)

\* The query of the current elements does not order their options: any order may come.
Readings(p) ==
    {r \in [CurrentRows(rows, p) -> UNION {
                {[ContractElement(rows, s) EXCEPT !.options = [i \in DOMAIN @ |-> @[f[i]]]] :
                    f \in {g \in [DOMAIN rows[s].options -> DOMAIN rows[s].options] : IsInjective(g)}} :
                s \in CurrentRows(rows, p)}] :
        \A s \in DOMAIN r : r[s].id = External(p, s)}

\* The reading in the order of the positions.
OrderedReading(p) == [s \in CurrentRows(rows, p) |-> ContractElement(rows, s)]

HistoricalElement(a, reading) ==
    IF a.snapshot # None THEN a.snapshot
    ELSE IF a.element \in DOMAIN reading THEN reading[a.element] ELSE None

AggregateValueKeys(a, e) ==
    IF e.type = "text" THEN {} ELSE {External(a.element, o) : o \in a.value}

\* One entry per version of a question, the versions nobody answered included.
Aggregates(p, reading) ==
    LET counted == {a \in AnswersOf(p) : HistoricalElement(a, reading) # None}
        Given(e) == {a \in counted : HistoricalElement(a, reading) = e}
    IN  {[element  |-> e,
          answered |-> Cardinality(Given(e)),
          buckets  |-> [k \in UNION {AggregateValueKeys(a, e) : a \in Given(e)} |->
                           Cardinality({a \in Given(e) : k \in AggregateValueKeys(a, e)})]] :
         e \in Range(reading) \cup {HistoricalElement(a, reading) : a \in counted}}

-----------------------------------------------------------------------------
(* The summaries of the pages.                                             *)

\* Mutant: the values of choices keep their namespace.
UndecodedAnswer(a) ==
    [elementId |-> External(a.poll, a.element),
     element   |-> a.snapshot,
     value     |-> {IF o = Text THEN o ELSE Undecoded(o) : o \in a.value}]

\* A row of the results: only the options of a choice lose their namespace.
ResultsAnswer(a) ==
    [elementId |-> External(a.poll, a.element),
     element   |-> a.snapshot,
     value     |-> IF a.snapshot # None /\ a.snapshot.type = "choice"
                   THEN {External(a.element, o) : o \in a.value}
                   ELSE {IF o = Text THEN o ELSE Undecoded(o) : o \in a.value}]

AnswerElement(row, elements) ==
    IF row.element # None THEN row.element
    ELSE IF \E i \in DOMAIN elements : elements[i].id = row.elementId
         THEN elements[CHOOSE i \in DOMAIN elements : elements[i].id = row.elementId]
         ELSE None

ElementVersions(p) ==
    LET elements == ContractPoll(rows, p)
    IN  (Range(elements) \cup {AnswerElement(ResultsAnswer(a), elements) : a \in AnswersOf(p)})
            \ {None}

\* The rows shown under one version, and how many chose each option offered by it.
QuestionSummary(p, e) ==
    LET given == {a \in AnswersOf(p) :
                     AnswerElement(ResultsAnswer(a), ContractPoll(rows, p)) = e}
    IN  [answered |-> Cardinality(given),
         chart    |-> [o \in Range(e.options) |->
                          Cardinality({a \in given : o \in ResultsAnswer(a).value})]]

-----------------------------------------------------------------------------
(* Properties.                                                             *)

SameQuestion(e, f) ==
    /\ <<e.id, e.type, e.wording>> = <<f.id, f.type, f.wording>>
    /\ Range(e.options) = Range(f.options)

CountAt(buckets, k) == IF k \in DOMAIN buckets THEN buckets[k] ELSE 0

\* What a set of entries counts together.
TotalAnswered(entries) == MapThenSumSet(LAMBDA g : g.answered, entries)
TotalChosen(entries, k) == MapThenSumSet(LAMBDA g : CountAt(g.buckets, k), entries)

\* The entries that ask e count exactly the answers whose voters saw e asked.
EntriesCount(p, entries, e) ==
    LET same == {g \in entries : SameQuestion(g.element, e)}
        seen == {a \in AnswersOf(p) : SameQuestion(a.seen, e)}
    IN  /\ TotalAnswered(same) = Cardinality(seen)
        /\ \A g \in same : DOMAIN g.buckets \subseteq Range(e.options)
        /\ \A k \in Range(e.options) :
              TotalChosen(same, k) = Cardinality({a \in seen : k \in a.chosen})

\* However the poll was edited after a vote, and whatever order the options are read
\* in, the aggregates credit every question with exactly the answers given to it, and
\* every option with exactly the voters who chose it while seeing it
\* (poll-results.service.ts, buildPollResultAggregates over stored snapshots).
ResultsCountWhatVotersSaw ==
    \A p \in created : \A reading \in Readings(p) :
        LET entries == Aggregates(p, reading)
        IN  \A e \in {a.seen : a \in AnswersOf(p)} \cup {g.element : g \in entries} :
                EntriesCount(p, entries, e)

\* The summaries a page computes from rows are those of the definitions the voters
\* saw, and are the ones the server computes when it reads the options in order
\* (poll-result-formatting.ts and poll-results.service.ts group answers separately).
SummariesAgreeWithAggregates ==
    \A p \in created :
        LET entries == Aggregates(p, OrderedReading(p))
        IN  /\ ElementVersions(p) = {g.element : g \in entries}
            /\ \A g \in entries :
                  LET summary == QuestionSummary(p, g.element)
                  IN  /\ summary.answered = g.answered
                      /\ summary.answered = Cardinality({a \in AnswersOf(p) : a.seen = g.element})
                      /\ \A o \in Range(g.element.options) :
                            summary.chart[o] = CountAt(g.buckets, o)

\* A save never loses or rewrites an answer, in its poll or in another one: only the
\* voter who gave it replaces it (syncElements retires what was answered).
AnswersSurviveSaves ==
    [][\A a \in answers :
          \/ \E b \in answers' : b = [a EXCEPT !.snapshot = b.snapshot]
          \/ rows' = rows]_vars
=============================================================================
