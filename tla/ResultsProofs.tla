--------------------------- MODULE ResultsProofs ----------------------------
(***************************************************************************)
(* What the pages and the server make of the answers of a poll             *)
(* (PollSummaries), and who may read it when (PollAccess): two             *)
(* specifications that share nothing, proved here one after the other.     *)
(*                                                                         *)
(* PollSummaries. A definition is never a variable: it has to be read back *)
(* from the rows. The invariant says how: each poll reads as one of the    *)
(* definitions saved, a row for each name, and an answer without a         *)
(* snapshot is of a current row that still reads as its voter saw it.      *)
(* Counting then is a sum of cardinalities over the versions of a          *)
(* question, whose answers are disjoint.                                   *)
(*                                                                         *)
(* PollAccess. The invariant ties the results somebody keeps to ballots    *)
(* that are still there, and what was shown of them to a closing.          *)
(***************************************************************************)
EXTENDS Sequences, PollSummaries, PollAccess, FiniteSetTheorems, NaturalsInduction, TLAPS

-----------------------------------------------------------------------------
(* The definition of a poll.                                               *)

Sources == Definitions \cup Range(Migrated)

\* The rows f are those of the elements of d, in their order.
Reads(rs, p, d, f) ==
    /\ f \in [DOMAIN d -> DOMAIN rs]
    /\ \A i, j \in DOMAIN d : f[i] = f[j] => i = j
    /\ CurrentRows(rs, p) = {f[i] : i \in DOMAIN d}
    /\ \A i \in DOMAIN d : rs[f[i]].position = i /\ ContractElement(rs, f[i]) = d[i]

\* One row of a poll for each name the clients know, retired ones included.
Named(rs, ps) ==
    /\ \A s \in DOMAIN rs :
          /\ DOMAIN rs[s] = {"poll", "type", "wording", "options", "position", "retired"}
          /\ rs[s].poll \in ps
          /\ s = Raw(s.id) \/ s = Namespaced(rs[s].poll, s.id)
          /\ ContractElement(rs, s) \in Elements
    /\ \A s, t \in DOMAIN rs : rs[s].poll = rs[t].poll /\ s.id = t.id => s = t

\* A poll reads as the definition it was saved with.
Defined(rs, ps) == \A p \in ps : \E d \in Sources : \E f : Reads(rs, p, d, f)

AnswerOK(a) ==
    /\ a = [poll |-> a.poll, voter |-> a.voter, element |-> a.element, value |-> a.value,
            snapshot |-> a.snapshot, seen |-> a.seen, chosen |-> a.chosen]
    /\ a.element \in DOMAIN rows /\ rows[a.element].poll = a.poll
    /\ a.seen \in Elements /\ a.snapshot \in {None, a.seen}
    /\ a.snapshot = None =>
          /\ ~rows[a.element].retired
          /\ a.seen = ContractElement(rows, a.element)
          /\ a.seen.type = "choice" => \A o \in a.value : o # Text /\ o.space = Legacy
    /\ a.seen.type = "choice" =>
          /\ a.chosen \subseteq Range(a.seen.options)
          /\ {External(a.element, o) : o \in a.value} = a.chosen

DefinitionInv ==
    /\ Named(rows, created) /\ Defined(rows, created)
    /\ IsFiniteSet(answers) /\ \A a \in answers : AnswerOK(a)

-----------------------------------------------------------------------------
(* Definitions.                                                            *)

\* The elements of a definition, their names distinct.
LEMMA DefinitionTypes ==
  ASSUME NEW d \in Sources
  PROVE  /\ d \in Seq(Elements) /\ DOMAIN d = 1..Len(d) /\ Len(d) \in Nat
         /\ \A i \in DOMAIN d : d[i] \in Elements
         /\ \A i, j \in DOMAIN d : d[i].id = d[j].id => i = j
<1>1. d \in Seq(Elements)
  BY ElementsAssumption DEF Sources
<1>2. IsInjective([i \in DOMAIN d |-> d[i].id])
  BY DefinitionsAssumption DEF Sources
<1>3. \A i, j \in DOMAIN d : d[i].id = d[j].id => i = j
  BY <1>2 DEF IsInjective
<1> QED
  BY <1>1, <1>3

\* The parts of an element.
LEMMA ElementTypes ==
  ASSUME NEW e \in Elements
  PROVE  /\ e = [id |-> e.id, type |-> e.type, wording |-> e.wording, options |-> e.options]
         /\ DOMAIN e.options = 1..Len(e.options) /\ Len(e.options) \in Nat
         /\ e.options = [k \in DOMAIN e.options |-> e.options[k]]
         /\ e.type \in {"choice", "text"} /\ e # None
         /\ e.type = "text" => Range(e.options) = {}
         /\ \A k \in DOMAIN e.options : Text # Raw(e.options[k])
<1>1. e \in [id : {x.id : x \in Elements}, type : {"choice", "text"},
             wording : {x.wording : x \in Elements},
             options : Seq(UNION {Range(x.options) : x \in Elements})]
  BY ElementsAssumption
<1>2. PICK names : names = UNION {Range(x.options) : x \in Elements}
  OBVIOUS
<1>3. /\ e = [id |-> e.id, type |-> e.type, wording |-> e.wording, options |-> e.options]
      /\ e.type \in {"choice", "text"} /\ e.options \in Seq(names)
  BY <1>1, <1>2
<1>4. /\ DOMAIN e.options = 1..Len(e.options) /\ Len(e.options) \in Nat
      /\ e.options = [k \in DOMAIN e.options |-> e.options[k]]
      /\ \A k \in DOMAIN e.options : e.options[k] \in names
  BY <1>3
<1>5. e # None
  BY <1>1, ElementsAssumption
<1>6. e.type = "text" => Range(e.options) = {}
  <2>1. PICK d \in Sources : \E i \in DOMAIN d : e = d[i]
    BY DEF Elements, Range, Sources
  <2>2. e.type = "text" <=> e.options = << >>
    BY <2>1, DefinitionsAssumption DEF Sources
  <2> QED
    BY <2>2 DEF Range
<1>7. \A k \in DOMAIN e.options : Text # Raw(e.options[k])
  BY <1>2, <1>4, ElementsAssumption DEF Raw
<1> QED
  BY <1>3, <1>4, <1>5, <1>6, <1>7

\* The clients know a row by the name it was saved with.
LEMMA ExternalNames ==
  /\ \A p, x : External(p, Raw(x)) = x /\ External(p, Namespaced(p, x)) = x
  /\ \A x : Raw(x).id = x /\ Raw(x).space = Legacy
  /\ \A p, x : Namespaced(p, x).id = x
BY DEF External, Raw, Namespaced

-----------------------------------------------------------------------------
(* Saving a definition.                                                    *)

\* What a save makes of the rows of its poll.
Synced(rs, as, p, d, f, new) ==
    /\ DOMAIN new \subseteq DOMAIN rs \cup {f[i] : i \in DOMAIN d}
    /\ \A i, j \in DOMAIN d : f[i] = f[j] => i = j
    /\ \A i \in DOMAIN d :
          /\ f[i] \in DOMAIN new
          /\ f[i].id = d[i].id /\ (f[i] = Raw(d[i].id) \/ f[i] = Namespaced(p, d[i].id))
          /\ \A s \in DOMAIN rs : rs[s].poll = p /\ s.id = d[i].id => s = f[i]
          /\ new[f[i]].poll = p /\ new[f[i]].position = i /\ ~new[f[i]].retired
          /\ ContractElement(new, f[i]) = d[i]
          /\ DOMAIN new[f[i]] =
                {"poll", "type", "wording", "options", "position", "retired"}
    /\ \A s \in DOMAIN new : s \notin {f[i] : i \in DOMAIN d} =>
          /\ s \in DOMAIN rs
          /\ new[s] = rs[s] \/ (new[s] = [rs[s] EXCEPT !.retired = TRUE] /\ rs[s].poll = p)
          /\ rs[s].poll = p => (new[s] = [rs[s] EXCEPT !.retired = TRUE] \/ rs[s].retired)
    /\ \A s \in DOMAIN rs : rs[s].poll # p => s \in DOMAIN new /\ new[s] = rs[s]
    /\ \A s \in DOMAIN rs \cap AnsweredRows(as) : s \in DOMAIN new

\* Each element of the definition takes the row of its name, or a new one; the other rows
\* of the poll retire or go.
LEMMA SyncedRows ==
  ASSUME NEW rs, NEW ps, Named(rs, ps), NEW p, NEW d \in Definitions, NEW as,
         ~Refused(rs, p, d), NEW f, f = [i \in DOMAIN d |-> StoredElementId(rs, p, d[i].id)],
         NEW new, new = SyncElements(rs, as, p, d)
  PROVE  Synced(rs, as, p, d, f, new)
<1> DEFINE gone == {s \in CurrentRows(rs, p) : External(p, s) \notin ElementOf(d)}
           Kept == RemoveElements(rs, as, p, d)
           Index(s) == CHOOSE i \in DOMAIN d : f[i] = s
           Row(s, i) == [poll     |-> p,
                         type     |-> d[i].type,
                         wording  |-> d[i].wording,
                         options  |-> [k \in DOMAIN d[i].options |->
                                          StoredOptionId(rs, s, d[i].options[k])],
                         position |-> i,
                         retired  |-> FALSE]
<1>1. /\ DOMAIN d = 1..Len(d) /\ \A i \in DOMAIN d : d[i] \in Elements
      /\ \A i, j \in DOMAIN d : d[i].id = d[j].id => i = j
  BY DefinitionTypes DEF Sources
<1>2. \A i \in DOMAIN d :
         f[i] = IF Raw(d[i].id) \in RowsOf(rs, p) THEN Raw(d[i].id) ELSE Namespaced(p, d[i].id)
  BY DEF StoredElementId
<1>3. \A i \in DOMAIN d : f[i].id = d[i].id
  BY <1>2, ExternalNames
<1>4. \A i, j \in DOMAIN d : f[i] = f[j] => i = j
  BY <1>1, <1>3
<1>5. \A i \in DOMAIN d, s \in DOMAIN rs : rs[s].poll = p /\ s.id = d[i].id => s = f[i]
  <2> SUFFICES ASSUME NEW i \in DOMAIN d, NEW s \in DOMAIN rs, rs[s].poll = p, s.id = d[i].id
               PROVE  s = f[i]
    OBVIOUS
  <2>1. s = Raw(d[i].id) \/ s = Namespaced(p, d[i].id)
    BY DEF Named
  <2>2. CASE s = Raw(d[i].id)
    BY <1>2, <2>2 DEF RowsOf
  <2>3. CASE s # Raw(d[i].id)
    <3>1. Raw(d[i].id) \notin RowsOf(rs, p)
      BY <2>3, ExternalNames DEF Named, RowsOf
    <3> QED
      BY <1>2, <2>1, <2>3, <3>1
  <2> QED
    BY <2>2, <2>3
<1>6. /\ DOMAIN Kept = DOMAIN rs \ (gone \ AnsweredRows(as))
      /\ \A s \in DOMAIN Kept :
            Kept[s] = IF s \in gone THEN [rs[s] EXCEPT !.retired = TRUE] ELSE rs[s]
  BY DEF RemoveElements
<1>7. Range(f) = {f[i] : i \in DOMAIN d}
  BY DEF Range
<1>8. new = [s \in DOMAIN Kept \cup {f[i] : i \in DOMAIN d} |->
               IF s \notin {f[i] : i \in DOMAIN d} THEN Kept[s]
               ELSE Row(s, Index(s))]
  BY <1>7 DEF SyncElements
<1>9. \A s \in gone : s \in DOMAIN rs /\ rs[s].poll = p /\ \A i \in DOMAIN d : s.id # d[i].id
  <2> SUFFICES ASSUME NEW s \in gone
               PROVE  s \in DOMAIN rs /\ rs[s].poll = p /\ \A i \in DOMAIN d : s.id # d[i].id
    OBVIOUS
  <2>1. s \in DOMAIN rs /\ rs[s].poll = p /\ External(p, s) \notin ElementOf(d)
    BY DEF CurrentRows, RowsOf
  <2>2. External(p, s) = s.id
    BY <2>1, ExternalNames DEF Named
  <2> QED
    BY <2>1, <2>2 DEF ElementOf
<1>10. \A s \in DOMAIN rs : rs[s].poll = p /\ ~rs[s].retired /\ s \notin gone =>
          \E i \in DOMAIN d : s = f[i]
  <2> SUFFICES ASSUME NEW s \in DOMAIN rs, rs[s].poll = p, ~rs[s].retired, s \notin gone
               PROVE  \E i \in DOMAIN d : s = f[i]
    OBVIOUS
  <2>1. External(p, s) \in ElementOf(d)
    BY DEF CurrentRows, RowsOf
  <2>2. External(p, s) = s.id
    BY ExternalNames DEF Named
  <2> QED
    BY <1>5, <2>1, <2>2 DEF ElementOf
<1>11. \A i \in DOMAIN d : f[i] \notin DOMAIN rs \/ rs[f[i]].poll = p
  BY DEF Refused
<1> HIDE DEF gone, Kept, Row, Index
<1>12. ASSUME NEW i \in DOMAIN d
       PROVE  /\ f[i] \in DOMAIN new /\ new[f[i]].poll = p /\ new[f[i]].position = i
              /\ ~new[f[i]].retired /\ ContractElement(new, f[i]) = d[i]
              /\ DOMAIN new[f[i]] =
                    {"poll", "type", "wording", "options", "position", "retired"}
  <2>1. PICK s : s = f[i]
    OBVIOUS
  <2>2. Index(s) = i
    BY <1>4, <2>1 DEF Index
  <2>3. PICK e : e = d[i] /\ e \in Elements
    BY <1>1
  <2>4. Row(s, i) = [poll |-> p, type |-> e.type, wording |-> e.wording,
                  options |-> [k \in DOMAIN e.options |-> StoredOptionId(rs, s, e.options[k])],
                  position |-> i, retired |-> FALSE]
    BY <2>3 DEF Row
  <2>5. s \in DOMAIN new /\ new[s] = Row(s, i)
    BY <1>8, <2>1, <2>2
  <2>6. \A o : External(s, StoredOptionId(rs, s, o)) = o
    BY ExternalNames DEF StoredOptionId
  <2>7. [k \in DOMAIN new[s].options |-> External(s, new[s].options[k])] = e.options
    <3>1. PICK options : options = [k \in DOMAIN e.options |-> StoredOptionId(rs, s, e.options[k])]
      OBVIOUS
    <3>2. new[s].options = options
      BY <2>4, <2>5, <3>1
    <3>3. DOMAIN options = DOMAIN e.options
          /\ \A k \in DOMAIN e.options : External(s, options[k]) = e.options[k]
      BY <2>6, <3>1
    <3>4. e.options = [k \in DOMAIN e.options |-> e.options[k]]
      BY <2>3, ElementTypes
    <3> QED
      BY <3>2, <3>3, <3>4
  <2>8. External(p, s) = e.id
    BY <1>2, <2>1, <2>3, ExternalNames
  <2>9. ContractElement(new, s) = [id |-> e.id, type |-> e.type, wording |-> e.wording,
                                    options |-> e.options]
    <3>1. new[s].poll = p /\ new[s].type = e.type /\ new[s].wording = e.wording
      BY <2>4, <2>5
    <3> QED
      BY <2>7, <2>8, <3>1 DEF ContractElement
  <2>10. ContractElement(new, s) = e
    BY <2>3, <2>9, ElementTypes
  <2>11. /\ new[s].poll = p /\ new[s].position = i /\ ~new[s].retired
         /\ DOMAIN new[s] = {"poll", "type", "wording", "options", "position", "retired"}
    BY <2>4, <2>5
  <2> QED
    BY <2>1, <2>3, <2>5, <2>10, <2>11
<1>13. \A s \in DOMAIN new : (\A i \in DOMAIN d : s # f[i]) => s \in DOMAIN Kept /\ new[s] = Kept[s]
  BY <1>8
<1>14. \A s \in DOMAIN rs : rs[s].poll # p => s \in DOMAIN Kept /\ s \notin gone
                                              /\ \A i \in DOMAIN d : s # f[i]
  BY <1>6, <1>9, <1>11
<1>15. \A s \in DOMAIN Kept : s \in DOMAIN new
  BY <1>8
<1>16. DOMAIN new \subseteq DOMAIN rs \cup {f[i] : i \in DOMAIN d}
  BY <1>6, <1>8
<1>17. \A s \in DOMAIN new : (\A i \in DOMAIN d : s # f[i]) =>
         /\ s \in DOMAIN rs
         /\ new[s] = rs[s] \/ (new[s] = [rs[s] EXCEPT !.retired = TRUE] /\ rs[s].poll = p)
         /\ rs[s].poll = p => (new[s] = [rs[s] EXCEPT !.retired = TRUE] \/ rs[s].retired)
  <2> SUFFICES ASSUME NEW s \in DOMAIN new, \A i \in DOMAIN d : s # f[i]
               PROVE  /\ s \in DOMAIN rs
                      /\ \/ new[s] = rs[s]
                         \/ new[s] = [rs[s] EXCEPT !.retired = TRUE] /\ rs[s].poll = p
                      /\ rs[s].poll = p =>
                            new[s] = [rs[s] EXCEPT !.retired = TRUE] \/ rs[s].retired
    OBVIOUS
  <2>1. s \in DOMAIN Kept /\ new[s] = Kept[s] /\ s \in DOMAIN rs
    BY <1>6, <1>13
  <2>2. CASE s \in gone
    BY <1>6, <1>9, <2>1, <2>2
  <2>3. CASE s \notin gone
    BY <1>6, <1>10, <2>1, <2>3
  <2> QED
    BY <2>1, <2>2, <2>3
<1>18. \A s \in DOMAIN rs : rs[s].poll # p => s \in DOMAIN new /\ new[s] = rs[s]
  BY <1>6, <1>13, <1>14, <1>15
<1>19. \A s \in DOMAIN rs \cap AnsweredRows(as) : s \in DOMAIN new
  BY <1>6, <1>15
<1>20. \A i \in DOMAIN d : f[i] = Raw(d[i].id) \/ f[i] = Namespaced(p, d[i].id)
  BY <1>2
<1>21. \A i \in DOMAIN d :
          /\ f[i] \in DOMAIN new
          /\ f[i].id = d[i].id /\ (f[i] = Raw(d[i].id) \/ f[i] = Namespaced(p, d[i].id))
          /\ \A s \in DOMAIN rs : rs[s].poll = p /\ s.id = d[i].id => s = f[i]
          /\ new[f[i]].poll = p /\ new[f[i]].position = i /\ ~new[f[i]].retired
          /\ ContractElement(new, f[i]) = d[i]
          /\ DOMAIN new[f[i]] =
                {"poll", "type", "wording", "options", "position", "retired"}
  <2> TAKE i \in DOMAIN d
  <2> QED
    BY <1>3, <1>5, <1>12, <1>20
<1>22. \A s \in DOMAIN new : s \notin {f[i] : i \in DOMAIN d} =>
         /\ s \in DOMAIN rs
         /\ new[s] = rs[s] \/ (new[s] = [rs[s] EXCEPT !.retired = TRUE] /\ rs[s].poll = p)
         /\ rs[s].poll = p => (new[s] = [rs[s] EXCEPT !.retired = TRUE] \/ rs[s].retired)
  <2> TAKE s \in DOMAIN new
  <2>1. s \notin {f[i] : i \in DOMAIN d} => \A i \in DOMAIN d : s # f[i]
    OBVIOUS
  <2> QED
    BY <1>17, <2>1
<1> QED
  BY <1>4, <1>16, <1>18, <1>19, <1>21, <1>22 DEF Synced

\* A save keeps the names of the rows, and its poll reads as the definition saved.
LEMMA SavedRows ==
  ASSUME NEW rs, NEW ps, Named(rs, ps), Defined(rs, ps), NEW p, NEW d \in Definitions, NEW as,
         ~Refused(rs, p, d), NEW new, new = SyncElements(rs, as, p, d)
  PROVE  Named(new, ps \cup {p}) /\ Defined(new, ps \cup {p})
<1>1. PICK f : f = [i \in DOMAIN d |-> StoredElementId(rs, p, d[i].id)]
  OBVIOUS
<1> DEFINE at == {f[i] : i \in DOMAIN d}
<1>0. Synced(rs, as, p, d, f, new)
  BY <1>1, SyncedRows
<1>2. /\ \A i, j \in DOMAIN d : f[i] = f[j] => i = j
      /\ \A i \in DOMAIN d :
            /\ f[i] \in DOMAIN new /\ f[i].id = d[i].id
            /\ new[f[i]].poll = p /\ new[f[i]].position = i /\ ~new[f[i]].retired
            /\ ContractElement(new, f[i]) = d[i]
  BY <1>0 DEF Synced
<1>11. \A i \in DOMAIN d :
          /\ f[i] = Raw(d[i].id) \/ f[i] = Namespaced(p, d[i].id)
          /\ DOMAIN new[f[i]] = {"poll", "type", "wording", "options", "position", "retired"}
  BY <1>0 DEF Synced
<1>12. \A i \in DOMAIN d, s \in DOMAIN rs : rs[s].poll = p /\ s.id = d[i].id => s = f[i]
  BY <1>0 DEF Synced
<1>3. \A s \in DOMAIN new : s \notin at =>
         /\ s \in DOMAIN rs
         /\ new[s] = rs[s] \/ (new[s] = [rs[s] EXCEPT !.retired = TRUE] /\ rs[s].poll = p)
         /\ rs[s].poll = p => (new[s] = [rs[s] EXCEPT !.retired = TRUE] \/ rs[s].retired)
  BY <1>0 DEF Synced
<1>4. \A s \in DOMAIN rs : rs[s].poll # p => s \in DOMAIN new /\ new[s] = rs[s]
  BY <1>0 DEF Synced
<1>5. \A i \in DOMAIN d : d[i] \in Elements
  BY DefinitionTypes DEF Sources
<1> HIDE DEF at
<1>6. ASSUME NEW s \in DOMAIN new, s \notin at
      PROVE  /\ s \in DOMAIN rs /\ new[s].poll = rs[s].poll
             /\ DOMAIN new[s] = DOMAIN rs[s]
             /\ ContractElement(new, s) = ContractElement(rs, s)
             /\ rs[s].poll = p => new[s].retired = TRUE
  <2>1. s \in DOMAIN rs
        /\ DOMAIN rs[s] = {"poll", "type", "wording", "options", "position", "retired"}
    BY <1>3, <1>6 DEF Named
  <2>2. /\ new[s].poll = rs[s].poll /\ new[s].type = rs[s].type
        /\ new[s].wording = rs[s].wording /\ new[s].options = rs[s].options
        /\ DOMAIN new[s] = DOMAIN rs[s]
    BY <1>3, <1>6, <2>1
  <2>3. rs[s].poll = p => new[s].retired
    BY <1>3, <1>6, <2>1
  <2>4. ContractElement(new, s) = ContractElement(rs, s)
    BY <2>2 DEF ContractElement
  <2> QED
    BY <2>1, <2>2, <2>3, <2>4
<1>7. Named(new, ps \cup {p})
  <2>1. ASSUME NEW s \in DOMAIN new
        PROVE  /\ DOMAIN new[s] =
                     {"poll", "type", "wording", "options", "position", "retired"}
               /\ new[s].poll \in ps \cup {p}
               /\ s = Raw(s.id) \/ s = Namespaced(new[s].poll, s.id)
               /\ ContractElement(new, s) \in Elements
    <3>1. CASE s \in at
      <4>1. PICK i \in DOMAIN d : s = f[i]
        BY <3>1 DEF at
      <4> QED
        BY <1>2, <1>5, <1>11, <4>1
    <3>2. CASE s \notin at
      BY <1>6, <3>2 DEF Named
    <3> QED
      BY <3>1, <3>2
  <2>2. ASSUME NEW s \in DOMAIN new, NEW t \in DOMAIN new, new[s].poll = new[t].poll, s.id = t.id
        PROVE  s = t
    <3>1. CASE s \in at /\ t \in at
      <4>1. PICK i \in DOMAIN d : s = f[i]
        BY <3>1 DEF at
      <4>2. PICK j \in DOMAIN d : t = f[j]
        BY <3>1 DEF at
      <4>3. d[i].id = d[j].id
        BY <1>2, <2>2, <4>1, <4>2
      <4> QED
        BY <4>1, <4>2, <4>3, DefinitionTypes DEF Sources
    <3>2. CASE s \in at /\ t \notin at
      <4>1. PICK i \in DOMAIN d : s = f[i]
        BY <3>2 DEF at
      <4>2. t \in DOMAIN rs /\ rs[t].poll = p /\ t.id = d[i].id
        BY <1>2, <1>6, <2>2, <3>2, <4>1
      <4> QED
        BY <1>12, <4>1, <4>2
    <3>3. CASE s \notin at /\ t \in at
      <4>1. PICK i \in DOMAIN d : t = f[i]
        BY <3>3 DEF at
      <4>2. s \in DOMAIN rs /\ rs[s].poll = p /\ s.id = d[i].id
        BY <1>2, <1>6, <2>2, <3>3, <4>1
      <4> QED
        BY <1>12, <4>1, <4>2
    <3>4. CASE s \notin at /\ t \notin at
      BY <1>6, <2>2, <3>4 DEF Named
    <3> QED
      BY <3>1, <3>2, <3>3, <3>4
  <2> QED
    BY <2>1, <2>2 DEF Named
<1>8. Reads(new, p, d, f)
  <2>1. CurrentRows(new, p) = {f[i] : i \in DOMAIN d}
    <3>1. ASSUME NEW s \in DOMAIN new, s \notin at, new[s].poll = p
          PROVE  new[s].retired
      BY <1>6, <3>1
    <3>2. \A s \in at : s \in DOMAIN new /\ new[s].poll = p /\ ~new[s].retired
      <4> TAKE s \in at
      <4>1. PICK i \in DOMAIN d : s = f[i]
        BY DEF at
      <4> QED
        BY <1>2, <4>1
    <3>3. CurrentRows(new, p) = at
      BY <3>1, <3>2 DEF CurrentRows, RowsOf
    <3> QED
      BY <3>3 DEF at
  <2>2. f \in [DOMAIN d -> DOMAIN new]
    BY <1>1, <1>2
  <2> QED
    BY <1>2, <2>1, <2>2 DEF Reads
<1>9. ASSUME NEW q \in ps, q # p
      PROVE  \E e \in Sources : \E g : Reads(new, q, e, g)
  <2>1. PICK e, g : e \in Sources /\ Reads(rs, q, e, g)
    BY DEF Defined
  <2>2. \A s : s \in DOMAIN new /\ new[s].poll = q <=> s \in DOMAIN rs /\ rs[s].poll = q
    <3> TAKE s
    <3>1. CASE s \in at
      <4>1. PICK i \in DOMAIN d : s = f[i]
        BY <3>1 DEF at
      <4>2. s \in DOMAIN rs /\ rs[s].poll = q => s \in DOMAIN new /\ new[s] = rs[s]
        BY <1>4, <1>9
      <4> QED
        BY <1>2, <1>9, <4>1, <4>2
    <3>2. CASE s \notin at
      BY <1>4, <1>6, <1>9, <3>2
    <3> QED
      BY <3>1, <3>2
  <2>3. \A s \in DOMAIN rs : rs[s].poll = q => new[s] = rs[s]
    BY <1>4, <1>9
  <2>4. CurrentRows(new, q) = CurrentRows(rs, q)
    BY <2>2, <2>3 DEF CurrentRows, RowsOf
  <2>5. \A i \in DOMAIN e : g[i] \in DOMAIN rs /\ rs[g[i]].poll = q
    BY <2>1 DEF Reads, CurrentRows, RowsOf
  <2>6. \A i \in DOMAIN e : ContractElement(new, g[i]) = ContractElement(rs, g[i])
    BY <2>3, <2>5 DEF ContractElement
  <2>7. g \in [DOMAIN e -> DOMAIN new]
    BY <2>1, <2>2, <2>5 DEF Reads
  <2> QED
    <3>1. /\ \A i, j \in DOMAIN e : g[i] = g[j] => i = j
          /\ CurrentRows(rs, q) = {g[i] : i \in DOMAIN e}
          /\ \A i \in DOMAIN e : rs[g[i]].position = i /\ ContractElement(rs, g[i]) = e[i]
      BY <2>1 DEF Reads
    <3>2. \A i \in DOMAIN e : new[g[i]].position = i /\ ContractElement(new, g[i]) = e[i]
      BY <2>3, <2>5, <2>6, <3>1
    <3>3. Reads(new, q, e, g)
      BY <2>4, <2>7, <3>1, <3>2 DEF Reads
    <3> QED
      BY <2>1, <3>3
<1>10. Defined(new, ps \cup {p})
  BY <1>8, <1>9 DEF Defined, Sources
<1> QED
  BY <1>7, <1>10

-----------------------------------------------------------------------------
(* Answers.                                                                *)

\* An answer stays what it is while its row and that row's reading do.
LEMMA AnswerStays ==
  ASSUME NEW a, AnswerOK(a), a.element \in DOMAIN rows',
         rows'[a.element].poll = rows[a.element].poll,
         \/ a.snapshot # None
         \/ rows'[a.element] = rows[a.element]
  PROVE  AnswerOK(a)'
<1>1. rows'[a.element] = rows[a.element] =>
         ContractElement(rows', a.element) = ContractElement(rows, a.element)
  BY DEF ContractElement
<1> QED
  BY <1>1 DEF AnswerOK

\* What was chosen is what is stored, under the names the voter saw.
LEMMA ChoicesStored ==
  ASSUME NEW rs, NEW s, NEW chosen \in Selections(rs, s), rs[s].type = "choice"
  PROVE  /\ chosen \subseteq Range(ContractElement(rs, s).options)
         /\ {External(s, o) : o \in NormalizeAnswer(rs, s, chosen)} = chosen
<1>1. PICK options : options = rs[s].options
  OBVIOUS
<1>2. chosen \subseteq {External(s, o) : o \in Range(options)}
  BY <1>1 DEF Selections
<1>3. NormalizeAnswer(rs, s, chosen) = {o \in Range(options) : External(s, o) \in chosen}
  BY <1>1 DEF NormalizeAnswer
<1>4. PICK names : names = [i \in DOMAIN options |-> External(s, options[i])]
  OBVIOUS
<1>5. ContractElement(rs, s).options = names
  BY <1>1, <1>4 DEF ContractElement
<1>6. Range(names) = {External(s, o) : o \in Range(options)}
  BY <1>4 DEF Range
<1> QED
  BY <1>2, <1>3, <1>5, <1>6

\* What a voter writes.
LEMMA NewAnswers ==
  ASSUME Named(rows, created), NEW v, NEW p, NEW s \in CurrentRows(rows, p),
         NEW chosen \in Selections(rows, s),
         NEW a, a = [poll     |-> p,
                     voter    |-> v,
                     element  |-> s,
                     value    |-> NormalizeAnswer(rows, s, chosen),
                     snapshot |-> ContractElement(rows, s),
                     seen     |-> ContractElement(rows, s),
                     chosen   |-> chosen]
  PROVE  AnswerOK(a)
<1>1. s \in DOMAIN rows /\ rows[s].poll = p
  BY DEF CurrentRows, RowsOf
<1>2. PICK e : e = ContractElement(rows, s) /\ e \in Elements
  BY <1>1 DEF Named
<1>3. e # None
  BY <1>2, ElementTypes
<1>4. /\ a.poll = p /\ a.element = s /\ a.seen = e /\ a.snapshot = e
      /\ a = [poll |-> a.poll, voter |-> a.voter, element |-> a.element, value |-> a.value,
              snapshot |-> a.snapshot, seen |-> a.seen, chosen |-> a.chosen]
  BY <1>2
<1>5. a.chosen = chosen /\ a.value = NormalizeAnswer(rows, s, chosen)
  OBVIOUS
<1>6. rows[s].type = e.type
  BY <1>2 DEF ContractElement
<1>7. e.type = "choice" =>
         /\ chosen \subseteq Range(e.options)
         /\ {External(s, o) : o \in a.value} = chosen
  BY <1>2, <1>5, <1>6, ChoicesStored
<1> QED
  BY <1>1, <1>2, <1>3, <1>4, <1>5, <1>7 DEF AnswerOK

\* What a poll shows at a time is finite, and so is what one voter answers.
LEMMA CurrentRowsFinite ==
  ASSUME Defined(rows, created), NEW p \in created
  PROVE  IsFiniteSet(CurrentRows(rows, p))
<1>1. PICK d, f : d \in Sources /\ Reads(rows, p, d, f)
  BY DEF Defined
<1>2. PICK n \in Nat : DOMAIN d = 1..n
  BY DefinitionTypes
<1>3. PICK S : S = CurrentRows(rows, p)
  OBVIOUS
<1>4. f \in [1..n -> S] /\ \A s \in S : \E i \in 1..n : f[i] = s
  BY <1>1, <1>2, <1>3 DEF Reads
<1>5. f \in Surjection(1..n, S)
  BY <1>4 DEF Surjection
<1>6. IsFiniteSet(1..n)
  BY <1>2, FS_Interval
<1> QED
  BY <1>3, <1>5, <1>6, FS_Surjection

\* A response has finitely many answers.
LEMMA ResponseFinite ==
  ASSUME NEW v, NEW p, NEW choice, IsFiniteSet(DOMAIN choice)
  PROVE  IsFiniteSet(CreateResponse(v, p, choice))
<1> DEFINE Answer(s) == [poll     |-> p,
                         voter    |-> v,
                         element  |-> s,
                         value    |-> NormalizeAnswer(rows, s, choice[s]),
                         snapshot |-> ContractElement(rows, s),
                         seen     |-> ContractElement(rows, s),
                         chosen   |-> choice[s]]
<1>1. CreateResponse(v, p, choice) = {Answer(s) : s \in DOMAIN choice}
  BY DEF CreateResponse
<1> HIDE DEF Answer
<1>2. PICK D, T, g : /\ D = DOMAIN choice /\ T = CreateResponse(v, p, choice)
                     /\ g = [s \in D |-> Answer(s)]
  OBVIOUS
<1>3. g \in Surjection(D, T)
  BY <1>1, <1>2 DEF Surjection
<1> QED
  BY <1>2, <1>3, FS_Surjection

\* A response is of the elements shown.
LEMMA VoteKeeps ==
  ASSUME DefinitionInv, NEW v, NEW p, Vote(v, p)
  PROVE  DefinitionInv'
<1>1. UNCHANGED <<created, rows>>
  BY DEF Vote
<1>2. PICK answered \in (SUBSET CurrentRows(rows, p)) \ {{}} :
         \E choice \in [answered -> UNION {Selections(rows, s) : s \in answered}] :
            /\ \A s \in answered : choice[s] \in Selections(rows, s)
            /\ answers' = {a \in answers : ~(a.poll = p /\ a.voter = v)}
                             \cup CreateResponse(v, p, choice)
  BY DEF Vote
<1>3. PICK choice : /\ DOMAIN choice = answered
                    /\ \A s \in answered : choice[s] \in Selections(rows, s)
                    /\ answers' = {a \in answers : ~(a.poll = p /\ a.voter = v)}
                                     \cup CreateResponse(v, p, choice)
  BY <1>2
<1>4. ASSUME NEW a \in answers' PROVE AnswerOK(a)
  <2>1. CASE a \in answers
    BY <2>1 DEF DefinitionInv
  <2>2. CASE a \in CreateResponse(v, p, choice)
    <3>1. PICK s \in answered :
             a = [poll     |-> p,
                  voter    |-> v,
                  element  |-> s,
                  value    |-> NormalizeAnswer(rows, s, choice[s]),
                  snapshot |-> ContractElement(rows, s),
                  seen     |-> ContractElement(rows, s),
                  chosen   |-> choice[s]]
      BY <1>3, <2>2 DEF CreateResponse
    <3>2. s \in CurrentRows(rows, p) /\ Named(rows, created) /\ choice[s] \in Selections(rows, s)
      BY <1>2, <1>3 DEF DefinitionInv
    <3> QED
      BY <3>1, <3>2, NewAnswers
  <2> QED
    BY <1>3, <2>1, <2>2
<1>5. ASSUME NEW a \in answers' PROVE AnswerOK(a)'
  BY <1>1, <1>4, <1>5 DEF AnswerOK
<1>6. IsFiniteSet(answers')
  <2>1. IsFiniteSet(DOMAIN choice)
    <3>1. p \in created /\ answered \subseteq CurrentRows(rows, p)
      BY <1>2 DEF Vote
    <3>2. IsFiniteSet(CurrentRows(rows, p))
      BY <3>1, CurrentRowsFinite DEF DefinitionInv
    <3> QED
      BY <1>3, <3>1, <3>2, FS_Subset
  <2>2. IsFiniteSet(CreateResponse(v, p, choice))
    BY <2>1, ResponseFinite
  <2>3. PICK A, B : /\ A = {a \in answers : ~(a.poll = p /\ a.voter = v)}
                    /\ B = CreateResponse(v, p, choice)
    OBVIOUS
  <2>4. IsFiniteSet(A)
    BY <2>3, FS_Subset DEF DefinitionInv
  <2>5. IsFiniteSet(A \cup B)
    BY <2>2, <2>3, <2>4, FS_Union
  <2> QED
    BY <1>3, <2>3, <2>5
<1> QED
  BY <1>1, <1>5, <1>6 DEF DefinitionInv

\* A save before which the answers `filled' of its poll have received their snapshots.
LEMMA SaveKeepsAnswers ==
  ASSUME Named(rows, created), NEW p, NEW d \in Definitions, NEW filled,
         \A a \in filled : AnswerOK(a) /\ (a.poll = p => a.snapshot # None),
         ~Refused(rows, p, d), rows' = SyncElements(rows, filled, p, d), NEW a \in filled
  PROVE  AnswerOK(a)' /\ a.element \in DOMAIN rows'
<1>1. PICK f : f = [i \in DOMAIN d |-> StoredElementId(rows, p, d[i].id)]
  OBVIOUS
<1>2. PICK rs, new, s : rs = rows /\ new = rows' /\ s = a.element
  OBVIOUS
<1>3. Synced(rs, filled, p, d, f, new)
  BY <1>1, <1>2, SyncedRows
<1>4. s \in DOMAIN rs /\ rs[s].poll = a.poll
  BY <1>2 DEF AnswerOK
<1>5. s \in AnsweredRows(filled)
  BY <1>2 DEF AnsweredRows
<1>6. s \in DOMAIN new
  BY <1>3, <1>4, <1>5 DEF Synced
<1>7. rs[s].poll # p => new[s] = rs[s]
  BY <1>3, <1>4 DEF Synced
<1>8. new[s].poll = rs[s].poll
  <2>1. CASE s \in {f[i] : i \in DOMAIN d}
    <3>1. PICK i \in DOMAIN d : s = f[i]
      BY <2>1
    <3>2. new[s].poll = p
      BY <1>3, <3>1 DEF Synced
    <3> QED
      BY <1>7, <3>2
  <2>2. CASE s \notin {f[i] : i \in DOMAIN d}
    <3>1. new[s] = rs[s] \/ new[s] = [rs[s] EXCEPT !.retired = TRUE]
      BY <1>3, <1>6, <2>2 DEF Synced
    <3>2. DOMAIN rs[s] = {"poll", "type", "wording", "options", "position", "retired"}
      BY <1>2, <1>4 DEF Named
    <3> QED
      BY <3>1, <3>2
  <2> QED
    BY <2>1, <2>2
<1>9. a.snapshot # None \/ new[s] = rs[s]
  BY <1>4, <1>7
<1> QED
  BY <1>2, <1>6, <1>8, <1>9, AnswerStays

\* A new poll has no answers, and takes no row of another.
LEMMA CreateKeeps ==
  ASSUME DefinitionInv, NEW p, CreatePoll(p)
  PROVE  DefinitionInv' /\ answers' = answers
<1>1. PICK d \in Definitions :
         /\ p \notin created /\ ~Refused(rows, p, d) /\ created' = created \cup {p}
         /\ rows' = SyncElements(rows, {}, p, d) /\ answers' = answers
  BY DEF CreatePoll
<1>2. PICK rs, new, ps : rs = rows /\ new = rows' /\ ps = created
  OBVIOUS
<1>3. Named(rs, ps) /\ Defined(rs, ps)
  BY <1>2 DEF DefinitionInv
<1>4. Named(new, ps \cup {p}) /\ Defined(new, ps \cup {p})
  BY <1>1, <1>2, <1>3, SavedRows
<1>5. ASSUME NEW a \in answers PROVE AnswerOK(a)'
  <2>1. PICK f : f = [i \in DOMAIN d |-> StoredElementId(rs, p, d[i].id)]
    OBVIOUS
  <2>2. Synced(rs, {}, p, d, f, new)
    BY <1>1, <1>2, <1>3, <2>1, SyncedRows
  <2>3. PICK s : s = a.element
    OBVIOUS
  <2>4. AnswerOK(a) /\ s \in DOMAIN rs /\ rs[s].poll = a.poll /\ rs[s].poll # p
    BY <1>1, <1>2, <1>3, <2>3 DEF DefinitionInv, AnswerOK, Named
  <2>5. s \in DOMAIN new /\ new[s] = rs[s]
    BY <2>2, <2>4 DEF Synced
  <2> QED
    BY <1>2, <2>3, <2>4, <2>5, AnswerStays
<1> QED
  BY <1>1, <1>2, <1>4, <1>5 DEF DefinitionInv

\* The answers of the poll have their snapshots before its rows change.
LEMMA Backfilled ==
  ASSUME DefinitionInv, NEW p, NEW filled, filled = BackfillSnapshots(rows, answers, p)
  PROVE  /\ \A b \in filled : AnswerOK(b) /\ (b.poll = p => b.snapshot # None)
         /\ \A a \in answers : \E b \in filled : b = [a EXCEPT !.snapshot = b.snapshot]
         /\ IsFiniteSet(filled)
<1> DEFINE Fill(a) == IF a.poll = p /\ a.snapshot = None
                      THEN [a EXCEPT !.snapshot = ContractElement(rows, a.element)] ELSE a
<1>1. filled = {Fill(a) : a \in answers}
  BY DEF BackfillSnapshots
<1>2. ASSUME NEW a \in answers
      PROVE  /\ AnswerOK(Fill(a)) /\ (Fill(a).poll = p => Fill(a).snapshot # None)
             /\ Fill(a) = [a EXCEPT !.snapshot = Fill(a).snapshot]
  <2>1. AnswerOK(a)
    BY DEF DefinitionInv
  <2>2. CASE a.poll = p /\ a.snapshot = None
    <3>1. a.seen = ContractElement(rows, a.element) /\ a.seen # None
      BY <2>1, <2>2, ElementTypes DEF AnswerOK
    <3>2. PICK b : b = [a EXCEPT !.snapshot = a.seen]
      OBVIOUS
    <3>3. Fill(a) = b
      BY <2>2, <3>1, <3>2
    <3>4. /\ b.poll = a.poll /\ b.voter = a.voter /\ b.element = a.element /\ b.value = a.value
          /\ b.snapshot = a.seen /\ b.seen = a.seen /\ b.chosen = a.chosen
          /\ b = [poll |-> a.poll, voter |-> a.voter, element |-> a.element, value |-> a.value,
                  snapshot |-> a.seen, seen |-> a.seen, chosen |-> a.chosen]
      BY <2>1, <3>2 DEF AnswerOK
    <3>5. AnswerOK(b)
      BY <2>1, <3>1, <3>4 DEF AnswerOK
    <3>6. b.snapshot # None /\ b = [a EXCEPT !.snapshot = b.snapshot]
      BY <3>1, <3>2, <3>4
    <3> HIDE DEF Fill
    <3> QED
      BY <3>3, <3>5, <3>6
  <2>3. CASE ~(a.poll = p /\ a.snapshot = None)
    <3>1. Fill(a) = a
      BY <2>3
    <3>2. a = [a EXCEPT !.snapshot = a.snapshot]
      BY <2>1 DEF AnswerOK
    <3> HIDE DEF Fill
    <3> QED
      BY <2>1, <2>3, <3>1, <3>2
  <2> QED
    BY <2>2, <2>3
<1> HIDE DEF Fill
<1>3. IsFiniteSet(filled)
  <2>1. PICK A, g : A = answers /\ g = [a \in A |-> Fill(a)]
    OBVIOUS
  <2>2. g \in Surjection(A, filled)
    BY <1>1, <2>1 DEF Surjection
  <2> QED
    BY <2>1, <2>2, FS_Surjection DEF DefinitionInv
<1> QED
  BY <1>1, <1>2, <1>3

\* A save keeps every answer: its row was answered.
LEMMA UpdateKeeps ==
  ASSUME DefinitionInv, NEW p, UpdatePoll(p)
  PROVE  /\ DefinitionInv'
         /\ \A a \in answers : \E b \in answers' : b = [a EXCEPT !.snapshot = b.snapshot]
<1>1. PICK d, filled :
         /\ d \in Definitions /\ p \in created /\ ~Refused(rows, p, d) /\ created' = created
         /\ filled = BackfillSnapshots(rows, answers, p)
         /\ rows' = SyncElements(rows, filled, p, d)
         /\ answers' = CascadeAnswers(rows', filled)
  BY DEF UpdatePoll
<1>2. /\ \A b \in filled : AnswerOK(b) /\ (b.poll = p => b.snapshot # None)
      /\ \A a \in answers : \E b \in filled : b = [a EXCEPT !.snapshot = b.snapshot]
      /\ IsFiniteSet(filled)
  BY <1>1, Backfilled
<1>3. PICK rs, new, ps : rs = rows /\ new = rows' /\ ps = created
  OBVIOUS
<1>4. Named(rs, ps) /\ Defined(rs, ps)
  BY <1>3 DEF DefinitionInv
<1>5. Named(new, ps \cup {p}) /\ Defined(new, ps \cup {p}) /\ ps \cup {p} = ps
  BY <1>1, <1>3, <1>4, SavedRows
<1>6. ASSUME NEW a \in filled PROVE AnswerOK(a)' /\ a.element \in DOMAIN rows'
  BY <1>1, <1>2, <1>3, <1>4, SaveKeepsAnswers
<1>7. answers' = filled
  BY <1>1, <1>6 DEF CascadeAnswers
<1> QED
  BY <1>1, <1>2, <1>3, <1>5, <1>6, <1>7 DEF DefinitionInv

-----------------------------------------------------------------------------
(* The migrated polls.                                                     *)

\* A migrated element is read back from its row.
LEMMA MigratedRow ==
  ASSUME Init, NEW p \in DOMAIN Migrated, NEW i \in DOMAIN Migrated[p],
         NEW e, e = Migrated[p][i], NEW s, s = Raw(e.id)
  PROVE  /\ s \in DOMAIN rows
         /\ rows[s] = [poll     |-> p,
                       type     |-> e.type,
                       wording  |-> e.wording,
                       options  |-> [k \in DOMAIN e.options |-> Raw(e.options[k])],
                       position |-> i,
                       retired  |-> FALSE]
<1> DEFINE Row(q, j) == [poll     |-> q,
                         type     |-> Migrated[q][j].type,
                         wording  |-> Migrated[q][j].wording,
                         options  |-> [k \in DOMAIN Migrated[q][j].options |->
                                          Raw(Migrated[q][j].options[k])],
                         position |-> j,
                         retired  |-> FALSE]
<1>1. MigratedRows = UNION {{<<Raw(Migrated[q][j].id), Row(q, j)>> : j \in DOMAIN Migrated[q]} :
                               q \in DOMAIN Migrated}
  BY DEF MigratedRows
<1>2. Row(p, i) = [poll     |-> p,
                   type     |-> e.type,
                   wording  |-> e.wording,
                   options  |-> [k \in DOMAIN e.options |-> Raw(e.options[k])],
                   position |-> i,
                   retired  |-> FALSE]
  OBVIOUS
<1> HIDE DEF Row
<1>3. <<s, Row(p, i)>> \in MigratedRows
  BY <1>1
<1>4. ASSUME NEW m \in MigratedRows, m[1] = s
      PROVE  m = <<s, Row(p, i)>>
  <2>1. PICK q \in DOMAIN Migrated :
           m \in {<<Raw(Migrated[q][j].id), Row(q, j)>> : j \in DOMAIN Migrated[q]}
    BY <1>1
  <2>2. PICK j \in DOMAIN Migrated[q] : m = <<Raw(Migrated[q][j].id), Row(q, j)>>
    BY <2>1
  <2>3. Raw(Migrated[q][j].id) = Raw(Migrated[p][i].id)
    BY <1>4, <2>2
  <2>4. Migrated[q][j].id = Migrated[p][i].id
    BY <2>3 DEF Raw
  <2>5. p = q /\ i = j
    BY <2>4, MigratedAssumption
  <2> QED
    BY <2>2, <2>5
<1> DEFINE Found(x) == CHOOSE m \in MigratedRows : m[1] = x
<1>5. rows = [x \in {m[1] : m \in MigratedRows} |-> Found(x)[2]]
  BY DEF Init
<1>6. s \in {m[1] : m \in MigratedRows}
  BY <1>3
<1>7. Found(s) = <<s, Row(p, i)>>
  BY <1>3, <1>4
<1> HIDE DEF Found
<1>8. rows[s] = Row(p, i)
  BY <1>5, <1>6, <1>7
<1> QED
  BY <1>2, <1>5, <1>6, <1>8

\* A migrated row is an element of a migrated definition.
LEMMA MigratedSource ==
  ASSUME Init, NEW s \in DOMAIN rows
  PROVE  \E p \in DOMAIN Migrated : \E i \in DOMAIN Migrated[p] : s = Raw(Migrated[p][i].id)
<1>1. DOMAIN rows = {m[1] : m \in MigratedRows}
  BY DEF Init
<1>2. PICK m \in MigratedRows : s = m[1]
  BY <1>1
<1>3. PICK p \in DOMAIN Migrated : \E i \in DOMAIN Migrated[p] : \E r : m = <<Raw(Migrated[p][i].id), r>>
  BY <1>2 DEF MigratedRows
<1> QED
  BY <1>2, <1>3

\* There are finitely many of them.
LEMMA MigratedFinite ==
  ASSUME Init
  PROVE  IsFiniteSet(DOMAIN rows)
<1> DEFINE Part(p) == {Raw(Migrated[p][i].id) : i \in DOMAIN Migrated[p]}
<1>1. ASSUME NEW p \in DOMAIN Migrated PROVE IsFiniteSet(Part(p))
  <2>1. Migrated[p] \in Sources
    BY DEF Sources, Range
  <2>2. PICK n \in Nat : DOMAIN Migrated[p] = 1..n
    BY <2>1, DefinitionTypes
  <2>3. PICK S, g : S = Part(p) /\ g = [i \in 1..n |-> Raw(Migrated[p][i].id)]
    OBVIOUS
  <2>4. g \in Surjection(1..n, S)
    BY <2>2, <2>3 DEF Surjection
  <2>5. IsFiniteSet(1..n)
    BY FS_Interval
  <2> QED
    BY <2>3, <2>4, <2>5, FS_Surjection
<1>2. \A s \in DOMAIN rows : \E p \in DOMAIN Migrated : s \in Part(p)
  BY MigratedSource
<1> HIDE DEF Part
<1>3. PICK ps, T, g : /\ ps = DOMAIN Migrated /\ T = {Part(p) : p \in ps}
                      /\ g = [p \in ps |-> Part(p)]
  OBVIOUS
<1>4. g \in Surjection(ps, T)
  BY <1>3 DEF Surjection
<1>5. IsFiniteSet(T)
  BY <1>3, <1>4, FS_Surjection, MigratedAssumption
<1>6. \A S \in T : IsFiniteSet(S)
  BY <1>1, <1>3
<1>7. IsFiniteSet(UNION T)
  BY <1>5, <1>6, FS_UNION
<1>8. DOMAIN rows \subseteq UNION T
  BY <1>2, <1>3
<1> QED
  BY <1>7, <1>8, FS_Subset

MigratedAs(p, i, e, s) ==
    /\ s \in DOMAIN rows /\ rows[s].poll = p /\ rows[s].position = i /\ ~rows[s].retired
    /\ DOMAIN rows[s] = {"poll", "type", "wording", "options", "position", "retired"}
    /\ e \in Elements /\ ContractElement(rows, s) = e
    /\ \A k \in DOMAIN rows[s].options : rows[s].options[k] = Raw(e.options[k])
    /\ DOMAIN rows[s].options = DOMAIN e.options

\* And each is read as that element.
LEMMA MigratedReading ==
  ASSUME Init, NEW p \in DOMAIN Migrated, NEW i \in DOMAIN Migrated[p],
         NEW e, e = Migrated[p][i], NEW s, s = Raw(e.id)
  PROVE  MigratedAs(p, i, e, s)
<1>1. PICK options : options = [k \in DOMAIN e.options |-> Raw(e.options[k])]
  OBVIOUS
<1>2. s \in DOMAIN rows /\ rows[s] = [poll |-> p, type |-> e.type, wording |-> e.wording,
                                      options |-> options, position |-> i, retired |-> FALSE]
  BY <1>1, MigratedRow
<1>3. e \in Elements
  BY DefinitionTypes, Migrated[p] \in Sources DEF Sources, Range
<1>4. \A k \in DOMAIN options : External(s, options[k]) = e.options[k]
  BY <1>1, ExternalNames
<1>5. [k \in DOMAIN options |-> External(s, options[k])] = e.options
  BY <1>1, <1>3, <1>4, ElementTypes
<1>6. External(p, s) = e.id
  BY ExternalNames
<1>7. ContractElement(rows, s) = [id |-> e.id, type |-> e.type, wording |-> e.wording,
                                   options |-> e.options]
  BY <1>2, <1>5, <1>6 DEF ContractElement
<1>8. ContractElement(rows, s) = e
  BY <1>3, <1>7, ElementTypes
<1>9. /\ rows[s].poll = p /\ rows[s].position = i /\ ~rows[s].retired
      /\ DOMAIN rows[s] = {"poll", "type", "wording", "options", "position", "retired"}
      /\ rows[s].options = options
  BY <1>2
<1>10. DOMAIN options = DOMAIN e.options
       /\ \A k \in DOMAIN options : options[k] = Raw(e.options[k])
  BY <1>1
<1> QED
  BY <1>2, <1>3, <1>8, <1>9, <1>10 DEF MigratedAs

\* The migrated polls read as their definitions.
LEMMA InitDefinitions == Init => DefinitionInv
<1> SUFFICES ASSUME Init PROVE DefinitionInv
  OBVIOUS
<1>1. created = DOMAIN Migrated
  BY DEF Init
<1>2. ASSUME NEW s \in DOMAIN rows
      PROVE  /\ DOMAIN rows[s] = {"poll", "type", "wording", "options", "position", "retired"}
             /\ rows[s].poll \in created /\ s = Raw(s.id) /\ ~rows[s].retired
             /\ ContractElement(rows, s) \in Elements
             /\ \A o \in Range(rows[s].options) : o # Text /\ o.space = Legacy
  <2>1. PICK p \in DOMAIN Migrated : \E i \in DOMAIN Migrated[p] : s = Raw(Migrated[p][i].id)
    BY MigratedSource
  <2>2. PICK i, e : i \in DOMAIN Migrated[p] /\ e = Migrated[p][i] /\ s = Raw(e.id)
    BY <2>1
  <2>3. /\ rows[s].poll = p /\ ~rows[s].retired
        /\ DOMAIN rows[s] = {"poll", "type", "wording", "options", "position", "retired"}
        /\ e \in Elements /\ ContractElement(rows, s) = e
        /\ \A k \in DOMAIN rows[s].options : rows[s].options[k] = Raw(e.options[k])
        /\ DOMAIN rows[s].options = DOMAIN e.options
    <3>1. MigratedAs(p, i, e, s)
      BY <2>2, MigratedReading
    <3> QED
      BY <3>1 DEF MigratedAs
  <2>4. \A k \in DOMAIN e.options : Text # Raw(e.options[k])
    BY <2>3, ElementTypes
  <2>5. \A o \in Range(rows[s].options) : o # Text /\ o.space = Legacy
    BY <2>3, <2>4, ExternalNames DEF Range
  <2> QED
    BY <1>1, <2>2, <2>3, <2>5, ExternalNames
<1>3. Named(rows, created)
  BY <1>2 DEF Named
<1>4. ASSUME NEW p \in created
      PROVE  \E d \in Sources : \E f : Reads(rows, p, d, f)
  <2>1. PICK d : d = Migrated[p] /\ d \in Sources
    BY <1>1 DEF Sources, Range
  <2>2. PICK f : f = [i \in DOMAIN d |-> Raw(d[i].id)]
    OBVIOUS
  <2>3. ASSUME NEW i \in DOMAIN d
        PROVE  /\ f[i] \in DOMAIN rows /\ rows[f[i]].poll = p /\ rows[f[i]].position = i
               /\ ~rows[f[i]].retired /\ ContractElement(rows, f[i]) = d[i]
    <3>1. PICK e, s : e = d[i] /\ s = Raw(e.id)
      OBVIOUS
    <3>2. /\ s \in DOMAIN rows /\ rows[s].poll = p /\ rows[s].position = i
          /\ ~rows[s].retired /\ ContractElement(rows, s) = e
      <4>1. MigratedAs(p, i, e, s)
        BY <1>1, <2>1, <3>1, MigratedReading
      <4> QED
        BY <4>1 DEF MigratedAs
    <3>3. f[i] = s
      BY <2>2, <3>1
    <3> QED
      BY <3>1, <3>2, <3>3
  <2>4. \A i, j \in DOMAIN d : f[i] = f[j] => i = j
    <3> TAKE i, j \in DOMAIN d
    <3>1. f[i] = f[j] => d[i].id = d[j].id
      BY <2>2 DEF Raw
    <3> QED
      BY <2>1, <3>1, DefinitionTypes
  <2>5. ASSUME NEW s \in DOMAIN rows, rows[s].poll = p
        PROVE  \E i \in DOMAIN d : s = f[i]
    <3>1. PICK q \in DOMAIN Migrated : \E i \in DOMAIN Migrated[q] : s = Raw(Migrated[q][i].id)
      BY MigratedSource
    <3>2. PICK i, e : i \in DOMAIN Migrated[q] /\ e = Migrated[q][i] /\ s = Raw(e.id)
      BY <3>1
    <3>3. q = p
      <4>1. MigratedAs(q, i, e, s)
        BY <3>2, MigratedReading
      <4> QED
        BY <2>5, <4>1 DEF MigratedAs
    <3> QED
      BY <2>1, <2>2, <3>2, <3>3
  <2>6. CurrentRows(rows, p) = {f[i] : i \in DOMAIN d}
    BY <2>3, <2>5 DEF CurrentRows, RowsOf
  <2>7. f \in [DOMAIN d -> DOMAIN rows]
    BY <2>2, <2>3
  <2> QED
    BY <2>1, <2>3, <2>4, <2>6, <2>7 DEF Reads
<1>5. ASSUME NEW a \in answers PROVE AnswerOK(a)
  <2>1. PICK v \in Voters, migratedVotes \in SUBSET DOMAIN rows :
           \E choice \in [migratedVotes -> UNION {Selections(rows, s) : s \in migratedVotes}] :
              /\ \A s \in migratedVotes : choice[s] \in Selections(rows, s)
              /\ answers = {MigratedAnswer(rows, v, s, choice[s]) : s \in migratedVotes}
    BY DEF Init
  <2>2. PICK s, chosen :
           s \in DOMAIN rows /\ chosen \in Selections(rows, s) /\ a = MigratedAnswer(rows, v, s, chosen)
    BY <2>1
  <2>3. PICK e, value : /\ e = ContractElement(rows, s)
                        /\ value = NormalizeAnswer(rows, s, chosen)
    OBVIOUS
  <2>4. a = [poll |-> rows[s].poll, voter |-> v, element |-> s, value |-> value,
             snapshot |-> None, seen |-> e, chosen |-> chosen]
    BY <2>2, <2>3 DEF MigratedAnswer
  <2>5. /\ a.poll = rows[s].poll /\ a.element = s /\ a.value = value
        /\ a.snapshot = None /\ a.seen = e
        /\ a = [poll |-> a.poll, voter |-> a.voter, element |-> a.element, value |-> a.value,
                snapshot |-> a.snapshot, seen |-> a.seen, chosen |-> a.chosen]
    BY <2>4
  <2>6. e.type = rows[s].type
    BY <2>3 DEF ContractElement
  <2>7. e.type = "choice" => \A o \in value : o # Text /\ o.space = Legacy
    BY <1>2, <2>2, <2>3, <2>6 DEF NormalizeAnswer
  <2>8. e.type = "choice" =>
           chosen \subseteq Range(e.options) /\ {External(s, o) : o \in value} = chosen
    <3> SUFFICES ASSUME e.type = "choice"
                 PROVE  chosen \subseteq Range(e.options) /\ {External(s, o) : o \in value} = chosen
      OBVIOUS
    <3>1. rows[s].type = "choice"
      BY <2>6
    <3>2. PICK rs : rs = rows
      OBVIOUS
    <3>3. /\ chosen \subseteq Range(ContractElement(rs, s).options)
          /\ {External(s, o) : o \in NormalizeAnswer(rs, s, chosen)} = chosen
      BY <2>2, <3>1, <3>2, ChoicesStored
    <3> QED
      BY <2>3, <3>2, <3>3
  <2>9. a.chosen = chosen
    BY <2>4
  <2> QED
    BY <1>2, <2>2, <2>3, <2>5, <2>7, <2>8, <2>9 DEF AnswerOK
<1>6. IsFiniteSet(answers)
  <2>1. PICK v \in Voters, migratedVotes \in SUBSET DOMAIN rows :
           \E choice \in [migratedVotes -> UNION {Selections(rows, s) : s \in migratedVotes}] :
              answers = {MigratedAnswer(rows, v, s, choice[s]) : s \in migratedVotes}
    BY DEF Init
  <2>2. PICK choice \in [migratedVotes -> UNION {Selections(rows, s) : s \in migratedVotes}] :
           answers = {MigratedAnswer(rows, v, s, choice[s]) : s \in migratedVotes}
    BY <2>1
  <2>3. PICK as, g : /\ as = answers
                     /\ g = [s \in migratedVotes |-> MigratedAnswer(rows, v, s, choice[s])]
    OBVIOUS
  <2>4. g \in Surjection(migratedVotes, as)
    BY <2>2, <2>3 DEF Surjection
  <2>5. IsFiniteSet(migratedVotes)
    BY MigratedFinite, FS_Subset
  <2> QED
    BY <2>3, <2>4, <2>5, FS_Surjection
<1> QED
  BY <1>3, <1>4, <1>5, <1>6 DEF DefinitionInv, Defined

-----------------------------------------------------------------------------
\* A poll reads as one of the definitions saved, and an answer as its voter gave it
\* (syncElements, backfillAnswerSnapshots, createResponse).
THEOREM DefinitionInvariant == Spec => []DefinitionInv
<1>1. DefinitionInv /\ [Next]_vars => DefinitionInv'
  <2> SUFFICES ASSUME DefinitionInv, [Next]_vars PROVE DefinitionInv'
    OBVIOUS
  <2>1. CASE UNCHANGED vars
    <3>1. UNCHANGED <<created, rows, answers>>
      BY <2>1 DEF vars
    <3> QED
      BY <3>1 DEF DefinitionInv, AnswerOK
  <2> QED
    BY <2>1, CreateKeeps, UpdateKeeps, VoteKeeps DEF Next
<1> QED
  BY InitDefinitions, <1>1, PTL DEF Spec

\* Whatever is saved, every answer is still there, at most with a snapshot it did not have
\* (syncElements, backfillAnswerSnapshots).
THEOREM AnswersAreNotLost == Spec => AnswersSurviveSaves
<1>1. DefinitionInv /\ [Next]_vars =>
        [\A a \in answers :
            \/ \E b \in answers' : b = [a EXCEPT !.snapshot = b.snapshot]
            \/ rows' = rows]_vars
  <2> SUFFICES ASSUME DefinitionInv, [Next]_vars, NEW a \in answers, vars' # vars
               PROVE  \/ \E b \in answers' : b = [a EXCEPT !.snapshot = b.snapshot]
                      \/ rows' = rows
    OBVIOUS
  <2>1. ASSUME NEW p \in Polls, CreatePoll(p)
        PROVE  \E b \in answers' : b = [a EXCEPT !.snapshot = b.snapshot]
    <3>1. a = [a EXCEPT !.snapshot = a.snapshot]
      BY DEF DefinitionInv, AnswerOK
    <3> QED
      BY <2>1, <3>1, CreateKeeps
  <2>2. ASSUME NEW p \in Polls, UpdatePoll(p)
        PROVE  \E b \in answers' : b = [a EXCEPT !.snapshot = b.snapshot]
    BY <2>2, UpdateKeeps
  <2>3. ASSUME NEW v \in Voters, NEW p \in Polls, Vote(v, p)
        PROVE  rows' = rows
    BY <2>3 DEF Vote
  <2> QED
    BY <2>1, <2>2, <2>3 DEF Next
<1> QED
  BY <1>1, DefinitionInvariant, PTL DEF Spec, AnswersSurviveSaves

-----------------------------------------------------------------------------
(* Reading the answers.                                                    *)

\* The contract of a poll and the reading of the aggregates are a definition.
ReadAs(p, d) ==
    /\ DOMAIN ContractPoll(rows, p) = DOMAIN d
    /\ \A i \in DOMAIN d : ContractPoll(rows, p)[i] = d[i]
    /\ \A i \in DOMAIN d : \E s \in CurrentRows(rows, p) : ContractElement(rows, s) = d[i]
    /\ \A s \in CurrentRows(rows, p) : \E i \in DOMAIN d : ContractElement(rows, s) = d[i]

\* contractPoll rebuilds the definition saved, whatever rows were retired.
LEMMA PollReading ==
  ASSUME DefinitionInv, NEW p \in created
  PROVE  \E d \in Sources : ReadAs(p, d)
<1>1. PICK d, f : d \in Sources /\ Reads(rows, p, d, f)
  BY DEF DefinitionInv, Defined
<1>2. /\ f \in [DOMAIN d -> DOMAIN rows]
      /\ \A i, j \in DOMAIN d : f[i] = f[j] => i = j
      /\ CurrentRows(rows, p) = {f[i] : i \in DOMAIN d}
      /\ \A i \in DOMAIN d : rows[f[i]].position = i /\ ContractElement(rows, f[i]) = d[i]
  BY <1>1 DEF Reads
<1>3. PICK n \in Nat : DOMAIN d = 1..n
  BY DefinitionTypes
<1>4. Cardinality(CurrentRows(rows, p)) = n
  <2>1. PICK S : S = CurrentRows(rows, p)
    OBVIOUS
  <2>2. f \in [1..n -> S] /\ \A s \in S : \E i \in 1..n : f[i] = s
    BY <1>2, <1>3, <2>1
  <2>3. f \in Injection(1..n, S)
    BY <1>2, <1>3, <2>2 DEF Injection, IsInjective
  <2>4. f \in Surjection(1..n, S)
    BY <2>2 DEF Surjection
  <2>5. ExistsBijection(1..n, S)
    BY <2>3, <2>4 DEF ExistsBijection, Bijection
  <2> QED
    BY <2>1, <2>5, FS_CountingElements
<1>5. ASSUME NEW i \in DOMAIN d
      PROVE  ContractPoll(rows, p)[i] = d[i]
  <2> DEFINE At == CHOOSE s \in CurrentRows(rows, p) : rows[s].position = i
  <2>1. f[i] \in CurrentRows(rows, p) /\ rows[f[i]].position = i
    BY <1>2
  <2>2. At \in CurrentRows(rows, p) /\ rows[At].position = i
    BY <2>1
  <2> HIDE DEF At
  <2>3. PICK j \in DOMAIN d : At = f[j]
    BY <1>2, <2>2
  <2>4. j = i
    BY <1>2, <2>2, <2>3
  <2>5. ContractElement(rows, At) = d[i]
    BY <1>2, <2>3, <2>4
  <2> QED
    BY <1>3, <1>4, <2>5 DEF ContractPoll, At
<1>6. DOMAIN ContractPoll(rows, p) = DOMAIN d
  BY <1>3, <1>4 DEF ContractPoll
<1>7. /\ \A i \in DOMAIN d : \E s \in CurrentRows(rows, p) : ContractElement(rows, s) = d[i]
      /\ \A s \in CurrentRows(rows, p) : \E i \in DOMAIN d : ContractElement(rows, s) = d[i]
  BY <1>2
<1> QED
  BY <1>1, <1>5, <1>6, <1>7 DEF ReadAs

\* The server and the pages find for every answer the element its voter saw.
LEMMA ElementsSeen ==
  ASSUME DefinitionInv, NEW a \in answers, NEW p, p = a.poll,
         NEW elements, elements = ContractPoll(rows, p),
         NEW reading, reading = OrderedReading(p)
  PROVE  /\ HistoricalElement(a, reading) = a.seen /\ a.seen # None
         /\ AnswerElement(ResultsAnswer(a), elements) = a.seen
<1>1. /\ AnswerOK(a) /\ p \in created /\ a.seen # None /\ a.seen \in Elements
      /\ a.element \in DOMAIN rows /\ rows[a.element].poll = p
  BY ElementTypes DEF DefinitionInv, AnswerOK, Named
<1>2. PICK row : row = ResultsAnswer(a)
  OBVIOUS
<1>3. row.element = a.snapshot /\ row.elementId = External(p, a.element)
  BY <1>2 DEF ResultsAnswer
<1>4. CASE a.snapshot # None
  <2>1. a.snapshot = a.seen
    BY <1>1, <1>4 DEF AnswerOK
  <2> QED
    BY <1>1, <1>2, <1>3, <1>4, <2>1 DEF HistoricalElement, AnswerElement
<1>5. CASE a.snapshot = None
  <2>1. PICK s : s = a.element
    OBVIOUS
  <2>2. s \in CurrentRows(rows, p) /\ a.seen = ContractElement(rows, s)
    BY <1>1, <1>5, <2>1 DEF AnswerOK, CurrentRows, RowsOf
  <2>3. HistoricalElement(a, reading) = a.seen
    BY <1>5, <2>1, <2>2 DEF HistoricalElement, OrderedReading
  <2>4. PICK d \in Sources : ReadAs(p, d)
    BY <1>1, PollReading
  <2>5. PICK i \in DOMAIN d : a.seen = d[i]
    BY <2>2, <2>4 DEF ReadAs
  <2>6. DOMAIN elements = DOMAIN d /\ \A j \in DOMAIN d : elements[j] = d[j]
    BY <2>4 DEF ReadAs
  <2>7. d[i].id = row.elementId
    BY <1>1, <1>3, <2>1, <2>2, <2>5 DEF ContractElement
  <2>8. \A j \in DOMAIN elements : elements[j].id = row.elementId => j = i
    BY <2>6, <2>7, DefinitionTypes
  <2>9. (CHOOSE j \in DOMAIN elements : elements[j].id = row.elementId) = i
    BY <2>6, <2>7, <2>8
  <2>10. AnswerElement(row, elements) = d[i]
    BY <1>3, <1>5, <2>6, <2>7, <2>9 DEF AnswerElement
  <2> QED
    BY <1>1, <1>2, <2>3, <2>5, <2>10
<1> QED
  BY <1>4, <1>5

\* The page and the server name the options of an answer alike.
LEMMA OptionsNamed ==
  ASSUME DefinitionInv, NEW a \in answers, NEW o \in Range(a.seen.options)
  PROVE  o \in ResultsAnswer(a).value <=> o \in AggregateValueKeys(a, a.seen)
<1>1. AnswerOK(a) /\ a.seen \in Elements /\ a.snapshot \in {None, a.seen}
  BY DEF DefinitionInv, AnswerOK
<1>2. a.seen.type = "choice" /\ a.seen # None
  BY <1>1, ElementTypes
<1>3. AggregateValueKeys(a, a.seen) = {External(a.element, v) : v \in a.value}
  BY <1>2 DEF AggregateValueKeys
<1>4. CASE a.snapshot # None
  <2>1. ResultsAnswer(a).value = {External(a.element, v) : v \in a.value}
    BY <1>1, <1>2, <1>4 DEF ResultsAnswer
  <2> QED
    BY <1>3, <2>1
<1>5. CASE a.snapshot = None
  <2>1. \A v \in a.value : v # Text /\ v.space = Legacy
    BY <1>1, <1>2, <1>5 DEF AnswerOK
  <2>2. ResultsAnswer(a).value = {IF v = Text THEN v ELSE Undecoded(v) : v \in a.value}
    BY <1>5 DEF ResultsAnswer
  <2>3. \A v \in a.value : External(a.element, v) = v.id /\ Undecoded(v) = v.id
    BY <2>1 DEF External, Undecoded
  <2>4. ResultsAnswer(a).value = {External(a.element, v) : v \in a.value}
    BY <2>1, <2>2, <2>3
  <2> QED
    BY <1>3, <2>4
<1> QED
  BY <1>4, <1>5

\* The answers of a poll whose voters saw an element.
SeenAs(p, e) == {a \in AnswersOf(p) : a.seen = e}

\* What the aggregates of the server are, in terms of what the voters saw.
Bucket(p, e, k) == {a \in SeenAs(p, e) : k \in AggregateValueKeys(a, e)}

\* An entry of the aggregates counts the answers whose voters saw its element.
LEMMA AggregatesSeen ==
  ASSUME DefinitionInv, NEW p, NEW reading, reading = OrderedReading(p),
         NEW g \in Aggregates(p, reading)
  PROVE  /\ g.element \in Range(reading) \cup {a.seen : a \in AnswersOf(p)}
         /\ g.answered = Cardinality(SeenAs(p, g.element))
         /\ DOMAIN g.buckets = UNION {AggregateValueKeys(a, g.element) : a \in SeenAs(p, g.element)}
         /\ \A k \in DOMAIN g.buckets : g.buckets[k] = Cardinality(Bucket(p, g.element, k))
<1>1. \A a \in AnswersOf(p) : HistoricalElement(a, reading) = a.seen /\ a.seen # None
  <2> TAKE a \in AnswersOf(p)
  <2>1. a \in answers /\ a.poll = p
    BY DEF AnswersOf
  <2> QED
    BY <2>1, ElementsSeen
<1> DEFINE counted == {a \in AnswersOf(p) : HistoricalElement(a, reading) # None}
           Given(e) == {a \in counted : HistoricalElement(a, reading) = e}
           Keys(e) == UNION {AggregateValueKeys(a, e) : a \in Given(e)}
           Count(e, k) == Cardinality({a \in Given(e) : k \in AggregateValueKeys(a, e)})
<1>2. counted = AnswersOf(p)
  BY <1>1
<1>3. \A e : Given(e) = SeenAs(p, e)
  BY <1>1, <1>2 DEF SeenAs
<1>4. Aggregates(p, reading) =
         {[element |-> e, answered |-> Cardinality(Given(e)),
           buckets |-> [k \in Keys(e) |-> Count(e, k)]] :
              e \in Range(reading) \cup {HistoricalElement(a, reading) : a \in counted}}
  BY DEF Aggregates
<1> HIDE DEF counted, Given
<1>5. \A e, k : Count(e, k) = Cardinality(Bucket(p, e, k))
  BY <1>3 DEF Bucket
<1>6. \A e : Keys(e) = UNION {AggregateValueKeys(a, e) : a \in SeenAs(p, e)}
  BY <1>3
<1> HIDE DEF Keys, Count
<1>7. PICK e \in Range(reading) \cup {HistoricalElement(a, reading) : a \in counted} :
         g = [element |-> e, answered |-> Cardinality(Given(e)),
              buckets |-> [k \in Keys(e) |-> Count(e, k)]]
  BY <1>4
<1>8. PICK buckets : buckets = [k \in Keys(e) |-> Count(e, k)]
  OBVIOUS
<1>9. g.element = e /\ g.answered = Cardinality(Given(e)) /\ g.buckets = buckets
  BY <1>7, <1>8
<1>10. e \in Range(reading) \cup {a.seen : a \in AnswersOf(p)}
  BY <1>1, <1>2, <1>7
<1>11. DOMAIN buckets = Keys(e) /\ \A k \in Keys(e) : buckets[k] = Count(e, k)
  BY <1>8
<1>12. g.answered = Cardinality(SeenAs(p, g.element))
  BY <1>3, <1>9
<1>13. DOMAIN g.buckets = UNION {AggregateValueKeys(a, g.element) : a \in SeenAs(p, g.element)}
  BY <1>6, <1>9, <1>11
<1>14. \A k \in DOMAIN g.buckets : g.buckets[k] = Cardinality(Bucket(p, g.element, k))
  BY <1>5, <1>9, <1>11
<1> QED
  BY <1>9, <1>10, <1>12, <1>13, <1>14

\* Every version has an entry.
LEMMA AggregatesComplete ==
  ASSUME DefinitionInv, NEW p, NEW reading, reading = OrderedReading(p),
         NEW e \in Range(reading) \cup {a.seen : a \in AnswersOf(p)}
  PROVE  \E g \in Aggregates(p, reading) : g.element = e
<1>1. \A a \in AnswersOf(p) : HistoricalElement(a, reading) = a.seen /\ a.seen # None
  <2> TAKE a \in AnswersOf(p)
  <2>1. a \in answers /\ a.poll = p
    BY DEF AnswersOf
  <2> QED
    BY <2>1, ElementsSeen
<1> DEFINE counted == {a \in AnswersOf(p) : HistoricalElement(a, reading) # None}
           Given(x) == {a \in counted : HistoricalElement(a, reading) = x}
           Buckets(x) == [k \in UNION {AggregateValueKeys(a, x) : a \in Given(x)} |->
                             Cardinality({a \in Given(x) : k \in AggregateValueKeys(a, x)})]
<1>2. e \in Range(reading) \cup {HistoricalElement(a, reading) : a \in counted}
  BY <1>1
<1>3. Aggregates(p, reading) =
         {[element |-> x, answered |-> Cardinality(Given(x)), buckets |-> Buckets(x)] :
              x \in Range(reading) \cup {HistoricalElement(a, reading) : a \in counted}}
  BY DEF Aggregates
<1> HIDE DEF counted, Given, Buckets
<1>4. PICK g : g = [element |-> e, answered |-> Cardinality(Given(e)), buckets |-> Buckets(e)]
  OBVIOUS
<1> QED
  BY <1>2, <1>3, <1>4

\* The summaries of the pages are the aggregates of the server, and count the answers
\* of the voters who saw each element (toPollResults, buildPollResultAggregates and
\* poll-result-formatting.ts).
THEOREM SummariesAgree == Spec => []SummariesAgreeWithAggregates
<1>1. DefinitionInv => SummariesAgreeWithAggregates
  <2> SUFFICES ASSUME DefinitionInv, NEW p \in created
               PROVE  LET entries == Aggregates(p, OrderedReading(p))
                      IN  /\ ElementVersions(p) = {g.element : g \in entries}
                          /\ \A g \in entries :
                                LET summary == QuestionSummary(p, g.element)
                                IN  /\ summary.answered = g.answered
                                    /\ summary.answered =
                                          Cardinality({a \in AnswersOf(p) : a.seen = g.element})
                                    /\ \A o \in Range(g.element.options) :
                                          summary.chart[o] = CountAt(g.buckets, o)
    BY DEF SummariesAgreeWithAggregates
  <2>1. PICK elements, reading : elements = ContractPoll(rows, p) /\ reading = OrderedReading(p)
    OBVIOUS
  <2>2. PICK d \in Sources : ReadAs(p, d)
    BY PollReading
  <2>3. \A a \in AnswersOf(p) : AnswerElement(ResultsAnswer(a), elements) = a.seen /\ a.seen # None
    <3> TAKE a \in AnswersOf(p)
    <3>1. a \in answers /\ a.poll = p
      BY DEF AnswersOf
    <3> QED
      BY <2>1, <3>1, ElementsSeen
  <2>4. Range(elements) = {d[i] : i \in DOMAIN d}
    BY <2>1, <2>2 DEF ReadAs, Range
  <2>5. Range(reading) = {d[i] : i \in DOMAIN d}
    BY <2>1, <2>2 DEF ReadAs, Range, OrderedReading
  <2>6. None \notin Range(elements)
    BY <2>4, DefinitionTypes, ElementTypes
  <2>7. ElementVersions(p) = Range(reading) \cup {a.seen : a \in AnswersOf(p)}
    BY <2>1, <2>3, <2>4, <2>5, <2>6 DEF ElementVersions
  <2>8. ElementVersions(p) = {g.element : g \in Aggregates(p, reading)}
    <3>1. \A g \in Aggregates(p, reading) : g.element \in ElementVersions(p)
      BY <2>1, <2>7, AggregatesSeen
    <3>2. \A e \in ElementVersions(p) : \E g \in Aggregates(p, reading) : g.element = e
      BY <2>1, <2>7, AggregatesComplete
    <3> QED
      BY <3>1, <3>2
  <2>9. ASSUME NEW g \in Aggregates(p, reading), NEW summary,
               summary = QuestionSummary(p, g.element)
        PROVE  /\ summary.answered = g.answered
               /\ summary.answered = Cardinality({a \in AnswersOf(p) : a.seen = g.element})
               /\ \A o \in Range(g.element.options) : summary.chart[o] = CountAt(g.buckets, o)
    <3>1. PICK e : e = g.element
      OBVIOUS
    <3>2. /\ g.answered = Cardinality(SeenAs(p, e))
          /\ DOMAIN g.buckets = UNION {AggregateValueKeys(a, e) : a \in SeenAs(p, e)}
          /\ \A k \in DOMAIN g.buckets : g.buckets[k] = Cardinality(Bucket(p, e, k))
      BY <2>1, <3>1, AggregatesSeen
    <3>3. {a \in AnswersOf(p) : AnswerElement(ResultsAnswer(a), elements) = e} = SeenAs(p, e)
      BY <2>3 DEF SeenAs
    <3> DEFINE Charted(o) == {a \in SeenAs(p, e) : o \in ResultsAnswer(a).value}
               chart == [o \in Range(e.options) |-> Cardinality(Charted(o))]
    <3>4. QuestionSummary(p, e) = [answered |-> Cardinality(SeenAs(p, e)), chart |-> chart]
      BY <2>1, <3>3 DEF QuestionSummary
    <3> HIDE DEF Charted
    <3>5. summary.answered = Cardinality(SeenAs(p, e)) /\ summary.chart = chart
      BY <2>9, <3>1, <3>4
    <3>6. ASSUME NEW o \in Range(e.options)
          PROVE  summary.chart[o] = CountAt(g.buckets, o)
      <4>1. Charted(o) = Bucket(p, e, o)
        <5>1. \A a \in SeenAs(p, e) : o \in ResultsAnswer(a).value <=> o \in AggregateValueKeys(a, e)
          <6> TAKE a \in SeenAs(p, e)
          <6>1. a \in answers /\ a.seen = e
            BY DEF SeenAs, AnswersOf
          <6> QED
            BY <6>1, OptionsNamed
        <5> QED
          BY <5>1 DEF Charted, Bucket
      <4>2. summary.chart[o] = Cardinality(Bucket(p, e, o))
        BY <3>5, <4>1
      <4>3. CASE o \in DOMAIN g.buckets
        BY <3>2, <4>2, <4>3 DEF CountAt
      <4>4. CASE o \notin DOMAIN g.buckets
        <5>1. Bucket(p, e, o) = {}
          BY <3>2, <4>4 DEF Bucket
        <5> QED
          BY <4>2, <4>4, <5>1, FS_EmptySet DEF CountAt
      <4> QED
        BY <4>3, <4>4
    <3> HIDE DEF chart
    <3> QED
      BY <3>1, <3>2, <3>5, <3>6 DEF SeenAs
  <2> QED
    BY <2>1, <2>8, <2>9
<1> QED
  BY <1>1, DefinitionInvariant, PTL

-----------------------------------------------------------------------------
(* Sums over the entries of the aggregates.                                *)

\* Induction over the naturals, by a least counterexample.
LEMMA LeastElement ==
  ASSUME NEW T, T \subseteq Nat, T # {}
  PROVE  \E n \in T : \A m \in T : n <= m
<1> DEFINE R == {ss \in Nat \X Nat : ss[1] < ss[2]}
<1>1. IsWellFoundedOn(R, Nat)
  BY NatLessThanWellFounded DEF OpToRel
<1>2. \A m, n \in Nat : m < n => <<m, n>> \in R
  OBVIOUS
<1> HIDE DEF R
<1>3. PICK n \in T : \A m \in T : ~(<<m, n>> \in R)
  BY <1>1, WFMin
<1>4. \A m \in T : ~(m < n)
  BY <1>2, <1>3
<1>5. \A m \in T : n <= m
  BY <1>4
<1> QED
  BY <1>5

\* The cells of g \in s taken together, and the sum of their numbers in the order in which
\* the community module takes the cells.
Cells(G, s) == UNION {G[g] : g \in s}

IsCells(S, G, n) ==
    /\ IsFiniteSet(S)
    /\ \A g \in S : IsFiniteSet(G[g]) /\ n[g] = Cardinality(G[g])
    /\ \A g, h \in S : g # h => G[g] \cap G[h] = {}

AnyOf(s) == CHOOSE x \in s : TRUE

Sums(S, n, iter) ==
    iter = [s \in SUBSET S |-> IF s = {} THEN 0 ELSE n[AnyOf(s)] + iter[s \ {AnyOf(s)}]]

\* One cell more.
LEMMA CellsAdd ==
  ASSUME NEW S, NEW G, NEW n, IsCells(S, G, n), NEW s \in SUBSET S, s # {},
         NEW x, x = AnyOf(s)
  PROVE  /\ x \in s /\ Cardinality(Cells(G, s)) = n[x] + Cardinality(Cells(G, s \ {x}))
         /\ IsFiniteSet(s) /\ Cardinality(s \ {x}) = Cardinality(s) - 1
         /\ Cardinality(Cells(G, s)) \in Nat /\ n[x] \in Nat
<1>1. x \in s
  BY DEF AnyOf
<1>2. IsFiniteSet(s)
  BY FS_Subset DEF IsCells
<1>3. Cardinality(s \ {x}) = Cardinality(s) - 1 /\ IsFiniteSet(s \ {x})
  BY <1>1, <1>2, FS_RemoveElement
<1>4. ASSUME NEW t \in SUBSET S, IsFiniteSet(t)
      PROVE  IsFiniteSet(Cells(G, t))
  <2>1. PICK img : img = {G[g] : g \in t}
    OBVIOUS
  <2>2. [g \in t |-> G[g]] \in Surjection(t, img)
    BY <2>1 DEF Surjection
  <2>3. IsFiniteSet(img)
    BY <1>4, <2>2, FS_Surjection
  <2>4. \A c \in img : IsFiniteSet(c)
    BY <2>1 DEF IsCells
  <2> QED
    BY <2>1, <2>3, <2>4, FS_UNION DEF Cells
<1>5. /\ IsFiniteSet(Cells(G, s)) /\ IsFiniteSet(Cells(G, s \ {x}))
      /\ IsFiniteSet(G[x]) /\ n[x] = Cardinality(G[x])
  BY <1>1, <1>2, <1>3, <1>4 DEF IsCells
<1>6. Cells(G, s) = G[x] \cup Cells(G, s \ {x})
  BY <1>1 DEF Cells
<1>7. G[x] \cap Cells(G, s \ {x}) = {}
  BY <1>1 DEF Cells, IsCells
<1>8. Cardinality(Cells(G, s)) = Cardinality(G[x]) + Cardinality(Cells(G, s \ {x})) - 0
  <2>1. PICK A, B : A = G[x] /\ B = Cells(G, s \ {x})
    OBVIOUS
  <2>2. Cardinality(A \cup B) = Cardinality(A) + Cardinality(B) - Cardinality(A \cap B)
    BY <1>5, <2>1, FS_Union
  <2>3. A \cap B = {} /\ A \cup B = Cells(G, s)
    BY <1>6, <1>7, <2>1
  <2> QED
    BY <2>1, <2>2, <2>3, FS_EmptySet
<1>9. Cardinality(G[x]) \in Nat /\ Cardinality(Cells(G, s)) \in Nat
      /\ Cardinality(Cells(G, s \ {x})) \in Nat
  BY <1>5, FS_CardinalityType
<1> QED
  BY <1>1, <1>2, <1>3, <1>5, <1>8, <1>9

\* There is such a sum.
LEMMA CellsSum ==
  ASSUME NEW S, NEW G, NEW n, IsCells(S, G, n)
  PROVE  \E iter : Sums(S, n, iter)
<1>1. PICK F : F = [s \in SUBSET S |-> Cardinality(Cells(G, s))]
  OBVIOUS
<1>2. ASSUME NEW s \in SUBSET S
      PROVE  F[s] = IF s = {} THEN 0 ELSE n[AnyOf(s)] + F[s \ {AnyOf(s)}]
  <2>1. CASE s = {}
    <3>1. Cells(G, s) = {}
      BY <2>1 DEF Cells
    <3> QED
      BY <1>1, <2>1, <3>1, FS_EmptySet
  <2>2. CASE s # {}
    <3>1. PICK x : x = AnyOf(s)
      OBVIOUS
    <3>2. F[s] = n[x] + Cardinality(Cells(G, s \ {x}))
      BY <1>1, <2>2, <3>1, CellsAdd
    <3>3. F[s \ {x}] = Cardinality(Cells(G, s \ {x}))
      BY <1>1
    <3> QED
      BY <2>2, <3>1, <3>2, <3>3
  <2> QED
    BY <2>1, <2>2
<1>3. Sums(S, n, F)
  <2>1. PICK H : H = [s \in SUBSET S |-> IF s = {} THEN 0 ELSE n[AnyOf(s)] + F[s \ {AnyOf(s)}]]
    OBVIOUS
  <2>2. \A s \in SUBSET S : F[s] = H[s]
    BY <1>2, <2>1
  <2>3. F = H
    BY <1>1, <2>1, <2>2
  <2> QED
    BY <2>1, <2>3 DEF Sums
<1> QED
  BY <1>3

\* And it counts the cells taken together, by induction on how many there are.
LEMMA CellsCounted ==
  ASSUME NEW S, NEW G, NEW n, IsCells(S, G, n), NEW iter, Sums(S, n, iter)
  PROVE  iter[S] = Cardinality(Cells(G, S))
<1> DEFINE Wrong == {s \in SUBSET S : iter[s] # Cardinality(Cells(G, s))}
           Sizes == {Cardinality(s) : s \in Wrong}
<1>1. \A s \in SUBSET S : IsFiniteSet(s) /\ Cardinality(s) \in Nat
  BY FS_Subset, FS_CardinalityType DEF IsCells
<1>2. \A s \in SUBSET S : iter[s] = IF s = {} THEN 0 ELSE n[AnyOf(s)] + iter[s \ {AnyOf(s)}]
  BY DEF Sums
<1>3. SUFFICES ASSUME Wrong # {} PROVE FALSE
  OBVIOUS
<1>4. PICK k \in Sizes : \A m \in Sizes : k <= m
  <2>1. Sizes \subseteq Nat /\ Sizes # {}
    BY <1>1, <1>3
  <2> HIDE DEF Sizes
  <2> QED
    BY <2>1, LeastElement
<1>5. PICK s \in Wrong : k = Cardinality(s)
  OBVIOUS
<1>6. CASE s = {}
  <2>1. Cells(G, s) = {}
    BY <1>6 DEF Cells
  <2> QED
    BY <1>2, <1>5, <1>6, <2>1, FS_EmptySet
<1>7. CASE s # {}
  <2>1. PICK x : x = AnyOf(s)
    OBVIOUS
  <2>2. /\ Cardinality(Cells(G, s)) = n[x] + Cardinality(Cells(G, s \ {x}))
        /\ Cardinality(s \ {x}) = k - 1
    BY <1>5, <1>7, <2>1, CellsAdd
  <2>3. k \in Nat /\ s \ {x} \in SUBSET S
    BY <1>1, <1>5
  <2>4. s \ {x} \notin Wrong
    BY <1>4, <2>2, <2>3
  <2>5. iter[s] = n[x] + Cardinality(Cells(G, s \ {x}))
    BY <1>2, <1>7, <2>1, <2>3, <2>4
  <2> QED
    BY <2>2, <2>5
<1> QED
  BY <1>6, <1>7

\* A community sum over a set of entries whose numbers count disjoint cells.
LEMMA AnsweredSum ==
  ASSUME NEW S, NEW G, NEW n, n = [g \in S |-> g.answered], IsCells(S, G, n)
  PROVE  TotalAnswered(S) = Cardinality(Cells(G, S))
<1> DEFINE Step(iter) == [s \in SUBSET S |->
                            IF s = {} THEN 0
                            ELSE LET x == CHOOSE x \in s : TRUE IN x.answered + iter[s \ {x}]]
           Summed == CHOOSE iter : iter = Step(iter)
<1>1. TotalAnswered(S) = Summed[S]
  BY DEF TotalAnswered, MapThenSumSet, MapThenFoldSet
<1>2. ASSUME NEW iter PROVE Sums(S, n, iter) <=> iter = Step(iter)
  <2>1. ASSUME NEW s \in SUBSET S, s # {}
        PROVE  AnyOf(s) \in S /\ n[AnyOf(s)] = AnyOf(s).answered
    BY <2>1 DEF AnyOf
  <2>2. \A s \in SUBSET S :
           (IF s = {} THEN 0 ELSE n[AnyOf(s)] + iter[s \ {AnyOf(s)}])
             = (IF s = {} THEN 0 ELSE LET x == CHOOSE x \in s : TRUE IN x.answered + iter[s \ {x}])
    BY <2>1 DEF AnyOf
  <2>3. [s \in SUBSET S |-> IF s = {} THEN 0 ELSE n[AnyOf(s)] + iter[s \ {AnyOf(s)}]] = Step(iter)
    BY <2>2
  <2> HIDE DEF Step
  <2> QED
    BY <2>3 DEF Sums
<1>3. \E iter : iter = Step(iter)
  <2> HIDE DEF Step
  <2> QED
    BY <1>2, CellsSum
<1> HIDE DEF Step
<1>4. Summed = Step(Summed)
  BY <1>3
<1> HIDE DEF Summed
<1> QED
  BY <1>1, <1>2, <1>4, CellsCounted
\* The answers counted by disjoint entries are counted once.
LEMMA ChosenSum ==
  ASSUME NEW S, NEW G, NEW k, NEW n,
         n = [g \in S |-> CountAt(g.buckets, k)], IsCells(S, G, n)
  PROVE  TotalChosen(S, k) = Cardinality(Cells(G, S))
<1> DEFINE Step(iter) == [s \in SUBSET S |->
                            IF s = {} THEN 0
                            ELSE LET x == CHOOSE x \in s : TRUE IN CountAt(x.buckets, k) + iter[s \ {x}]]
           Summed == CHOOSE iter : iter = Step(iter)
<1>1. TotalChosen(S, k) = Summed[S]
  BY DEF TotalChosen, MapThenSumSet, MapThenFoldSet
<1>2. ASSUME NEW iter PROVE Sums(S, n, iter) <=> iter = Step(iter)
  <2>1. ASSUME NEW s \in SUBSET S, s # {}
        PROVE  AnyOf(s) \in S /\ n[AnyOf(s)] = CountAt(AnyOf(s).buckets, k)
    BY <2>1 DEF AnyOf
  <2>2. \A s \in SUBSET S :
           (IF s = {} THEN 0 ELSE n[AnyOf(s)] + iter[s \ {AnyOf(s)}])
             = (IF s = {} THEN 0 ELSE LET x == CHOOSE x \in s : TRUE IN CountAt(x.buckets, k) + iter[s \ {x}])
    BY <2>1 DEF AnyOf
  <2>3. [s \in SUBSET S |-> IF s = {} THEN 0 ELSE n[AnyOf(s)] + iter[s \ {AnyOf(s)}]] = Step(iter)
    BY <2>2
  <2> HIDE DEF Step
  <2> QED
    BY <2>3 DEF Sums
<1>3. \E iter : iter = Step(iter)
  <2> HIDE DEF Step
  <2> QED
    BY <1>2, CellsSum
<1> HIDE DEF Step
<1>4. Summed = Step(Summed)
  BY <1>3
<1> HIDE DEF Summed
<1> QED
  BY <1>1, <1>2, <1>4, CellsCounted

-----------------------------------------------------------------------------
\* Versions are compared up to the order of their options.
LEMMA SameQuestions ==
  /\ \A e : SameQuestion(e, e)
  /\ \A e, f : SameQuestion(e, f) => SameQuestion(f, e) /\ e.type = f.type
                                     /\ Range(e.options) = Range(f.options)
  /\ \A e, f, g : SameQuestion(e, f) /\ SameQuestion(f, g) => SameQuestion(e, g)
BY DEF SameQuestion

\* The server reads the current elements, their options in any order.
LEMMA ElementsRead ==
  ASSUME DefinitionInv, NEW p \in created, NEW reading \in Readings(p),
         NEW s \in CurrentRows(rows, p), NEW e, e = ContractElement(rows, s)
  PROVE  /\ DOMAIN reading = CurrentRows(rows, p)
         /\ reading[s] # None /\ SameQuestion(reading[s], e)
<1> DEFINE Orders(t) == {g \in [DOMAIN rows[t].options -> DOMAIN rows[t].options] : IsInjective(g)}
           Read(t, f) == [ContractElement(rows, t) EXCEPT
                            !.options = [i \in DOMAIN @ |-> @[f[i]]]]
           Orderings(t) == {Read(t, f) : f \in Orders(t)}
<1>1. /\ reading \in [CurrentRows(rows, p) ->
                        UNION {Orderings(t) : t \in CurrentRows(rows, p)}]
      /\ \A t \in DOMAIN reading : reading[t].id = External(p, t)
  BY DEF Readings
<1>2. s \in DOMAIN rows /\ rows[s].poll = p /\ e \in Elements
  BY DEF CurrentRows, RowsOf, DefinitionInv, Named
<1> HIDE DEF Read
<1>3. PICK t \in CurrentRows(rows, p) : reading[s] \in Orderings(t)
  <2> HIDE DEF Orderings
  <2>1. reading[s] \in UNION {Orderings(t) : t \in CurrentRows(rows, p)}
    BY <1>1
  <2> QED
    BY <2>1
<1>4. PICK f \in Orders(t) : reading[s] = Read(t, f)
  BY <1>3
<1>5. t \in DOMAIN rows /\ rows[t].poll = p /\ ContractElement(rows, t) \in Elements
  BY DEF CurrentRows, RowsOf, DefinitionInv, Named
<1>6. PICK r : r = ContractElement(rows, t)
  OBVIOUS
<1>7. Read(t, f) = [id |-> r.id, type |-> r.type, wording |-> r.wording,
                    options |-> [i \in DOMAIN r.options |-> r.options[f[i]]]]
  <2>1. r = [id |-> r.id, type |-> r.type, wording |-> r.wording, options |-> r.options]
    BY <1>5, <1>6, ElementTypes
  <2> QED
    BY <1>6, <2>1 DEF Read
<1>8. s = t
  <2>1. reading[s].id = External(p, s) /\ reading[s].id = r.id
    BY <1>1, <1>4, <1>7
  <2>2. r.id = External(p, t)
    BY <1>5, <1>6 DEF ContractElement
  <2>3. External(p, s) = s.id /\ External(p, t) = t.id
    BY <1>2, <1>5, ExternalNames DEF DefinitionInv, Named
  <2> QED
    BY <1>2, <1>5, <2>1, <2>2, <2>3 DEF DefinitionInv, Named
<1>9. r = e
  BY <1>6, <1>8
<1>10. PICK n \in Nat : DOMAIN e.options = 1..n
  BY <1>2, ElementTypes
<1>11. f \in [1..n -> 1..n] /\ \A i, j \in 1..n : f[i] = f[j] => i = j
  <2>1. DOMAIN rows[t].options = 1..n
    BY <1>8, <1>10 DEF ContractElement
  <2>2. f \in [1..n -> 1..n] /\ IsInjective(f)
    BY <2>1
  <2> QED
    BY <2>2 DEF IsInjective
<1>12. \A j \in 1..n : \E i \in 1..n : f[i] = j
  <2>1. f \in Injection(1..n, 1..n)
    BY <1>11 DEF Injection
  <2>2. IsFiniteSet(1..n)
    BY <1>10, FS_Interval
  <2>3. f \in Surjection(1..n, 1..n)
    BY <2>1, <2>2, FS_Injection
  <2> QED
    BY <2>3 DEF Surjection
<1>13. PICK options : options = [i \in 1..n |-> e.options[f[i]]]
  OBVIOUS
<1>14. Range(options) = Range(e.options)
  <2>1. /\ Range(options) = {options[i] : i \in 1..n}
        /\ Range(e.options) = {e.options[i] : i \in 1..n}
    BY <1>10, <1>13 DEF Range
  <2>2. \A i \in 1..n : f[i] \in 1..n /\ options[i] = e.options[f[i]]
    BY <1>11, <1>13
  <2>3. \A j \in 1..n : \E i \in 1..n : options[i] = e.options[j]
    BY <1>12, <2>2
  <2> QED
    BY <2>1, <2>2, <2>3
<1>15. reading[s] = [id |-> e.id, type |-> e.type, wording |-> e.wording, options |-> options]
  BY <1>4, <1>7, <1>9, <1>10, <1>13
<1>16. SameQuestion(reading[s], e)
  BY <1>14, <1>15 DEF SameQuestion
<1>17. reading[s] # None
  <2>1. PICK names : names = UNION {Range(x.options) : x \in Elements}
    OBVIOUS
  <2>2. e.options \in Seq(names)
    BY <1>2, <2>1, ElementsAssumption
  <2>3. options \in Seq(names)
    <3>1. options \in [1..n -> names]
      BY <1>10, <1>11, <1>13, <2>2
    <3> QED
      BY <3>1
  <2>4. PICK ids, wordings : ids = {x.id : x \in Elements} /\ wordings = {x.wording : x \in Elements}
    OBVIOUS
  <2>5. e.id \in ids /\ e.wording \in wordings /\ e.type \in {"choice", "text"}
    BY <1>2, <2>4, ElementTypes
  <2>6. reading[s] \in [id : ids, type : {"choice", "text"}, wording : wordings,
                        options : Seq(names)]
    BY <1>15, <2>3, <2>5
  <2> QED
    BY <2>1, <2>4, <2>6, ElementsAssumption
<1> QED
  BY <1>1, <1>16, <1>17

\* The version the server counts an answer under asks what its voter saw.
LEMMA VersionsRead ==
  ASSUME DefinitionInv, NEW p \in created, NEW reading \in Readings(p),
         NEW a \in AnswersOf(p), NEW e, e = HistoricalElement(a, reading)
  PROVE  e # None /\ SameQuestion(e, a.seen)
<1>1. AnswerOK(a) /\ a.poll = p
  BY DEF AnswersOf, DefinitionInv
<1>2. a.seen # None
  BY <1>1, ElementTypes DEF AnswerOK
<1>3. CASE a.snapshot # None
  BY <1>1, <1>2, <1>3, SameQuestions DEF AnswerOK, HistoricalElement
<1>4. CASE a.snapshot = None
  <2>1. PICK s : s = a.element
    OBVIOUS
  <2>2. s \in CurrentRows(rows, p) /\ a.seen = ContractElement(rows, s)
    BY <1>1, <1>4, <2>1 DEF AnswerOK, CurrentRows, RowsOf
  <2>3. DOMAIN reading = CurrentRows(rows, p) /\ reading[s] # None /\ SameQuestion(reading[s], a.seen)
    BY <2>2, ElementsRead
  <2>4. e = reading[s]
    BY <1>4, <2>1, <2>2, <2>3 DEF HistoricalElement
  <2> QED
    BY <2>3, <2>4
<1> QED
  BY <1>3, <1>4

\* The answers the server counts under a version, and those of them with an option.
Given(p, reading, e) == {a \in AnswersOf(p) : HistoricalElement(a, reading) = e}

GivenWith(p, reading, e, k) == {a \in Given(p, reading, e) : k \in AggregateValueKeys(a, e)}

Versions(p, reading) == Range(reading) \cup {HistoricalElement(a, reading) : a \in AnswersOf(p)}

Entry(p, reading, e) ==
    [element  |-> e,
     answered |-> Cardinality(Given(p, reading, e)),
     buckets  |-> [k \in UNION {AggregateValueKeys(a, e) : a \in Given(p, reading, e)} |->
                      Cardinality(GivenWith(p, reading, e, k))]]

\* The aggregates hold one entry for each version.
LEMMA EntriesRead ==
  ASSUME DefinitionInv, NEW p \in created, NEW reading \in Readings(p)
  PROVE  Aggregates(p, reading) = {Entry(p, reading, e) : e \in Versions(p, reading)}
<1> DEFINE counted == {a \in AnswersOf(p) : HistoricalElement(a, reading) # None}
           Of(e) == {a \in counted : HistoricalElement(a, reading) = e}
<1>1. counted = AnswersOf(p)
  BY VersionsRead
<1>2. \A e : Of(e) = Given(p, reading, e)
  BY <1>1 DEF Given
<1>3. Aggregates(p, reading) =
         {[element |-> e, answered |-> Cardinality(Of(e)),
           buckets |-> [k \in UNION {AggregateValueKeys(a, e) : a \in Of(e)} |->
                           Cardinality({a \in Of(e) : k \in AggregateValueKeys(a, e)})]] :
              e \in Range(reading) \cup {HistoricalElement(a, reading) : a \in counted}}
  BY DEF Aggregates
<1> HIDE DEF counted, Of
<1> DEFINE Made(e) == [element |-> e, answered |-> Cardinality(Of(e)),
                       buckets |-> [k \in UNION {AggregateValueKeys(a, e) : a \in Of(e)} |->
                           Cardinality({a \in Of(e) : k \in AggregateValueKeys(a, e)})]]
<1>4. \A e : Made(e) = Entry(p, reading, e)
  BY <1>2 DEF Entry, GivenWith
<1>5. Versions(p, reading) = Range(reading) \cup {HistoricalElement(a, reading) : a \in counted}
  BY <1>1 DEF Versions
<1>6. Aggregates(p, reading) = {Made(e) : e \in Versions(p, reading)}
  BY <1>3, <1>5
<1> HIDE DEF Made
<1> QED
  BY <1>4, <1>6

\* The keys under which the server counts an answer are what its voter chose.
LEMMA KeysRead ==
  ASSUME DefinitionInv, NEW p \in created, NEW reading \in Readings(p), NEW e,
         NEW a \in Given(p, reading, e)
  PROVE  /\ a \in AnswersOf(p) /\ SameQuestion(e, a.seen)
         /\ AggregateValueKeys(a, e) \subseteq Range(e.options)
         /\ \A k \in Range(e.options) : k \in AggregateValueKeys(a, e) <=> k \in a.chosen
<1>1. a \in AnswersOf(p) /\ e = HistoricalElement(a, reading)
  BY DEF Given
<1>2. SameQuestion(e, a.seen) /\ e.type = a.seen.type /\ Range(e.options) = Range(a.seen.options)
  BY <1>1, VersionsRead, SameQuestions
<1>3. AnswerOK(a)
  BY <1>1 DEF AnswersOf, DefinitionInv
<1>4. a.seen.type \in {"choice", "text"} /\ (a.seen.type = "text" => Range(a.seen.options) = {})
  BY <1>3, ElementTypes DEF AnswerOK
<1>5. CASE e.type = "text"
  BY <1>1, <1>2, <1>4, <1>5 DEF AggregateValueKeys
<1>6. CASE e.type = "choice"
  <2>1. AggregateValueKeys(a, e) = {External(a.element, o) : o \in a.value}
    BY <1>6 DEF AggregateValueKeys
  <2>2. AggregateValueKeys(a, e) = a.chosen /\ a.chosen \subseteq Range(e.options)
    BY <1>2, <1>3, <1>6, <2>1 DEF AnswerOK
  <2> QED
    BY <1>1, <1>2, <2>2
<1> QED
  BY <1>2, <1>4, <1>5, <1>6

\* What an entry counts.
LEMMA EntryCounts ==
  ASSUME DefinitionInv, NEW p \in created, NEW reading \in Readings(p), NEW e,
         NEW g, g = Entry(p, reading, e)
  PROVE  /\ g.element = e /\ g.answered = Cardinality(Given(p, reading, e))
         /\ IsFiniteSet(Given(p, reading, e))
         /\ DOMAIN g.buckets \subseteq Range(e.options)
         /\ \A k : /\ IsFiniteSet(GivenWith(p, reading, e, k))
                   /\ CountAt(g.buckets, k) = Cardinality(GivenWith(p, reading, e, k))
<1>1. PICK buckets : buckets = [k \in UNION {AggregateValueKeys(a, e) : a \in Given(p, reading, e)} |->
                                  Cardinality(GivenWith(p, reading, e, k))]
  OBVIOUS
<1>2. g.element = e /\ g.answered = Cardinality(Given(p, reading, e)) /\ g.buckets = buckets
  BY <1>1 DEF Entry
<1>3. Given(p, reading, e) \subseteq answers
  BY DEF Given, AnswersOf
<1>4. IsFiniteSet(Given(p, reading, e))
  BY <1>3, FS_Subset DEF DefinitionInv
<1>5. \A k : GivenWith(p, reading, e, k) \subseteq answers
  BY <1>3 DEF GivenWith
<1>6. \A k : IsFiniteSet(GivenWith(p, reading, e, k))
  BY <1>5, FS_Subset DEF DefinitionInv
<1>7. DOMAIN buckets = UNION {AggregateValueKeys(a, e) : a \in Given(p, reading, e)}
  BY <1>1
<1>8. DOMAIN buckets \subseteq Range(e.options)
  BY <1>7, KeysRead
<1>9. ASSUME NEW k PROVE CountAt(buckets, k) = Cardinality(GivenWith(p, reading, e, k))
  <2>1. CASE k \in DOMAIN buckets
    BY <1>1, <2>1 DEF CountAt
  <2>2. CASE k \notin DOMAIN buckets
    <3>1. GivenWith(p, reading, e, k) = {}
      BY <1>7, <2>2 DEF GivenWith
    <3> QED
      BY <2>2, <3>1, FS_EmptySet DEF CountAt
  <2> QED
    BY <2>1, <2>2
<1> QED
  BY <1>2, <1>4, <1>6, <1>8, <1>9

\* There are finitely many entries.
LEMMA AggregatesFinite ==
  ASSUME DefinitionInv, NEW p \in created, NEW reading \in Readings(p)
  PROVE  IsFiniteSet(Aggregates(p, reading))
<1>1. IsFiniteSet(Range(reading))
  <2>1. PICK D, S : D = CurrentRows(rows, p) /\ S = Range(reading)
    OBVIOUS
  <2>2. DOMAIN reading = D /\ reading = [s \in D |-> reading[s]]
    BY <2>1 DEF Readings
  <2>3. reading \in Surjection(D, S)
    BY <2>1, <2>2 DEF Surjection, Range
  <2>4. IsFiniteSet(D)
    BY <2>1, CurrentRowsFinite DEF DefinitionInv
  <2> QED
    BY <2>1, <2>3, <2>4, FS_Surjection
<1>2. IsFiniteSet({HistoricalElement(a, reading) : a \in AnswersOf(p)})
  <2>1. PICK A, S, f : /\ A = AnswersOf(p) /\ S = {HistoricalElement(a, reading) : a \in A}
                       /\ f = [a \in A |-> HistoricalElement(a, reading)]
    OBVIOUS
  <2>2. f \in Surjection(A, S)
    BY <2>1 DEF Surjection
  <2>3. IsFiniteSet(A)
    BY <2>1, FS_Subset DEF AnswersOf, DefinitionInv
  <2> QED
    BY <2>1, <2>2, <2>3, FS_Surjection
<1>3. IsFiniteSet(Versions(p, reading))
  BY <1>1, <1>2, FS_Union DEF Versions
<1>4. PICK V, S, f : /\ V = Versions(p, reading) /\ S = {Entry(p, reading, e) : e \in V}
                     /\ f = [e \in V |-> Entry(p, reading, e)]
  OBVIOUS
<1>5. f \in Surjection(V, S)
  BY <1>4 DEF Surjection
<1> QED
  BY <1>3, <1>4, <1>5, EntriesRead, FS_Surjection

\* The entries of one question count the answers given to it.
LEMMA EntriesCounted ==
  ASSUME DefinitionInv, NEW p \in created, NEW reading \in Readings(p),
         NEW entries, entries = Aggregates(p, reading), NEW e,
         NEW same, same = {g \in entries : SameQuestion(g.element, e)},
         NEW seen, seen = {a \in AnswersOf(p) : SameQuestion(a.seen, e)}
  PROVE  EntriesCount(p, entries, e)
<1>1. \A g \in same : g \in entries /\ g = Entry(p, reading, g.element)
                      /\ SameQuestion(g.element, e)
  <2> SUFFICES ASSUME NEW g \in same PROVE g = Entry(p, reading, g.element)
    OBVIOUS
  <2>1. PICK x \in Versions(p, reading) : g = Entry(p, reading, x)
    BY EntriesRead
  <2>2. g.element = x
    BY <2>1, EntryCounts
  <2> QED
    BY <2>1, <2>2
<1>2. IsFiniteSet(same)
  BY AggregatesFinite, FS_Subset
<1>3. \A g, h \in same : g # h => g.element # h.element
  BY <1>1
<1>4. \A a \in seen : \E g \in same : a \in Given(p, reading, g.element)
  <2> TAKE a \in seen
  <2>1. PICK x : x = HistoricalElement(a, reading)
    OBVIOUS
  <2>2. x \in Versions(p, reading) /\ a \in Given(p, reading, x)
    BY <2>1 DEF Versions, Given
  <2>3. SameQuestion(x, e)
    BY <2>1, VersionsRead, SameQuestions
  <2>4. PICK g : g = Entry(p, reading, x)
    OBVIOUS
  <2>5. g \in entries /\ g.element = x
    BY <2>2, <2>4, EntriesRead, EntryCounts
  <2> QED
    BY <2>2, <2>3, <2>5
<1>5. \A g \in same : \A a \in Given(p, reading, g.element) : a \in seen
  <2> TAKE g \in same
  <2> TAKE a \in Given(p, reading, g.element)
  <2>1. PICK x : x = g.element
    OBVIOUS
  <2>2. a \in AnswersOf(p) /\ SameQuestion(x, a.seen) /\ SameQuestion(x, e)
    BY <1>1, <2>1, KeysRead
  <2> QED
    BY <2>2, SameQuestions
<1>6. TotalAnswered(same) = Cardinality(seen)
  <2>1. PICK G, n : /\ G = [g \in same |-> Given(p, reading, g.element)]
                    /\ n = [g \in same |-> g.answered]
    OBVIOUS
  <2>2. \A g \in same : IsFiniteSet(G[g]) /\ n[g] = Cardinality(G[g])
    BY <1>1, <2>1, EntryCounts
  <2>3. \A g, h \in same : g # h => G[g] \cap G[h] = {}
    BY <1>3, <2>1 DEF Given
  <2>4. IsCells(same, G, n)
    BY <1>2, <2>2, <2>3 DEF IsCells
  <2>5. Cells(G, same) = seen
    BY <1>4, <1>5, <2>1 DEF Cells
  <2>6. TotalAnswered(same) = Cardinality(Cells(G, same))
    BY <2>1, <2>4, AnsweredSum
  <2> QED
    BY <2>5, <2>6
<1>7. \A g \in same : DOMAIN g.buckets \subseteq Range(e.options)
  <2> TAKE g \in same
  <2>1. DOMAIN g.buckets \subseteq Range(g.element.options)
    BY <1>1, EntryCounts
  <2> QED
    BY <1>1, <2>1, SameQuestions
<1>8. ASSUME NEW k \in Range(e.options)
      PROVE  TotalChosen(same, k)
               = Cardinality({a \in seen : k \in a.chosen})
  <2>1. PICK G, n : /\ G = [g \in same |-> GivenWith(p, reading, g.element, k)]
                    /\ n = [g \in same |-> CountAt(g.buckets, k)]
    OBVIOUS
  <2>2. \A g \in same : IsFiniteSet(G[g]) /\ n[g] = Cardinality(G[g])
    BY <1>1, <2>1, EntryCounts
  <2>3. \A g, h \in same : g # h => G[g] \cap G[h] = {}
    BY <1>3, <2>1 DEF Given, GivenWith
  <2>4. IsCells(same, G, n)
    BY <1>2, <2>2, <2>3 DEF IsCells
  <2>5. \A g \in same : \A a \in Given(p, reading, g.element) :
           a \in GivenWith(p, reading, g.element, k) <=> k \in a.chosen
    <3> TAKE g \in same
    <3> TAKE a \in Given(p, reading, g.element)
    <3>1. PICK x : x = g.element
      OBVIOUS
    <3>2. k \in Range(x.options)
      BY <1>1, <3>1, SameQuestions
    <3>3. k \in AggregateValueKeys(a, x) <=> k \in a.chosen
      BY <3>1, <3>2, KeysRead
    <3> QED
      BY <3>1, <3>3 DEF GivenWith
  <2>6. \A g \in same : GivenWith(p, reading, g.element, k) \subseteq Given(p, reading, g.element)
    BY DEF GivenWith
  <2>7. Cells(G, same) = {a \in seen : k \in a.chosen}
    <3>1. \A a : a \in Cells(G, same)
                   <=> \E g \in same : a \in GivenWith(p, reading, g.element, k)
      BY <2>1 DEF Cells
    <3>2. \A a \in Cells(G, same) : a \in seen /\ k \in a.chosen
      BY <1>5, <2>5, <2>6, <3>1
    <3>3. \A a \in seen : k \in a.chosen => a \in Cells(G, same)
      BY <1>4, <2>5, <3>1
    <3> QED
      BY <3>2, <3>3
  <2>8. TotalChosen(same, k) = Cardinality(Cells(G, same))
    BY <2>1, <2>4, ChosenSum
  <2> QED
    BY <2>7, <2>8
<1> QED
  BY <1>6, <1>7, <1>8 DEF EntriesCount

\* However the poll was edited after a vote, and in whatever order the server reads the
\* options, its aggregates credit every question with the answers given to it, and every
\* option with the voters who chose it while seeing it (buildPollResultAggregates).
THEOREM ChoicesAreCounted == Spec => []ResultsCountWhatVotersSaw
<1>1. DefinitionInv => ResultsCountWhatVotersSaw
  BY EntriesCounted DEF ResultsCountWhatVotersSaw
<1> QED
  BY <1>1, DefinitionInvariant, PTL

-----------------------------------------------------------------------------
(* Who may read, and when.                                                 *)

SubmittedFields ==
    {"phase", "style", "source", "verified", "event", "directLink", "resultsPublic",
     "resultsLive", "visibleFrom", "startsAt", "endsAt"}

PollFields == SubmittedFields \cup {"status", "publishedAt", "createdAt", "enrolled"}

\* Slates are submitted without results.
SlatesHaveNoResults(q) ==
    /\ q.phase \in {"none", "slateSubmission", "election"}
    /\ q.phase = "slateSubmission" => ~q.resultsPublic

\* A row an administrator may make.
RowOK(q) == DOMAIN q = PollFields /\ q.createdAt = 0 /\ SlatesHaveNoResults(q)

AccessTypes ==
    /\ DOMAIN polls = PollIds
    /\ \A p \in PollIds : RowOK(polls[p])
    /\ voted \in [PollIds -> SUBSET Accounts]
    /\ late \in [PollIds -> SUBSET Accounts]
    /\ \A p \in PollIds : IsFiniteSet(voted[p]) /\ late[p] \subseteq voted[p]
    /\ voting \subseteq PollIds \X Accounts

\* Nobody votes while slates are submitted, before or after the check.
SlatesAreNotVoted ==
    \A p \in PollIds : polls[p].phase = "slateSubmission" =>
        voted[p] = {} /\ \A u \in Accounts : <<p, u>> \notin voting

ClosedWereClosed == \A p \in PollIds : polls[p].status = "CLOSED" => p \in closed

\* The results somebody keeps are those of ballots that are still there, and where they
\* show answers or participants all ballots since then came after a closing.
KeptOf(k, p, ballots) ==
    /\ ballots # {} /\ ballots \subseteq voted[p]
    /\ k.audience \in {"public", "observer", "admin"}
    /\ k.results.responseCount = Cardinality(ballots)
    /\ k.results.ballots \in {{}, ballots}
    /\ k.audience = "public" =>
          k.results.voters = IF polls[p].style = "partiallySecret"
                             THEN {ToPollResultsVoter(p, u, "public") : u \in ballots} ELSE {}
    /\ k.audience = "public" \/ k.results.ballots # {} =>
          p \in closed /\ voted[p] \ ballots \subseteq late[p]

KeptIsPast ==
    kept # Unset => kept.poll \in PollIds /\ \E ballots : KeptOf(kept, kept.poll, ballots)

AccessInv == AccessTypes /\ SlatesAreNotVoted /\ ClosedWereClosed /\ KeptIsPast

-----------------------------------------------------------------------------
(* Rows.                                                                   *)

\* Saving settles the phase and what it allows.
LEMMA Resolved ==
  ASSUME NEW s \in Settings, NEW r, r = ResolvePollMetadata(s)
  PROVE  /\ DOMAIN r = SubmittedFields
         /\ SlatesHaveNoResults(r)
<1>1. DOMAIN s = SubmittedFields
  BY SubmittedAssumption DEF SubmittedFields
<1>2. DOMAIN r = DOMAIN s
  BY DEF ResolvePollMetadata
<1>3. r.phase = s.phase /\ s.phase \in {"none", "slateSubmission", "election"}
  BY <1>1, SubmittedAssumption DEF ResolvePollMetadata, SubmittedFields
<1>4. r.resultsPublic = IF s.phase = "none" THEN s.resultsPublic ELSE s.phase = "election"
  BY <1>1 DEF ResolvePollMetadata, SubmittedFields
<1> QED
  BY <1>1, <1>2, <1>3, <1>4 DEF SlatesHaveNoResults

\* createPoll makes a draft of the right types.
LEMMA NewPolls ==
  ASSUME NEW s \in Settings
  PROVE  RowOK(NewPoll(s)) /\ NewPoll(s).status = "DRAFT"
<1> DEFINE r == ResolvePollMetadata(s)
<1>1. DOMAIN r = SubmittedFields /\ SlatesHaveNoResults(r)
  BY Resolved
<1> HIDE DEF r
<1>2. PICK rest : rest = [status |-> "DRAFT", publishedAt |-> Unset, createdAt |-> 0,
              enrolled |-> IF r.source = "enrollmentList" THEN Enrolled ELSE {}]
  OBVIOUS
<1>3. DOMAIN rest = {"status", "publishedAt", "createdAt", "enrolled"}
      /\ rest.status = "DRAFT" /\ rest.createdAt = 0
  BY <1>2
<1>4. NewPoll(s) = [f \in DOMAIN r \cup DOMAIN rest |->
                       IF f \in DOMAIN r THEN r[f] ELSE rest[f]]
  BY <1>2 DEF NewPoll, r
<1>5. NewPoll(s) = [f \in PollFields |-> IF f \in SubmittedFields THEN r[f] ELSE rest[f]]
  BY <1>1, <1>3, <1>4 DEF PollFields, SubmittedFields
<1> QED
  BY <1>1, <1>3, <1>5 DEF RowOK, PollFields, SubmittedFields, SlatesHaveNoResults

-----------------------------------------------------------------------------
(* Steps that change a poll.                                               *)

\* A change of one poll that keeps the policy of its ballots.
LEMMA PollChange ==
  ASSUME AccessInv, NEW p \in PollIds, NEW row,
         polls' = [polls EXCEPT ![p] = row], RowOK(row),
         UNCHANGED <<voted, late, kept>>, voting' \subseteq voting, closed \subseteq closed',
         row.status = "CLOSED" => p \in closed',
         row.phase = "slateSubmission" =>
            voted[p] = {} /\ \A u \in Accounts : <<p, u>> \notin voting',
         voted[p] # {} => row.style = polls[p].style
  PROVE  AccessInv'
<1>1. /\ DOMAIN polls' = PollIds /\ polls'[p] = row
      /\ \A q \in PollIds : q # p => polls'[q] = polls[q]
  BY DEF AccessInv, AccessTypes
<1>2. AccessTypes'
  <2>1. \A q \in PollIds : RowOK(polls'[q])
    BY <1>1 DEF AccessInv, AccessTypes
  <2>2. \A q \in PollIds : RowOK(polls[q])'
    BY <2>1 DEF RowOK, SlatesHaveNoResults
  <2> QED
    BY <1>1, <2>2 DEF AccessInv, AccessTypes
<1>3. SlatesAreNotVoted'
  BY <1>1 DEF AccessInv, SlatesAreNotVoted
<1>4. ClosedWereClosed'
  BY <1>1 DEF AccessInv, ClosedWereClosed
<1>5. KeptIsPast'
  <2> SUFFICES ASSUME kept # Unset
               PROVE  kept.poll \in PollIds /\ (\E ballots : KeptOf(kept, kept.poll, ballots))'
    BY DEF KeptIsPast
  <2>1. kept.poll \in PollIds
    BY DEF AccessInv, KeptIsPast
  <2>2. PICK k, q, b : k = kept /\ q = kept.poll /\ KeptOf(k, q, b)
    BY DEF AccessInv, KeptIsPast
  <2>3. q \in PollIds /\ voted[q] # {}
    BY <2>1, <2>2 DEF KeptOf
  <2>4. polls'[q].style = polls[q].style
    BY <1>1, <2>3
  <2>5. KeptOf(k, q, b)'
    BY <2>2, <2>4 DEF KeptOf, ToPollResultsVoter
  <2>6. k = kept' /\ q = kept'.poll
    BY <2>2
  <2> QED
    BY <2>1, <2>5, <2>6
<1> QED
  BY <1>2, <1>3, <1>4, <1>5 DEF AccessInv

\* A save opens nothing that was closed.
LEMMA SaveKeeps ==
  ASSUME AccessInv, NEW p \in PollIds, NEW s \in Settings, Save(p, s)
  PROVE  AccessInv'
<1>1. PICK r : r = ResolvePollMetadata(s)
  OBVIOUS
<1>2. DOMAIN r = SubmittedFields /\ SlatesHaveNoResults(r)
  BY <1>1, Resolved
<1>3. PICK old : old = polls[p]
  OBVIOUS
<1>4. RowOK(old)
  BY <1>3 DEF AccessInv, AccessTypes
<1>5. PICK row : row = [f \in DOMAIN old |-> IF f \in DOMAIN r THEN r[f] ELSE old[f]]
  OBVIOUS
<1>6. /\ AssertPollPolicyTransition(p, r)
      /\ polls' = [polls EXCEPT ![p] = row]
      /\ voting' = {v \in voting : v[1] # p}
      /\ UNCHANGED <<voted, late, closed, kept>>
  BY <1>1, <1>3, <1>5 DEF Save, histories
<1>7. /\ row.status = old.status /\ row.createdAt = old.createdAt
      /\ row.phase = r.phase /\ row.style = r.style /\ row.resultsPublic = r.resultsPublic
      /\ DOMAIN row = PollFields
  BY <1>2, <1>4, <1>5 DEF RowOK, PollFields, SubmittedFields
<1>8. RowOK(row)
  BY <1>2, <1>4, <1>7 DEF RowOK, SlatesHaveNoResults
<1>9. \/ voted[p] = {}
      \/ row.phase = old.phase /\ row.style = old.style
  BY <1>3, <1>6, <1>7 DEF AssertPollPolicyTransition
<1>10. \A u \in Accounts : <<p, u>> \notin voting'
  BY <1>6
<1>11. old.status = "CLOSED" => p \in closed
  BY <1>3 DEF AccessInv, ClosedWereClosed
<1>12. old.phase = "slateSubmission" => voted[p] = {}
  BY <1>3 DEF AccessInv, SlatesAreNotVoted
<1> QED
  BY <1>3, <1>6, <1>7, <1>8, <1>9, <1>10, <1>11, <1>12, PollChange

\* A poll is published or closed.
LEMMA StatusKeeps ==
  ASSUME AccessInv, NEW p \in PollIds, NEW next \in {"PUBLISHED", "CLOSED"},
         UpdatePollStatus(p, next)
  PROVE  AccessInv'
<1>1. PICK old : old = polls[p]
  OBVIOUS
<1>2. RowOK(old) /\ DOMAIN polls = PollIds
  BY <1>1 DEF AccessInv, AccessTypes
<1>3. PICK row : row = [old EXCEPT !.status = next,
                           !.publishedAt = IF old.publishedAt = Unset THEN now ELSE old.publishedAt]
  OBVIOUS
<1>4. polls' = [polls EXCEPT ![p] = row]
  BY <1>1, <1>2, <1>3 DEF UpdatePollStatus
<1>5. /\ row.status = next /\ row.createdAt = old.createdAt
      /\ row.phase = old.phase /\ row.style = old.style /\ row.resultsPublic = old.resultsPublic
      /\ DOMAIN row = PollFields
  BY <1>2, <1>3 DEF RowOK, PollFields, SubmittedFields
<1>6. RowOK(row)
  BY <1>2, <1>5 DEF RowOK, SlatesHaveNoResults
<1>7. /\ closed \subseteq closed' /\ (next = "CLOSED" => p \in closed')
      /\ UNCHANGED <<voting, voted, late, kept>>
  BY DEF UpdatePollStatus
<1>8. old.phase = "slateSubmission" =>
         voted[p] = {} /\ \A u \in Accounts : <<p, u>> \notin voting
  BY <1>1 DEF AccessInv, SlatesAreNotVoted
<1> QED
  BY <1>1, <1>4, <1>5, <1>6, <1>7, <1>8, PollChange

\* An enrollment list is imported.
LEMMA ImportKeeps ==
  ASSUME AccessInv, NEW p \in PollIds, NEW f \in Files, NEW mode \in {"append", "replace"},
         ImportEligibilityEnrollments(p, f, mode)
  PROVE  AccessInv'
<1>1. PICK old : old = polls[p]
  OBVIOUS
<1>2. RowOK(old) /\ DOMAIN polls = PollIds
  BY <1>1 DEF AccessInv, AccessTypes
<1>3. PICK numbers : polls' = [polls EXCEPT ![p].enrolled =
                                  IF mode = "replace" THEN numbers ELSE @ \cup numbers]
  BY DEF ImportEligibilityEnrollments
<1>4. PICK row : row = [old EXCEPT !.enrolled =
                           IF mode = "replace" THEN numbers ELSE old.enrolled \cup numbers]
  OBVIOUS
<1>5. polls' = [polls EXCEPT ![p] = row]
  BY <1>1, <1>2, <1>3, <1>4
<1>6. /\ row.status = old.status /\ row.createdAt = old.createdAt
      /\ row.phase = old.phase /\ row.style = old.style /\ row.resultsPublic = old.resultsPublic
      /\ DOMAIN row = PollFields
  BY <1>2, <1>4 DEF RowOK, PollFields, SubmittedFields
<1>7. RowOK(row)
  BY <1>2, <1>6 DEF RowOK, SlatesHaveNoResults
<1>8. voting' \subseteq voting /\ UNCHANGED <<voted, late, closed, kept>>
  BY DEF ImportEligibilityEnrollments, histories
<1>9. old.phase = "slateSubmission" =>
         voted[p] = {} /\ \A u \in Accounts : <<p, u>> \notin voting'
  BY <1>1, <1>8 DEF AccessInv, SlatesAreNotVoted
<1>10. old.status = "CLOSED" => p \in closed
  BY <1>1 DEF AccessInv, ClosedWereClosed
<1> QED
  BY <1>1, <1>5, <1>6, <1>7, <1>8, <1>9, <1>10, PollChange

-----------------------------------------------------------------------------
(* Votes and readings.                                                     *)

\* Ballots only join.
LEMMA StillKept ==
  ASSUME AccessInv, UNCHANGED <<polls, voted, late, closed, kept>>
  PROVE  KeptIsPast'
<1> SUFFICES ASSUME kept # Unset
             PROVE  kept.poll \in PollIds /\ (\E ballots : KeptOf(kept, kept.poll, ballots))'
  BY DEF KeptIsPast
<1>1. PICK k, q, b : k = kept /\ q = kept.poll /\ q \in PollIds /\ KeptOf(k, q, b)
  BY DEF AccessInv, KeptIsPast
<1>2. KeptOf(k, q, b)'
  BY <1>1 DEF KeptOf, ToPollResultsVoter
<1>3. k = kept' /\ q = kept'.poll
  BY <1>1
<1> QED
  BY <1>1, <1>2, <1>3

\* A vote passes its checks.
LEMMA BeginVoteKeeps ==
  ASSUME AccessInv, NEW p \in PollIds, NEW u \in Accounts, BeginVote(p, u)
  PROVE  AccessInv'
<1>1. /\ polls[p].phase # "slateSubmission"
      /\ voting' = voting \cup {<<p, u>>}
      /\ UNCHANGED <<polls, voted, late, closed, kept>>
  BY DEF BeginVote, SubmitResponse, InOrder, Denied, histories
<1>2. AccessTypes'
  BY <1>1 DEF AccessInv, AccessTypes, RowOK, SlatesHaveNoResults
<1>3. SlatesAreNotVoted'
  BY <1>1 DEF AccessInv, SlatesAreNotVoted
<1>4. ClosedWereClosed' /\ KeptIsPast'
  BY <1>1, StillKept DEF AccessInv, ClosedWereClosed
<1> QED
  BY <1>2, <1>3, <1>4 DEF AccessInv

\* Once a poll was closed, what is added to its ballots is late.
LEMMA CommitVoteKeeps ==
  ASSUME AccessInv, NEW p \in PollIds, NEW u \in Accounts, CommitVote(p, u)
  PROVE  AccessInv'
<1>1. /\ <<p, u>> \in voting /\ voting' = voting \ {<<p, u>>}
      /\ voted' = [voted EXCEPT ![p] = voted[p] \cup {u}]
      /\ late' = IF p \in closed THEN [late EXCEPT ![p] = late[p] \cup {u}] ELSE late
      /\ UNCHANGED <<polls, closed, kept>>
  BY DEF CommitVote
<1>2. /\ voted \in [PollIds -> SUBSET Accounts] /\ late \in [PollIds -> SUBSET Accounts]
      /\ \A q \in PollIds : IsFiniteSet(voted[q]) /\ late[q] \subseteq voted[q]
  BY DEF AccessInv, AccessTypes
<1>3. IsFiniteSet(voted[p] \cup {u})
  BY <1>2, FS_AddElement
<1>4. \A q \in PollIds :
         /\ voted'[q] = IF q = p THEN voted[q] \cup {u} ELSE voted[q]
         /\ late'[q] = IF q = p /\ p \in closed THEN late[q] \cup {u} ELSE late[q]
  BY <1>1, <1>2
<1>5. AccessTypes'
  <2>1. voted' \in [PollIds -> SUBSET Accounts] /\ late' \in [PollIds -> SUBSET Accounts]
    BY <1>1, <1>2
  <2>2. \A q \in PollIds : IsFiniteSet(voted'[q])
    BY <1>2, <1>3, <1>4
  <2>3. \A q \in PollIds : late'[q] \subseteq voted'[q]
    BY <1>2, <1>4
  <2> QED
    BY <1>1, <2>1, <2>2, <2>3 DEF AccessInv, AccessTypes, RowOK, SlatesHaveNoResults
<1>6. SlatesAreNotVoted'
  BY <1>1, <1>4 DEF AccessInv, SlatesAreNotVoted
<1>7. ClosedWereClosed'
  BY <1>1 DEF AccessInv, ClosedWereClosed
<1>8. KeptIsPast'
  <2> SUFFICES ASSUME kept # Unset
               PROVE  kept.poll \in PollIds /\ (\E ballots : KeptOf(kept, kept.poll, ballots))'
    BY <1>1 DEF KeptIsPast
  <2>1. PICK k, q, b : k = kept /\ q = kept.poll /\ q \in PollIds /\ KeptOf(k, q, b)
    BY DEF AccessInv, KeptIsPast
  <2>2. b \subseteq voted'[q] /\ (q \in closed /\ voted[q] \ b \subseteq late[q] =>
                                     q \in closed' /\ voted'[q] \ b \subseteq late'[q])
    BY <1>1, <1>4, <2>1 DEF KeptOf
  <2>3. KeptOf(k, q, b)'
    BY <1>1, <2>1, <2>2 DEF KeptOf, ToPollResultsVoter
  <2>4. k = kept' /\ q = kept'.poll
    BY <1>1, <2>1
  <2> QED
    BY <2>1, <2>3, <2>4
<1> QED
  BY <1>5, <1>6, <1>7, <1>8 DEF AccessInv

\* What must not be compared is given after the poll was closed.
LEMMA KeepResultsKeeps ==
  ASSUME AccessInv, NEW p \in PollIds, NEW audience \in {"public", "observer", "admin"},
         KeepResults(p, audience)
  PROVE  AccessInv'
<1>1. /\ MustNotCompare(p, audience) /\ voted[p] # {} /\ MayReadResults(p, audience)
      /\ kept' = [poll |-> p, audience |-> audience, results |-> ToPollResults(p, audience)]
      /\ UNCHANGED <<polls, voting, voted, late, closed>>
  BY DEF KeepResults
<1>2. AccessTypes' /\ SlatesAreNotVoted' /\ ClosedWereClosed'
  BY <1>1 DEF AccessInv, AccessTypes, RowOK, SlatesHaveNoResults, SlatesAreNotVoted,
              ClosedWereClosed
<1>3. PICK results : results = ToPollResults(p, audience)
  OBVIOUS
<1>4. /\ results.responseCount = Cardinality(voted[p])
      /\ results.ballots = IF AreAnswersReleased(p, audience) THEN voted[p] ELSE {}
      /\ results.voters = IF audience # "public" \/ polls[p].style = "partiallySecret"
                          THEN {ToPollResultsVoter(p, u, audience) : u \in voted[p]} ELSE {}
  BY <1>3 DEF ToPollResults
<1>5. audience = "public" => polls[p].status = "CLOSED"
  BY <1>1 DEF MustNotCompare, MayReadResults, ReadPublicResults, GetPublicPollResults, InOrder, Denied,
              GetDirectLinkPublicPollResults, AssertPublicResultsVisible
<1>6. audience # "public" /\ AreAnswersReleased(p, audience) => polls[p].status = "CLOSED"
  <2>1. polls[p].phase # "slateSubmission"
    BY <1>1 DEF AccessInv, SlatesAreNotVoted
  <2>2. audience = "observer" => polls[p].phase # "none"
    BY <1>1 DEF MayReadResults, ReadAdminResults, IsObserverReadableElectionPoll
  <2>3. audience = "observer" => polls[p].phase = "election"
    BY <2>1, <2>2 DEF AccessInv, AccessTypes, RowOK, SlatesHaveNoResults
  <2> QED
    BY <1>1, <2>3 DEF AreAnswersReleased, MustNotCompare, IsCacicElectionVotingPoll
<1>7. KeptIsPast'
  <2>1. PICK k, b : /\ k = [poll |-> p, audience |-> audience, results |-> results]
                    /\ b = voted[p]
    OBVIOUS
  <2>2. /\ k.poll = p /\ k.audience = audience /\ k.results = results
    BY <2>1
  <2>3. k = kept'
    BY <1>1, <1>3, <2>1
  <2>4. b = voted'[p] /\ polls' = polls
    BY <1>1, <2>1
  <2>5. audience = "public" \/ results.ballots # {} => p \in closed'
    BY <1>1, <1>4, <1>5, <1>6 DEF AccessInv, ClosedWereClosed
  <2>6. KeptOf(k, p, b)'
    BY <1>1, <1>4, <2>1, <2>2, <2>4, <2>5 DEF KeptOf, ToPollResultsVoter
  <2> QED
    BY <2>2, <2>3, <2>6 DEF KeptIsPast
<1> QED
  BY <1>2, <1>7 DEF AccessInv

-----------------------------------------------------------------------------
\* Results that somebody keeps are of ballots still there, and of a closing where they show
\* them (poll-results.service.ts, poll-mutations.service.ts).
THEOREM AccessInvariant == AccessSpec => []AccessInv
<1>1. AccessInit => AccessInv
  <2> SUFFICES ASSUME AccessInit PROVE AccessInv
    OBVIOUS
  <2>1. /\ polls \in [PollIds -> {NewPoll(s) : s \in Settings}]
        /\ voting = {} /\ voted = [p \in PollIds |-> {}] /\ late = [p \in PollIds |-> {}]
        /\ kept = Unset
    BY DEF AccessInit
  <2>2. \A p \in PollIds : RowOK(polls[p]) /\ polls[p].status = "DRAFT"
    BY <2>1, NewPolls
  <2>3. AccessTypes
    BY <2>1, <2>2, FS_EmptySet DEF AccessTypes
  <2>4. SlatesAreNotVoted /\ ClosedWereClosed /\ KeptIsPast
    BY <2>1, <2>2 DEF SlatesAreNotVoted, ClosedWereClosed, KeptIsPast
  <2> QED
    BY <2>3, <2>4 DEF AccessInv
<1>2. AccessInv /\ [AccessNext]_accessVars => AccessInv'
  <2> SUFFICES ASSUME AccessInv, [AccessNext]_accessVars PROVE AccessInv'
    OBVIOUS
  <2>1. ASSUME NEW p \in PollIds, NEW s \in Settings, Save(p, s) PROVE AccessInv'
    BY <2>1, SaveKeeps
  <2>2. ASSUME NEW p \in PollIds, NEW next \in {"PUBLISHED", "CLOSED"}, UpdatePollStatus(p, next)
        PROVE  AccessInv'
    BY <2>2, StatusKeeps
  <2>3. ASSUME NEW p \in PollIds, NEW f \in Files, NEW mode \in {"append", "replace"},
               ImportEligibilityEnrollments(p, f, mode)
        PROVE  AccessInv'
    BY <2>3, ImportKeeps
  <2>4. ASSUME NEW p \in PollIds, NEW audience \in {"public", "observer", "admin"},
               KeepResults(p, audience)
        PROVE  AccessInv'
    BY <2>4, KeepResultsKeeps
  <2>5. ASSUME NEW p \in PollIds, NEW u \in Accounts, BeginVote(p, u) \/ CommitVote(p, u)
        PROVE  AccessInv'
    BY <2>5, BeginVoteKeeps, CommitVoteKeeps
  <2>6. CASE Tick \/ UNCHANGED accessVars
    <3>1. UNCHANGED <<polls, voting, voted, late, closed, kept>>
      BY <2>6 DEF Tick, accessVars, histories
    <3> QED
      BY <3>1, StillKept DEF AccessInv, AccessTypes, RowOK, SlatesHaveNoResults,
                             SlatesAreNotVoted, ClosedWereClosed
  <2> QED
    BY <2>1, <2>2, <2>3, <2>4, <2>5, <2>6 DEF AccessNext
<1> QED
  BY <1>1, <1>2, PTL DEF AccessSpec

\* Two readings of results that must not be compared differ by late ballots at most
\* (assertPublicResultsVisible, areAnswersReleased).
THEOREM ReadingsAreNotCompared == AccessSpec => []SecretVotesArePublishedTogether
<1>1. AccessInv => SecretVotesArePublishedTogether
  <2> SUFFICES ASSUME AccessInv, kept # Unset, MayReadResults(kept.poll, kept.audience)
               PROVE  LET p == kept.poll
                          results == ToPollResults(p, kept.audience)
                      IN  IF kept.audience = "public"
                          THEN /\ results.responseCount - kept.results.responseCount
                                      <= Cardinality(late[p])
                               /\ results.voters \ kept.results.voters \subseteq
                                     {ToPollResultsVoter(p, u, "public") : u \in late[p]}
                          ELSE kept.results.ballots # {} =>
                                  results.ballots \ kept.results.ballots \subseteq late[p]
    BY DEF SecretVotesArePublishedTogether
  <2>1. PICK p, b : p = kept.poll /\ p \in PollIds /\ KeptOf(kept, p, b)
    BY DEF AccessInv, KeptIsPast
  <2>2. PICK results : results = ToPollResults(p, kept.audience)
    OBVIOUS
  <2>3. /\ results.responseCount = Cardinality(voted[p])
        /\ results.ballots \subseteq voted[p]
        /\ kept.audience = "public" =>
              results.voters = IF polls[p].style = "partiallySecret"
                               THEN {ToPollResultsVoter(p, u, "public") : u \in voted[p]} ELSE {}
    BY <2>2 DEF ToPollResults
  <2>4. IsFiniteSet(voted[p]) /\ IsFiniteSet(late[p])
    BY <2>1, FS_Subset DEF AccessInv, AccessTypes
  <2>5. CASE kept.audience = "public"
    <3>1. voted[p] \ b \subseteq late[p] /\ b \subseteq voted[p]
      BY <2>1, <2>5 DEF KeptOf
    <3>2. Cardinality(voted[p]) = Cardinality(b) + Cardinality(voted[p] \ b)
          /\ IsFiniteSet(b) /\ IsFiniteSet(voted[p] \ b)
      <4>1. IsFiniteSet(b) /\ IsFiniteSet(voted[p] \ b)
        BY <2>4, <3>1, FS_Subset
      <4>2. b \cup (voted[p] \ b) = voted[p] /\ b \cap (voted[p] \ b) = {}
        BY <3>1
      <4>3. Cardinality(voted[p]) = Cardinality(b) + Cardinality(voted[p] \ b) - 0
        BY <4>1, <4>2, FS_Union, FS_EmptySet
      <4> QED
        BY <4>1, <4>3, FS_CardinalityType
    <3>3. Cardinality(voted[p] \ b) <= Cardinality(late[p])
      BY <2>4, <3>1, FS_Subset
    <3>4. results.responseCount - kept.results.responseCount <= Cardinality(late[p])
      BY <2>1, <2>3, <2>4, <3>2, <3>3, FS_CardinalityType DEF KeptOf
    <3>5. results.voters \ kept.results.voters
             \subseteq {ToPollResultsVoter(p, u, "public") : u \in late[p]}
      BY <2>1, <2>3, <2>5, <3>1 DEF KeptOf
    <3> QED
      BY <2>1, <2>2, <2>5, <3>4, <3>5
  <2>6. CASE kept.audience # "public"
    <3>1. kept.results.ballots # {} => kept.results.ballots = b /\ voted[p] \ b \subseteq late[p]
      BY <2>1 DEF KeptOf
    <3> QED
      BY <2>1, <2>2, <2>3, <2>6, <3>1
  <2> QED
    BY <2>5, <2>6
<1> QED
  BY <1>1, AccessInvariant, PTL

-----------------------------------------------------------------------------
(* The two implementations of each rule.                                   *)

\* Polls that share a check have the same answer to it.
LEMMA SharedChecks ==
  ASSUME NEW p, NEW q, NEW u, NEW answered, CheckKey(q) = CheckKey(p)
  PROVE  EnsureVotingAllowed(q, u, answered) = EnsureVotingAllowed(p, u, answered)
<1> DEFINE attendance == {"eventAttendance", "eventAttendanceUnesp", "eventAttendanceStudents"}
<1>1. CASE polls[p].source \in attendance /\ polls[q].source \in attendance
  <2>1. /\ polls[p].source = polls[q].source /\ polls[p].event = polls[q].event
        /\ polls[p].verified = polls[q].verified
    BY <1>1 DEF CheckKey
  <2> QED
    BY <1>1, <2>1 DEF EnsureVotingAllowed, EventAttendance, ComputerScienceStudent
<1>2. CASE polls[p].source \notin attendance \/ polls[q].source \notin attendance
  <2>1. \A x, a, b, c : <<x>> # <<a, b, c>>
    <3> TAKE x, a, b, c
    <3>1. Len(<<x>>) = 1 /\ Len(<<a, b, c>>) = 3
      OBVIOUS
    <3> QED
      BY <3>1
  <2>2. p = q
    BY <1>2, <2>1 DEF CheckKey
  <2> QED
    BY <2>2
<1> QED
  BY <1>1, <1>2

\* Whoever passed once passes whenever the Event Manager answers, and is not denied when
\* it does not.
LEMMA PassesAgain ==
  ASSUME NEW p, NEW u, NEW answered \in BOOLEAN, EnsureVotingAllowed(p, u, answered) = "passes"
  PROVE  NotDenied(EnsureVotingAllowed(p, u, TRUE), EnsureVotingAllowed(p, u, FALSE))
<1> DEFINE attendance == {"eventAttendance", "eventAttendanceUnesp", "eventAttendanceStudents"}
<1>1. CASE polls[p].source \in attendance
  <2>1. answered
    BY <1>1 DEF EnsureVotingAllowed, EventAttendance, InOrder
  <2>2. EnsureVotingAllowed(p, u, FALSE) = "unavailable"
    BY <1>1 DEF EnsureVotingAllowed, EventAttendance, InOrder
  <2> QED
    BY <2>1, <2>2 DEF NotDenied
<1>2. CASE polls[p].source \notin attendance
  <2>1. \A x, y : EnsureVotingAllowed(p, u, x) = EnsureVotingAllowed(p, u, y)
    BY <1>2 DEF EnsureVotingAllowed
  <2>2. /\ EnsureVotingAllowed(p, u, TRUE) = "passes"
        /\ EnsureVotingAllowed(p, u, FALSE) = "passes"
    BY <2>1
  <2> QED
    BY <2>2 DEF NotDenied
<1> QED
  BY <1>1, <1>2

\* The same of a check that comes after another.
LEMMA SecondPasses ==
  ASSUME NEW p, NEW u, NEW answered \in BOOLEAN, NEW first, first = "passes",
         EnsureVotingAllowed(p, u, answered) = "passes"
  PROVE  NotDenied(InOrder(first, EnsureVotingAllowed(p, u, TRUE)),
                   InOrder(first, EnsureVotingAllowed(p, u, FALSE)))
BY PassesAgain DEF InOrder

\* What the list of polls holds, whichever of its checks are answered.
LEMMA ListedPolls ==
  ASSUME NEW u, NEW p \in PollIds
  PROVE  /\ \A heard \in SUBSET PollIds : p \in ListPublicPolls(u, heard) =>
              /\ PublicReadablePollWhere(p)
              /\ \E answered \in BOOLEAN : EnsureVotingAllowed(p, u, answered) = "passes"
         /\ PublicReadablePollWhere(p) /\ Eligible(p, u) => p \in ListPublicPolls(u, PollIds)
<1> DEFINE readable == {q \in PollIds : PublicReadablePollWhere(q)}
           Chosen == CHOOSE q \in readable : CheckKey(q) = CheckKey(p)
<1>1. ASSUME p \in readable
      PROVE  /\ Chosen \in PollIds
             /\ \A x : EnsureVotingAllowed(Chosen, u, x) = EnsureVotingAllowed(p, u, x)
  <2>1. Chosen \in readable /\ CheckKey(Chosen) = CheckKey(p)
    BY <1>1
  <2> HIDE DEF Chosen
  <2> QED
    BY <2>1, SharedChecks
<1>2. ASSUME NEW heard, p \in ListPublicPolls(u, heard)
      PROVE  /\ PublicReadablePollWhere(p)
             /\ \E answered \in BOOLEAN : EnsureVotingAllowed(p, u, answered) = "passes"
  <2>1. p \in readable /\ EnsureVotingAllowed(Chosen, u, Chosen \in heard) = "passes"
    BY <1>2 DEF ListPublicPolls
  <2>2. CASE Chosen \in heard
    <3>1. (Chosen \in heard) = TRUE
      BY <2>2
    <3>2. EnsureVotingAllowed(Chosen, u, TRUE) = "passes"
      BY <2>1, <3>1
    <3> QED
      BY <1>1, <2>1, <3>2
  <2>3. CASE Chosen \notin heard
    <3>1. (Chosen \in heard) = FALSE
      BY <2>3
    <3>2. EnsureVotingAllowed(Chosen, u, FALSE) = "passes"
      BY <2>1, <3>1
    <3> QED
      BY <1>1, <2>1, <3>2
  <2> QED
    BY <2>2, <2>3
<1>3. ASSUME PublicReadablePollWhere(p), Eligible(p, u)
      PROVE  p \in ListPublicPolls(u, PollIds)
  <2>1. EnsureVotingAllowed(Chosen, u, TRUE) = "passes" /\ (Chosen \in PollIds) = TRUE
    BY <1>1, <1>3 DEF Eligible
  <2> QED
    BY <1>3, <2>1 DEF ListPublicPolls
<1> QED
  BY <1>2, <1>3

\* The first of four dates that is given.
LEMMA FirstDate ==
  ASSUME NEW a, NEW b, NEW c, NEW d, d # Unset,
         NEW dates, dates = <<a, b, c, d>>
  PROVE  FirstGiven(dates) =
            IF a # Unset THEN a ELSE IF b # Unset THEN b ELSE IF c # Unset THEN c ELSE d
<1> DEFINE given == {i \in 1..Len(dates) : dates[i] # Unset}
<1>1. SelectInSeq(dates, LAMBDA t : t # Unset) = IF given # {} THEN Min(given) ELSE 0
  BY DEF SelectInSeq
<1>2. Len(dates) = 4 /\ dates[1] = a /\ dates[2] = b /\ dates[3] = c /\ dates[4] = d
  OBVIOUS
<1>3. given \subseteq {1, 2, 3, 4} /\ 4 \in given
      /\ (1 \in given <=> a # Unset) /\ (2 \in given <=> b # Unset) /\ (3 \in given <=> c # Unset)
  BY <1>2
<1> HIDE DEF given
<1>4. Min(given) = IF 1 \in given THEN 1 ELSE IF 2 \in given THEN 2
                   ELSE IF 3 \in given THEN 3 ELSE 4
  <2>1. PICK first : /\ first = IF 1 \in given THEN 1 ELSE IF 2 \in given THEN 2
                                 ELSE IF 3 \in given THEN 3 ELSE 4
    OBVIOUS
  <2>2. /\ first \in given
        /\ \A y \in given : first <= y
        /\ \A x \in given : (\A y \in given : x <= y) => x = first
    BY <1>3, <2>1
  <2>3. (CHOOSE x \in given : \A y \in given : x <= y) = first
    BY <2>2
  <2> QED
    BY <2>1, <2>3 DEF Min
<1> QED
  BY <1>1, <1>2, <1>3, <1>4 DEF FirstGiven

\* Where the pages show results, the server does, but for the exception of the list.
LEMMA ShownResultsAreVisible ==
  ASSUME AccessInv, NEW p \in PollIds, PublicReadablePollWhere(p)
  PROVE  /\ ShouldShowPublicResults(p) => AssertPublicResultsVisible(p)
         /\ CanShowResults(p) /\ ~LiveAndSecret(p) => AssertPublicResultsVisible(p)
         /\ AssertPublicResultsVisible(p) => ShouldRequireVotingEligibilityForRead(p)
<1>1. polls[p].phase = "slateSubmission" => ~polls[p].resultsPublic
  BY DEF AccessInv, AccessTypes, RowOK, SlatesHaveNoResults
<1>2. IsPollPubliclyVisible(p)
  BY DEF PublicReadablePollWhere, IsPollPubliclyVisible
<1> QED
  BY <1>1, <1>2 DEF ShouldShowPublicResults, CanShowResults, LiveAndSecret,
     AssertPublicResultsVisible, IsCacicElectionVotingPoll, ShouldRequireVotingEligibilityForRead

\* What lists and pages offer is not denied, though every call has an answer of the Event
\* Manager of its own (listPublicPolls and getPublishedPoll, the offers of the pages and
\* the checks of the server, the observer's list and check).
THEOREM OffersHold == AccessSpec => []OffersAreNotDenied
<1>1. AccessInv => OffersAreNotDenied
  <2> SUFFICES ASSUME AccessInv PROVE OffersAreNotDenied
    OBVIOUS
  <2>r. ASSUME NEW p, NEW u, NEW answered \in BOOLEAN, PublicReadablePollWhere(p),
               EnsureVotingAllowed(p, u, answered) = "passes"
        PROVE  /\ NotDenied(GetPublishedPoll(p, u, TRUE), GetPublishedPoll(p, u, FALSE))
               /\ NotDenied(AssertPublishedPollReadable(p, u, TRUE),
                            AssertPublishedPollReadable(p, u, FALSE))
               /\ AssertPublicResultsVisible(p) =>
                     NotDenied(GetPublicPollResults(p, u, TRUE), GetPublicPollResults(p, u, FALSE))
    BY <2>r, SecondPasses, PassesAgain
       DEF GetPublishedPoll, AssertPublishedPollReadable, GetPublicPollResults, InOrder, Denied,
           NotDenied
  <2>o. ASSUME NEW p, NEW u, NEW answered \in BOOLEAN, GetPublishedPoll(p, u, answered) = "passes"
        PROVE  /\ PublicReadablePollWhere(p)
               /\ ShouldRequireVotingEligibilityForRead(p) =>
                     EnsureVotingAllowed(p, u, answered) = "passes"
    BY <2>o DEF GetPublishedPoll, InOrder, Denied
  <2>1. ListedPollsOpen
    <3>1. ASSUME NEW u \in Accounts, NEW p \in PollIds, NEW heard \in SUBSET PollIds,
                 p \in ListPublicPolls(u, heard)
          PROVE  /\ NotDenied(GetPublishedPoll(p, u, TRUE), GetPublishedPoll(p, u, FALSE))
                 /\ CanShowResults(p) /\ ~LiveAndSecret(p) =>
                       NotDenied(GetPublicPollResults(p, u, TRUE),
                                 GetPublicPollResults(p, u, FALSE))
      <4>1. PICK answered \in BOOLEAN :
                PublicReadablePollWhere(p) /\ EnsureVotingAllowed(p, u, answered) = "passes"
        BY <3>1, ListedPolls
      <4> QED
        BY <2>r, <4>1, ShownResultsAreVisible
    <3>2. ASSUME NEW u \in Accounts, NEW p \in PollIds, NEW answered \in BOOLEAN,
                 GetPublishedPoll(p, u, answered) = "passes"
          PROVE  /\ NotDenied(AssertPublishedPollReadable(p, u, TRUE),
                              AssertPublishedPollReadable(p, u, FALSE))
                 /\ Eligible(p, u) => p \in ListPublicPolls(u, PollIds)
      <4>1. PublicReadablePollWhere(p)
        BY <2>o, <3>2
      <4>2. CASE ShouldRequireVotingEligibilityForRead(p)
        BY <2>o, <2>r, <3>2, <4>1, <4>2, ListedPolls
      <4>3. CASE ~ShouldRequireVotingEligibilityForRead(p)
        BY <4>1, <4>3, ListedPolls DEF AssertPublishedPollReadable, InOrder, Denied, NotDenied
      <4> QED
        BY <4>2, <4>3
    <3> QED
      BY <3>1, <3>2 DEF ListedPollsOpen
  <2>2. OpenedPollsAnswer
    <3>0. ASSUME NEW p \in PollIds, CanVoteInPoll(p)
          PROVE  PollVotingOpenWhere(p) /\ polls[p].phase # "slateSubmission"
      BY <3>0 DEF CanVoteInPoll, IsPollVotingOpen, PollVotingOpenWhere, Reached
    <3>1. ASSUME NEW p \in PollIds, NEW u \in Accounts, NEW answered \in BOOLEAN,
                 GetPublishedPoll(p, u, answered) = "passes"
          PROVE  /\ ShouldShowPublicResults(p) =>
                       NotDenied(GetPublicPollResults(p, u, TRUE),
                                 GetPublicPollResults(p, u, FALSE))
                 /\ CanVoteInPoll(p) => NotDenied(SubmitResponse(p, u, FALSE, TRUE),
                                                  SubmitResponse(p, u, FALSE, FALSE))
      <4>1. PublicReadablePollWhere(p)
        BY <2>o, <3>1
      <4>2. ASSUME ShouldShowPublicResults(p)
            PROVE  NotDenied(GetPublicPollResults(p, u, TRUE), GetPublicPollResults(p, u, FALSE))
        BY <2>o, <2>r, <3>1, <4>1, <4>2, ShownResultsAreVisible
      <4>3. ASSUME CanVoteInPoll(p)
            PROVE  NotDenied(SubmitResponse(p, u, FALSE, TRUE), SubmitResponse(p, u, FALSE, FALSE))
        <5>1. EnsureVotingAllowed(p, u, answered) = "passes"
          BY <2>o, <3>0, <3>1, <4>3 DEF ShouldRequireVotingEligibilityForRead
        <5>2. NotDenied(EnsureVotingAllowed(p, u, TRUE), EnsureVotingAllowed(p, u, FALSE))
          BY <5>1, PassesAgain
        <5> QED
          BY <3>0, <4>3, <5>2 DEF SubmitResponse, InOrder, Denied
      <4> QED
        BY <4>2, <4>3
    <3>2. ASSUME NEW p \in PollIds, NEW u \in Accounts, GetPublishedPollByDirectLink(p)
          PROVE  /\ ShouldShowPublicResults(p) => GetDirectLinkPublicPollResults(p)
                 /\ CanVoteInPoll(p) => SubmitResponse(p, u, TRUE, FALSE) = "passes"
      BY <3>0, <3>2, ShownResultsAreVisible
         DEF GetPublishedPollByDirectLink, GetDirectLinkPublicPollResults, SubmitResponse,
             InOrder, Denied
    <3> QED
      BY <3>1, <3>2 DEF OpenedPollsAnswer
  <2>3. ASSUME NEW p \in PollIds
        PROVE  ObserverElectionPollWhere(p) <=> IsObserverReadableElectionPoll(p)
    <3>1. polls[p].createdAt # Unset
      BY SubmittedAssumption DEF AccessInv, AccessTypes, RowOK
    <3>2. PICK a, b, c, d : a = polls[p].startsAt /\ b = polls[p].visibleFrom
                            /\ c = polls[p].publishedAt /\ d = polls[p].createdAt
      OBVIOUS
    <3>3. PICK dates : dates = <<a, b, c, d>>
      OBVIOUS
    <3>4. PICK date : date = FirstGiven(dates)
      OBVIOUS
    <3>5. date = IF a # Unset THEN a ELSE IF b # Unset THEN b ELSE IF c # Unset THEN c ELSE d
      BY <3>1, <3>2, <3>3, <3>4, FirstDate
    <3>6. IsObserverReadableElectionPoll(p) <=> polls[p].phase # "none" /\ InObserverWindow(date)
      BY <3>2, <3>3, <3>4 DEF IsObserverReadableElectionPoll
    <3>7. ObserverElectionPollWhere(p) <=> polls[p].phase # "none" /\ InObserverWindow(date)
      BY <3>2, <3>5 DEF ObserverElectionPollWhere
    <3> QED
      BY <3>6, <3>7
  <2> QED
    BY <2>1, <2>2, <2>3 DEF OffersAreNotDenied
<1> QED
  BY <1>1, AccessInvariant, PTL
=============================================================================
