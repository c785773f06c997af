----------------------------- MODULE FormProofs -----------------------------
(***************************************************************************)
(* Proofs about the two forms of the web application and the server that   *)
(* validates what they send, for every set of definitions, texts and bounds. *)
(* PollDraft: an accepted draft is stored as it was sent, and a refused one *)
(* can be corrected with the controls of the builder. VotePage: the page   *)
(* says that a response was registered only when it was, and what its      *)
(* controls make is refused only for what is missing.                      *)
(***************************************************************************)
EXTENDS PollDraft, VotePage, FiniteSetTheorems, TLAPS

-----------------------------------------------------------------------------
(* Filtered lists.                                                         *)

\* The ranks of the positions chosen are 1, 2, ... up to their number.
LEMMA RanksAreDense ==
  ASSUME NEW n \in Nat, NEW chosen \in SUBSET (1..n)
  PROVE  /\ Cardinality(chosen) \in 0..n
         /\ \A k \in 1..Cardinality(chosen) : \E i \in chosen : Rank(chosen, i) = k
<1>1. IsFiniteSet(1..n) /\ Cardinality(1..n) = n
  BY FS_Interval
<1>2. IsFiniteSet(chosen) /\ Cardinality(chosen) <= n /\ Cardinality(chosen) \in Nat
  BY <1>1, FS_Subset, FS_CardinalityType
<1> DEFINE Upto(i) == {j \in chosen : j <= i}
           c == Cardinality(chosen)
<1>3. ASSUME NEW i \in chosen
      PROVE  IsFiniteSet(Upto(i)) /\ Rank(chosen, i) = Cardinality(Upto(i)) /\ Rank(chosen, i) \in 1..c
  <2>1. Upto(i) \subseteq chosen /\ i \in Upto(i)
    OBVIOUS
  <2>2. IsFiniteSet(Upto(i)) /\ Cardinality(Upto(i)) <= c /\ Cardinality(Upto(i)) \in Nat
    BY <1>2, <2>1, FS_Subset, FS_CardinalityType
  <2>3. Cardinality(Upto(i)) # 0
    BY <2>1, <2>2, FS_EmptySet
  <2> QED
    BY <1>2, <2>2, <2>3 DEF Rank
<1>4. ASSUME NEW i \in chosen, NEW j \in chosen, i < j
      PROVE  Rank(chosen, i) # Rank(chosen, j)
  <2>1. Upto(i) \subseteq Upto(j) /\ j \in Upto(j) /\ j \notin Upto(i)
    <3>1. i \in Int /\ j \in Int /\ \A x \in chosen : x \in Int
      OBVIOUS
    <3>2. \A x \in chosen : x <= i => x <= j
      BY <1>4, <3>1
    <3>3. j <= j /\ ~(j <= i)
      BY <1>4, <3>1
    <3> QED
      BY <3>2, <3>3
  <2> HIDE DEF Upto
  <2>2. Cardinality(Upto(i)) = Cardinality(Upto(j)) => Upto(i) = Upto(j)
    BY <1>3, <2>1, FS_Subset
  <2> QED
    BY <1>3, <2>1, <2>2
<1> HIDE DEF Upto
<1>5. PICK f : f = [i \in chosen |-> Rank(chosen, i)]
  OBVIOUS
<1>6. f \in Injection(chosen, 1..c)
  <2>1. f \in [chosen -> 1..c]
    BY <1>3, <1>5
  <2>2. ASSUME NEW i \in chosen, NEW j \in chosen, f[i] = f[j]
        PROVE  i = j
    <3>1. Rank(chosen, i) = Rank(chosen, j)
      BY <1>5, <2>2
    <3>2. ~(i < j) /\ ~(j < i) /\ i \in Int /\ j \in Int
      BY <1>4, <3>1
    <3> QED
      BY <3>2
  <2> QED
    BY <2>1, <2>2 DEF Injection, IsInjective
<1>7. IsFiniteSet(1..c) /\ Cardinality(1..c) = c
  BY <1>2, FS_Interval
<1>8. f \in Surjection(chosen, 1..c)
  BY <1>6, <1>7, FS_Injection
<1>9. \A k \in 1..c : \E i \in chosen : Rank(chosen, i) = k
  BY <1>5, <1>8 DEF Surjection
<1> QED
  BY <1>2, <1>9

\* A filtered list is a list of members of the list, and no longer.
LEMMA FilteredMembers ==
  ASSUME NEW S, NEW s \in Seq(S), NEW chosen \in SUBSET DOMAIN s
  PROVE  /\ Filtered(s, chosen) \in Seq(S)
         /\ Len(Filtered(s, chosen)) <= Len(s)
<1>1. PICK n \in Nat : n = Len(s) /\ DOMAIN s = 1..n
  OBVIOUS
<1>2. PICK c \in 0..n : /\ c = Cardinality(chosen)
                        /\ \A k \in 1..c : \E i \in chosen : Rank(chosen, i) = k
  BY <1>1, RanksAreDense
<1> DEFINE At(k) == CHOOSE i \in chosen : Rank(chosen, i) = k
<1>3. \A k \in 1..c : At(k) \in 1..n
  BY <1>1, <1>2
<1> HIDE DEF At
<1>4. \A k \in 1..c : s[At(k)] \in S
  BY <1>1, <1>3
<1>5. PICK t : t = [k \in 1..c |-> s[At(k)]]
  OBVIOUS
<1>6. t \in [1..c -> S]
  BY <1>4, <1>5
<1>7. t \in Seq(S) /\ Len(t) = c
  BY <1>6
<1>8. Filtered(s, chosen) = t
  BY <1>2, <1>5 DEF Filtered, At
<1> QED
  BY <1>1, <1>7, <1>8

-----------------------------------------------------------------------------
(* The builder of a poll: an accepted draft is kept.                       *)

\* A poll: its switches are Booleans; its names, dates and elements may be anything.
PollsOver(A) ==
    [title : A, mode : A, phase : A, style : A, source : A, verifiedRole : BOOLEAN,
     event : A, directLink : BOOLEAN, resultsPublic : BOOLEAN, resultsLive : BOOLEAN,
     editing : BOOLEAN, multiple : BOOLEAN, starts : A, ends : A, elements : A]

IsPoll(p) ==
    /\ p = [title |-> p.title, mode |-> p.mode, phase |-> p.phase, style |-> p.style,
            source |-> p.source, verifiedRole |-> p.verifiedRole, event |-> p.event,
            directLink |-> p.directLink, resultsPublic |-> p.resultsPublic,
            resultsLive |-> p.resultsLive, editing |-> p.editing, multiple |-> p.multiple,
            starts |-> p.starts, ends |-> p.ends, elements |-> p.elements]
    /\ {p.verifiedRole, p.directLink, p.resultsPublic, p.resultsLive, p.editing, p.multiple}
         \subseteq BOOLEAN

\* A verified role is only asked of voters whose source knows roles: the server enforces
\* it silently, the builder by clearing the switch with every change of the source.
RoleHasItsSource(p) == p.verifiedRole => p.source \in ComputerScienceSources

\* The inductive invariant.
DraftInv == IsPoll(draft) /\ RoleHasItsSource(draft) /\ AcceptedDraftsAreKept

-----------------------------------------------------------------------------
\* A poll is a record of its fields.
LEMMA PollsHaveFields ==
  ASSUME NEW p, IsPoll(p), NEW B
  PROVE  p \in PollsOver(B \cup {p.title, p.mode, p.phase, p.style, p.source, p.event, p.starts,
                             p.ends, p.elements})
  BY DEF IsPoll, PollsOver

\* And such a record is a poll.
LEMMA FieldsMakePolls ==
  ASSUME NEW A, NEW p \in PollsOver(A)
  PROVE  IsPoll(p)
  BY DEF IsPoll, PollsOver

\* Two polls with the same fields are the same.
LEMMA PollsAreTheirFields ==
  ASSUME NEW A, NEW p \in PollsOver(A), NEW q \in PollsOver(A),
         p.title = q.title, p.mode = q.mode, p.phase = q.phase, p.style = q.style,
         p.source = q.source, p.verifiedRole = q.verifiedRole, p.event = q.event,
         p.directLink = q.directLink, p.resultsPublic = q.resultsPublic,
         p.resultsLive = q.resultsLive, p.editing = q.editing, p.multiple = q.multiple,
         p.starts = q.starts, p.ends = q.ends, p.elements = q.elements
  PROVE  p = q
  BY DEF PollsOver

\* The rules of an election keep the shape of a poll, and fix what it may be.
LEMMA RulesKeepPolls ==
  ASSUME NEW p, IsPoll(p), NEW q, q = ApplyCacicElectionRules(p)
  PROVE  /\ IsPoll(q)
         /\ RoleHasItsSource(p) => RoleHasItsSource(q)
         /\ q.mode = "cacicElection" =>
              /\ ~q.directLink /\ ~q.resultsLive
              /\ q.resultsPublic = (q.phase = "election")
         /\ q.mode = "cacicElection" /\ q.phase = "election" =>
              /\ q.style = "anonymous" /\ q.source = "enrollmentList"
              /\ ~q.verifiedRole /\ q.event = None /\ ~q.editing /\ ~q.multiple
<1> DEFINE phase == IF p.phase = None THEN "slateSubmission" ELSE p.phase
           own == Custom(p.elements)
           generated == <<GeneratedElement(phase)>> \o Custom(p.elements)
           A == {None, phase, "anonymous", "enrollmentList", own, generated}
                  \cup {p.title, p.mode, p.phase, p.style, p.source, p.event, p.starts,
                        p.ends, p.elements}
<1>1. p \in PollsOver(A)
  BY PollsHaveFields
<1>2. {None, phase, "anonymous", "enrollmentList", own, generated} \subseteq A
  OBVIOUS
<1>3. CASE p.mode # "cacicElection"
  <2>1. q = [p EXCEPT !.phase = None, !.elements = own]
    BY <1>3 DEF ApplyCacicElectionRules
  <2> HIDE DEF own, generated, A, phase
  <2>2. q \in PollsOver(A) /\ q.mode = p.mode /\ q.verifiedRole = p.verifiedRole
           /\ q.source = p.source
    BY <1>1, <1>2, <2>1 DEF PollsOver
  <2> QED
    BY <1>3, <2>2, FieldsMakePolls DEF RoleHasItsSource
<1>4. CASE p.mode = "cacicElection" /\ phase = "election"
  <2> DEFINE base == [p EXCEPT !.phase = phase, !.directLink = FALSE, !.resultsLive = FALSE,
                               !.elements = generated]
  <2>1. q = [base EXCEPT !.style = "anonymous", !.source = "enrollmentList",
                         !.verifiedRole = FALSE, !.event = None, !.resultsPublic = TRUE,
                         !.editing = FALSE, !.multiple = FALSE]
    BY <1>4 DEF ApplyCacicElectionRules
  <2> HIDE DEF own, generated, A, phase
  <2>0. /\ base \in PollsOver(A) /\ base.phase = phase
        /\ base.directLink = FALSE /\ base.resultsLive = FALSE
    BY <1>1, <1>2 DEF PollsOver
  <2> HIDE DEF base
  <2>2. /\ q \in PollsOver(A) /\ q.phase = phase
        /\ ~q.directLink /\ ~q.resultsLive /\ q.resultsPublic
        /\ q.style = "anonymous" /\ q.source = "enrollmentList"
        /\ ~q.verifiedRole /\ q.event = None /\ ~q.editing /\ ~q.multiple
    BY ZenonT(60), <1>2, <2>0, <2>1 DEF PollsOver
  <2> QED
    BY <1>4, <2>2, FieldsMakePolls DEF RoleHasItsSource
<1>5. CASE p.mode = "cacicElection" /\ phase # "election"
  <2>1. q = [[p EXCEPT !.phase = phase, !.directLink = FALSE, !.resultsLive = FALSE,
                       !.elements = generated]
               EXCEPT !.resultsPublic = FALSE]
    BY <1>5 DEF ApplyCacicElectionRules
  <2> HIDE DEF own, generated, A, phase
  <2>2. /\ q \in PollsOver(A) /\ q.phase = phase /\ q.source = p.source
        /\ ~q.directLink /\ ~q.resultsLive /\ q.resultsPublic = FALSE
        /\ q.verifiedRole = p.verifiedRole
    BY <1>1, <1>2, <2>1 DEF PollsOver
  <2>3. q.resultsPublic = (q.phase = "election")
    BY <1>5, <2>2
  <2> QED
    BY <1>5, <2>2, <2>3, FieldsMakePolls DEF RoleHasItsSource
<1> QED
  BY <1>3, <1>4, <1>5

\* What the server keeps of a request that follows the rules: everything but the event.
LEMMA RequestsAreKept ==
  ASSUME IsPoll(draft), RoleHasItsSource(draft),
         NEW r, r = ToSaveRequest, NEW s, s = ResolvePoll(r)
  PROVE  /\ s = [r EXCEPT !.event = s.event]
         /\ IsPoll(s) /\ RoleHasItsSource(s)
<1> DEFINE poll == ApplyCacicElectionRules(draft)
<1>1. /\ IsPoll(poll) /\ RoleHasItsSource(poll)
      /\ poll.mode = "cacicElection" =>
           /\ ~poll.directLink /\ ~poll.resultsLive
           /\ poll.resultsPublic = (poll.phase = "election")
      /\ poll.mode = "cacicElection" /\ poll.phase = "election" =>
           /\ poll.style = "anonymous" /\ poll.source = "enrollmentList"
           /\ ~poll.verifiedRole /\ poll.event = None /\ ~poll.editing /\ ~poll.multiple
  BY RulesKeepPolls
<1>2. r = [poll EXCEPT !.resultsLive = poll.resultsPublic /\ poll.resultsLive,
                       !.editing = poll.style # "anonymous" /\ ~poll.multiple /\ poll.editing]
  BY DEF ToSaveRequest
<1> HIDE DEF poll
<1> DEFINE kept == IF r.event # None THEN r.event
                   ELSE IF stored # None THEN stored.event ELSE None
           A == {None, kept, "anonymous", "enrollmentList"}
                  \cup {poll.title, poll.mode, poll.phase, poll.style, poll.source, poll.event,
                        poll.starts, poll.ends, poll.elements}
<1>3. poll \in PollsOver(A) /\ {None, kept, "anonymous", "enrollmentList"} \subseteq A
  BY <1>1, PollsHaveFields
<1> HIDE DEF A
<1>4. /\ r \in PollsOver(A)
      /\ r.resultsLive = (poll.resultsPublic /\ poll.resultsLive)
      /\ r.editing = (poll.style # "anonymous" /\ ~poll.multiple /\ poll.editing)
      /\ r.mode = poll.mode /\ r.phase = poll.phase /\ r.style = poll.style
      /\ r.source = poll.source /\ r.verifiedRole = poll.verifiedRole
      /\ r.event = poll.event /\ r.directLink = poll.directLink
      /\ r.resultsPublic = poll.resultsPublic /\ r.multiple = poll.multiple
  BY <1>2, <1>3 DEF PollsOver
<1> DEFINE m == ResolvePollMetadata(r)
<1>5. CASE r.mode = "cacicElection" /\ r.phase = "election"
  <2>1. m = [r EXCEPT !.style = "anonymous", !.source = "enrollmentList",
                      !.verifiedRole = FALSE, !.event = None]
    BY <1>5 DEF ResolvePollMetadata
  <2>2. s = [m EXCEPT !.directLink = m.directLink /\ FALSE,
                      !.resultsPublic = TRUE,
                      !.resultsLive = m.resultsLive /\ r.resultsPublic /\ FALSE,
                      !.multiple = m.multiple /\ FALSE,
                      !.editing = m.editing /\ FALSE /\ m.style # "anonymous" /\ ~r.multiple]
    BY <1>5 DEF ResolvePoll
  <2> HIDE DEF m, kept
  <2>3. /\ m \in PollsOver(A) /\ m.title = r.title /\ m.mode = r.mode /\ m.phase = r.phase
        /\ m.starts = r.starts /\ m.ends = r.ends /\ m.elements = r.elements
        /\ m.style = "anonymous" /\ m.source = "enrollmentList" /\ m.verifiedRole = FALSE
    BY <1>3, <1>4, <2>1 DEF PollsOver
  <2>4. /\ s \in PollsOver(A) /\ s.title = r.title /\ s.mode = r.mode /\ s.phase = r.phase
        /\ s.starts = r.starts /\ s.ends = r.ends /\ s.elements = r.elements
        /\ s.style = "anonymous" /\ s.source = "enrollmentList" /\ s.verifiedRole = FALSE
        /\ s.directLink = FALSE /\ s.resultsPublic = TRUE /\ s.resultsLive = FALSE
        /\ s.multiple = FALSE /\ s.editing = FALSE
    BY ZenonT(60), <2>2, <2>3 DEF PollsOver
  <2> DEFINE t == [r EXCEPT !.event = s.event]
  <2>5. /\ t \in PollsOver(A) /\ t.title = r.title /\ t.mode = r.mode /\ t.phase = r.phase
        /\ t.style = r.style /\ t.source = r.source /\ t.verifiedRole = r.verifiedRole
        /\ t.event = s.event /\ t.directLink = r.directLink
        /\ t.resultsPublic = r.resultsPublic /\ t.resultsLive = r.resultsLive
        /\ t.editing = r.editing /\ t.multiple = r.multiple
        /\ t.starts = r.starts /\ t.ends = r.ends /\ t.elements = r.elements
    BY <1>4, <2>4 DEF PollsOver
  <2> HIDE DEF t
  <2>6. s = t
    BY <1>1, <1>4, <1>5, <2>4, <2>5, PollsAreTheirFields DEF PollsOver
  <2> QED
    BY <2>4, <2>6, FieldsMakePolls DEF t, RoleHasItsSource
<1>6. CASE ~(r.mode = "cacicElection" /\ r.phase = "election")
  <2> DEFINE election == r.mode = "cacicElection"
  <2>1. m = [r EXCEPT !.event = kept,
                      !.verifiedRole = r.verifiedRole /\ r.source \in ComputerScienceSources]
    BY <1>6 DEF ResolvePollMetadata
  <2> DEFINE directLink == m.directLink /\ ~election
             public == IF election THEN FALSE ELSE m.resultsPublic
             live == m.resultsLive /\ r.resultsPublic /\ ~election
             editing == m.editing /\ m.style # "anonymous" /\ ~r.multiple
  <2>2. s = [m EXCEPT !.directLink = directLink, !.resultsPublic = public,
                      !.resultsLive = live, !.multiple = m.multiple /\ TRUE,
                      !.editing = editing]
    BY <1>6 DEF ResolvePoll
  <2> HIDE DEF m, kept
  <2>3. /\ m \in PollsOver(A) /\ m.title = r.title /\ m.mode = r.mode /\ m.phase = r.phase
        /\ m.starts = r.starts /\ m.ends = r.ends /\ m.elements = r.elements
        /\ m.style = r.style /\ m.source = r.source
        /\ m.verifiedRole = (r.verifiedRole /\ r.source \in ComputerScienceSources)
        /\ m.directLink = r.directLink /\ m.resultsPublic = r.resultsPublic
        /\ m.resultsLive = r.resultsLive /\ m.multiple = r.multiple /\ m.editing = r.editing
    BY ZenonT(60), <1>3, <1>4, <2>1 DEF PollsOver
  <2>6. /\ m.verifiedRole = r.verifiedRole
        /\ election => r.resultsPublic = FALSE /\ r.directLink = FALSE
        /\ r.resultsLive => r.resultsPublic
        /\ election => r.resultsLive = FALSE
        /\ r.editing => r.style # "anonymous" /\ ~r.multiple
    BY <1>1, <1>4, <1>6, <2>3 DEF RoleHasItsSource, PollsOver
  <2> HIDE DEF election
  <2>7. /\ directLink = r.directLink /\ public = r.resultsPublic /\ live = r.resultsLive
        /\ (m.multiple /\ TRUE) = r.multiple /\ editing = r.editing
    BY <1>4, <2>3, <2>6 DEF PollsOver
  <2> HIDE DEF directLink, public, live, editing
  <2>10. s = [m EXCEPT !.directLink = r.directLink, !.resultsPublic = r.resultsPublic,
                       !.resultsLive = r.resultsLive, !.multiple = r.multiple,
                       !.editing = r.editing]
    BY <2>2, <2>7
  <2>4. /\ s \in PollsOver(A) /\ s.title = r.title /\ s.mode = r.mode /\ s.phase = r.phase
        /\ s.starts = r.starts /\ s.ends = r.ends /\ s.elements = r.elements
        /\ s.style = r.style /\ s.source = r.source /\ s.verifiedRole = r.verifiedRole
        /\ s.directLink = r.directLink /\ s.resultsPublic = r.resultsPublic
        /\ s.resultsLive = r.resultsLive /\ s.multiple = r.multiple /\ s.editing = r.editing
    <3>1. /\ r.directLink \in BOOLEAN /\ r.resultsPublic \in BOOLEAN
          /\ r.resultsLive \in BOOLEAN /\ r.multiple \in BOOLEAN /\ r.editing \in BOOLEAN
      BY <1>4 DEF PollsOver
    <3>2. m \in PollsOver(A)
      BY <2>3
    <3>3. /\ s \in PollsOver(A) /\ s.title = m.title /\ s.mode = m.mode /\ s.phase = m.phase
          /\ s.starts = m.starts /\ s.ends = m.ends /\ s.elements = m.elements
          /\ s.style = m.style /\ s.source = m.source /\ s.verifiedRole = m.verifiedRole
          /\ s.directLink = r.directLink /\ s.resultsPublic = r.resultsPublic
          /\ s.resultsLive = r.resultsLive /\ s.multiple = r.multiple
          /\ s.editing = r.editing
      <4> DEFINE a == r.directLink
                 b == r.resultsPublic
                 c == r.resultsLive
                 d == r.multiple
                 e == r.editing
      <4>1. /\ a \in BOOLEAN /\ b \in BOOLEAN /\ c \in BOOLEAN /\ d \in BOOLEAN /\ e \in BOOLEAN
            /\ s = [m EXCEPT !.directLink = a, !.resultsPublic = b, !.resultsLive = c,
                             !.multiple = d, !.editing = e]
        BY <2>10, <3>1
      <4> HIDE DEF a, b, c, d, e
      <4> DEFINE first == [m EXCEPT !.directLink = a, !.resultsPublic = b]
                 second == [first EXCEPT !.resultsLive = c, !.multiple = d]
      <4>2. s \in PollsOver(A)
        <5>1. first \in PollsOver(A)
          BY <3>2, <4>1 DEF PollsOver
        <5>2. s = [second EXCEPT !.editing = e]
          BY <4>1
        <5> HIDE DEF first
        <5>3. second \in PollsOver(A)
          BY <4>1, <5>1 DEF PollsOver
        <5> HIDE DEF second
        <5> QED
          BY <4>1, <5>2, <5>3 DEF PollsOver
      <4>3. /\ s.title = m.title /\ s.mode = m.mode /\ s.phase = m.phase
            /\ s.starts = m.starts /\ s.ends = m.ends /\ s.elements = m.elements
            /\ s.style = m.style /\ s.source = m.source
        BY <3>2, <4>1 DEF PollsOver
      <4>4. s.verifiedRole = m.verifiedRole
        BY <3>2, <4>1 DEF PollsOver
      <4>5. s.directLink = a
        BY <3>2, <4>1 DEF PollsOver
      <4>6. s.resultsPublic = b
        BY <3>2, <4>1 DEF PollsOver
      <4>7. s.resultsLive = c
        BY <3>2, <4>1 DEF PollsOver
      <4>8. s.multiple = d
        BY <3>2, <4>1 DEF PollsOver
      <4>9. s.editing = e
        BY <3>2, <4>1 DEF PollsOver
      <4> QED
        BY <4>2, <4>3, <4>4, <4>5, <4>6, <4>7, <4>8, <4>9 DEF a, b, c, d, e
    <3> QED
      BY <2>3, <2>6, <3>3
  <2> DEFINE t == [r EXCEPT !.event = s.event]
  <2>5. /\ t \in PollsOver(A) /\ t.title = r.title /\ t.mode = r.mode /\ t.phase = r.phase
        /\ t.style = r.style /\ t.source = r.source /\ t.verifiedRole = r.verifiedRole
        /\ t.event = s.event /\ t.directLink = r.directLink
        /\ t.resultsPublic = r.resultsPublic /\ t.resultsLive = r.resultsLive
        /\ t.editing = r.editing /\ t.multiple = r.multiple
        /\ t.starts = r.starts /\ t.ends = r.ends /\ t.elements = r.elements
    BY <1>4, <2>4 DEF PollsOver
  <2> HIDE DEF t
  <2>8. s = t
    BY <2>4, <2>5, PollsAreTheirFields
  <2>9. RoleHasItsSource(s)
    BY <2>3, <2>4, <2>6 DEF RoleHasItsSource
  <2> QED
    BY <2>4, <2>8, <2>9, FieldsMakePolls DEF t
<1> QED
  BY <1>5, <1>6

-----------------------------------------------------------------------------
(* The controls of the builder.                                            *)

\* Every control of the page but the element list's leaves a poll that follows the rule.
LEMMA PollEditsKeepPolls ==
  ASSUME IsPoll(draft), RoleHasItsSource(draft), NEW q \in PollEdits
  PROVE  IsPoll(q) /\ RoleHasItsSource(q)
<1> DEFINE Fields == {draft.title, draft.mode, draft.phase, draft.style, draft.source,
                      draft.event, draft.starts, draft.ends, draft.elements}
<1>0. \A B : draft \in PollsOver(B \cup Fields)
  BY PollsHaveFields
<1> HIDE DEF Fields
<1>1. ASSUME NEW x, \/ q = [draft EXCEPT !.title = x]
                   \/ q = [draft EXCEPT !.starts = x]
                   \/ q = [draft EXCEPT !.ends = x]
      PROVE  IsPoll(q) /\ RoleHasItsSource(q)
  <2>1. draft \in PollsOver({x} \cup Fields)
    BY <1>0
  <2>2. q \in PollsOver({x} \cup Fields) /\ q.source = draft.source
          /\ q.verifiedRole = draft.verifiedRole
    BY <1>1, <2>1 DEF PollsOver
  <2> QED
    BY <2>2, FieldsMakePolls DEF RoleHasItsSource
<1>2. CASE q \in UpdateLinkedEvent
  <2>1. PICK e \in linkable \cup {None} :
           q = [draft EXCEPT !.event = e,
                  !.source = IF e = None /\ draft.source \in AttendanceSources
                             THEN "authenticatedUsers" ELSE draft.source,
                  !.verifiedRole = draft.verifiedRole
                                     /\ ~(e = None /\ draft.source \in AttendanceSources)]
    BY <1>2 DEF UpdateLinkedEvent
  <2> DEFINE source == IF e = None /\ draft.source \in AttendanceSources
                       THEN "authenticatedUsers" ELSE draft.source
             role == draft.verifiedRole /\ ~(e = None /\ draft.source \in AttendanceSources)
  <2>2. draft \in PollsOver({e, source} \cup Fields)
    BY <1>0
  <2>3. role \in BOOLEAN /\ (role => source \in ComputerScienceSources)
    BY DEF RoleHasItsSource
  <2> HIDE DEF source, role
  <2>4. q = [draft EXCEPT !.event = e, !.source = source, !.verifiedRole = role]
    BY <2>1 DEF source, role
  <2>5. q \in PollsOver({e, source} \cup Fields) /\ q.source = source /\ q.verifiedRole = role
    BY <2>2, <2>3, <2>4 DEF PollsOver
  <2> QED
    BY <2>3, <2>5, FieldsMakePolls DEF RoleHasItsSource
<1>3. CASE q \in UpdatePollMode
  <2>1. PICK m : q = ApplyCacicElectionRules([draft EXCEPT !.mode = m])
    BY <1>3 DEF UpdatePollMode
  <2> DEFINE p == [draft EXCEPT !.mode = m]
  <2>2. draft \in PollsOver({m} \cup Fields)
    BY <1>0
  <2>3. p \in PollsOver({m} \cup Fields) /\ p.source = draft.source
          /\ p.verifiedRole = draft.verifiedRole
    BY <2>2 DEF PollsOver
  <2> HIDE DEF p
  <2>4. IsPoll(p) /\ RoleHasItsSource(p)
    BY <2>3, FieldsMakePolls DEF RoleHasItsSource
  <2> QED
    BY <2>1, <2>4, RulesKeepPolls DEF p
<1>4. CASE q \in UpdateCacicElectionPhase
  <2>1. PICK m : q = ApplyCacicElectionRules([draft EXCEPT !.phase = m])
    BY <1>4 DEF UpdateCacicElectionPhase
  <2> DEFINE p == [draft EXCEPT !.phase = m]
  <2>2. draft \in PollsOver({m} \cup Fields)
    BY <1>0
  <2>3. p \in PollsOver({m} \cup Fields) /\ p.source = draft.source
          /\ p.verifiedRole = draft.verifiedRole
    BY <2>2 DEF PollsOver
  <2> HIDE DEF p
  <2>4. IsPoll(p) /\ RoleHasItsSource(p)
    BY <2>3, FieldsMakePolls DEF RoleHasItsSource
  <2> QED
    BY <2>1, <2>4, RulesKeepPolls DEF p
<1>5. CASE q \in UpdateVotingStyle
  <2>1. PICK x : q = [draft EXCEPT !.style = x, !.editing = draft.editing /\ x # "anonymous"]
    BY <1>5 DEF UpdateVotingStyle
  <2>2. draft \in PollsOver({x} \cup Fields)
    BY <1>0
  <2> DEFINE kept == draft.editing /\ x # "anonymous"
  <2>3. kept \in BOOLEAN /\ q = [draft EXCEPT !.style = x, !.editing = kept]
    BY <2>1
  <2> HIDE DEF kept
  <2>4. q \in PollsOver({x} \cup Fields) /\ q.source = draft.source
          /\ q.verifiedRole = draft.verifiedRole
    BY <2>2, <2>3 DEF PollsOver
  <2> QED
    BY <2>4, FieldsMakePolls DEF RoleHasItsSource
<1>6. CASE q \in UpdateVoterEligibilitySource
  <2>1. PICK x : q = [draft EXCEPT !.source = x,
                        !.verifiedRole = draft.verifiedRole /\ x \in ComputerScienceSources]
    BY <1>6 DEF UpdateVoterEligibilitySource
  <2>2. draft \in PollsOver({x} \cup Fields)
    BY <1>0
  <2> DEFINE role == draft.verifiedRole /\ x \in ComputerScienceSources
  <2>3. /\ role \in BOOLEAN /\ (role => x \in ComputerScienceSources)
        /\ q = [draft EXCEPT !.source = x, !.verifiedRole = role]
    BY <2>1
  <2> HIDE DEF role
  <2>4. q \in PollsOver({x} \cup Fields) /\ q.source = x /\ q.verifiedRole = role
    BY <2>2, <2>3 DEF PollsOver
  <2> QED
    BY <2>3, <2>4, FieldsMakePolls DEF RoleHasItsSource
<1>7. CASE q \in UpdateRequireVerifiedUnespRole
  <2>1. PICK c : q = [draft EXCEPT
                        !.verifiedRole = draft.source \in ComputerScienceSources /\ c]
    BY <1>7 DEF UpdateRequireVerifiedUnespRole
  <2>2. draft \in PollsOver({} \cup Fields)
    BY <1>0
  <2> DEFINE role == draft.source \in ComputerScienceSources /\ c
  <2>3. /\ role \in BOOLEAN /\ (role => draft.source \in ComputerScienceSources)
        /\ q = [draft EXCEPT !.verifiedRole = role]
    BY <2>1
  <2> HIDE DEF role
  <2>4. q \in PollsOver({} \cup Fields) /\ q.source = draft.source /\ q.verifiedRole = role
    BY <2>2, <2>3 DEF PollsOver
  <2> QED
    BY <2>3, <2>4, FieldsMakePolls DEF RoleHasItsSource
<1>8. CASE q \in UpdateVisibility \cup UpdateAllowResponseEditing \cup UpdateAllowMultipleResponses
  <2>1. draft \in PollsOver({} \cup Fields)
    BY <1>0
  <2>2. PICK c \in BOOLEAN :
           \/ q = [draft EXCEPT !.directLink = c]
           \/ q = [draft EXCEPT !.resultsPublic = c, !.resultsLive = draft.resultsLive /\ c]
           \/ q = [draft EXCEPT !.resultsLive = draft.resultsPublic /\ c]
           \/ q = [draft EXCEPT !.editing = c]
           \/ q = [draft EXCEPT !.multiple = c, !.editing = draft.editing /\ ~c]
    BY <1>8 DEF UpdateVisibility, UpdateAllowResponseEditing, UpdateAllowMultipleResponses
  <2> DEFINE live == draft.resultsLive /\ c
             shown == draft.resultsPublic /\ c
             kept == draft.editing /\ ~c
  <2>3. /\ {live, shown, kept} \subseteq BOOLEAN
        /\ \/ q = [draft EXCEPT !.directLink = c]
           \/ q = [draft EXCEPT !.resultsPublic = c, !.resultsLive = live]
           \/ q = [draft EXCEPT !.resultsLive = shown]
           \/ q = [draft EXCEPT !.editing = c]
           \/ q = [draft EXCEPT !.multiple = c, !.editing = kept]
    BY <2>2
  <2> HIDE DEF live, shown, kept
  <2>4. q \in PollsOver({} \cup Fields) /\ q.source = draft.source
          /\ q.verifiedRole = draft.verifiedRole
    BY <2>1, <2>3 DEF PollsOver
  <2> QED
    BY <2>4, FieldsMakePolls DEF RoleHasItsSource
<1> QED
  BY <1>1, <1>2, <1>3, <1>4, <1>5, <1>6, <1>7, <1>8 DEF PollEdits, UpdateSchedule

\* The controls of the elements change nothing else of the poll.
LEMMA ElementEditsKeepPolls ==
  ASSUME IsPoll(draft), RoleHasItsSource(draft), NEW q \in ElementListEdits
  PROVE  IsPoll(q) /\ RoleHasItsSource(q)
<1>1. PICK list : q = [draft EXCEPT !.elements = list]
  BY DEF ElementListEdits
<1> DEFINE A == {list} \cup {draft.title, draft.mode, draft.phase, draft.style, draft.source,
                             draft.event, draft.starts, draft.ends, draft.elements}
<1>2. draft \in PollsOver(A) /\ list \in A
  BY PollsHaveFields
<1> HIDE DEF A
<1>3. q \in PollsOver(A) /\ q.source = draft.source /\ q.verifiedRole = draft.verifiedRole
  BY <1>1, <1>2 DEF PollsOver
<1> QED
  BY <1>3, FieldsMakePolls DEF RoleHasItsSource

-----------------------------------------------------------------------------
LEMMA InitDraftInv == Init => DraftInv
<1> SUFFICES ASSUME Init PROVE DraftInv
  OBVIOUS
<1>1. IsPoll(BlankPoll) /\ RoleHasItsSource(BlankPoll)
  BY DEF IsPoll, RoleHasItsSource, BlankPoll
<1> QED
  BY <1>1 DEF Init, DraftInv, AcceptedDraftsAreKept

LEMMA StepDraftInv == DraftInv /\ [Next]_vars => DraftInv'
<1> SUFFICES ASSUME DraftInv, [Next]_vars PROVE DraftInv'
  OBVIOUS
<1> USE DEF DraftInv
<1>1. CASE EditDraft
  <2>1. IsPoll(draft') /\ RoleHasItsSource(draft')
    BY <1>1, PollEditsKeepPolls, ElementEditsKeepPolls DEF EditDraft
  <2>2. last' = None
    BY <1>1 DEF EditDraft
  <2> QED
    BY <2>1, <2>2 DEF AcceptedDraftsAreKept, IsPoll, RoleHasItsSource
<1>2. CASE Save
  <2> DEFINE request == ToSaveRequest
             reasons == RequestRefusals(request)
  <2>1. last' = [asked |-> request, reasons |-> reasons]
    BY <1>2 DEF Save
  <2>2. CASE reasons = {}
    <3>1. stored' = ResolvePoll(request) /\ draft' = ApplyCacicElectionRules(stored')
      BY <1>2, <2>2 DEF Save
    <3> HIDE DEF request
    <3>2. /\ stored' = [request EXCEPT !.event = stored'.event]
          /\ IsPoll(stored') /\ RoleHasItsSource(stored')
      BY <3>1, RequestsAreKept DEF request
    <3>3. IsPoll(draft') /\ RoleHasItsSource(draft')
      BY <3>1, <3>2, RulesKeepPolls
    <3> QED
      BY <2>1, <3>2, <3>3 DEF AcceptedDraftsAreKept, IsPoll, RoleHasItsSource
  <2>3. CASE reasons # {}
    <3>1. draft' = draft
      BY <1>2, <2>3 DEF Save
    <3> HIDE DEF reasons, request
    <3> QED
      BY <2>1, <2>3, <3>1 DEF AcceptedDraftsAreKept, IsPoll, RoleHasItsSource
  <2> QED
    BY <2>2, <2>3
<1>3. CASE EventEnds
  BY <1>3 DEF EventEnds, AcceptedDraftsAreKept, IsPoll, RoleHasItsSource
<1>4. CASE UNCHANGED vars
  BY <1>4 DEF vars, AcceptedDraftsAreKept, IsPoll, RoleHasItsSource
<1> QED
  BY <1>1, <1>2, <1>3, <1>4 DEF Next

\* Whatever was edited, a poll the server accepts is the poll that was asked for, its
\* linked event apart: ToSaveRequest of the page and the rules of the server agree on
\* every style, source, phase and switch, for every kind of element.
THEOREM AcceptedPollsAreKept == Spec => []AcceptedDraftsAreKept
<1>1. DraftInv => AcceptedDraftsAreKept
  BY DEF DraftInv
<1> QED
  BY InitDraftInv, StepDraftInv, <1>1, PTL DEF Spec

-----------------------------------------------------------------------------
(* The builder of a poll: a refused draft is correctable.                  *)

\* What the builder keeps of the settings it was given.
SettingsFine(settings) ==
    /\ "linearScale" \in DOMAIN settings =>
          LET scale == settings["linearScale"]
          IN  /\ {"min", "max"} \subseteq DOMAIN scale
              /\ scale.min \in {0, 1} /\ scale.max \in 2..10 /\ scale.max > scale.min
    /\ "starRating" \in DOMAIN settings => settings["starRating"] \in 3..10
    /\ "scheduling" \in DOMAIN settings =>
          LET s == settings["scheduling"]
          IN  /\ {"inviteeMode", "maxInvitees"} \subseteq DOMAIN s
              /\ s.inviteeMode \in {"none", "optional", "required"}
              /\ s.maxInvitees \in (IF s.inviteeMode = "none" THEN 0 ELSE 1)..20

SettingsOf(t) ==
    CASE IsGrid(t) -> {"grid"}
      [] t \in {"linearScale", "starRating", "scheduling"} -> {t}
      [] OTHER -> {}

\* An element the page can put right: what it may lack are texts, options and windows.
ElementOK(e) ==
    /\ {"generated", "type", "title", "required", "options", "settings"} \subseteq DOMAIN e
    /\ e.required \in BOOLEAN /\ (e.required => IsAnswer(e.type))
    /\ IsOptionChoice(e.type) \/ e.options = << >>
    /\ DOMAIN e.settings = SettingsOf(e.type) /\ SettingsFine(e.settings)

ListOK(list) == \E S : list \in Seq(S) /\ \A e \in S : ElementOK(e)

\* The attendance of an event is only asked of voters while an event is linked.
AttendanceHasItsEvent(p) == p.source \in AttendanceSources => p.event # None

-----------------------------------------------------------------------------
\* The settings of a type are of that type, whatever the element had before.
LEMMA CreatedSettings ==
  ASSUME NEW t, NEW e, SettingsFine(e.settings)
  PROVE  /\ DOMAIN CreateSettingsForType(t, e) = SettingsOf(t)
         /\ SettingsFine(CreateSettingsForType(t, e))
<1> DEFINE c == CreateSettingsForType(t, e)
<1>1. CASE IsGrid(t)
  <2>1. c = [grid |-> EnsureGridSettings(Setting(e, "grid"))]
    BY <1>1 DEF CreateSettingsForType, IsGrid
  <2>2. DOMAIN c = {"grid"}
    BY <2>1
  <2> QED
    BY <1>1, <2>2 DEF SettingsOf, SettingsFine, IsGrid
<1>2. CASE t = "linearScale"
  <2> DEFINE old == Setting(e, "linearScale")
             s == EnsureLinearScaleSettings(old)
  <2>1. c = [linearScale |-> s]
    BY <1>2 DEF CreateSettingsForType, IsGrid
  <2>2. s.min \in {0, 1} /\ s.max \in 2..10 /\ s.max > s.min /\ {"min", "max"} \subseteq DOMAIN s
    BY DEF SettingsFine, EnsureLinearScaleSettings, Setting, Larger
  <2> HIDE DEF s
  <2>3. DOMAIN c = {"linearScale"} /\ c["linearScale"] = s
    BY <2>1
  <2> QED
    BY <1>2, <2>2, <2>3 DEF SettingsOf, SettingsFine, IsGrid
<1>3. CASE t = "starRating"
  <2> DEFINE n == IF Setting(e, "starRating") = None THEN 5 ELSE Setting(e, "starRating")
  <2>1. c = [starRating |-> n]
    BY <1>3 DEF CreateSettingsForType, IsGrid
  <2>2. n \in 3..10
    BY DEF SettingsFine, Setting
  <2> HIDE DEF n
  <2>3. DOMAIN c = {"starRating"} /\ c["starRating"] = n
    BY <2>1
  <2> QED
    BY <1>3, <2>2, <2>3 DEF SettingsOf, SettingsFine, IsGrid
<1>4. CASE t = "scheduling"
  <2> DEFINE old == Setting(e, "scheduling")
             s == EnsureSchedulingSettings(old)
  <2>1. c = [scheduling |-> s]
    BY <1>4 DEF CreateSettingsForType, IsGrid
  <2>2. /\ {"inviteeMode", "maxInvitees"} \subseteq DOMAIN s
        /\ s.inviteeMode \in {"none", "optional", "required"}
        /\ s.maxInvitees \in (IF s.inviteeMode = "none" THEN 0 ELSE 1)..20
    <3> DEFINE windows == IF old = None \/ old.windows = << >>
                   THEN <<CreateSchedulingAvailability(1, 1), CreateSchedulingAvailability(2, 2)>>
                   ELSE old.windows
    <3>1. CASE old = None
      <4>1. s = [duration |-> 30, before |-> 0, after |-> 0, inviteeMode |-> "optional",
                 maxInvitees |-> 3, windows |-> windows]
        BY <3>1 DEF EnsureSchedulingSettings
      <4> HIDE DEF windows
      <4> QED
        BY <4>1
    <3>2. CASE old # None
      <4>1. /\ {"inviteeMode", "maxInvitees"} \subseteq DOMAIN old
            /\ old.inviteeMode \in {"none", "optional", "required"}
            /\ old.maxInvitees \in (IF old.inviteeMode = "none" THEN 0 ELSE 1)..20
        BY <3>2 DEF SettingsFine, Setting
      <4>2. s = [old EXCEPT !.windows = windows,
                       !.maxInvitees = IF old.inviteeMode = "none" THEN 0
                                       ELSE IF old.maxInvitees \in InviteeLimits
                                            THEN old.maxInvitees ELSE 3]
        BY <3>2 DEF EnsureSchedulingSettings
      <4> HIDE DEF windows, s
      <4> QED
        BY <4>1, <4>2, InviteeLimitsAssumption
    <3> QED
      BY <3>1, <3>2
  <2> HIDE DEF s
  <2>3. DOMAIN c = {"scheduling"} /\ c["scheduling"] = s
    BY <2>1
  <2> QED
    BY <1>4, <2>2, <2>3 DEF SettingsOf, SettingsFine, IsGrid
<1>5. CASE ~IsGrid(t) /\ t \notin {"linearScale", "starRating", "scheduling"}
  <2>1. c = NoSettings
    BY <1>5 DEF CreateSettingsForType
  <2>2. DOMAIN c = {}
    BY <2>1 DEF NoSettings
  <2> QED
    BY <1>5, <2>2 DEF SettingsOf, SettingsFine
<1> QED
  BY <1>1, <1>2, <1>3, <1>4, <1>5

\* New elements, those of an election, and elements given another type.
LEMMA NewElements ==
  /\ \A t : ElementOK(CreateElement(t))
  /\ \A phase : ElementOK(GeneratedElement(phase))
<1>1. DOMAIN NoSettings = {} /\ SettingsFine(NoSettings)
  BY DEF NoSettings, SettingsFine
<1>2. ASSUME NEW t
      PROVE  ElementOK(CreateElement(t))
  <2> DEFINE settings == CreateSettingsForType(t, [settings |-> NoSettings])
             required == IsAnswer(t)
             options == IF IsOptionChoice(t) THEN TwoOptions ELSE << >>
             e == CreateElement(t)
  <2>1. DOMAIN settings = SettingsOf(t) /\ SettingsFine(settings)
    BY <1>1, CreatedSettings
  <2>2. required \in BOOLEAN /\ (required => IsAnswer(t)) /\ (IsOptionChoice(t) \/ options = << >>)
    BY DEF IsAnswer
  <2>3. e = [generated |-> None, type |-> t, title |-> "text", required |-> required,
             options |-> options, settings |-> settings]
    BY DEF CreateElement
  <2> HIDE DEF settings, required, options, e
  <2>4. /\ DOMAIN e = {"generated", "type", "title", "required", "options", "settings"}
        /\ e.type = t /\ e.required = required /\ e.options = options /\ e.settings = settings
    BY <2>3
  <2>5. ElementOK(e)
    BY <2>1, <2>2, <2>4 DEF ElementOK
  <2> QED
    BY <2>5 DEF e
<1>3. ASSUME NEW phase
      PROVE  ElementOK(GeneratedElement(phase))
  <2> DEFINE type == IF phase = "election" THEN "singleChoice" ELSE "statement"
             required == phase = "election"
             options == IF phase = "election" THEN <<"text", "text", "text">> ELSE << >>
             e == GeneratedElement(phase)
  <2>1. /\ required \in BOOLEAN /\ (required => IsAnswer(type))
        /\ IsOptionChoice(type) \/ options = << >>
        /\ SettingsOf(type) = {}
    BY DEF IsAnswer, IsOptionChoice, SettingsOf, IsGrid
  <2>3. e = [generated |-> phase, type |-> type, title |-> "text", required |-> required,
             options |-> options, settings |-> NoSettings]
    BY DEF GeneratedElement
  <2> HIDE DEF type, required, options, e
  <2>4. /\ DOMAIN e = {"generated", "type", "title", "required", "options", "settings"}
        /\ e.type = type /\ e.required = required /\ e.options = options
        /\ e.settings = NoSettings
    BY <2>3
  <2>5. ElementOK(e)
    BY <1>1, <2>1, <2>4 DEF ElementOK
  <2> QED
    BY <2>5 DEF e
<1> QED
  BY <1>2, <1>3

\* A control of an element leaves an element of that kind.
LEMMA ElementEditsKeepElements ==
  ASSUME NEW e, ElementOK(e), NEW f \in ElementEdits(e)
  PROVE  ElementOK(f)
<1>0. /\ {"generated", "type", "title", "required", "options", "settings"} \subseteq DOMAIN e
      /\ e.required \in BOOLEAN /\ (e.required => IsAnswer(e.type))
      /\ IsOptionChoice(e.type) \/ e.options = << >>
      /\ DOMAIN e.settings = SettingsOf(e.type) /\ SettingsFine(e.settings)
  BY DEF ElementOK
<1>1. CASE \E t \in Types : f = UpdateElementType(e, t)
  <2>1. PICK t \in Types : f = UpdateElementType(e, t)
    BY <1>1
  <2> DEFINE required == e.required /\ IsAnswer(t)
             options == IF IsOptionChoice(t) THEN EnsureChoiceOptions(e.options) ELSE << >>
             settings == CreateSettingsForType(t, e)
  <2>2. DOMAIN settings = SettingsOf(t) /\ SettingsFine(settings)
    BY <1>0, CreatedSettings
  <2>3. required \in BOOLEAN /\ (required => IsAnswer(t)) /\ (IsOptionChoice(t) \/ options = << >>)
    OBVIOUS
  <2>4. f = [e EXCEPT !.type = t, !.required = required, !.options = options,
                      !.settings = settings]
    BY <2>1 DEF UpdateElementType
  <2> HIDE DEF required, options, settings
  <2>5. /\ DOMAIN f = DOMAIN e /\ f.type = t /\ f.required = required
        /\ f.options = options /\ f.settings = settings
    BY <1>0, <2>4
  <2> QED
    BY <1>0, <2>2, <2>3, <2>5 DEF ElementOK
<1>2. CASE \E x : f = [e EXCEPT !.title = x]
  <2>1. PICK x : f = [e EXCEPT !.title = x]
    BY <1>2
  <2>2. /\ DOMAIN f = DOMAIN e /\ f.type = e.type /\ f.required = e.required
        /\ f.options = e.options /\ f.settings = e.settings
    BY <1>0, <2>1
  <2> QED
    BY <1>0, <2>2 DEF ElementOK
<1>3. CASE IsAnswer(e.type) /\ \E x \in BOOLEAN : f = [e EXCEPT !.required = x]
  <2>1. PICK x \in BOOLEAN : f = [e EXCEPT !.required = x]
    BY <1>3
  <2>2. /\ DOMAIN f = DOMAIN e /\ f.type = e.type /\ f.required = x
        /\ f.options = e.options /\ f.settings = e.settings
    BY <1>0, <2>1
  <2> QED
    BY <1>0, <1>3, <2>2 DEF ElementOK
<1>4. CASE IsOptionChoice(e.type) /\ \E x : f = [e EXCEPT !.options = x]
  <2>1. PICK x : f = [e EXCEPT !.options = x]
    BY <1>4
  <2>2. /\ DOMAIN f = DOMAIN e /\ f.type = e.type /\ f.required = e.required
        /\ f.options = x /\ f.settings = e.settings
    BY <1>0, <2>1
  <2> QED
    BY <1>0, <1>4, <2>2 DEF ElementOK
<1>5. ASSUME NEW x, f = [e EXCEPT !.settings = x],
             DOMAIN x = SettingsOf(e.type), SettingsFine(x)
      PROVE  ElementOK(f)
  <2>1. /\ DOMAIN f = DOMAIN e /\ f.type = e.type /\ f.required = e.required
        /\ f.options = e.options /\ f.settings = x
    BY <1>0, <1>5
  <2> QED
    BY <1>0, <1>5, <2>1 DEF ElementOK
<1>6. CASE IsGrid(e.type) /\ f \in GridEdits(e)
  <2>1. PICK x : f = [e EXCEPT !.settings = [grid |-> x]]
    BY <1>6 DEF GridEdits
  <2>2. DOMAIN [grid |-> x] = {"grid"}
    OBVIOUS
  <2>3. SettingsOf(e.type) = {"grid"} /\ SettingsFine([grid |-> x])
    BY <1>6, <2>2 DEF SettingsOf, SettingsFine, IsGrid
  <2> QED
    BY <1>5, <2>1, <2>2, <2>3
<1>7. CASE e.type = "linearScale" /\ f \in LinearScaleEdits(e)
  <2> DEFINE scale == EnsureLinearScaleSettings(Setting(e, "linearScale"))
  <2>1. /\ {"min", "max"} \subseteq DOMAIN scale
        /\ scale.min \in {0, 1} /\ scale.max \in 2..10 /\ scale.max > scale.min
    BY <1>0 DEF SettingsFine, EnsureLinearScaleSettings, Setting, Larger
  <2> HIDE DEF scale
  <2>2. PICK s : /\ f = [e EXCEPT !.settings = [linearScale |-> s]]
                 /\ \/ \E n \in {0, 1} : s = [min |-> n, max |-> Larger(scale.max, n + 1)]
                    \/ \E n \in {2, 10} : s = [scale EXCEPT !.max = Larger(n, scale.min + 1)]
    BY <1>7 DEF LinearScaleEdits, scale
  <2>3. /\ {"min", "max"} \subseteq DOMAIN s
        /\ s.min \in {0, 1} /\ s.max \in 2..10 /\ s.max > s.min
    BY <2>1, <2>2 DEF Larger
  <2> DEFINE x == [linearScale |-> s]
  <2>4. DOMAIN x = {"linearScale"} /\ x["linearScale"] = s
    OBVIOUS
  <2> HIDE DEF x
  <2>5. SettingsOf(e.type) = {"linearScale"} /\ SettingsFine(x)
    BY <1>7, <2>3, <2>4 DEF SettingsOf, SettingsFine, IsGrid
  <2> QED
    BY <1>5, <2>2, <2>4, <2>5 DEF x
<1>8. CASE e.type = "starRating" /\ \E n \in {3, 10} : f = [e EXCEPT !.settings = [starRating |-> n]]
  <2>1. PICK n \in {3, 10} : f = [e EXCEPT !.settings = [starRating |-> n]]
    BY <1>8
  <2> DEFINE x == [starRating |-> n]
  <2>4. DOMAIN x = {"starRating"} /\ x["starRating"] = n
    OBVIOUS
  <2> HIDE DEF x
  <2>5. SettingsOf(e.type) = {"starRating"} /\ SettingsFine(x)
    BY <1>8, <2>4 DEF SettingsOf, SettingsFine, IsGrid
  <2> QED
    BY <1>5, <2>1, <2>4, <2>5 DEF x
<1>9. CASE e.type = "scheduling" /\ f \in SchedulingEdits(e)
  <2> DEFINE c == CreateSettingsForType("scheduling", e)
             s == EnsureSchedulingSettings(Setting(e, "scheduling"))
  <2>1. /\ {"inviteeMode", "maxInvitees"} \subseteq DOMAIN s
        /\ s.inviteeMode \in {"none", "optional", "required"}
        /\ s.maxInvitees \in (IF s.inviteeMode = "none" THEN 0 ELSE 1)..20
    <3>1. SettingsFine(c)
      BY <1>0, CreatedSettings
    <3>2. c = [scheduling |-> s]
      BY DEF CreateSettingsForType, IsGrid
    <3> HIDE DEF c, s
    <3>3. DOMAIN c = {"scheduling"} /\ c["scheduling"] = s
      BY <3>2
    <3> QED
      BY <3>1, <3>3 DEF SettingsFine
  <2> HIDE DEF s
  <2>2. PICK next :
          /\ f = [e EXCEPT !.settings = [scheduling |-> next]]
          /\ \/ \E n : next = [s EXCEPT !.duration = n]
             \/ \E n : next = [s EXCEPT !.before = n]
             \/ \E n : next = [s EXCEPT !.after = n]
             \/ \E n \in InviteeLimits :
                   s.inviteeMode # "none" /\ next = [s EXCEPT !.maxInvitees = n]
             \/ \E m \in {"none", "optional", "required"} :
                   next = [s EXCEPT !.inviteeMode = m,
                                    !.maxInvitees = IF m = "none" THEN 0
                                                    ELSE Larger(s.maxInvitees, 1)]
             \/ \E w : next = [s EXCEPT !.windows = w]
    BY <1>9 DEF SchedulingEdits, s
  <2>3. /\ {"inviteeMode", "maxInvitees"} \subseteq DOMAIN next
        /\ next.inviteeMode \in {"none", "optional", "required"}
        /\ next.maxInvitees \in (IF next.inviteeMode = "none" THEN 0 ELSE 1)..20
    <3>1. CASE \E n : \/ next = [s EXCEPT !.duration = n] \/ next = [s EXCEPT !.before = n]
                      \/ next = [s EXCEPT !.after = n] \/ next = [s EXCEPT !.windows = n]
      <4>1. /\ DOMAIN next = DOMAIN s /\ next.inviteeMode = s.inviteeMode
            /\ next.maxInvitees = s.maxInvitees
        BY <2>1, <3>1
      <4> QED
        BY <2>1, <4>1
    <3>2. CASE \E n \in InviteeLimits :
                  s.inviteeMode # "none" /\ next = [s EXCEPT !.maxInvitees = n]
      <4>1. PICK n \in 1..20 : s.inviteeMode # "none" /\ next = [s EXCEPT !.maxInvitees = n]
        BY <3>2, InviteeLimitsAssumption
      <4>2. DOMAIN next = DOMAIN s /\ next.inviteeMode = s.inviteeMode /\ next.maxInvitees = n
        BY <2>1, <4>1
      <4> QED
        BY <2>1, <4>1, <4>2
    <3>3. CASE \E m \in {"none", "optional", "required"} :
                  next = [s EXCEPT !.inviteeMode = m,
                                   !.maxInvitees = IF m = "none" THEN 0
                                                   ELSE Larger(s.maxInvitees, 1)]
      <4>1. PICK m \in {"none", "optional", "required"} :
                  next = [s EXCEPT !.inviteeMode = m,
                                   !.maxInvitees = IF m = "none" THEN 0
                                                   ELSE Larger(s.maxInvitees, 1)]
        BY <3>3
      <4> DEFINE n == IF m = "none" THEN 0 ELSE Larger(s.maxInvitees, 1)
      <4>2. n \in (IF m = "none" THEN 0 ELSE 1)..20
        BY <2>1 DEF Larger
      <4> HIDE DEF n
      <4>3. DOMAIN next = DOMAIN s /\ next.inviteeMode = m /\ next.maxInvitees = n
        BY <2>1, <4>1 DEF n
      <4> QED
        BY <2>1, <4>2, <4>3
    <3> QED
      BY <2>2, <3>1, <3>2, <3>3
  <2> DEFINE x == [scheduling |-> next]
  <2>4. DOMAIN x = {"scheduling"} /\ x["scheduling"] = next
    OBVIOUS
  <2> HIDE DEF x
  <2>5. SettingsOf(e.type) = {"scheduling"} /\ SettingsFine(x)
    BY <1>9, <2>3, <2>4 DEF SettingsOf, SettingsFine, IsGrid
  <2> QED
    BY <1>5, <2>2, <2>4, <2>5 DEF x
<1> DEFINE ofType ==
      CASE IsOptionChoice(e.type) -> {[e EXCEPT !.options = o] : o \in OptionEdits(e.options)}
        [] IsGrid(e.type) -> GridEdits(e)
        [] e.type = "linearScale" -> LinearScaleEdits(e)
        [] e.type = "starRating" -> {[e EXCEPT !.settings = [starRating |-> n]] : n \in {3, 10}}
        [] e.type = "scheduling" -> SchedulingEdits(e)
        [] OTHER -> {}
<1>10. CASE f \in ofType
  <2>1. \/ IsOptionChoice(e.type) /\ \E x : f = [e EXCEPT !.options = x]
        \/ IsGrid(e.type) /\ f \in GridEdits(e)
        \/ e.type = "linearScale" /\ f \in LinearScaleEdits(e)
        \/ e.type = "starRating" /\ \E n \in {3, 10} : f = [e EXCEPT !.settings = [starRating |-> n]]
        \/ e.type = "scheduling" /\ f \in SchedulingEdits(e)
    BY <1>10 DEF IsOptionChoice, IsGrid
  <2> QED
    BY <1>4, <1>6, <1>7, <1>8, <1>9, <2>1
<1> HIDE DEF ofType
<1>11. \/ \E t \in Types : f = UpdateElementType(e, t)
       \/ \E x : f = [e EXCEPT !.title = x]
       \/ IsAnswer(e.type) /\ \E x \in BOOLEAN : f = [e EXCEPT !.required = x]
       \/ f \in ofType
  BY DEF ElementEdits, ofType
<1> QED
  BY <1>1, <1>2, <1>3, <1>10, <1>11

\* What the server may refuse of an element, the page can put right.
LEMMA RefusalsOfElements ==
  ASSUME NEW e, ElementOK(e)
  PROVE  ElementRefusals(e) \subseteq Correctable
<1>0. /\ e.required \in BOOLEAN /\ (e.required => IsAnswer(e.type))
      /\ IsOptionChoice(e.type) \/ e.options = << >>
      /\ DOMAIN e.settings = SettingsOf(e.type) /\ SettingsFine(e.settings)
  BY DEF ElementOK
<1>1. ASSUME NEW options, NEW least
      PROVE  OptionRefusals(options, least) \subseteq Correctable
  BY DEF OptionRefusals, Correctable
<1>2. SettingsRefusals(e) \subseteq Correctable
  <2>0. DOMAIN e.settings = (CASE IsGrid(e.type) -> {"grid"}
                      [] e.type \in {"linearScale", "starRating", "scheduling"} -> {e.type}
                      [] OTHER -> {})
    BY <1>0 DEF SettingsOf
  <2>1. CASE IsGrid(e.type)
    <3>1. SettingsRefusals(e) = OptionRefusals(e.settings["grid"].rows, 1)
                                  \cup OptionRefusals(e.settings["grid"].columns, 2)
      BY <2>0, <2>1 DEF SettingsRefusals, IsGrid
    <3> QED
      BY <1>1, <3>1
  <2>2. CASE e.type = "linearScale"
    BY <1>0, <2>0, <2>2 DEF SettingsRefusals, IsGrid, SettingsFine
  <2>3. CASE e.type = "starRating"
    BY <1>0, <2>0, <2>3 DEF SettingsRefusals, IsGrid, SettingsFine
  <2>4. CASE e.type = "scheduling"
    <3> DEFINE s == e.settings["scheduling"]
    <3>1. SettingsRefusals(e) = SchedulingRefusals(s)
      BY <2>0, <2>4 DEF SettingsRefusals, IsGrid
    <3>2. s.maxInvitees \in (IF s.inviteeMode = "none" THEN 0 ELSE 1)..20
      BY <1>0, <2>0, <2>4 DEF SettingsFine, IsGrid
    <3> HIDE DEF s
    <3>3. \A w : WindowRefusals(s, w) \subseteq Correctable
      BY DEF WindowRefusals, Correctable
    <3>4. UNION {WindowRefusals(s, s.windows[k]) : k \in DOMAIN s.windows} \subseteq Correctable
      BY <3>3
    <3> DEFINE ofWindows == UNION {WindowRefusals(s, s.windows[k]) : k \in DOMAIN s.windows}
               missing == IF s.windows = << >> THEN {"windowMissing"} ELSE {}
               invitees == IF s.maxInvitees \in (IF s.inviteeMode = "none" THEN 0 ELSE 1)..20
                           THEN {} ELSE {"invitees"}
               overlapping == IF WindowsOverlap(s) THEN {"windowOverlap"} ELSE {}
    <3>5. SchedulingRefusals(s) = ofWindows \cup missing \cup invitees \cup overlapping
      BY DEF SchedulingRefusals
    <3>6. /\ ofWindows \subseteq Correctable /\ missing \subseteq Correctable
          /\ invitees = {} /\ overlapping \subseteq Correctable
      BY <3>2, <3>4 DEF Correctable
    <3> HIDE DEF missing, invitees, overlapping, ofWindows
    <3> QED
      BY <3>1, <3>5, <3>6
  <2>5. CASE ~IsGrid(e.type) /\ e.type \notin {"linearScale", "starRating", "scheduling"}
    BY <2>0, <2>5 DEF SettingsRefusals
  <2> QED
    BY <2>1, <2>2, <2>3, <2>4, <2>5
<1>3. (IF e.title = "blank" THEN {"title"} ELSE {}) \subseteq Correctable
  BY DEF Correctable
<1>4. (IF ~IsAnswer(e.type) /\ e.required THEN {"requiredDisplay"} ELSE {}) = {}
  BY <1>0
<1>5. (IF IsOptionChoice(e.type) THEN OptionRefusals(e.options, 2)
       ELSE IF e.options # << >> THEN {"options"} ELSE {}) \subseteq Correctable
  BY <1>0, <1>1
<1> QED
  BY <1>2, <1>3, <1>4, <1>5 DEF ElementRefusals

\* Lists of elements the page can put right: what filtering and editing leave of them.
LEMMA CustomLists ==
  ASSUME NEW list, ListOK(list)
  PROVE  ListOK(Custom(list)) /\ \A phase : ListOK(<<GeneratedElement(phase)>> \o Custom(list))
<1>1. PICK S : list \in Seq(S) /\ \A e \in S : ElementOK(e)
  BY DEF ListOK
<1>2. PICK c : c = Custom(list)
  OBVIOUS
<1>3. c \in Seq(S)
  <2> DEFINE chosen == {i \in DOMAIN list : list[i].generated = None}
  <2>1. chosen \in SUBSET DOMAIN list /\ c = Filtered(list, chosen)
    BY <1>2 DEF Custom
  <2> HIDE DEF chosen
  <2> QED
    BY <1>1, <2>1, FilteredMembers
<1>4. ASSUME NEW phase
      PROVE  ListOK(<<GeneratedElement(phase)>> \o c)
  <2>1. PICK g : g = GeneratedElement(phase) /\ ElementOK(g)
    BY NewElements
  <2>2. PICK T : T = S \cup {g}
    OBVIOUS
  <2>3. <<g>> \o c \in Seq(T) /\ \A e \in T : ElementOK(e)
    BY <1>1, <1>3, <2>1, <2>2
  <2> QED
    BY <2>1, <2>3 DEF ListOK
<1> QED
  BY <1>1, <1>2, <1>3, <1>4 DEF ListOK

\* Adding, moving, removing and editing elements (poll-builder-draft-elements.ts).
LEMMA ElementListEditsKeepLists ==
  ASSUME IsPoll(draft), ListOK(draft.elements), NEW q \in ElementListEdits
  PROVE  ListOK(q.elements) /\ q.source = draft.source /\ q.event = draft.event
<1>1. PICK items, S : /\ items = draft.elements /\ items \in Seq(S)
                         /\ \A e \in S : ElementOK(e)
  BY DEF ListOK
<1>2. PICK list :
         /\ q = [draft EXCEPT !.elements = list]
         /\ \/ \E t \in Types : list = Append(items, CreateElement(t))
            \/ \E i \in DOMAIN items, j \in DOMAIN items : list = Moved(items, i, j)
            \/ \E i \in DOMAIN items : list = RemoveAt(items, i)
            \/ \E i \in DOMAIN items : \E e \in ElementEdits(items[i]) :
                  list = [items EXCEPT ![i] = e]
  <2> DEFINE edited == UNION {{[items EXCEPT ![i] = e] : e \in ElementEdits(items[i])} :
                                i \in DOMAIN items}
  <2>1. PICK list : q = [draft EXCEPT !.elements = list] /\ list \in EditedElements(items)
    BY <1>1 DEF ElementListEdits
  <2>2. \/ \E t \in Types : list = Append(items, CreateElement(t))
        \/ \E i \in DOMAIN items, j \in DOMAIN items : list = Moved(items, i, j)
        \/ \E i \in DOMAIN items : list = RemoveAt(items, i)
        \/ list \in edited
    BY <2>1 DEF EditedElements
  <2>3. list \in edited => \E i \in DOMAIN items : \E e \in ElementEdits(items[i]) :
                              list = [items EXCEPT ![i] = e]
    BY <1>1
  <2> HIDE DEF edited
  <2> QED
    BY <2>1, <2>2, <2>3
<1>3. q.elements = list /\ q.source = draft.source /\ q.event = draft.event
  BY <1>2 DEF IsPoll
<1>4. \A i \in DOMAIN items : items[i] \in S /\ i \in 1..Len(items)
  BY <1>1
<1>5. \A i \in DOMAIN items :
         /\ RemoveAt(items, i) \in Seq(S) /\ Len(RemoveAt(items, i)) = Len(items) - 1
  <2> TAKE i \in DOMAIN items
  <2>1. PICK n \in Nat : n = Len(items) /\ i \in 1..n
    BY <1>1
  <2>2. PICK a : a = SubSeq(items, 1, i - 1)
    OBVIOUS
  <2>3. PICK b : b = SubSeq(items, i + 1, n)
    OBVIOUS
  <2>4. a \in Seq(S) /\ Len(a) = i - 1
    BY <1>1, <2>1, <2>2
  <2>5. b \in Seq(S) /\ Len(b) = n - i
    BY <1>1, <2>1, <2>3
  <2>6. a \o b \in Seq(S) /\ Len(a \o b) = n - 1
    BY <2>1, <2>4, <2>5
  <2> QED
    BY <2>1, <2>2, <2>3, <2>6 DEF RemoveAt
<1>6. CASE \E t \in Types : list = Append(items, CreateElement(t))
  <2>1. PICK e : list = Append(items, e) /\ ElementOK(e)
    BY <1>6, NewElements
  <2>2. PICK T : T = S \cup {e}
    OBVIOUS
  <2>3. list \in Seq(T) /\ \A x \in T : ElementOK(x)
    BY <1>1, <2>1, <2>2
  <2> QED
    BY <1>3, <2>3 DEF ListOK
<1>7. CASE \E i \in DOMAIN items, j \in DOMAIN items : list = Moved(items, i, j)
  <2>1. PICK i, j, rest :
           {i, j} \subseteq DOMAIN items /\ rest = RemoveAt(items, i) /\ list = InsertAt(rest, j, items[i])
    BY <1>7 DEF Moved
  <2>2. rest \in Seq(S) /\ Len(rest) = Len(items) - 1
    BY <1>5, <2>1
  <2>3. items[i] \in S /\ j \in 1..Len(items) /\ Len(items) \in Nat
    BY <1>1, <1>4, <2>1
  <2>4. SubSeq(rest, 1, j - 1) \in Seq(S) /\ SubSeq(rest, j, Len(rest)) \in Seq(S)
    BY <2>2, <2>3
  <2>5. list \in Seq(S)
    BY <2>1, <2>3, <2>4 DEF InsertAt
  <2> QED
    BY <1>1, <1>3, <2>5 DEF ListOK
<1>8. CASE \E i \in DOMAIN items : list = RemoveAt(items, i)
  BY <1>1, <1>3, <1>5, <1>8 DEF ListOK
<1>9. CASE \E i \in DOMAIN items : \E e \in ElementEdits(items[i]) :
              list = [items EXCEPT ![i] = e]
  <2>1. PICK i, e : /\ i \in DOMAIN items /\ e \in ElementEdits(items[i])
                    /\ list = [items EXCEPT ![i] = e]
    BY <1>9
  <2>2. PICK old : old = items[i] /\ ElementOK(old)
    BY <1>1, <1>4, <2>1
  <2>3. ElementOK(e)
    BY <2>1, <2>2, ElementEditsKeepElements
  <2>4. PICK T : T = S \cup {e}
    OBVIOUS
  <2>5. list \in Seq(T) /\ \A x \in T : ElementOK(x)
    BY <1>1, <2>1, <2>3, <2>4
  <2> QED
    BY <1>3, <2>5 DEF ListOK
<1> QED
  BY <1>2, <1>3, <1>6, <1>7, <1>8, <1>9

-----------------------------------------------------------------------------
(* Drafts the server refuses.                                              *)

\* Nothing of the poll but texts, options, windows and dates is for the server to refuse.
DraftOK(p) == ListOK(p.elements) /\ AttendanceHasItsEvent(p)

\* The inductive invariant.
RefusalInv == DraftInv /\ DraftOK(draft) /\ RefusedDraftsAreCorrectable

\* applyCacicElectionRules keeps a draft one the builder can show.
LEMMA RulesKeepDrafts ==
  ASSUME NEW p, IsPoll(p), DraftOK(p), NEW q, q = ApplyCacicElectionRules(p)
  PROVE  DraftOK(q)
<1> DEFINE phase == IF p.phase = None THEN "slateSubmission" ELSE p.phase
           own == Custom(p.elements)
           generated == <<GeneratedElement(phase)>> \o Custom(p.elements)
           base == [p EXCEPT !.phase = phase, !.directLink = FALSE, !.resultsLive = FALSE,
                             !.elements = generated]
<1>1. ListOK(own) /\ ListOK(generated)
  BY CustomLists DEF DraftOK
<1>2. \/ q = [p EXCEPT !.phase = None, !.elements = own]
      \/ q = [base EXCEPT !.style = "anonymous", !.source = "enrollmentList",
                          !.verifiedRole = FALSE, !.event = None, !.resultsPublic = TRUE,
                          !.editing = FALSE, !.multiple = FALSE]
      \/ q = [base EXCEPT !.resultsPublic = FALSE]
  BY DEF ApplyCacicElectionRules
<1> HIDE DEF own, generated, phase
<1>3. {"elements", "source", "event"} \subseteq DOMAIN p
  BY DEF IsPoll
<1>4. /\ q.elements = own \/ q.elements = generated
      /\ (q.source = p.source /\ q.event = p.event) \/ q.source = "enrollmentList"
  <2>1. CASE q = [p EXCEPT !.phase = None, !.elements = own]
    BY <1>3, <2>1
  <2>2. /\ base.elements = generated /\ base.source = p.source /\ base.event = p.event
        /\ {"elements", "source", "event"} \subseteq DOMAIN base
    BY <1>3
  <2> HIDE DEF base
  <2>3. CASE q = [base EXCEPT !.style = "anonymous", !.source = "enrollmentList",
                          !.verifiedRole = FALSE, !.event = None, !.resultsPublic = TRUE,
                          !.editing = FALSE, !.multiple = FALSE]
    BY <2>2, <2>3
  <2>4. CASE q = [base EXCEPT !.resultsPublic = FALSE]
    BY <2>2, <2>4
  <2> QED
    BY <1>2, <2>1, <2>3, <2>4
<1> QED
  BY <1>1, <1>4 DEF DraftOK, AttendanceHasItsEvent, AttendanceSources

\* So does every control of the settings of the poll.
LEMMA PollEditsKeepDrafts ==
  ASSUME IsPoll(draft), RoleHasItsSource(draft), DraftOK(draft), NEW q \in PollEdits
  PROVE  DraftOK(q)
<1>0. {"elements", "source", "event", "mode", "phase"} \subseteq DOMAIN draft
  BY DEF IsPoll
<1>1. ASSUME q.elements = draft.elements, q.source = draft.source, q.event = draft.event
      PROVE  DraftOK(q)
  BY <1>1 DEF DraftOK, AttendanceHasItsEvent
<1>2. CASE q \in UpdateLinkedEvent
  <2>1. PICK e \in linkable \cup {None} :
           q = [draft EXCEPT !.event = e,
                  !.source = IF e = None /\ draft.source \in AttendanceSources
                             THEN "authenticatedUsers" ELSE draft.source,
                  !.verifiedRole = draft.verifiedRole
                                     /\ ~(e = None /\ draft.source \in AttendanceSources)]
    BY <1>2 DEF UpdateLinkedEvent
  <2> DEFINE source == IF e = None /\ draft.source \in AttendanceSources
                       THEN "authenticatedUsers" ELSE draft.source
             role == draft.verifiedRole /\ ~(e = None /\ draft.source \in AttendanceSources)
  <2>2. source \in AttendanceSources => e # None
    BY DEF AttendanceSources
  <2>3. q = [draft EXCEPT !.event = e, !.source = source, !.verifiedRole = role]
    BY <2>1
  <2> HIDE DEF source, role
  <2>4. q.elements = draft.elements /\ q.source = source /\ q.event = e
    BY <1>0, <2>3
  <2> QED
    BY <2>2, <2>4 DEF DraftOK, AttendanceHasItsEvent
<1>3. CASE q \in UpdatePollMode \cup UpdateCacicElectionPhase
  <2>1. PICK m, p : /\ p = [draft EXCEPT !.mode = m] \/ p = [draft EXCEPT !.phase = m]
                    /\ q = ApplyCacicElectionRules(p)
    BY <1>3 DEF UpdatePollMode, UpdateCacicElectionPhase
  <2>2. IsPoll(p)
    <3> DEFINE Fields == {draft.title, draft.mode, draft.phase, draft.style, draft.source,
                          draft.event, draft.starts, draft.ends, draft.elements}
    <3>1. draft \in PollsOver({m} \cup Fields)
      BY PollsHaveFields
    <3> HIDE DEF Fields
    <3>2. p \in PollsOver({m} \cup Fields)
      BY <2>1, <3>1 DEF PollsOver
    <3> QED
      BY <3>2, FieldsMakePolls
  <2>3. p.elements = draft.elements /\ p.source = draft.source /\ p.event = draft.event
    BY <1>0, <2>1
  <2>4. DraftOK(p)
    BY <2>3 DEF DraftOK, AttendanceHasItsEvent
  <2> QED
    BY <2>1, <2>2, <2>4, RulesKeepDrafts
<1>4. CASE q \in UpdateVoterEligibilitySource
  <2>1. PICK x, role : /\ x \in AttendanceSources => draft.event # None
                       /\ q = [draft EXCEPT !.source = x, !.verifiedRole = role]
    BY <1>4 DEF UpdateVoterEligibilitySource
  <2>2. q.elements = draft.elements /\ q.source = x /\ q.event = draft.event
    BY <1>0, <2>1
  <2> QED
    BY <2>1, <2>2 DEF DraftOK, AttendanceHasItsEvent
<1>5. CASE q \in UpdateVotingStyle \cup UpdateRequireVerifiedUnespRole \cup UpdateVisibility
                   \cup UpdateAllowResponseEditing \cup UpdateAllowMultipleResponses
                   \cup UpdateSchedule \cup {[draft EXCEPT !.title = t] : t \in {"text", "blank"}}
  <2>1. PICK x : \/ q = [draft EXCEPT !.style = x, !.editing = draft.editing /\ x # "anonymous"]
                 \/ q = [draft EXCEPT !.verifiedRole = draft.source \in ComputerScienceSources /\ x]
                 \/ q = [draft EXCEPT !.directLink = x]
                 \/ q = [draft EXCEPT !.resultsPublic = x, !.resultsLive = draft.resultsLive /\ x]
                 \/ q = [draft EXCEPT !.resultsLive = draft.resultsPublic /\ x]
                 \/ q = [draft EXCEPT !.editing = x]
                 \/ q = [draft EXCEPT !.multiple = x, !.editing = draft.editing /\ ~x]
                 \/ q = [draft EXCEPT !.starts = x]
                 \/ q = [draft EXCEPT !.ends = x]
                 \/ q = [draft EXCEPT !.title = x]
    <3>1. CASE q \in UpdateVotingStyle
      BY <3>1 DEF UpdateVotingStyle
    <3>2. CASE q \in UpdateRequireVerifiedUnespRole
      BY <3>2 DEF UpdateRequireVerifiedUnespRole
    <3>3. CASE q \in UpdateVisibility
      BY <3>3 DEF UpdateVisibility
    <3>4. CASE q \in UpdateAllowResponseEditing
      BY <3>4 DEF UpdateAllowResponseEditing
    <3>5. CASE q \in UpdateAllowMultipleResponses
      BY <3>5 DEF UpdateAllowMultipleResponses
    <3>6. CASE q \in UpdateSchedule \cup {[draft EXCEPT !.title = t] : t \in {"text", "blank"}}
      BY <3>6 DEF UpdateSchedule
    <3> QED
      BY <1>5, <3>1, <3>2, <3>3, <3>4, <3>5, <3>6
  <2>2. q.elements = draft.elements /\ q.source = draft.source /\ q.event = draft.event
    BY <1>0, <2>1
  <2> QED
    BY <1>1, <2>2
<1> QED
  BY <1>2, <1>3, <1>4, <1>5 DEF PollEdits

\* A request of such a draft, what the server may refuse of it, and what it stores.
LEMMA RequestsOfDrafts ==
  ASSUME IsPoll(draft), RoleHasItsSource(draft), DraftOK(draft),
         NEW r, r = ToSaveRequest
  PROVE  /\ RequestRefusals(r) \subseteq Correctable
         /\ DraftOK(ResolvePoll(r))
<1> DEFINE poll == ApplyCacicElectionRules(draft)
           m == ResolvePollMetadata(r)
           s == ResolvePoll(r)
<1>1. IsPoll(poll) /\ DraftOK(poll)
  BY RulesKeepPolls, RulesKeepDrafts
<1>2. PICK live, editing : r = [poll EXCEPT !.resultsLive = live, !.editing = editing]
  BY DEF ToSaveRequest
<1> HIDE DEF poll
<1>3. {"elements", "source", "event"} \subseteq DOMAIN r /\ DraftOK(r)
  <2>1. {"elements", "source", "event"} \subseteq DOMAIN poll
    BY <1>1 DEF IsPoll
  <2>2. /\ DOMAIN r = DOMAIN poll /\ r.elements = poll.elements /\ r.source = poll.source
        /\ r.event = poll.event
    BY <1>2, <2>1
  <2> QED
    BY <1>1, <2>1, <2>2 DEF DraftOK, AttendanceHasItsEvent
<1>4. /\ {"elements", "source", "event"} \subseteq DOMAIN m
      /\ m.elements = r.elements /\ AttendanceHasItsEvent(m)
  <2> DEFINE kept == IF r.event # None THEN r.event
                     ELSE IF stored # None THEN stored.event ELSE None
  <2>1. CASE r.mode = "cacicElection" /\ r.phase = "election"
    <3>1. m = [r EXCEPT !.style = "anonymous", !.source = "enrollmentList",
                        !.verifiedRole = FALSE, !.event = None]
      BY <2>1 DEF ResolvePollMetadata
    <3> HIDE DEF m
    <3>2. DOMAIN m = DOMAIN r /\ m.elements = r.elements /\ m.source = "enrollmentList"
      BY <1>3, <3>1
    <3> QED
      BY <1>3, <3>2 DEF AttendanceHasItsEvent, AttendanceSources
  <2>2. CASE ~(r.mode = "cacicElection" /\ r.phase = "election")
    <3>1. PICK role : m = [r EXCEPT !.event = kept, !.verifiedRole = role]
      BY <2>2 DEF ResolvePollMetadata
    <3>2. r.event # None => kept = r.event
      OBVIOUS
    <3> HIDE DEF m, kept
    <3>3. /\ DOMAIN m = DOMAIN r /\ m.elements = r.elements /\ m.source = r.source
          /\ m.event = kept
      BY <1>3, <3>1
    <3> QED
      BY <1>3, <3>2, <3>3 DEF AttendanceHasItsEvent, DraftOK
  <2> QED
    BY <2>1, <2>2
<1>5. RequestRefusals(r) \subseteq Correctable
  <2>1. \A i \in DOMAIN r.elements : ElementRefusals(r.elements[i]) \subseteq Correctable
    <3>1. PICK items, S : items = r.elements /\ items \in Seq(S) /\ \A e \in S : ElementOK(e)
      BY <1>3 DEF DraftOK, ListOK
    <3>2. \A i \in DOMAIN items : ElementOK(items[i])
      BY <3>1
    <3> QED
      BY <3>1, <3>2, RefusalsOfElements
  <2>2. ~(m.event = None /\ m.source \in AttendanceSources)
    BY <1>4 DEF AttendanceHasItsEvent
  <2> DEFINE ofElements == {ElementRefusals(r.elements[i]) : i \in DOMAIN r.elements}
             title == IF r.title = "blank" THEN {"title"} ELSE {}
             schedule == IF r.starts # None /\ r.ends # None /\ r.ends <= r.starts
                         THEN {"schedule"} ELSE {}
             attendance == IF m.event = None /\ m.source \in AttendanceSources
                           THEN {"attendance"} ELSE {}
             event == IF m.event # None /\ m.event \notin linkable
                           /\ (stored = None \/ stored.event # m.event)
                      THEN {"event"} ELSE {}
  <2>3. RequestRefusals(r) = UNION (ofElements \cup {title, schedule, attendance, event})
    BY DEF RequestRefusals
  <2>4. /\ title \subseteq Correctable /\ schedule \subseteq Correctable
        /\ attendance = {} /\ event \subseteq Correctable
    BY <2>2 DEF Correctable
  <2>5. \A x \in ofElements : x \subseteq Correctable
    BY <2>1
  <2> HIDE DEF ofElements, title, schedule, attendance, event
  <2> QED
    BY <2>3, <2>4, <2>5
<1>6. DraftOK(s)
  <2>1. PICK a, b, c, d, e :
           s = [m EXCEPT !.directLink = a, !.resultsPublic = b, !.resultsLive = c,
                         !.multiple = d, !.editing = e]
    BY DEF ResolvePoll
  <2> HIDE DEF s, m
  <2>2. s.elements = m.elements /\ s.source = m.source /\ s.event = m.event
    BY <1>4, <2>1
  <2> QED
    BY <1>3, <1>4, <2>2 DEF DraftOK, AttendanceHasItsEvent
<1> QED
  BY <1>5, <1>6

LEMMA InitRefusalInv == Init => RefusalInv
<1> SUFFICES ASSUME Init PROVE RefusalInv
  OBVIOUS
<1>1. draft = BlankPoll /\ last = None /\ DraftInv
  BY InitDraftInv DEF Init
<1>2. draft.elements = << >> /\ draft.source = "authenticatedUsers"
  BY <1>1 DEF BlankPoll
<1>3. << >> \in Seq({})
  OBVIOUS
<1> QED
  BY <1>1, <1>2, <1>3 DEF RefusalInv, DraftOK, ListOK, AttendanceHasItsEvent, AttendanceSources,
     RefusedDraftsAreCorrectable

LEMMA StepRefusalInv == RefusalInv /\ [Next]_vars => RefusalInv'
<1> SUFFICES ASSUME RefusalInv, [Next]_vars PROVE RefusalInv'
  OBVIOUS
<1>0. /\ DraftInv' /\ IsPoll(draft) /\ RoleHasItsSource(draft) /\ DraftOK(draft)
      /\ RefusedDraftsAreCorrectable
  BY StepDraftInv DEF RefusalInv, DraftInv
<1>1. ASSUME NEW d, d = draft', DraftOK(d), RefusedDraftsAreCorrectable'
      PROVE  RefusalInv'
  BY <1>0, <1>1 DEF RefusalInv, DraftOK, AttendanceHasItsEvent
<1>2. CASE EditDraft
  <2>1. PICK d : d = draft' /\ d \in PollEdits \cup ElementListEdits
    BY <1>2 DEF EditDraft
  <2>2. DraftOK(d)
    BY <1>0, <2>1, PollEditsKeepDrafts, ElementListEditsKeepLists DEF DraftOK, AttendanceHasItsEvent
  <2>3. last' = None
    BY <1>2 DEF EditDraft
  <2> QED
    BY <1>1, <2>1, <2>2, <2>3 DEF RefusedDraftsAreCorrectable
<1>3. CASE Save
  <2>1. PICK r : r = ToSaveRequest
    OBVIOUS
  <2>2. RequestRefusals(r) \subseteq Correctable /\ DraftOK(ResolvePoll(r)) /\ IsPoll(ResolvePoll(r))
    BY <1>0, <2>1, RequestsOfDrafts, RequestsAreKept
  <2>3. last' = [asked |-> r, reasons |-> RequestRefusals(r)]
    BY <1>3, <2>1 DEF Save
  <2>4. RefusedDraftsAreCorrectable'
    BY <2>2, <2>3 DEF RefusedDraftsAreCorrectable, Correctable
  <2>5. \/ draft' = draft
        \/ draft' = ApplyCacicElectionRules(ResolvePoll(r))
    BY <1>3, <2>1 DEF Save
  <2>6. PICK d : d = draft'
    OBVIOUS
  <2>7. DraftOK(d)
    BY <1>0, <2>2, <2>5, <2>6, RulesKeepDrafts
  <2> QED
    BY <1>1, <2>4, <2>6, <2>7
<1>4. CASE EventEnds \/ UNCHANGED vars
  <2>1. draft' = draft /\ last' = last
    BY <1>4 DEF EventEnds, vars
  <2> QED
    BY <1>0, <1>1, <2>1 DEF RefusedDraftsAreCorrectable
<1> QED
  BY <1>2, <1>3, <1>4 DEF Next

\* Whatever the administrator does with the controls, in whatever order, and whatever the
\* server answered before, a refused save names only what the page shows and lets correct:
\* never settings of another type, options of an element without options, a required text
\* or the attendance of no event.
THEOREM RefusalsAreCorrectable == Spec => []RefusedDraftsAreCorrectable
<1>1. RefusalInv => RefusedDraftsAreCorrectable
  BY DEF RefusalInv
<1> QED
  BY InitRefusalInv, StepRefusalInv, <1>1, PTL DEF Spec

-----------------------------------------------------------------------------
(* The page of a vote: what it says of the response.                       *)

\* A message under way. What it carries may be anything.
Messages(A) ==
    [kind : A, generation : A, poll : A, input : A, shown : A, based : A, reply : A]

IsMessage(m) ==
    m = [kind |-> m.kind, generation |-> m.generation, poll |-> m.poll, input |-> m.input,
         shown |-> m.shown, based |-> m.based, reply |-> m.reply]

Counts == ballots \in [Polls -> Nat] /\ generation \in Nat

\* The page shows a poll from its first load on.
Shows ==
    /\ generation > 0 => access \in Polls
    /\ generation = 0 => /\ wire = {} /\ elements = Nothing /\ stateLoad = "idle"
                          /\ ~state.hasSubmitted

\* What an answer says of the voter's response holds of the server.
IsTrue(m) ==
    /\ m.kind = "state" /\ m.reply # Nothing /\ m.reply.hasSubmitted => ballots[m.poll] > 0
    /\ m.kind = "submit" /\ m.reply # Nothing /\ m.reply.accepted => ballots[m.poll] > 0

\* A message belongs to one load of the page, and the messages of the present load are about
\* the poll shown.
BelongsToItsLoad(m) ==
    /\ m.poll \in Polls /\ m.generation \in Nat /\ m.generation <= generation
    /\ m.generation = generation => m.poll = access

Answers == \A m \in wire : IsMessage(m) /\ BelongsToItsLoad(m) /\ IsTrue(m)

\* The inductive invariant.
PageInv == Counts /\ Shows /\ Answers /\ SubmittedMeansRecorded

-----------------------------------------------------------------------------
\* A request has been given no answer.
LEMMA RequestsAreMessages ==
  ASSUME NEW kind, NEW p
  PROVE  /\ IsMessage(Request(kind, p))
         /\ Request(kind, p).kind = kind /\ Request(kind, p).poll = p
         /\ Request(kind, p).generation = generation /\ Request(kind, p).reply = Nothing
  BY DEF Request, IsMessage

\* What an answer changes of a message.
LEMMA RepliesAreMessages ==
  ASSUME NEW m, IsMessage(m), NEW r
  PROVE  /\ IsMessage([m EXCEPT !.reply = r])
         /\ [m EXCEPT !.reply = r].kind = m.kind
         /\ [m EXCEPT !.reply = r].poll = m.poll
         /\ [m EXCEPT !.reply = r].generation = m.generation
         /\ [m EXCEPT !.reply = r].reply = r
<1> DEFINE A == {m.kind, m.generation, m.poll, m.input, m.shown, m.based, m.reply, r}
           q == [m EXCEPT !.reply = r]
<1>1. m \in Messages(A) /\ r \in A
  BY DEF IsMessage, Messages
<1> HIDE DEF A
<1>2. q \in Messages(A) /\ q.kind = m.kind /\ q.poll = m.poll
        /\ q.generation = m.generation /\ q.reply = r
  BY <1>1 DEF Messages
<1> HIDE DEF q
<1>3. IsMessage(q)
  BY <1>2 DEF Messages, IsMessage
<1> QED
  BY <1>2, <1>3 DEF q

\* Messages stay true while the server loses no response and the page shows the same load;
\* so the new ones and what the page shows are all there is to look at.
LEMMA Frame ==
  ASSUME PageInv, Counts', UNCHANGED <<generation, access>>,
         \A p \in Polls : ballots[p] > 0 => ballots'[p] > 0,
         \A m \in wire' : m \in wire \/ (IsMessage(m) /\ BelongsToItsLoad(m)' /\ IsTrue(m)'),
         generation > 0,
         state' = state \/ (state'.hasSubmitted => ballots'[access] > 0)
  PROVE  PageInv'
<1>1. Answers'
  BY DEF PageInv, Answers, BelongsToItsLoad, IsTrue
<1>2. Shows'
  BY DEF PageInv, Shows, Counts
<1>3. SubmittedMeansRecorded'
  BY DEF PageInv, Shows, SubmittedMeansRecorded
<1> QED
  BY <1>1, <1>2, <1>3 DEF PageInv

\* Only a load of the page makes the first message.
LEMMA MessagesFollowLoads ==
  ASSUME PageInv, wire # {} \/ elements # Nothing \/ stateLoad # "idle"
  PROVE  generation > 0 /\ access \in Polls
  BY DEF PageInv, Shows, Counts

LEMMA InitPageInv == VoteInit => PageInv
<1> SUFFICES ASSUME VoteInit PROVE PageInv
  OBVIOUS
<1>1. Counts /\ Shows
  BY DEF VoteInit, Counts, Shows, EmptyState
<1>2. Answers /\ SubmittedMeansRecorded
  BY DEF VoteInit, Answers, SubmittedMeansRecorded, EmptyState
<1> QED
  BY <1>1, <1>2 DEF PageInv

\* A new load resets the page: no earlier message is about it.
LEMMA LoadKeepsInv ==
  ASSUME PageInv, NEW p \in Polls, LoadPoll(p)
  PROVE  PageInv'
<1>0. PICK r : r = [Request("poll", p) EXCEPT !.generation = generation + 1]
  OBVIOUS
<1>1. IsMessage(r) /\ r.poll = p /\ r.generation = generation + 1 /\ r.reply = Nothing
  BY <1>0 DEF Request, IsMessage
<1>2. /\ generation' = generation + 1 /\ access' = p /\ state' = EmptyState
      /\ wire' = wire \cup {r} /\ ballots' = ballots
  BY <1>0 DEF LoadPoll, server
<1>3. Counts' /\ Shows'
  BY <1>2 DEF PageInv, Counts, Shows
<1>4. IsMessage(r)' /\ BelongsToItsLoad(r)' /\ IsTrue(r)'
  BY <1>1, <1>2 DEF PageInv, Counts, IsMessage, BelongsToItsLoad, IsTrue
<1>5. ASSUME NEW m \in wire
      PROVE  IsMessage(m) /\ BelongsToItsLoad(m)' /\ IsTrue(m)'
  BY <1>2, <1>5 DEF PageInv, Counts, Answers, BelongsToItsLoad, IsTrue
<1>6. Answers'
  BY <1>1, <1>2, <1>4, <1>5 DEF Answers
<1>7. SubmittedMeansRecorded'
  BY <1>2 DEF SubmittedMeansRecorded, EmptyState
<1> QED
  BY <1>3, <1>6, <1>7 DEF PageInv

\* What the voter does on the page.
LEMMA VoterKeepsInv ==
  ASSUME PageInv, SetAnswer \/ RetryResponseState \/ Submit
  PROVE  PageInv'
<1>1. UNCHANGED <<ballots, generation, access>>
  BY DEF SetAnswer, RetryResponseState, Submit, server
<1>2. generation > 0 /\ access \in Polls /\ Counts'
  BY <1>1, MessagesFollowLoads DEF SetAnswer, RetryResponseState, Submit, CanVote, PageInv, Counts
<1>3. CASE SetAnswer
  BY <1>1, <1>2, <1>3, Frame DEF SetAnswer
<1>4. CASE RetryResponseState
  <2>1. state' = EmptyState /\ wire' = wire \cup {Request("state", access)}
    BY <1>4 DEF RetryResponseState, LoadUserResponseState
  <2>0. PICK r : r = Request("state", access)
    OBVIOUS
  <2>2. IsMessage(r) /\ r.poll = access /\ r.generation = generation /\ r.reply = Nothing
    BY <2>0, RequestsAreMessages
  <2>3. BelongsToItsLoad(r)' /\ IsTrue(r)'
    BY <1>1, <1>2, <2>2 DEF PageInv, Counts, BelongsToItsLoad, IsTrue
  <2> QED
    BY <1>1, <1>2, <2>0, <2>1, <2>2, <2>3, Frame DEF EmptyState
<1>5. CASE Submit
  <2>0. PICK r : r = [Request("submit", access) EXCEPT !.input = BuildPollResponseAnswers,
                                                       !.shown = elements, !.based = based]
    OBVIOUS
  <2>1. state' = state /\ wire' = wire \cup {r}
    BY <1>5, <2>0 DEF Submit
  <2>2. IsMessage(r) /\ r.poll = access /\ r.generation = generation /\ r.reply = Nothing
    BY <2>0 DEF Request, IsMessage
  <2>3. BelongsToItsLoad(r)' /\ IsTrue(r)'
    BY <1>1, <1>2, <2>2 DEF PageInv, Counts, BelongsToItsLoad, IsTrue
  <2> QED
    BY <1>1, <1>2, <2>1, <2>2, <2>3, Frame
<1> QED
  BY <1>3, <1>4, <1>5

\* The server's answers say what it stored.
LEMMA ServerKeepsInv ==
  ASSUME PageInv, NEW m \in wire, ReplyPoll(m) \/ ReplyState(m) \/ SaveResponse(m)
  PROVE  PageInv'
<1>1. /\ IsMessage(m) /\ BelongsToItsLoad(m) /\ m.poll \in Polls
      /\ generation > 0 /\ Counts
  BY MessagesFollowLoads DEF PageInv, Answers, BelongsToItsLoad
<1>2. UNCHANGED <<generation, access, state>>
  BY DEF ReplyPoll, ReplyState, SaveResponse, page
<1>3. ASSUME NEW r, wire' = (wire \ {m}) \cup {[m EXCEPT !.reply = r]},
             ballots' \in [Polls -> Nat],
             \A p \in Polls : ballots[p] > 0 => ballots'[p] > 0,
             m.kind = "state" /\ r.hasSubmitted => ballots'[m.poll] > 0,
             m.kind = "submit" /\ r.accepted => ballots'[m.poll] > 0
      PROVE  PageInv'
  <2> DEFINE q == [m EXCEPT !.reply = r]
  <2>1. /\ IsMessage(q) /\ q.kind = m.kind /\ q.poll = m.poll
        /\ q.generation = m.generation /\ q.reply = r
    BY <1>1, RepliesAreMessages
  <2>2. wire' = (wire \ {m}) \cup {q}
    BY <1>3
  <2> HIDE DEF q
  <2>3. BelongsToItsLoad(q)' /\ IsTrue(q)'
    BY <1>1, <1>2, <1>3, <2>1 DEF BelongsToItsLoad, IsTrue
  <2> QED
    BY <1>1, <1>2, <1>3, <2>1, <2>2, <2>3, Frame DEF Counts
<1>4. CASE ReplyPoll(m)
  BY <1>1, <1>3, <1>4 DEF ReplyPoll, server, Counts
<1>5. CASE ReplyState(m)
  <2>1. ReadUserResponseState(m.poll).hasSubmitted = (ballots[m.poll] > 0)
    BY DEF ReadUserResponseState
  <2> QED
    BY <1>1, <1>3, <1>5, <2>1 DEF ReplyState, server, Counts
<1>6. CASE SaveResponse(m)
  <2>1. \/ /\ \E reasons : wire' = (wire \ {m}) \cup
                  {[m EXCEPT !.reply = [accepted |-> FALSE, reasons |-> reasons,
                                        under |-> definition[m.poll]]]}
           /\ ballots' = ballots
        \/ /\ wire' = (wire \ {m}) \cup
                  {[m EXCEPT !.reply = [accepted |-> TRUE, response |-> response'[m.poll]]]}
           /\ ballots' = [ballots EXCEPT ![m.poll] =
                           IF policy[m.poll] = "multiple" THEN ballots[m.poll] + 1 ELSE 1]
    BY <1>6 DEF SaveResponse
  <2>2. m.kind = "submit"
    BY <1>6 DEF SaveResponse
  <2>3. CASE ballots' = ballots /\ \E reasons : wire' = (wire \ {m}) \cup
                  {[m EXCEPT !.reply = [accepted |-> FALSE, reasons |-> reasons,
                                        under |-> definition[m.poll]]]}
    BY <1>1, <1>3, <2>2, <2>3 DEF Counts
  <2>4. CASE /\ wire' = (wire \ {m}) \cup
                  {[m EXCEPT !.reply = [accepted |-> TRUE, response |-> response'[m.poll]]]}
             /\ ballots' = [ballots EXCEPT ![m.poll] =
                             IF policy[m.poll] = "multiple" THEN ballots[m.poll] + 1 ELSE 1]
    <3>1. /\ ballots' \in [Polls -> Nat] /\ ballots'[m.poll] > 0
          /\ \A p \in Polls : ballots[p] > 0 => ballots'[p] > 0
      BY <1>1, <2>4 DEF Counts
    <3> QED
      BY <1>3, <2>2, <2>4, <3>1
  <2> QED
    BY <2>1, <2>3, <2>4
<1> QED
  BY <1>4, <1>5, <1>6

\* The page uses an answer only if its load is the present one.
LEMMA AnswerKeepsInv ==
  ASSUME PageInv, NEW m \in wire,
         PollArrives(m) \/ StateArrives(m) \/ SubmissionArrives(m) \/ RequestFails(m)
  PROVE  PageInv'
<1>1. /\ IsMessage(m) /\ BelongsToItsLoad(m) /\ IsTrue(m) /\ m.poll \in Polls
      /\ generation > 0 /\ access \in Polls /\ Counts
  BY MessagesFollowLoads DEF PageInv, Answers, BelongsToItsLoad
<1>2. UNCHANGED <<generation, access, ballots>>
  BY DEF PollArrives, StateArrives, SubmissionArrives, RequestFails, server
<1>3. Counts'
  BY <1>1, <1>2 DEF Counts
<1>4. CASE PollArrives(m)
  <2>0. PICK r : r = Request("state", m.poll)
    OBVIOUS
  <2>1. IsMessage(r) /\ r.poll = m.poll /\ r.generation = generation /\ r.reply = Nothing
    BY <2>0, RequestsAreMessages
  <2>2. \/ wire' = wire \ {m} /\ state' = state
        \/ /\ m.generation = generation /\ state' = EmptyState
           /\ wire' = (wire \ {m}) \cup {r}
    BY <1>4, <2>0 DEF PollArrives, IsPollLoadCurrent, LoadUserResponseState
  <2>3. m.generation = generation => BelongsToItsLoad(r)' /\ IsTrue(r)'
    BY <1>1, <1>2, <2>1 DEF Counts, BelongsToItsLoad, IsTrue
  <2>4. EmptyState.hasSubmitted = FALSE
    BY DEF EmptyState
  <2> QED
    BY <1>1, <1>2, <1>3, <2>1, <2>2, <2>3, <2>4, Frame
<1>5. CASE StateArrives(m)
  <2>1. /\ wire' = wire \ {m} /\ m.kind = "state" /\ m.reply # Nothing
        /\ state' = state \/ (m.generation = generation /\ state' = m.reply)
    BY <1>5 DEF StateArrives, IsPollLoadCurrent
  <2>2. state' = state \/ (state'.hasSubmitted => ballots'[access] > 0)
    BY <1>1, <1>2, <2>1 DEF BelongsToItsLoad, IsTrue
  <2> QED
    BY <1>1, <1>2, <1>3, <2>1, <2>2, Frame
<1>6. CASE SubmissionArrives(m)
  <2>1. /\ wire' = wire \ {m} /\ m.kind = "submit" /\ m.reply # Nothing
        /\ state' = state \/ (m.generation = generation /\ m.reply.accepted)
    BY <1>6 DEF SubmissionArrives, IsPollLoadCurrent
  <2>2. state' = state \/ ballots'[access] > 0
    BY <1>1, <1>2, <2>1 DEF BelongsToItsLoad, IsTrue
  <2> QED
    BY <1>1, <1>2, <1>3, <2>1, <2>2, Frame
<1>7. CASE RequestFails(m)
  BY <1>1, <1>2, <1>3, <1>7, Frame DEF RequestFails
<1> QED
  BY <1>4, <1>5, <1>6, <1>7

LEMMA StepPageInv == PageInv /\ [VoteNext]_voteVars => PageInv'
<1>1. ASSUME PageInv, NEW p \in Polls, SaveDefinition(p)
      PROVE  PageInv'
  BY <1>1 DEF SaveDefinition, page, PageInv, Counts, Shows, Answers, IsMessage,
     BelongsToItsLoad, IsTrue, SubmittedMeansRecorded
<1>2. ASSUME PageInv, UNCHANGED voteVars
      PROVE  PageInv'
  BY <1>2 DEF voteVars, server, page, PageInv, Counts, Shows, Answers, IsMessage,
     BelongsToItsLoad, IsTrue, SubmittedMeansRecorded
<1> QED
  BY <1>1, <1>2, LoadKeepsInv, VoterKeepsInv, ServerKeepsInv, AnswerKeepsInv DEF VoteNext

\* SubmittedMeansRecorded: a page says that a response was registered only for the poll it
\* shows and only when the server has it, whatever answers of earlier loads come late.
THEOREM PagesTellTheTruth == VoteSpec => []SubmittedMeansRecorded
<1>1. PageInv => SubmittedMeansRecorded
  BY DEF PageInv
<1> QED
  BY InitPageInv, StepPageInv, <1>1, PTL DEF VoteSpec

-----------------------------------------------------------------------------
(* The page of a vote: what its controls make.                             *)

\* A list, and a value whose invitees are one.
IsSequence(s) == \E S : s \in Seq(S)

WellFormed(v) ==
    IsObject(v) /\ "invitees" \in DOMAIN v.fields /\ DOMAIN v.fields["invitees"] = {"invitees"}
        => IsSequence(v.fields["invitees"].invitees)

\* What the controls of an element make, and what the server stores for it.
Good(e, v) ==
    \/ IsNull(v)
    \/ /\ e.type \notin {"section", "statement"}
       /\ e.type = "text" => IsText(v)
       /\ e.type = "singleChoice" => IsText(v) /\ v.text \in e.options
       /\ e.type = "multipleChoice" => DOMAIN v = {"texts"} /\ v.texts \subseteq e.options
       /\ e.type = "singleSelectionGrid" =>
             /\ IsObject(v) /\ DOMAIN v.fields \subseteq e.rows
             /\ \A r \in DOMAIN v.fields : IsText(v.fields[r]) /\ v.fields[r].text \in e.columns
       /\ e.type = "multipleSelectionGrid" =>
             /\ IsObject(v) /\ DOMAIN v.fields \subseteq e.rows
             /\ \A r \in DOMAIN v.fields :
                   DOMAIN v.fields[r] = {"texts"} /\ v.fields[r].texts \subseteq e.columns
       /\ e.type = "number" => IsNumber(v) /\ v.number \in e.min..e.max
       /\ e.type = "date" => IsText(v) /\ v.text \in Dates \cup {Empty}
       /\ e.type = "scheduling" =>
             /\ IsObject(v) /\ {"slotId", "invitees"} \subseteq DOMAIN v.fields
             /\ IsText(v.fields["slotId"])
             /\ v.fields["slotId"].text \in BuildSchedulingSlots(e) \cup {Empty}
             /\ DOMAIN v.fields["invitees"] = {"invitees"}
             /\ e.inviteeMode # "none" => Len(v.fields["invitees"].invitees) <= e.maxInvitees

AllWellFormed(given) == \A id \in DOMAIN given : WellFormed(given[id])

\* Answers that could have been given to a definition with its controls.
GoodFor(d, given) == \A i \in DOMAIN d : Good(d[i], ValueFor(given, d[i].id))

IsResponse(r) ==
    r.under \in Definitions /\ AllWellFormed(r.given) /\ GoodFor(r.under, r.given)

IsCurrent(m) == m.generation = generation

\* One load asks for the poll once, and asks for nothing else before it has it.
LoadsInOrder ==
    /\ \A m, n \in wire : IsCurrent(m) /\ IsCurrent(n) /\ m.kind = "poll" => n = m
    /\ (\E m \in wire : IsCurrent(m) /\ m.kind = "poll") => elements = Nothing
    /\ elements = Nothing => /\ answers = << >> /\ based = Nothing /\ stateLoad # "failed"
                          /\ \A m \in wire : IsCurrent(m) => m.kind = "poll"

\* What a message carries.
Carries(m) ==
    /\ m.kind = "poll" /\ m.reply # Nothing => m.reply.elements \in Definitions
    /\ m.kind = "state" /\ m.reply # Nothing /\ m.reply.canEdit => IsResponse(m.reply.response)
    /\ m.kind = "submit" =>
          /\ m.shown \in Definitions /\ AllWellFormed(m.input)
          /\ m.based \in {Nothing, m.shown} => RefusalsOf(m.shown, m.input) \subseteq Incomplete
          /\ m.reply # Nothing /\ m.reply.accepted => IsResponse(m.reply.response)
          /\ m.reply # Nothing /\ ~m.reply.accepted =>
                m.reply.reasons \subseteq RefusalsOf(m.reply.under, m.input)

AnswersOfControls ==
    /\ \A p \in Polls : definition[p] \in Definitions
    /\ DOMAIN response = Polls
    /\ \A p \in Polls : response[p] # Nothing => IsResponse(response[p])
    /\ elements = Nothing \/ elements \in Definitions
    /\ AllWellFormed(answers)
    /\ elements # Nothing /\ based \in {Nothing, elements} => GoodFor(elements, answers)

\* The inductive invariant.
ControlInv == PageInv /\ LoadsInOrder /\ AnswersOfControls /\ \A m \in wire : Carries(m)

KnownElement(e) ==
    /\ e.type \in ElementTypes
    /\ {e.bufferBefore, e.duration, e.bufferAfter} \subseteq Int
    /\ e.maxInvitees \in Nat
    /\ \A w \in e.windows : {w.start, w.end} \subseteq Int

-----------------------------------------------------------------------------
(* Values.                                                                 *)

\* The shapes of JSON values, as records of one field.
LEMMA Shapes ==
  /\ \A x : DOMAIN [text |-> x] = {"text"} /\ [text |-> x].text = x
  /\ \A x : DOMAIN [texts |-> x] = {"texts"} /\ [texts |-> x].texts = x
  /\ \A x : DOMAIN [number |-> x] = {"number"} /\ [number |-> x].number = x
  /\ \A x : DOMAIN [fields |-> x] = {"fields"} /\ [fields |-> x].fields = x
  /\ \A x : DOMAIN [invitees |-> x] = {"invitees"} /\ [invitees |-> x].invitees = x
  /\ \A x : IsRefusal(Refusal(x)) /\ Refusal(x).refused = x
  /\ IsNull(Null) /\ ~IsRefusal(Null)
  BY DEF IsRefusal, Refusal, IsNull, Null

\* A value has one shape.
LEMMA ShapesDiffer ==
  ASSUME NEW v
  PROVE  /\ IsNull(v) => ~IsText(v) /\ ~IsNumber(v) /\ ~IsList(v) /\ ~IsObject(v) /\ ~IsRefusal(v)
         /\ IsText(v) => ~IsNull(v) /\ ~IsNumber(v) /\ ~IsList(v) /\ ~IsObject(v) /\ ~IsRefusal(v)
         /\ IsNumber(v) => ~IsNull(v) /\ ~IsObject(v) /\ ~IsRefusal(v)
         /\ IsList(v) => ~IsNull(v) /\ ~IsText(v) /\ ~IsObject(v) /\ ~IsRefusal(v)
         /\ IsObject(v) => ~IsNull(v) /\ ~IsText(v) /\ ~IsList(v) /\ ~IsRefusal(v)
         /\ DOMAIN v = {"texts"} => IsList(v) /\ DOMAIN v # {"invitees"}
         /\ IsObject(v) => DOMAIN v # {"texts"} /\ DOMAIN v # {"invitees"}
         /\ IsText(v) => DOMAIN v # {"texts"} /\ DOMAIN v # {"invitees"}
<1>1. /\ "null" \notin {"text"} /\ "null" \notin {"number"} /\ "null" \notin {"texts"}
      /\ "null" \notin {"invitees"} /\ "null" \notin {"fields"} /\ "null" \notin {"refused"}
      /\ "text" \notin {"null"} /\ "text" \notin {"number"} /\ "text" \notin {"texts"}
      /\ "text" \notin {"invitees"} /\ "text" \notin {"fields"} /\ "text" \notin {"refused"}
      /\ "number" \notin {"fields"} /\ "number" \notin {"refused"}
      /\ "texts" \notin {"fields"} /\ "texts" \notin {"refused"} /\ "texts" \notin {"invitees"}
      /\ "invitees" \notin {"fields"} /\ "invitees" \notin {"refused"}
      /\ "fields" \notin {"refused"}
  OBVIOUS
<1>2. \A x : x \in {x}
  OBVIOUS
<1> QED
  BY <1>1, <1>2 DEF IsNull, IsText, IsNumber, IsList, IsObject, IsRefusal

\* Values that are no objects are well formed.
LEMMA PlainValues ==
  /\ \A v : ~IsObject(v) => WellFormed(v)
  /\ \A x : IsText([text |-> x]) /\ WellFormed([text |-> x])
  /\ \A x : WellFormed([texts |-> x]) /\ WellFormed([number |-> x]) /\ IsNumber([number |-> x])
  /\ WellFormed(Null)
<1>1. \A v : ~IsObject(v) => WellFormed(v)
  BY DEF WellFormed
<1>2. \A x : IsText([text |-> x]) /\ DOMAIN [texts |-> x] = {"texts"} /\ IsNumber([number |-> x])
  BY Shapes DEF IsText, IsNumber
<1>3. \A x : ~IsObject([text |-> x]) /\ ~IsObject([texts |-> x]) /\ ~IsObject([number |-> x])
  BY <1>2, ShapesDiffer
<1> QED
  BY <1>1, <1>2, <1>3, Shapes, ShapesDiffer

\* The page offers the slots the server accepts.
LEMMA PageSlotsAreServerSlots ==
  ASSUME NEW e, KnownElement(e)
  PROVE  SchedulingSlots(e) \subseteq BuildSchedulingSlots(e)
<1> SUFFICES ASSUME NEW s \in SchedulingSlots(e)
             PROVE  s \in BuildSchedulingSlots(e)
  OBVIOUS
<1>1. PICK w \in e.windows : s \in {<<w.id, t>> : t \in {t \in FirstStart(e, w)..LastStart(e, w) :
                                    (t - FirstStart(e, w)) % e.interval = 0}}
  BY DEF SchedulingSlots
<1>2. PICK t \in FirstStart(e, w)..LastStart(e, w) : TRUE
  BY <1>1
<1>3. w.end - w.start >= e.bufferBefore + e.duration + e.bufferAfter
  BY <1>2 DEF KnownElement, FirstStart, LastStart
<1> QED
  BY <1>1, <1>3 DEF BuildSchedulingSlots

\* No invitees are a list.
LEMMA EmptySequence ==
  IsSequence(<< >>) /\ Len(<< >>) = 0 /\ DOMAIN << >> = {}
<1>1. << >> \in Seq({})
  OBVIOUS
<1> QED
  BY <1>1 DEF IsSequence

\* A sequence of records, whatever is done to each.
LEMMA MappedSequences ==
  ASSUME NEW s, IsSequence(s), NEW t, DOMAIN t = DOMAIN s, t = [k \in DOMAIN s |-> t[k]]
  PROVE  IsSequence(t) /\ Len(t) = Len(s)
<1>1. PICK S : s \in Seq(S)
  BY DEF IsSequence
<1>2. PICK n \in Nat : n = Len(s) /\ DOMAIN s = 1..n
  BY <1>1
<1>3. PICK T : T = {t[k] : k \in 1..n}
  OBVIOUS
<1>4. t \in [1..n -> T]
  BY <1>2, <1>3
<1>5. t \in Seq(T) /\ Len(t) = n
  BY <1>4
<1> QED
  BY <1>2, <1>5 DEF IsSequence

\* GivenInvitees keeps a list a list, and no longer.
LEMMA FilteredSequences ==
  ASSUME NEW s, IsSequence(s)
  PROVE  IsSequence(GivenInvitees(s)) /\ Len(GivenInvitees(s)) <= Len(s)
<1>1. PICK S : s \in Seq(S)
  BY DEF IsSequence
<1> DEFINE chosen == {k \in DOMAIN s : Trim(s[k].name) # Empty \/ Trim(s[k].email) # Empty}
<1>2. chosen \in SUBSET DOMAIN s /\ GivenInvitees(s) = Filtered(s, chosen)
  BY DEF GivenInvitees
<1> HIDE DEF chosen
<1> QED
  BY <1>1, <1>2, FilteredMembers DEF IsSequence

\* What the page reads of a value is a meeting with a list of invitees.
LEMMA SchedulingRead ==
  ASSUME NEW v, WellFormed(v), NEW r, r = ReadSchedulingAnswer(v)
  PROVE  /\ DOMAIN r = {"slotId", "invitees"} /\ DOMAIN r.invitees = {"invitees"}
         /\ r = [slotId |-> r.slotId, invitees |-> [invitees |-> r.invitees.invitees]]
         /\ IsText(r.slotId) /\ IsSequence(r.invitees.invitees)
         /\ ~IsObject(v) => r.slotId.text = Empty /\ r.invitees.invitees = << >>
         /\ IsObject(v) /\ "slotId" \in DOMAIN v.fields /\ IsText(v.fields["slotId"])
               => r.slotId = v.fields["slotId"]
         /\ IsObject(v) /\ "invitees" \in DOMAIN v.fields /\ DOMAIN v.fields["invitees"] = {"invitees"}
               => r.invitees.invitees = v.fields["invitees"].invitees
<1> DEFINE slot == IF IsObject(v) /\ "slotId" \in DOMAIN v.fields /\ IsText(v.fields["slotId"])
                   THEN v.fields["slotId"] ELSE [text |-> Empty]
           list == IF /\ IsObject(v) /\ "invitees" \in DOMAIN v.fields
                      /\ DOMAIN v.fields["invitees"] = {"invitees"}
                   THEN v.fields["invitees"].invitees ELSE << >>
<1>1. r = [slotId |-> slot, invitees |-> [invitees |-> list]]
  BY DEF ReadSchedulingAnswer
<1>2. IsText(slot) /\ IsSequence(list)
  BY PlainValues, EmptySequence DEF WellFormed
<1>3. ~IsObject(v) => slot.text = Empty /\ list = << >>
  BY Shapes
<1>4. /\ IsObject(v) /\ "slotId" \in DOMAIN v.fields /\ IsText(v.fields["slotId"])
            => slot = v.fields["slotId"]
      /\ IsObject(v) /\ "invitees" \in DOMAIN v.fields /\ DOMAIN v.fields["invitees"] = {"invitees"}
            => list = v.fields["invitees"].invitees
  OBVIOUS
<1> HIDE DEF slot, list
<1>5. /\ DOMAIN r = {"slotId", "invitees"} /\ r.slotId = slot
      /\ DOMAIN r.invitees = {"invitees"} /\ r.invitees.invitees = list
  BY <1>1
<1> QED
  BY <1>1, <1>2, <1>3, <1>4, <1>5

-----------------------------------------------------------------------------
(* What the server says of an answer given with the controls.              *)

\* A refusal of such an answer says what is missing.
RefusedAsIncomplete(n) == IsRefusal(n) => n.refused \in Incomplete

\* Values that are no refusals, and refusals for what is missing.
LEMMA NothingRefused ==
  /\ RefusedAsIncomplete(Null)
  /\ \A reason \in Incomplete : RefusedAsIncomplete(Refusal(reason))
  /\ \A v : ~IsRefusal(v) => RefusedAsIncomplete(v)
  /\ \A e, given : RefusedAsIncomplete(GridAnswer(e, given))
<1>1. /\ RefusedAsIncomplete(Null)
      /\ \A reason \in Incomplete : RefusedAsIncomplete(Refusal(reason))
      /\ \A v : ~IsRefusal(v) => RefusedAsIncomplete(v)
  BY Shapes DEF RefusedAsIncomplete
<1>2. ASSUME NEW e, NEW given
      PROVE  RefusedAsIncomplete(GridAnswer(e, given))
  <2>1. "required" \in Incomplete
    BY DEF Incomplete
  <2>2. PICK x : x = [fields |-> given]
    OBVIOUS
  <2>3. ~IsRefusal(x)
    BY <2>2, Shapes, ShapesDiffer DEF IsObject
  <2>4. GridAnswer(e, given) \in {Refusal("required"), Null, x}
    BY <2>2 DEF GridAnswer, NullIfEmpty
  <2> QED
    BY <1>1, <2>1, <2>3, <2>4
<1> QED
  BY <1>1, <1>2

\* The validator takes what the controls of texts, choices, numbers and dates make.
LEMMA PlainAnswersAreTaken ==
  ASSUME NEW e, NEW v, Good(e, v),
         e.type \in {"section", "statement", "text", "singleChoice", "multipleChoice", "number", "date"}
  PROVE  RefusedAsIncomplete(NormalizeAnswer(e, v))
<1>1. CASE e.type \in {"section", "statement"}
  <2>1. NormalizeAnswer(e, v) = NormalizeDisplayOnly(v) /\ IsNull(v)
    BY <1>1 DEF NormalizeAnswer, Good
  <2> QED
    BY <2>1, NothingRefused DEF NormalizeDisplayOnly
<1>2. CASE e.type = "text"
  <2>1. NormalizeAnswer(e, v) = NormalizeText(v) /\ (IsNull(v) \/ IsText(v))
    BY <1>2 DEF NormalizeAnswer, Good
  <2>2. PICK x : x = [text |-> Trim(v.text)]
    OBVIOUS
  <2>3. ~IsRefusal(x)
    BY <2>2, PlainValues, ShapesDiffer
  <2> QED
    BY <2>1, <2>2, <2>3, NothingRefused DEF NormalizeText
<1>3. CASE e.type = "singleChoice"
  <2>1. NormalizeAnswer(e, v) = NormalizeSingleChoice(e, v)
          /\ (IsNull(v) \/ (IsText(v) /\ v.text \in e.options))
    BY <1>3 DEF NormalizeAnswer, Good
  <2>2. NormalizeSingleChoice(e, v) = Null \/ (IsText(v) /\ NormalizeSingleChoice(e, v) = v)
    BY <2>1 DEF NormalizeSingleChoice, Trim
  <2> QED
    BY <2>1, <2>2, NothingRefused, ShapesDiffer
<1>4. CASE e.type = "multipleChoice"
  <2>1. NormalizeAnswer(e, v) = NormalizeMultipleChoice(e, v)
          /\ (IsNull(v) \/ (DOMAIN v = {"texts"} /\ v.texts \subseteq e.options))
    BY <1>4 DEF NormalizeAnswer, Good
  <2>2. IsNull(v) \/ (IsList(v) /\ ~IsRefusal(v) /\ DOMAIN v = {"texts"} /\ v.texts \subseteq e.options)
    BY <2>1, ShapesDiffer
  <2>3. NormalizeMultipleChoice(e, v) = Null \/ (~IsRefusal(v) /\ NormalizeMultipleChoice(e, v) = v)
    BY <2>2 DEF NormalizeMultipleChoice
  <2> QED
    BY <2>1, <2>3, NothingRefused
<1>5. CASE e.type = "number"
  <2>1. NormalizeAnswer(e, v) = NormalizeNumber(e, v)
          /\ (IsNull(v) \/ (IsNumber(v) /\ v.number \in e.min..e.max))
    BY <1>5 DEF NormalizeAnswer, Good
  <2>2. NormalizeNumber(e, v) = Null \/ (IsNumber(v) /\ NormalizeNumber(e, v) = v)
    BY <2>1 DEF NormalizeNumber
  <2> QED
    BY <2>1, <2>2, NothingRefused, ShapesDiffer
<1>6. CASE e.type = "date"
  <2>1. NormalizeAnswer(e, v) = NormalizeDate(v)
          /\ (IsNull(v) \/ (IsText(v) /\ v.text \in Dates \cup {Empty}))
    BY <1>6 DEF NormalizeAnswer, Good
  <2>2. NormalizeDate(v) = Null \/ (IsText(v) /\ NormalizeDate(v) = v)
    BY <2>1 DEF NormalizeDate, Trim
  <2> QED
    BY <2>1, <2>2, NothingRefused, ShapesDiffer
<1> QED
  BY <1>1, <1>2, <1>3, <1>4, <1>5, <1>6

\* It takes what the controls of grids make.
LEMMA GridsAreTaken ==
  ASSUME NEW e, NEW v, Good(e, v), e.type \in {"singleSelectionGrid", "multipleSelectionGrid"}
  PROVE  RefusedAsIncomplete(NormalizeAnswer(e, v))
<1>1. CASE e.type = "singleSelectionGrid"
  <2>1. /\ NormalizeAnswer(e, v) = NormalizeSingleSelectionGrid(e, v)
        /\ \/ IsNull(v)
           \/ /\ IsObject(v) /\ DOMAIN v.fields \subseteq e.rows
              /\ \A r \in DOMAIN v.fields : IsText(v.fields[r]) /\ v.fields[r].text \in e.columns
    BY <1>1 DEF NormalizeAnswer, Good
  <2>2. \/ NormalizeSingleSelectionGrid(e, v) = Null
        \/ \E given : NormalizeSingleSelectionGrid(e, v) = GridAnswer(e, given)
    BY <2>1 DEF NormalizeSingleSelectionGrid
  <2> QED
    BY <2>1, <2>2, NothingRefused
<1>2. CASE e.type = "multipleSelectionGrid"
  <2>1. /\ NormalizeAnswer(e, v) = NormalizeMultipleSelectionGrid(e, v)
        /\ \/ IsNull(v)
           \/ /\ IsObject(v) /\ DOMAIN v.fields \subseteq e.rows
              /\ \A r \in DOMAIN v.fields :
                    DOMAIN v.fields[r] = {"texts"} /\ v.fields[r].texts \subseteq e.columns
    BY <1>2 DEF NormalizeAnswer, Good
  <2>2. IsObject(v) /\ ~IsNull(v) => \A r \in DOMAIN v.fields : IsList(v.fields[r])
    BY <2>1, ShapesDiffer
  <2>3. \/ NormalizeMultipleSelectionGrid(e, v) = Null
        \/ \E given : NormalizeMultipleSelectionGrid(e, v) = GridAnswer(e, given)
    BY <2>1, <2>2 DEF NormalizeMultipleSelectionGrid
  <2> QED
    BY <2>1, <2>3, NothingRefused
<1> QED
  BY <1>1, <1>2

\* A meeting, as the page sends it.
LEMMA MeetingsAreTaken ==
  ASSUME NEW e, KnownElement(e), e.type = "scheduling", NEW v, Good(e, v), WellFormed(v),
         NEW s, s = NormalizeValueForSubmission(e, v)
  PROVE  RefusedAsIncomplete(NormalizeAnswer(e, s)) /\ WellFormed(s)
<1>1. CASE IsNull(v)
  <2>1. s = v /\ NormalizeAnswer(e, s) = NormalizeScheduling(e, s)
    BY <1>1 DEF NormalizeValueForSubmission, NormalizeAnswer
  <2> QED
    BY <1>1, <2>1, NothingRefused DEF NormalizeScheduling
<1>2. CASE ~IsNull(v)
  <2>1. PICK r : r = ReadSchedulingAnswer(v)
    OBVIOUS
  <2>2. /\ IsText(r.slotId) /\ IsSequence(r.invitees.invitees)
        /\ r.slotId.text \in BuildSchedulingSlots(e) \cup {Empty}
        /\ e.inviteeMode # "none" => Len(r.invitees.invitees) <= e.maxInvitees
    BY <1>2, <2>1, SchedulingRead DEF Good
  <2>3. PICK slot, list : slot = r.slotId /\ list = GivenInvitees(r.invitees.invitees)
    OBVIOUS
  <2>4. /\ IsSequence(list) /\ Len(list) <= Len(r.invitees.invitees)
    BY <2>2, <2>3, FilteredSequences
  <2>5. /\ Len(list) \in Nat /\ Len(r.invitees.invitees) \in Nat
        /\ e.inviteeMode # "none" => Len(list) <= e.maxInvitees
    <3>1. Len(list) \in Nat /\ Len(r.invitees.invitees) \in Nat
      BY <2>2, <2>4 DEF IsSequence
    <3> QED
      BY <2>2, <2>4, <3>1 DEF KnownElement
  <2>6. PICK given : given = [slotId |-> slot, invitees |-> [invitees |-> list]]
    OBVIOUS
  <2>7. s = [fields |-> given]
    BY <1>2, <2>1, <2>3, <2>6 DEF NormalizeValueForSubmission
  <2>8. /\ IsObject(s) /\ ~IsNull(s) /\ s.fields = given
        /\ DOMAIN given = {"slotId", "invitees"} /\ given["slotId"] = slot
        /\ DOMAIN given["invitees"] = {"invitees"} /\ given["invitees"].invitees = list
    <3>1. IsObject(s) /\ s.fields = given
      BY <2>7, Shapes DEF IsObject
    <3> QED
      BY <2>6, <3>1, ShapesDiffer
  <2>9. WellFormed(s)
    BY <2>4, <2>8 DEF WellFormed
  <2>10. InviteesRefusal(e, s) \subseteq Incomplete
    <3>1. \A i : InviteeRefusal(i) \subseteq Incomplete
      BY DEF InviteeRefusal, Incomplete
    <3> DEFINE each == UNION {InviteeRefusal(list[k]) : k \in DOMAIN list}
               limit == IF Len(list) > e.maxInvitees THEN {"inviteeLimit"} ELSE {}
               none == IF e.inviteeMode = "required" /\ list = << >> THEN {"inviteeMissing"} ELSE {}
    <3>2. each \subseteq Incomplete /\ none \subseteq Incomplete
      BY <3>1 DEF Incomplete
    <3>3. e.inviteeMode # "none" => limit = {}
      BY <2>5 DEF KnownElement
    <3>4. InviteesRefusal(e, s) = IF e.inviteeMode = "none" THEN {} ELSE each \cup limit \cup none
      BY <2>8 DEF InviteesRefusal
    <3> HIDE DEF each, limit, none
    <3> QED
      BY <3>2, <3>3, <3>4
  <2>11. NormalizeAnswer(e, s) = NormalizeScheduling(e, s)
    BY DEF NormalizeAnswer
  <2>12. PICK reason : reason = CHOOSE x \in InviteesRefusal(e, s) : TRUE
    OBVIOUS
  <2>13. InviteesRefusal(e, s) # {} => reason \in Incomplete
    BY <2>10, <2>12
  <2>14. \/ NormalizeScheduling(e, s) = Refusal("slotMissing")
         \/ InviteesRefusal(e, s) # {} /\ NormalizeScheduling(e, s) = Refusal(reason)
         \/ \E x : NormalizeScheduling(e, s) = [fields |-> x]
    <3>1. slot.text = Empty => Trim(slot.text) = Empty
      BY DEF Trim
    <3>2. IsText(slot) /\ slot.text \in BuildSchedulingSlots(e) \cup {Empty}
      BY <2>2, <2>3
    <3> QED
      BY <2>8, <2>12, <3>1, <3>2 DEF NormalizeScheduling
  <2>15. \A x : ~IsRefusal([fields |-> x])
    BY Shapes, ShapesDiffer DEF IsObject
  <2>16. "slotMissing" \in Incomplete
    BY DEF Incomplete
  <2> QED
    BY <2>9, <2>11, <2>13, <2>14, <2>15, <2>16, NothingRefused
<1> QED
  BY <1>1, <1>2

\* The answers given with the controls are taken, or refused for what is missing.
LEMMA AnswersAreTaken ==
  ASSUME NEW e, KnownElement(e), NEW v, Good(e, v), WellFormed(v),
         NEW s, s = NormalizeValueForSubmission(e, v)
  PROVE  RefusedAsIncomplete(NormalizeAnswer(e, s))
<1>1. e.type # "scheduling" => s = v
  BY DEF NormalizeValueForSubmission
<1> QED
  BY <1>1, PlainAnswersAreTaken, GridsAreTaken, MeetingsAreTaken DEF KnownElement, ElementTypes

\* Whatever is sent has lists of invitees.
LEMMA SubmittedValues ==
  ASSUME NEW e, NEW v, WellFormed(v)
  PROVE  WellFormed(NormalizeValueForSubmission(e, v))
<1>1. CASE e.type # "scheduling" \/ IsNull(v)
  BY <1>1 DEF NormalizeValueForSubmission
<1>2. CASE ~(e.type # "scheduling" \/ IsNull(v))
  <2>1. PICK r : r = ReadSchedulingAnswer(v)
    OBVIOUS
  <2>2. PICK slot, list : slot = r.slotId /\ list = GivenInvitees(r.invitees.invitees)
    OBVIOUS
  <2>3. IsSequence(list)
    BY <2>1, <2>2, SchedulingRead, FilteredSequences
  <2>4. PICK s, given : /\ given = [slotId |-> slot, invitees |-> [invitees |-> list]]
                        /\ s = [fields |-> given]
    OBVIOUS
  <2>5. s = NormalizeValueForSubmission(e, v)
    BY <1>2, <2>1, <2>2, <2>4 DEF NormalizeValueForSubmission
  <2>6. s.fields = given /\ given["invitees"].invitees = list
    BY <2>4
  <2>7. WellFormed(s)
    BY <2>3, <2>6 DEF WellFormed
  <2> QED
    BY <2>5, <2>7
<1> QED
  BY <1>1, <1>2

-----------------------------------------------------------------------------
(* What the server stores.                                                 *)

\* No answer can be given to every element.
LEMMA NullIsGood ==
  \A e, v : IsNull(v) => Good(e, v) /\ WellFormed(v)
  BY PlainValues, ShapesDiffer DEF Good

\* What the validator stores of a text, choice, number or date could have been made.
LEMMA PlainAnswersStored ==
  ASSUME NEW e, NEW v, WellFormed(v), NEW n, n = NormalizeAnswer(e, v), ~IsRefusal(n),
         e.type \in {"section", "statement", "text", "singleChoice", "multipleChoice", "number", "date"}
  PROVE  Good(e, n) /\ WellFormed(n)
<1>0. /\ IsNull(Null) /\ \A reason : n # Refusal(reason)
      /\ IsNull(n) => Good(e, n) /\ WellFormed(n)
  BY Shapes, NullIsGood
<1>1. CASE e.type \in {"section", "statement"}
  <2>1. n = NormalizeDisplayOnly(v)
    BY <1>1 DEF NormalizeAnswer
  <2> QED
    BY <1>0, <2>1 DEF NormalizeDisplayOnly
<1>2. CASE e.type = "text"
  <2>1. n = NormalizeText(v)
    BY <1>2 DEF NormalizeAnswer
  <2>2. n = Null \/ n = [text |-> Trim(v.text)]
    BY <1>0, <2>1 DEF NormalizeText
  <2>3. IsNull(n) \/ (IsText(n) /\ WellFormed(n))
    BY <1>0, <2>2, PlainValues
  <2> QED
    BY <1>0, <1>2, <2>3 DEF Good
<1>3. CASE e.type = "singleChoice"
  <2>1. n = NormalizeSingleChoice(e, v)
    BY <1>3 DEF NormalizeAnswer
  <2>2. n = Null \/ (n = v /\ IsText(v) /\ v.text \in e.options)
    BY <1>0, <2>1 DEF NormalizeSingleChoice, Trim
  <2> QED
    BY <1>0, <1>3, <2>2 DEF Good
<1>4. CASE e.type = "multipleChoice"
  <2>1. n = NormalizeMultipleChoice(e, v)
    BY <1>4 DEF NormalizeAnswer
  <2>2. n = Null \/ (n = v /\ DOMAIN v = {"texts"} /\ v.texts \subseteq e.options)
    BY <1>0, <2>1 DEF NormalizeMultipleChoice
  <2> QED
    BY <1>0, <1>4, <2>2 DEF Good
<1>5. CASE e.type = "number"
  <2>1. n = NormalizeNumber(e, v)
    BY <1>5 DEF NormalizeAnswer
  <2>2. n = Null \/ (n = v /\ IsNumber(v) /\ v.number \in e.min..e.max)
    BY <1>0, <2>1 DEF NormalizeNumber
  <2> QED
    BY <1>0, <1>5, <2>2 DEF Good
<1>6. CASE e.type = "date"
  <2>1. n = NormalizeDate(v)
    BY <1>6 DEF NormalizeAnswer
  <2>2. n = Null \/ (n = v /\ IsText(v) /\ v.text \in Dates)
    BY <1>0, <2>1 DEF NormalizeDate
  <2> QED
    BY <1>0, <1>6, <2>2 DEF Good
<1> QED
  BY <1>1, <1>2, <1>3, <1>4, <1>5, <1>6

\* So could what it stores of a grid.
LEMMA GridsStored ==
  ASSUME NEW e, NEW v, WellFormed(v), NEW n, n = NormalizeAnswer(e, v), ~IsRefusal(n),
         e.type \in {"singleSelectionGrid", "multipleSelectionGrid"}
  PROVE  Good(e, n) /\ WellFormed(n)
<1>0. /\ IsNull(Null) /\ \A reason : n # Refusal(reason)
      /\ IsNull(n) => Good(e, n) /\ WellFormed(n)
  BY Shapes, NullIsGood
<1>1. ASSUME NEW given, n = GridAnswer(e, given)
      PROVE  IsNull(n) \/ (IsObject(n) /\ n.fields = given)
  <2>1. n = Null \/ n = [fields |-> given]
    BY <1>0, <1>1 DEF GridAnswer, NullIfEmpty
  <2> QED
    BY <1>0, <2>1, Shapes DEF IsObject
<1>2. CASE e.type = "singleSelectionGrid"
  <2>1. n = NormalizeSingleSelectionGrid(e, v)
    BY <1>2 DEF NormalizeAnswer
  <2>2. PICK chosen : chosen = {r \in DOMAIN v.fields : Trim(v.fields[r].text) # Empty}
    OBVIOUS
  <2>3. PICK given : given = Restrict(v.fields, chosen)
    OBVIOUS
  <2>4. \/ n = Null
        \/ /\ n = GridAnswer(e, given) /\ IsObject(v) /\ DOMAIN v.fields \subseteq e.rows
           /\ \A r \in DOMAIN v.fields : IsText(v.fields[r])
           /\ \A r \in chosen : v.fields[r].text \in e.columns
    BY <1>0, <2>1, <2>2, <2>3 DEF NormalizeSingleSelectionGrid
  <2>5. DOMAIN given = chosen /\ \A r \in chosen : given[r] = v.fields[r]
    BY <2>3 DEF Restrict
  <2>6. CASE IsObject(n) /\ n.fields = given /\ ~IsNull(n) /\ n # Null
    <3>1. /\ DOMAIN given \subseteq e.rows
          /\ \A r \in DOMAIN given : IsText(given[r]) /\ given[r].text \in e.columns
      BY <2>2, <2>4, <2>5, <2>6
    <3>2. Good(e, n)
      BY <1>2, <2>6, <3>1 DEF Good
    <3>3. WellFormed(n)
      BY <2>6, <3>1, ShapesDiffer DEF WellFormed
    <3> QED
      BY <3>2, <3>3
  <2> QED
    BY <1>0, <1>1, <2>4, <2>6
<1>3. CASE e.type = "multipleSelectionGrid"
  <2>1. n = NormalizeMultipleSelectionGrid(e, v)
    BY <1>3 DEF NormalizeAnswer
  <2>2. PICK chosen : chosen = {r \in DOMAIN v.fields : ~IsEmptyAnswer(v.fields[r])}
    OBVIOUS
  <2>3. PICK given : given = Restrict(v.fields, chosen)
    OBVIOUS
  <2>4. \/ n = Null
        \/ /\ n = GridAnswer(e, given) /\ IsObject(v) /\ DOMAIN v.fields \subseteq e.rows
           /\ \A r \in chosen : DOMAIN v.fields[r] = {"texts"} /\ v.fields[r].texts \subseteq e.columns
    BY <1>0, <2>1, <2>2, <2>3 DEF NormalizeMultipleSelectionGrid
  <2>5. DOMAIN given = chosen /\ \A r \in chosen : given[r] = v.fields[r]
    BY <2>3 DEF Restrict
  <2>6. CASE IsObject(n) /\ n.fields = given /\ ~IsNull(n) /\ n # Null
    <3>1. /\ DOMAIN given \subseteq e.rows
          /\ \A r \in DOMAIN given : DOMAIN given[r] = {"texts"} /\ given[r].texts \subseteq e.columns
      BY <2>2, <2>4, <2>5, <2>6
    <3>2. Good(e, n)
      BY <1>3, <2>6, <3>1 DEF Good
    <3>3. WellFormed(n)
      BY <2>6, <3>1, ShapesDiffer DEF WellFormed
    <3> QED
      BY <3>2, <3>3
  <2> QED
    BY <1>0, <1>1, <2>4, <2>6
<1> QED
  BY <1>2, <1>3

\* And what it stores of a meeting: its slot is offered, its invitees are few enough.
LEMMA MeetingsStored ==
  ASSUME NEW e, KnownElement(e), NEW v, WellFormed(v), NEW n, n = NormalizeAnswer(e, v),
         ~IsRefusal(n), e.type = "scheduling"
  PROVE  Good(e, n) /\ WellFormed(n)
<1>0. /\ IsNull(Null) /\ \A reason : n # Refusal(reason)
      /\ IsNull(n) => Good(e, n) /\ WellFormed(n)
  BY Shapes, NullIsGood
<1>1. n = NormalizeScheduling(e, v)
  BY DEF NormalizeAnswer
<1> DEFINE Kept == IF e.inviteeMode = "none" \/ "invitees" \notin DOMAIN v.fields THEN << >>
                   ELSE [k \in DOMAIN v.fields["invitees"].invitees |->
                           [name  |-> Trim(v.fields["invitees"].invitees[k].name),
                            email |-> Trim(v.fields["invitees"].invitees[k].email)]]
<1>2. PICK slot, list : slot = v.fields["slotId"] /\ list = Kept
  OBVIOUS
<1>3. CASE n # Null
  <2>1. /\ IsObject(v) /\ IsText(slot) /\ slot.text \in BuildSchedulingSlots(e)
        /\ InviteesRefusal(e, v) = {}
        /\ n = [fields |-> [slotId |-> slot, invitees |-> [invitees |-> list]]]
    BY <1>0, <1>1, <1>2, <1>3 DEF NormalizeScheduling
  <2>2. IsSequence(list) /\ (e.inviteeMode # "none" => Len(list) <= e.maxInvitees)
    <3>1. CASE e.inviteeMode = "none" \/ "invitees" \notin DOMAIN v.fields
      BY <1>2, <3>1, EmptySequence DEF KnownElement
    <3>2. CASE ~(e.inviteeMode = "none" \/ "invitees" \notin DOMAIN v.fields)
      <4>1. PICK old : old = v.fields["invitees"].invitees
        OBVIOUS
      <4>2. DOMAIN v.fields["invitees"] = {"invitees"} /\ ~(Len(old) > e.maxInvitees)
        BY <2>1, <3>2, <4>1 DEF InviteesRefusal
      <4>3. IsSequence(old)
        BY <2>1, <3>2, <4>1, <4>2 DEF WellFormed
      <4>4. /\ DOMAIN list = DOMAIN old
            /\ list = [k \in DOMAIN old |-> list[k]]
        BY <1>2, <3>2, <4>1
      <4>5. IsSequence(list) /\ Len(list) = Len(old)
        BY <4>3, <4>4, MappedSequences
      <4>6. Len(old) \in Nat
        BY <4>3 DEF IsSequence
      <4> QED
        BY <4>2, <4>5, <4>6 DEF KnownElement
    <3> QED
      BY <3>1, <3>2
  <2> HIDE DEF Kept
  <2>3. PICK given : given = [slotId |-> slot, invitees |-> [invitees |-> list]]
    OBVIOUS
  <2>4. /\ IsObject(n) /\ n.fields = given
        /\ DOMAIN given = {"slotId", "invitees"} /\ given["slotId"] = slot
        /\ DOMAIN given["invitees"] = {"invitees"} /\ given["invitees"].invitees = list
    <3>1. n = [fields |-> given]
      BY <2>1, <2>3
    <3>2. IsObject(n) /\ n.fields = given
      BY <3>1, Shapes DEF IsObject
    <3> QED
      BY <2>3, <3>2
  <2>5. WellFormed(n)
    BY <2>2, <2>4 DEF WellFormed
  <2>6. Good(e, n)
    BY <2>1, <2>2, <2>4 DEF Good
  <2> QED
    BY <2>5, <2>6
<1> QED
  BY <1>0, <1>3

\* What the server stores for an element could have been given with its controls.
LEMMA AnswersStored ==
  ASSUME NEW e, KnownElement(e), NEW v, WellFormed(v), NEW n, n = NormalizeAnswer(e, v),
         ~IsRefusal(n)
  PROVE  Good(e, n) /\ WellFormed(n)
  BY PlainAnswersStored, GridsStored, MeetingsStored DEF KnownElement, ElementTypes

-----------------------------------------------------------------------------
(* The controls.                                                           *)

\* A list of invitees with one of them typed.
LEMMA InviteesTyped ==
  ASSUME NEW old, IsSequence(old), NEW max \in Nat, NEW list \in InviteesAfter(old, max)
  PROVE  IsSequence(list) /\ (Len(old) <= max => Len(list) <= max)
<1>1. PICK n \in Nat : n = Len(old) /\ DOMAIN old = 1..n
  BY DEF IsSequence
<1>2. PICK k, i : k \in 1..max /\ k <= n + 1 /\ list = [j \in (1..n) \cup {k} |-> IF j = k THEN i ELSE old[j]]
  <2>1. PICK k, i : k \in 1..max /\ k <= Len(old) + 1 /\ list = With(old, k, i)
    BY DEF InviteesAfter
  <2> QED
    BY <1>1, <2>1 DEF With
<1>3. PICK c \in Nat : (1..n) \cup {k} = 1..c /\ (n <= max => c <= max)
  <2>1. CASE k <= n
    BY <1>2, <2>1
  <2>2. CASE k = n + 1
    <3>1. (1..n) \cup {k} = 1..k /\ k \in Nat /\ k <= max
      BY <1>2, <2>2
    <3> QED
      BY <3>1
  <2> QED
    BY <1>2, <2>1, <2>2
<1>4. PICK T : T = {list[j] : j \in 1..c}
  OBVIOUS
<1>5. list \in [1..c -> T]
  <2>1. list = [j \in 1..c |-> IF j = k THEN i ELSE old[j]]
    BY <1>2, <1>3
  <2> QED
    BY <1>4, <2>1
<1>6. list \in Seq(T) /\ Len(list) = c
  BY <1>5
<1> QED
  BY <1>1, <1>3, <1>6 DEF IsSequence

\* The controls of a meeting offer slots and fields for as many invitees as it takes.
LEMMA MeetingsTyped ==
  ASSUME NEW e, KnownElement(e), e.type = "scheduling", WellFormed(AnswerTo(e)),
         NEW v \in SchedulingAfter(e)
  PROVE  WellFormed(v) /\ (Good(e, AnswerTo(e)) => Good(e, v))
<1>1. PICK old, r : old = AnswerTo(e) /\ r = ReadSchedulingAnswer(old)
  OBVIOUS
<1>2. /\ DOMAIN r = {"slotId", "invitees"} /\ DOMAIN r.invitees = {"invitees"}
      /\ IsText(r.slotId) /\ IsSequence(r.invitees.invitees)
  BY <1>1, SchedulingRead
<1>3. Good(e, old) => /\ r.slotId.text \in BuildSchedulingSlots(e) \cup {Empty}
                      /\ e.inviteeMode # "none" => Len(r.invitees.invitees) <= e.maxInvitees
  <2>1. CASE IsNull(old)
    <3>1. r.slotId.text = Empty /\ r.invitees.invitees = << >>
      BY <1>1, <2>1, SchedulingRead, ShapesDiffer
    <3> QED
      BY <3>1, EmptySequence DEF KnownElement
  <2>2. CASE ~IsNull(old)
    BY <1>1, <2>2, SchedulingRead DEF Good
  <2> QED
    BY <2>1, <2>2
<1>4. ASSUME NEW slot, NEW list, NEW given, v = [fields |-> given],
             DOMAIN given = {"slotId", "invitees"}, given.slotId = slot,
             DOMAIN given.invitees = {"invitees"}, given.invitees.invitees = list,
             IsText(slot), IsSequence(list),
             Good(e, old) => /\ slot.text \in BuildSchedulingSlots(e) \cup {Empty}
                             /\ e.inviteeMode # "none" => Len(list) <= e.maxInvitees
      PROVE  WellFormed(v) /\ (Good(e, old) => Good(e, v))
  <2>1. IsObject(v) /\ v.fields = given
    BY <1>4, Shapes DEF IsObject
  <2>2. WellFormed(v)
    BY <1>4, <2>1 DEF WellFormed
  <2>3. ASSUME Good(e, old)
        PROVE  Good(e, v)
    BY <1>4, <2>1, <2>3 DEF Good
  <2> QED
    BY <2>2, <2>3
<1>5. CASE \E s \in SchedulingSlots(e) : v = [fields |-> [r EXCEPT !.slotId = [text |-> s]]]
  <2>1. PICK s \in SchedulingSlots(e) : v = [fields |-> [r EXCEPT !.slotId = [text |-> s]]]
    BY <1>5
  <2>2. PICK slot : slot = [text |-> s]
    OBVIOUS
  <2>3. IsText(slot) /\ slot.text \in BuildSchedulingSlots(e)
    BY <2>2, PlainValues, Shapes, PageSlotsAreServerSlots
  <2>4. PICK given : given = [r EXCEPT !.slotId = slot]
    OBVIOUS
  <2>5. /\ DOMAIN given = {"slotId", "invitees"} /\ given.slotId = slot
        /\ given.invitees = r.invitees
    BY <1>2, <2>4
  <2> QED
    BY <1>1, <1>2, <1>3, <1>4, <2>1, <2>2, <2>3, <2>4, <2>5
<1>6. CASE /\ e.inviteeMode # "none"
           /\ \E k \in InviteesAfter(r.invitees.invitees, e.maxInvitees) :
                 v = [fields |-> [r EXCEPT !.invitees = [invitees |-> k]]]
  <2>1. PICK list \in InviteesAfter(r.invitees.invitees, e.maxInvitees) :
           v = [fields |-> [r EXCEPT !.invitees = [invitees |-> list]]]
    BY <1>6
  <2>2. /\ IsSequence(list)
        /\ Len(r.invitees.invitees) <= e.maxInvitees => Len(list) <= e.maxInvitees
    BY <1>2, <2>1, InviteesTyped DEF KnownElement
  <2>3. PICK given : given = [r EXCEPT !.invitees = [invitees |-> list]]
    OBVIOUS
  <2>4. /\ DOMAIN given = {"slotId", "invitees"} /\ given.slotId = r.slotId
        /\ DOMAIN given.invitees = {"invitees"} /\ given.invitees.invitees = list
    BY <1>2, <2>3
  <2> QED
    BY <1>1, <1>2, <1>3, <1>4, <1>6, <2>1, <2>2, <2>3, <2>4
<1> QED
  BY <1>1, <1>5, <1>6 DEF SchedulingAfter

\* One use of the controls of an element gives it an answer of the element.
LEMMA ControlsKeepAnswers ==
  ASSUME NEW e, KnownElement(e), WellFormed(AnswerTo(e)), NEW v \in ValuesAfter(e)
  PROVE  WellFormed(v) /\ (Good(e, AnswerTo(e)) => Good(e, v))
<1>1. CASE e.type \in {"section", "statement"}
  BY <1>1 DEF ValuesAfter
<1>2. CASE e.type = "text"
  <2>1. \E t : v = [text |-> t]
    BY <1>2 DEF ValuesAfter
  <2> QED
    BY <1>2, <2>1, PlainValues DEF Good
<1>3. CASE e.type = "singleChoice"
  <2>1. \E t \in e.options : v = [text |-> t]
    BY <1>3 DEF ValuesAfter
  <2>2. IsText(v) /\ v.text \in e.options /\ WellFormed(v)
    BY <2>1, PlainValues, Shapes
  <2> QED
    BY <1>3, <2>2 DEF Good
<1>4. CASE e.type = "multipleChoice"
  <2>1. PICK o, S : o \in e.options /\ S = Toggled(TextsOf(AnswerTo(e)), o) /\ v = [texts |-> S]
    BY <1>4 DEF ValuesAfter
  <2>2. DOMAIN v = {"texts"} /\ v.texts = S /\ WellFormed(v)
    BY <2>1, PlainValues, Shapes
  <2>3. ASSUME Good(e, AnswerTo(e))
        PROVE  S \subseteq e.options
    <3>1. TextsOf(AnswerTo(e)) \subseteq e.options
      BY <1>4, <2>3, ShapesDiffer DEF Good, TextsOf
    <3> QED
      BY <2>1, <3>1 DEF Toggled
  <2> QED
    BY <1>4, <2>2, <2>3 DEF Good
<1>5. CASE e.type = "singleSelectionGrid"
  <2>1. PICK old : old = ReadSingleGridAnswer(AnswerTo(e))
    OBVIOUS
  <2>2. PICK r, c, cell, given :
           r \in e.rows /\ c \in e.columns /\ cell = [text |-> c] /\ given = With(old, r, cell) /\ v = [fields |-> given]
    <3>1. PICK r \in e.rows, c \in e.columns :
             v = [fields |-> With(ReadSingleGridAnswer(AnswerTo(e)), r, [text |-> c])]
      BY <1>5 DEF ValuesAfter
    <3> QED
      BY <2>1, <3>1
  <2>3. IsObject(v) /\ v.fields = given /\ IsText(cell) /\ cell.text = c
    BY <2>2, Shapes DEF IsObject, IsText
  <2>4. /\ DOMAIN given = DOMAIN old \cup {r} /\ given[r] = cell
        /\ \A x \in DOMAIN old : x # r => given[x] = old[x]
    BY <2>2 DEF With
  <2>5. \A x \in DOMAIN old : IsText(old[x])
    BY <2>1, EmptySequence DEF ReadSingleGridAnswer, Restrict
  <2>6. ASSUME Good(e, AnswerTo(e))
        PROVE  DOMAIN old \subseteq e.rows /\ \A x \in DOMAIN old : old[x].text \in e.columns
    BY <1>5, <2>1, <2>6, EmptySequence, ShapesDiffer DEF Good, ReadSingleGridAnswer, Restrict
  <2>7. \A x \in DOMAIN given : IsText(given[x])
    BY <2>3, <2>4, <2>5
  <2>8. WellFormed(v)
    BY <2>3, <2>7, ShapesDiffer DEF WellFormed
  <2>9. ASSUME Good(e, AnswerTo(e))
        PROVE  Good(e, v)
    <3>1. DOMAIN given \subseteq e.rows /\ \A x \in DOMAIN given : given[x].text \in e.columns
      BY <2>2, <2>3, <2>4, <2>6, <2>9
    <3> QED
      BY <1>5, <2>3, <2>7, <3>1 DEF Good
  <2> QED
    BY <2>8, <2>9
<1>6. CASE e.type = "multipleSelectionGrid"
  <2>1. PICK old : old = ReadMultipleGridAnswer(AnswerTo(e))
    OBVIOUS
  <2>2. PICK r, c, S, cell, given :
           /\ r \in e.rows /\ c \in e.columns /\ S = Toggled(TextsOf(ValueFor(old, r)), c)
           /\ cell = [texts |-> S] /\ given = With(old, r, cell) /\ v = [fields |-> given]
    <3>1. PICK r \in e.rows, c \in e.columns :
             v = [fields |-> With(ReadMultipleGridAnswer(AnswerTo(e)), r,
                     [texts |-> Toggled(TextsOf(ValueFor(ReadMultipleGridAnswer(AnswerTo(e)), r)), c)])]
      BY <1>6 DEF ValuesAfter
    <3> QED
      BY <2>1, <3>1
  <2>3. IsObject(v) /\ v.fields = given /\ DOMAIN cell = {"texts"} /\ cell.texts = S
    BY <2>2, Shapes DEF IsObject
  <2>4. /\ DOMAIN given = DOMAIN old \cup {r} /\ given[r] = cell
        /\ \A x \in DOMAIN old : x # r => given[x] = old[x]
    BY <2>2 DEF With
  <2>5. \A x \in DOMAIN old : DOMAIN old[x] = {"texts"}
    BY <2>1, EmptySequence, Shapes DEF ReadMultipleGridAnswer
  <2>6. ASSUME Good(e, AnswerTo(e))
        PROVE  DOMAIN old \subseteq e.rows /\ \A x \in DOMAIN old : old[x].texts \subseteq e.columns
    <3>1. CASE IsObject(AnswerTo(e)) /\ ~IsNull(AnswerTo(e))
      <4>1. PICK f : f = AnswerTo(e).fields
        OBVIOUS
      <4>2. /\ DOMAIN f \subseteq e.rows
            /\ \A x \in DOMAIN f : DOMAIN f[x] = {"texts"} /\ f[x].texts \subseteq e.columns
        BY <1>6, <2>6, <3>1, <4>1 DEF Good
      <4>3. old = [x \in {x \in DOMAIN f : IsList(f[x])} |-> [texts |-> TextsOf(f[x])]]
        BY <2>1, <3>1, <4>1 DEF ReadMultipleGridAnswer
      <4>4. \A x \in DOMAIN old : x \in DOMAIN f /\ old[x] = [texts |-> TextsOf(f[x])]
        BY <4>3
      <4>5. \A x \in DOMAIN old : old[x].texts = f[x].texts
        BY <4>2, <4>4, Shapes DEF TextsOf
      <4> QED
        BY <4>2, <4>4, <4>5
    <3>2. CASE ~IsObject(AnswerTo(e)) \/ IsNull(AnswerTo(e))
      BY <2>1, <3>2, EmptySequence, ShapesDiffer DEF ReadMultipleGridAnswer
    <3> QED
      BY <3>1, <3>2
  <2>7. \A x \in DOMAIN given : DOMAIN given[x] = {"texts"}
    BY <2>3, <2>4, <2>5
  <2>8. WellFormed(v)
    BY <2>3, <2>7, ShapesDiffer DEF WellFormed
  <2>9. ASSUME Good(e, AnswerTo(e))
        PROVE  Good(e, v)
    <3>1. TextsOf(ValueFor(old, r)) \subseteq e.columns
      BY <2>5, <2>6, <2>9, Shapes, ShapesDiffer DEF ValueFor, TextsOf
    <3>2. S \subseteq e.columns
      BY <2>2, <3>1 DEF Toggled
    <3>3. DOMAIN given \subseteq e.rows /\ \A x \in DOMAIN given : given[x].texts \subseteq e.columns
      BY <2>2, <2>3, <2>4, <2>6, <2>9, <3>2
    <3> QED
      BY <1>6, <2>3, <2>7, <3>3 DEF Good
  <2> QED
    BY <2>8, <2>9
<1>7. CASE e.type = "number"
  <2>1. \E n \in e.min..e.max : v = [number |-> n]
    BY <1>7 DEF ValuesAfter
  <2>2. IsNumber(v) /\ v.number \in e.min..e.max /\ WellFormed(v)
    BY <2>1, PlainValues, Shapes
  <2> QED
    BY <1>7, <2>2 DEF Good
<1>8. CASE e.type = "date"
  <2>1. \E t \in Dates \cup {Empty} : v = [text |-> t]
    BY <1>8 DEF ValuesAfter
  <2>2. IsText(v) /\ v.text \in Dates \cup {Empty} /\ WellFormed(v)
    BY <2>1, PlainValues, Shapes
  <2> QED
    BY <1>8, <2>2 DEF Good
<1>9. CASE e.type = "scheduling"
  <2>1. v \in SchedulingAfter(e)
    BY <1>9 DEF ValuesAfter
  <2> QED
    BY <1>9, <2>1, MeetingsTyped
<1> QED
  BY <1>1, <1>2, <1>3, <1>4, <1>5, <1>6, <1>7, <1>8, <1>9 DEF KnownElement, ElementTypes

-----------------------------------------------------------------------------
(* Definitions, requests and responses.                                    *)

\* An element of a definition is of a known kind and found by its id.
LEMMA DefinitionsAreKnown ==
  ASSUME NEW d \in Definitions, NEW i \in DOMAIN d
  PROVE  /\ KnownElement(d[i])
         /\ d[i].id \in ElementIds(d)
         /\ (CHOOSE j \in DOMAIN d : d[j].id = d[i].id) = i
<1>1. KnownElement(d[i]) /\ \A j \in DOMAIN d : d[i].id = d[j].id => i = j
  BY DefinitionsAssumption DEF KnownElement
<1>2. (CHOOSE j \in DOMAIN d : d[j].id = d[i].id) = i
  BY <1>1
<1> QED
  BY <1>1, <1>2 DEF ElementIds

\* What is read of well formed answers is well formed.
LEMMA GivenValues ==
  ASSUME NEW given, AllWellFormed(given), NEW id
  PROVE  WellFormed(ValueFor(given, id))
  BY PlainValues DEF AllWellFormed, ValueFor

\* A page without answers.
LEMMA NoAnswersAreGood ==
  AllWellFormed(<< >>) /\ \A d : GoodFor(d, << >>)
  BY EmptySequence, NullIsGood, Shapes DEF AllWellFormed, GoodFor, ValueFor

\* The request made of answers.
AnswersSent(d, given) ==
    [id \in ElementIds(d) |->
        NormalizeValueForSubmission(
            d[CHOOSE i \in DOMAIN d : d[i].id = id], ValueFor(given, id))]

\* A request made of answers given with the controls is refused only as incomplete.
LEMMA RequestsAreTaken ==
  ASSUME NEW d \in Definitions, NEW given, AllWellFormed(given), NEW input,
         input = AnswersSent(d, given)
  PROVE  /\ AllWellFormed(input)
         /\ GoodFor(d, given) => RefusalsOf(d, input) \subseteq Incomplete
<1>1. DOMAIN input = ElementIds(d)
  BY DEF AnswersSent
<1>2. AllWellFormed(input)
  BY <1>1, GivenValues, SubmittedValues DEF AllWellFormed, AnswersSent
<1>3. ASSUME GoodFor(d, given)
      PROVE  RefusalsOf(d, input) \subseteq Incomplete
  <2>1. ASSUME NEW i \in DOMAIN d
        PROVE  RefusedAsIncomplete(NormalizeAnswer(d[i], ValueFor(input, d[i].id)))
    <3>1. PICK e, v : e = d[i] /\ v = ValueFor(given, e.id)
      OBVIOUS
    <3>2. KnownElement(e) /\ e.id \in ElementIds(d) /\ (CHOOSE j \in DOMAIN d : d[j].id = e.id) = i
      BY <3>1, DefinitionsAreKnown
    <3>3. ValueFor(input, e.id) = NormalizeValueForSubmission(e, v)
      BY <1>1, <3>1, <3>2 DEF ValueFor, AnswersSent
    <3>4. Good(e, v) /\ WellFormed(v)
      BY <1>3, <3>1, GivenValues DEF GoodFor
    <3> QED
      BY <3>1, <3>2, <3>3, <3>4, AnswersAreTaken
  <2>2. PICK value : value = [i \in DOMAIN d |-> NormalizeAnswer(d[i], ValueFor(input, d[i].id))]
    OBVIOUS
  <2>3. \A i \in DOMAIN d : IsRefusal(value[i]) => value[i].refused \in Incomplete
    BY <2>1, <2>2 DEF RefusedAsIncomplete
  <2>4. RefusalsOf(d, input) =
           {value[i].refused : i \in {i \in DOMAIN d : IsRefusal(value[i])}}
             \cup (IF DOMAIN input \subseteq ElementIds(d) THEN {} ELSE {"unknown"})
             \cup (IF \E i \in DOMAIN d : d[i].required /\ IsEmptyAnswer(value[i])
                   THEN {"required"} ELSE {})
    BY <2>2 DEF RefusalsOf
  <2> QED
    BY <1>1, <2>3, <2>4 DEF Incomplete
<1> QED
  BY <1>2, <1>3

\* What the server stores of a request it accepts.
LEMMA AcceptedRequestsAreStored ==
  ASSUME NEW d \in Definitions, NEW input, AllWellFormed(input), RefusalsOf(d, input) = {},
         NEW r, r = [given |-> ValidatePollResponse(d, input), under |-> d]
  PROVE  IsResponse(r)
<1> DEFINE Value(id) == NormalizeAnswer(d[CHOOSE i \in DOMAIN d : d[i].id = id], ValueFor(input, id))
<1>1. PICK given : given = [id \in {id \in ElementIds(d) : ~IsEmptyAnswer(Value(id))} |-> Value(id)]
  OBVIOUS
<1>2. r.given = given /\ r.under = d
  BY <1>1 DEF ValidatePollResponse
<1>3. ASSUME NEW i \in DOMAIN d
      PROVE  Good(d[i], Value(d[i].id)) /\ WellFormed(Value(d[i].id))
  <2>1. PICK e, v, n : e = d[i] /\ v = ValueFor(input, e.id) /\ n = NormalizeAnswer(e, v)
    OBVIOUS
  <2>2. KnownElement(e) /\ Value(e.id) = n
    <3>1. Value(d[i].id) = NormalizeAnswer(d[i], ValueFor(input, d[i].id))
      BY DefinitionsAreKnown
    <3> QED
      BY <2>1, <3>1, DefinitionsAreKnown
  <2>3. ~IsRefusal(n)
    <3>1. PICK value : value = [j \in DOMAIN d |-> NormalizeAnswer(d[j], ValueFor(input, d[j].id))]
      OBVIOUS
    <3>2. {value[j].refused : j \in {j \in DOMAIN d : IsRefusal(value[j])}} \subseteq RefusalsOf(d, input)
      BY <3>1 DEF RefusalsOf
    <3>3. ~IsRefusal(value[i])
      BY <3>2
    <3> QED
      BY <2>1, <3>1, <3>3
  <2> QED
    BY <2>1, <2>2, <2>3, AnswersStored, GivenValues
<1>4. \A id \in ElementIds(d) : \E i \in DOMAIN d : id = d[i].id
  BY DEF ElementIds
<1> HIDE DEF Value
<1>5. AllWellFormed(given)
  BY <1>1, <1>3, <1>4 DEF AllWellFormed
<1>6. GoodFor(d, given)
  BY <1>1, <1>3, NullIsGood, Shapes DEF GoodFor, ValueFor
<1> QED
  BY <1>2, <1>5, <1>6 DEF IsResponse

\* One use of a control, on the page.
LEMMA ControlsKeepGivenAnswers ==
  ASSUME NEW d \in Definitions, AllWellFormed(answers), NEW i \in DOMAIN d,
         NEW v \in ValuesAfter(d[i]), NEW given, given = With(answers, d[i].id, v)
  PROVE  /\ AllWellFormed(given)
         /\ GoodFor(d, answers) => GoodFor(d, given)
<1>1. PICK e : e = d[i]
  OBVIOUS
<1>2. KnownElement(e) /\ WellFormed(AnswerTo(e))
  BY <1>1, DefinitionsAreKnown, GivenValues DEF AnswerTo
<1>3. WellFormed(v) /\ (Good(e, AnswerTo(e)) => Good(e, v))
  BY <1>1, <1>2, ControlsKeepAnswers
<1>4. /\ DOMAIN given = DOMAIN answers \cup {e.id} /\ given[e.id] = v
      /\ \A id \in DOMAIN answers : id # e.id => given[id] = answers[id]
  BY <1>1 DEF With
<1>5. AllWellFormed(given)
  BY <1>3, <1>4 DEF AllWellFormed
<1>6. ASSUME GoodFor(d, answers), NEW j \in DOMAIN d
      PROVE  Good(d[j], ValueFor(given, d[j].id))
  <2>1. CASE j = i
    <3>1. Good(e, AnswerTo(e))
      BY <1>1, <1>6 DEF GoodFor, AnswerTo
    <3> QED
      BY <1>1, <1>3, <1>4, <2>1, <3>1 DEF ValueFor
  <2>2. CASE j # i
    <3>1. d[j].id # e.id
      BY <1>1, <2>2, DefinitionsAssumption
    <3>2. ValueFor(given, d[j].id) = ValueFor(answers, d[j].id)
      BY <1>4, <3>1 DEF ValueFor
    <3> QED
      BY <1>6, <3>2 DEF GoodFor
  <2> QED
    BY <2>1, <2>2
<1> QED
  BY <1>5, <1>6 DEF GoodFor

-----------------------------------------------------------------------------
(* The steps.                                                              *)

\* Requests and answers of the load shown do not disturb its order.
LEMMA OrderKept ==
  ASSUME LoadsInOrder, generation' = generation, elements' = elements,
         \A n \in wire' : n \in wire \/ (n.kind # "poll" /\ elements # Nothing),
         elements = Nothing => answers' = answers /\ based' = based /\ stateLoad' # "failed"
  PROVE  LoadsInOrder'
  BY DEF LoadsInOrder, IsCurrent

\* What is known of a message under way.
LEMMA MessagesCarry ==
  ASSUME ControlInv, NEW m \in wire
  PROVE  /\ Carries(m) /\ IsMessage(m) /\ m.poll \in Polls /\ m.generation \in Nat
         /\ m.generation <= generation /\ generation \in Nat
  BY DEF ControlInv, PageInv, Answers, BelongsToItsLoad, Counts

\* A new load: nothing is answered and one poll is asked for.
LEMMA LoadKeepsControls ==
  ASSUME ControlInv, NEW p \in Polls, LoadPoll(p)
  PROVE  LoadsInOrder' /\ AnswersOfControls' /\ (\A m \in wire' : Carries(m))
<1>1. PICK q : q = [Request("poll", p) EXCEPT !.generation = generation + 1]
  OBVIOUS
<1>2. q.kind = "poll" /\ q.generation = generation + 1 /\ q.reply = Nothing
  BY <1>1 DEF Request
<1>3. /\ wire' = wire \cup {q} /\ generation' = generation + 1 /\ elements' = Nothing
      /\ answers' = << >> /\ based' = Nothing /\ stateLoad' = "idle"
      /\ definition' = definition /\ response' = response
  BY <1>1 DEF LoadPoll, server
<1>4. \A m \in wire : m.generation # generation'
  BY <1>3, MessagesCarry
<1>5. LoadsInOrder'
  BY <1>2, <1>3, <1>4 DEF LoadsInOrder, IsCurrent
<1>6. AnswersOfControls'
  BY <1>3, NoAnswersAreGood DEF ControlInv, AnswersOfControls
<1>7. Carries(q)
  BY <1>2 DEF Carries
<1> QED
  BY <1>3, <1>5, <1>6, <1>7 DEF ControlInv

\* A use of a control, a retry and a submission.
LEMMA VoterKeepsControls ==
  ASSUME ControlInv, SetAnswer \/ RetryResponseState \/ Submit
  PROVE  LoadsInOrder' /\ AnswersOfControls' /\ (\A m \in wire' : Carries(m))
<1>1. /\ UNCHANGED <<generation, elements, based, definition, response>>
      /\ elements # Nothing /\ elements \in Definitions
  BY DEF ControlInv, AnswersOfControls, LoadsInOrder, SetAnswer, RetryResponseState, Submit,
     CanVote, server
<1>2. CASE SetAnswer
  <2>0. PICK i \in DOMAIN elements : \E v \in ValuesAfter(elements[i]) :
           answers' = With(answers, elements[i].id, v)
    BY <1>2 DEF SetAnswer
  <2>1. PICK v \in ValuesAfter(elements[i]) : answers' = With(answers, elements[i].id, v)
    BY <2>0
  <2>2. PICK d, given : d = elements /\ given = With(answers, d[i].id, v)
    OBVIOUS
  <2>3. AllWellFormed(given) /\ (GoodFor(d, answers) => GoodFor(d, given))
    BY <1>1, <2>1, <2>2, ControlsKeepGivenAnswers DEF ControlInv, AnswersOfControls
  <2>4. AnswersOfControls'
    BY <1>1, <2>1, <2>2, <2>3 DEF ControlInv, AnswersOfControls
  <2>5. wire' = wire
    BY <1>2 DEF SetAnswer
  <2> QED
    BY <1>1, <2>4, <2>5, OrderKept DEF ControlInv
<1>3. CASE RetryResponseState
  <2>1. PICK q : q = Request("state", access)
    OBVIOUS
  <2>2. q.kind = "state" /\ q.reply = Nothing
    BY <2>1 DEF Request
  <2>3. wire' = wire \cup {q} /\ answers' = answers
    BY <1>3, <2>1 DEF RetryResponseState, LoadUserResponseState
  <2>4. Carries(q)
    BY <2>2 DEF Carries
  <2>5. AnswersOfControls'
    BY <1>1, <2>3 DEF ControlInv, AnswersOfControls
  <2> QED
    BY <1>1, <2>2, <2>3, <2>4, <2>5, OrderKept DEF ControlInv
<1>4. CASE Submit
  <2>1. PICK input, d, given : input = BuildPollResponseAnswers /\ d = elements /\ given = answers
    OBVIOUS
  <2>2. PICK q : q = [Request("submit", access) EXCEPT !.input = input, !.shown = d, !.based = based]
    OBVIOUS
  <2>3. /\ q.kind = "submit" /\ q.reply = Nothing /\ q.input = input /\ q.shown = d
        /\ q.based = based
    BY <2>2 DEF Request
  <2>4. wire' = wire \cup {q} /\ answers' = answers
    BY <1>4, <2>1, <2>2 DEF Submit
  <2>5. input = AnswersSent(d, given)
    BY <2>1 DEF BuildPollResponseAnswers, AnswersSent
  <2>6. AllWellFormed(input) /\ (GoodFor(d, given) => RefusalsOf(d, input) \subseteq Incomplete)
    BY <1>1, <2>1, <2>5, RequestsAreTaken DEF ControlInv, AnswersOfControls
  <2>7. based \in {Nothing, d} => GoodFor(d, given)
    BY <1>1, <2>1 DEF ControlInv, AnswersOfControls
  <2>8. Carries(q)
    BY <1>1, <2>1, <2>3, <2>6, <2>7 DEF Carries
  <2>9. AnswersOfControls'
    BY <1>1, <2>4 DEF ControlInv, AnswersOfControls
  <2> QED
    BY <1>1, <2>3, <2>4, <2>8, <2>9, OrderKept DEF ControlInv
<1> QED
  BY <1>2, <1>3, <1>4

\* What a reply changes of a message.
LEMMA RepliesCarry ==
  ASSUME NEW m, IsMessage(m), NEW r, NEW q, q = [m EXCEPT !.reply = r]
  PROVE  /\ q.kind = m.kind /\ q.generation = m.generation /\ q.reply = r
         /\ q.shown = m.shown /\ q.input = m.input /\ q.based = m.based
<1>1. {"kind", "generation", "poll", "input", "shown", "based", "reply"} \subseteq DOMAIN m
  BY DEF IsMessage
<1> QED
  BY <1>1

\* What the server answers, and the response it stores.
LEMMA ServerKeepsControls ==
  ASSUME ControlInv, NEW m \in wire, ReplyPoll(m) \/ ReplyState(m) \/ SaveResponse(m)
  PROVE  LoadsInOrder' /\ AnswersOfControls' /\ (\A n \in wire' : Carries(n))
<1>1. /\ UNCHANGED <<generation, elements, based, answers, stateLoad, definition>>
      /\ Carries(m) /\ IsMessage(m) /\ m.poll \in Polls
      /\ definition[m.poll] \in Definitions
      /\ response[m.poll] # Nothing => IsResponse(response[m.poll])
  BY MessagesCarry DEF ControlInv, AnswersOfControls, ReplyPoll, ReplyState, SaveResponse, server, page
<1>2. ASSUME NEW r, wire' = (wire \ {m}) \cup {[m EXCEPT !.reply = r]},
             Carries([m EXCEPT !.reply = r]),
             \/ response' = response
             \/ \E x : response' = [response EXCEPT ![m.poll] = x] /\ IsResponse(x)
      PROVE  LoadsInOrder' /\ AnswersOfControls' /\ (\A n \in wire' : Carries(n))
  <2>1. PICK q : q = [m EXCEPT !.reply = r]
    OBVIOUS
  <2>2. q.kind = m.kind /\ q.generation = m.generation /\ wire' = (wire \ {m}) \cup {q}
    BY <1>1, <1>2, <2>1, RepliesCarry
  <2>3. LoadsInOrder'
    BY <1>1, <2>2 DEF ControlInv, LoadsInOrder, IsCurrent
  <2>4. \A p \in Polls : response'[p] # Nothing => IsResponse(response'[p])
    BY <1>1, <1>2 DEF ControlInv, AnswersOfControls
  <2>5. DOMAIN response' = Polls
    BY <1>2 DEF ControlInv, AnswersOfControls
  <2>6. AnswersOfControls'
    BY <1>1, <2>4, <2>5 DEF ControlInv, AnswersOfControls
  <2> QED
    BY <1>2, <2>1, <2>2, <2>3, <2>6 DEF ControlInv
<1>3. CASE ReplyPoll(m)
  <2>1. PICK r : r = [elements |-> definition[m.poll]]
    OBVIOUS
  <2>2. /\ wire' = (wire \ {m}) \cup {[m EXCEPT !.reply = r]} /\ m.kind = "poll"
        /\ response' = response
    BY <1>3, <2>1 DEF ReplyPoll, server
  <2>3. Carries([m EXCEPT !.reply = r])
    BY <1>1, <2>1, <2>2, RepliesCarry DEF Carries
  <2> QED
    BY <1>2, <2>2, <2>3
<1>4. CASE ReplyState(m)
  <2>1. PICK r : r = ReadUserResponseState(m.poll)
    OBVIOUS
  <2>2. /\ wire' = (wire \ {m}) \cup {[m EXCEPT !.reply = r]} /\ m.kind = "state"
        /\ response' = response
    BY <1>4, <2>1 DEF ReplyState, server
  <2>3. r.canEdit => IsResponse(r.response)
    BY <1>1, <2>1 DEF ReadUserResponseState
  <2>4. Carries([m EXCEPT !.reply = r])
    BY <1>1, <2>2, <2>3, RepliesCarry DEF Carries
  <2> QED
    BY <1>2, <2>2, <2>4
<1>5. CASE SaveResponse(m)
  <2>1. PICK d, input, reasons : /\ d = definition[m.poll] /\ input = m.input
                                 /\ reasons = RefusalsOf(d, input)
    OBVIOUS
  <2>2. m.kind = "submit" /\ AllWellFormed(input)
    BY <1>1, <1>5, <2>1 DEF SaveResponse, Carries
  <2>3. CASE \E given \in {{}, reasons} :
                /\ wire' = (wire \ {m}) \cup
                     {[m EXCEPT !.reply = [accepted |-> FALSE, reasons |-> given, under |-> d]]}
                /\ response' = response
    <3>1. PICK given, r : /\ given \subseteq reasons
                          /\ r = [accepted |-> FALSE, reasons |-> given, under |-> d]
                          /\ wire' = (wire \ {m}) \cup {[m EXCEPT !.reply = r]}
                          /\ response' = response
      BY <2>3
    <3>2. ~r.accepted /\ r.reasons \subseteq RefusalsOf(r.under, m.input)
      BY <2>1, <3>1
    <3>3. Carries([m EXCEPT !.reply = r])
      BY <1>1, <2>2, <3>2, RepliesCarry DEF Carries
    <3> QED
      BY <1>2, <3>1, <3>3
  <2>4. CASE /\ reasons = {}
             /\ response' = [response EXCEPT ![m.poll] =
                               [given |-> ValidatePollResponse(d, input), under |-> d]]
             /\ wire' = (wire \ {m}) \cup
                          {[m EXCEPT !.reply = [accepted |-> TRUE, response |-> response'[m.poll]]]}
    <3>1. PICK x : x = [given |-> ValidatePollResponse(d, input), under |-> d]
      OBVIOUS
    <3>2. IsResponse(x)
      BY <1>1, <2>1, <2>2, <2>4, <3>1, AcceptedRequestsAreStored
    <3>3. PICK r : r = [accepted |-> TRUE, response |-> response'[m.poll]]
      OBVIOUS
    <3>4. IsResponse(r.response) /\ r.accepted
      <4>1. r.response = response'[m.poll] /\ r.accepted
        BY <3>3
      <4>2. response'[m.poll] = x
        BY <1>1, <2>4, <3>1 DEF ControlInv, AnswersOfControls
      <4> QED
        BY <3>2, <4>1, <4>2
    <3>5. Carries([m EXCEPT !.reply = r])
      BY <1>1, <2>2, <3>4, RepliesCarry DEF Carries
    <3> QED
      BY <1>2, <2>4, <3>1, <3>2, <3>3, <3>5
  <2> QED
    BY <1>5, <2>1, <2>3, <2>4 DEF SaveResponse
<1> QED
  BY <1>3, <1>4, <1>5

\* What the page makes of an answer, or of its loss.
LEMMA AnswerKeepsControls ==
  ASSUME ControlInv, NEW m \in wire,
         PollArrives(m) \/ StateArrives(m) \/ SubmissionArrives(m) \/ RequestFails(m)
  PROVE  LoadsInOrder' /\ AnswersOfControls' /\ (\A n \in wire' : Carries(n))
<1>1. /\ UNCHANGED <<generation, definition, response>>
      /\ Carries(m) /\ IsMessage(m) /\ m.poll \in Polls
      /\ IsPollLoadCurrent(m) <=> IsCurrent(m)
  BY MessagesCarry DEF PollArrives, StateArrives, SubmissionArrives, RequestFails, server,
     IsPollLoadCurrent, IsCurrent
<1>2. ASSUME wire' = wire \ {m}, elements' = elements, elements = Nothing => stateLoad' # "failed",
             elements = Nothing => answers' = answers /\ based' = based,
             AllWellFormed(answers'),
             elements # Nothing /\ based' \in {Nothing, elements} => GoodFor(elements, answers')
      PROVE  LoadsInOrder' /\ AnswersOfControls' /\ (\A n \in wire' : Carries(n))
  <2>1. LoadsInOrder'
    BY <1>1, <1>2 DEF ControlInv, LoadsInOrder, IsCurrent
  <2>2. AnswersOfControls'
    BY <1>1, <1>2 DEF ControlInv, AnswersOfControls
  <2> QED
    BY <1>2, <2>1, <2>2 DEF ControlInv
<1>3. ASSUME answers' = answers, based' = based
      PROVE  /\ AllWellFormed(answers')
             /\ elements # Nothing /\ based' \in {Nothing, elements} => GoodFor(elements, answers')
  BY <1>3 DEF ControlInv, AnswersOfControls
<1>4. ASSUME NEW r, IsResponse(r), answers' = r.given, based' = r.under
      PROVE  /\ AllWellFormed(answers')
             /\ elements # Nothing /\ based' \in {Nothing, elements} => GoodFor(elements, answers')
  BY <1>4, DefinitionsAssumption DEF IsResponse
<1>5. m.kind # "poll" /\ IsCurrent(m) => elements # Nothing
  BY DEF ControlInv, LoadsInOrder
<1>6. CASE PollArrives(m)
  <2>1. CASE IsCurrent(m)
    <3>1. PICK q : q = LoadUserResponseState(m.poll)
      OBVIOUS
    <3>2. q.kind = "state" /\ q.reply = Nothing
      BY <3>1 DEF LoadUserResponseState, Request
    <3>3. /\ wire' = (wire \ {m}) \cup {q} /\ elements' = m.reply.elements /\ stateLoad' = "loading"
          /\ answers' = answers /\ based' = based /\ m.kind = "poll" /\ m.reply # Nothing
      BY <1>1, <1>6, <2>1, <3>1 DEF PollArrives
    <3>4. elements' \in Definitions /\ elements' # Nothing
      BY <1>1, <3>3, DefinitionsAssumption DEF Carries
    <3>5. elements = Nothing /\ answers = << >> /\ based = Nothing
      BY <2>1, <3>3 DEF ControlInv, LoadsInOrder
    <3>6. \A n \in wire : IsCurrent(n) => n = m
      BY <2>1, <3>3, <3>5 DEF ControlInv, LoadsInOrder
    <3>7. LoadsInOrder'
      BY <1>1, <3>2, <3>3, <3>4, <3>6 DEF LoadsInOrder, IsCurrent
    <3>8. AllWellFormed(answers') /\ GoodFor(elements', answers')
      BY <3>3, <3>4, <3>5, NoAnswersAreGood
    <3>9. AnswersOfControls'
      BY <1>1, <3>4, <3>8 DEF ControlInv, AnswersOfControls
    <3>10. Carries(q)
      BY <3>2 DEF Carries
    <3> QED
      BY <3>3, <3>7, <3>9, <3>10 DEF ControlInv
  <2>2. CASE ~IsCurrent(m)
    <3>1. /\ wire' = wire \ {m} /\ UNCHANGED <<elements, stateLoad, answers, based>>
      BY <1>1, <1>6, <2>2 DEF PollArrives
    <3> QED
      BY <1>2, <1>3, <3>1 DEF ControlInv, LoadsInOrder
  <2> QED
    BY <2>1, <2>2
<1>7. CASE StateArrives(m)
  <2>1. wire' = wire \ {m} /\ elements' = elements /\ m.kind = "state" /\ m.reply # Nothing
    BY <1>7 DEF StateArrives
  <2>2. \/ UNCHANGED <<answers, based>>
        \/ IsCurrent(m) /\ m.reply.canEdit /\ answers' = m.reply.response.given
                        /\ based' = m.reply.response.under
    BY <1>1, <1>7 DEF StateArrives
  <2>3. stateLoad' \in {stateLoad, "idle"}
    BY <1>7 DEF StateArrives
  <2>4. CASE UNCHANGED <<answers, based>>
    BY <1>2, <1>3, <2>1, <2>3, <2>4 DEF ControlInv, LoadsInOrder
  <2>5. CASE /\ IsCurrent(m) /\ m.reply.canEdit /\ answers' = m.reply.response.given
             /\ based' = m.reply.response.under
    <3>1. IsResponse(m.reply.response) /\ elements # Nothing
      BY <1>1, <1>5, <2>1, <2>5 DEF Carries
    <3> QED
      BY <1>2, <1>4, <2>1, <2>5, <3>1
  <2> QED
    BY <2>2, <2>4, <2>5
<1>8. CASE SubmissionArrives(m)
  <2>1. /\ wire' = wire \ {m} /\ elements' = elements /\ m.kind = "submit" /\ m.reply # Nothing
        /\ stateLoad' = stateLoad
    BY <1>8 DEF SubmissionArrives
  <2>2. CASE UNCHANGED <<answers, based>>
    BY <1>2, <1>3, <2>1, <2>2 DEF ControlInv, LoadsInOrder
  <2>3. CASE IsCurrent(m) /\ answers' = << >> /\ based' = based
    <3>1. elements # Nothing /\ elements \in Definitions
      BY <1>5, <2>1, <2>3 DEF ControlInv, AnswersOfControls
    <3>2. AllWellFormed(answers') /\ GoodFor(elements, answers')
      BY <2>3, <3>1, NoAnswersAreGood
    <3> QED
      BY <1>2, <2>1, <3>1, <3>2
  <2>4. CASE /\ IsCurrent(m) /\ m.reply.accepted /\ answers' = m.reply.response.given
             /\ based' = m.reply.response.under
    <3>1. IsResponse(m.reply.response) /\ elements # Nothing
      BY <1>1, <1>5, <2>1, <2>4 DEF Carries
    <3> QED
      BY <1>2, <1>4, <2>1, <2>4, <3>1
  <2>5. \/ UNCHANGED <<answers, based>>
        \/ IsCurrent(m) /\ answers' = << >> /\ based' = based
        \/ /\ IsCurrent(m) /\ m.reply.accepted /\ answers' = m.reply.response.given
           /\ based' = m.reply.response.under
    BY <1>1, <1>8 DEF SubmissionArrives
  <2> QED
    BY <2>2, <2>3, <2>4, <2>5
<1>9. CASE RequestFails(m)
  <2>1. wire' = wire \ {m} /\ UNCHANGED <<elements, answers, based>>
    BY <1>9 DEF RequestFails
  <2>2. elements = Nothing => stateLoad' # "failed"
    <3>1. stateLoad' = stateLoad \/ (IsCurrent(m) /\ m.kind = "state")
      BY <1>1, <1>9 DEF RequestFails
    <3> QED
      BY <1>5, <3>1 DEF ControlInv, LoadsInOrder
  <2> QED
    BY <1>2, <1>3, <2>1, <2>2
<1> QED
  BY <1>6, <1>7, <1>8, <1>9

\* A change of a definition reaches neither the page nor the responses stored.
LEMMA RevisionKeepsControls ==
  ASSUME ControlInv, NEW p \in Polls, SaveDefinition(p)
  PROVE  LoadsInOrder' /\ AnswersOfControls' /\ (\A n \in wire' : Carries(n))
<1>1. UNCHANGED <<response, generation, elements, answers, stateLoad, based, wire>>
  BY DEF SaveDefinition, page
<1>2. PICK d \in RevisionsOf[p] : definition' = [definition EXCEPT ![p] = d]
  BY DEF SaveDefinition
<1>3. d \in Definitions
  BY DEF Definitions
<1>4. \A q \in Polls : definition'[q] \in {definition[q], d}
  BY <1>2
<1>5. AnswersOfControls'
  BY <1>1, <1>3, <1>4 DEF ControlInv, AnswersOfControls
<1>6. LoadsInOrder'
  BY <1>1 DEF ControlInv, LoadsInOrder, IsCurrent
<1> QED
  BY <1>1, <1>5, <1>6 DEF ControlInv

LEMMA InitControlInv == VoteInit => ControlInv
<1> SUFFICES ASSUME VoteInit PROVE ControlInv
  OBVIOUS
<1>1. \A p \in Polls : definition[p] \in Definitions
  <2>1. PICK f \in [Polls -> UNION {DefinitionsOf[p] : p \in Polls}] :
            definition = f /\ \A p \in Polls : f[p] \in DefinitionsOf[p]
    BY DEF VoteInit
  <2> QED
    BY <2>1 DEF Definitions
<1>2. LoadsInOrder
  BY DEF VoteInit, LoadsInOrder
<1>3. AllWellFormed(<< >>)
  BY EmptySequence DEF AllWellFormed
<1>4. AnswersOfControls
  BY <1>1, <1>3 DEF VoteInit, AnswersOfControls
<1>5. \A m \in wire : Carries(m)
  BY DEF VoteInit
<1> QED
  BY <1>2, <1>4, <1>5, InitPageInv DEF ControlInv

LEMMA StepControlInv == ControlInv /\ [VoteNext]_voteVars => ControlInv'
<1> SUFFICES ASSUME ControlInv, [VoteNext]_voteVars PROVE ControlInv'
  OBVIOUS
<1>1. PageInv'
  BY StepPageInv DEF ControlInv
<1>2. LoadsInOrder' /\ AnswersOfControls' /\ (\A m \in wire' : Carries(m))
  <2>1. ASSUME NEW p \in Polls, LoadPoll(p) \/ SaveDefinition(p)
        PROVE  LoadsInOrder' /\ AnswersOfControls' /\ (\A m \in wire' : Carries(m))
    BY <2>1, LoadKeepsControls, RevisionKeepsControls
  <2>2. CASE SetAnswer \/ RetryResponseState \/ Submit
    BY <2>2, VoterKeepsControls
  <2>3. ASSUME NEW m \in wire, ReplyPoll(m) \/ ReplyState(m) \/ SaveResponse(m)
        PROVE  LoadsInOrder' /\ AnswersOfControls' /\ (\A n \in wire' : Carries(n))
    BY <2>3, ServerKeepsControls
  <2>4. ASSUME NEW m \in wire,
               PollArrives(m) \/ StateArrives(m) \/ SubmissionArrives(m) \/ RequestFails(m)
        PROVE  LoadsInOrder' /\ AnswersOfControls' /\ (\A n \in wire' : Carries(n))
    BY <2>4, AnswerKeepsControls
  <2>5. CASE UNCHANGED voteVars
    <3>1. UNCHANGED <<generation, elements, answers, stateLoad, based, wire, definition, response>>
      BY <2>5 DEF voteVars, server, page
    <3>2. LoadsInOrder'
      BY <3>1 DEF ControlInv, LoadsInOrder, IsCurrent
    <3>3. AnswersOfControls'
      BY <3>1 DEF ControlInv, AnswersOfControls
    <3> QED
      BY <3>1, <3>2, <3>3 DEF ControlInv
  <2> QED
    BY <2>1, <2>2, <2>3, <2>4, <2>5 DEF VoteNext
<1> QED
  BY <1>1, <1>2 DEF ControlInv

\* A refusal names reasons of the request it answers, whose answers the controls made.
LEMMA ControlsAreRefusedAsIncomplete == ControlInv => RefusedOnlyWhenIncomplete
<1> SUFFICES ASSUME ControlInv, NEW m \in Refused, m.shown = m.reply.under,
                    m.based \in {Nothing, m.reply.under}
             PROVE  m.reply.reasons \subseteq Incomplete
  BY DEF RefusedOnlyWhenIncomplete
<1>1. m \in wire /\ m.kind = "submit" /\ m.reply # Nothing /\ ~m.reply.accepted
  BY DEF Refused
<1>2. Carries(m)
  BY <1>1 DEF ControlInv
<1> QED
  BY <1>1, <1>2 DEF Carries

\* RefusedOnlyWhenIncomplete: whatever a voter does with the controls, in any order and from
\* nothing or from a response to the same definition, the validator of the server refuses
\* for nothing but what is still missing, however the definition changed in between.
THEOREM ControlsAreEnough == VoteSpec => []RefusedOnlyWhenIncomplete
<1>1. VoteInit => ControlInv
  BY InitControlInv
<1>2. ControlInv /\ [VoteNext]_voteVars => ControlInv'
  BY StepControlInv
<1>3. ControlInv => RefusedOnlyWhenIncomplete
  BY ControlsAreRefusedAsIncomplete
<1> QED
  BY <1>1, <1>2, <1>3, PTL DEF VoteSpec
=============================================================================
