---------------------------- MODULE StreamProofs ----------------------------
(***************************************************************************)
(* Proofs about the stream of results (ResultsStream), for every number of *)
(* commits, requests, events replayed or buffered, attempts and faults: a  *)
(* page with nothing under way shows every commit or has a reason not to,  *)
(* and final results cover the closing that announced them.                *)
(*                                                                         *)
(* The invariant says what the events in the keys, in the process and on   *)
(* the wire stand for: commits that exist, announced with numbers that     *)
(* were given, and in the order of their numbers where the server trusts   *)
(* it. On it rests a second one, Follow: while nothing is lost, a page     *)
(* that watches holds each commit whose publication is over. It shows it,  *)
(* a request sent after it is under way, or an event that will make the    *)
(* page read again is in the log, in the buffer or on the wire.            *)
(***************************************************************************)
EXTENDS ResultsStream, FiniteSetTheorems, SequenceTheorems, NaturalsInduction, TLAPS

-----------------------------------------------------------------------------
(* Lists.                                                                  *)

\* A set of naturals has a least member.
LEMMA LeastElement ==
  ASSUME NEW T, T \subseteq Nat, T # {}
  PROVE  \E n \in T : \A m \in T : n <= m
<1> DEFINE R == {ss \in Nat \X Nat : ss[1] < ss[2]}
<1>1. IsWellFoundedOn(R, Nat)
  BY NatLessThanWellFounded DEF OpToRel
<1>2. \A m, n \in Nat : m < n => <<m, n>> \in R
  OBVIOUS
<1> HIDE DEF R
<1>3. PICK n \in T : \A m \in T : ~(<<m, n>> \in R)
  BY <1>1, WFMin
<1>4. \A m \in T : ~(m < n)
  BY <1>2, <1>3
<1>5. \A m \in T : n <= m
  BY <1>4
<1> QED
  BY <1>5

\* The ranks of the positions chosen are 1, 2, ... up to their number.
LEMMA RanksAreDense ==
  ASSUME NEW n \in Nat, NEW chosen \in SUBSET (1..n)
  PROVE  /\ Cardinality(chosen) \in 0..n
         /\ \A k \in 1..Cardinality(chosen) : \E i \in chosen : Rank(chosen, i) = k
<1>1. IsFiniteSet(1..n) /\ Cardinality(1..n) = n
  BY FS_Interval
<1>2. IsFiniteSet(chosen) /\ Cardinality(chosen) <= n /\ Cardinality(chosen) \in Nat
  BY <1>1, FS_Subset, FS_CardinalityType
<1> DEFINE Upto(i) == {j \in chosen : j <= i}
           c == Cardinality(chosen)
<1>3. ASSUME NEW i \in chosen
      PROVE  IsFiniteSet(Upto(i)) /\ Rank(chosen, i) = Cardinality(Upto(i)) /\ Rank(chosen, i) \in 1..c
  <2>1. Upto(i) \subseteq chosen /\ i \in Upto(i)
    OBVIOUS
  <2>2. IsFiniteSet(Upto(i)) /\ Cardinality(Upto(i)) <= c /\ Cardinality(Upto(i)) \in Nat
    BY <1>2, <2>1, FS_Subset, FS_CardinalityType
  <2>3. Cardinality(Upto(i)) # 0
    BY <2>1, <2>2, FS_EmptySet
  <2> QED
    BY <1>2, <2>2, <2>3 DEF Rank
<1>4. ASSUME NEW i \in chosen, NEW j \in chosen, i < j
      PROVE  Rank(chosen, i) # Rank(chosen, j)
  <2>1. Upto(i) \subseteq Upto(j) /\ j \in Upto(j) /\ j \notin Upto(i)
    <3>1. i \in Int /\ j \in Int /\ \A x \in chosen : x \in Int
      OBVIOUS
    <3>2. \A x \in chosen : x <= i => x <= j
      BY <1>4, <3>1
    <3>3. j <= j /\ ~(j <= i)
      BY <1>4, <3>1
    <3> QED
      BY <3>2, <3>3
  <2> HIDE DEF Upto
  <2>2. Cardinality(Upto(i)) = Cardinality(Upto(j)) => Upto(i) = Upto(j)
    BY <1>3, <2>1, FS_Subset
  <2> QED
    BY <1>3, <2>1, <2>2
<1> HIDE DEF Upto
<1>5. PICK f : f = [i \in chosen |-> Rank(chosen, i)]
  OBVIOUS
<1>6. f \in Injection(chosen, 1..c)
  <2>1. f \in [chosen -> 1..c]
    BY <1>3, <1>5
  <2>2. ASSUME NEW i \in chosen, NEW j \in chosen, f[i] = f[j]
        PROVE  i = j
    <3>1. Rank(chosen, i) = Rank(chosen, j)
      BY <1>5, <2>2
    <3>2. ~(i < j) /\ ~(j < i) /\ i \in Int /\ j \in Int
      BY <1>4, <3>1
    <3> QED
      BY <3>2
  <2> QED
    BY <2>1, <2>2 DEF Injection, IsInjective
<1>7. IsFiniteSet(1..c) /\ Cardinality(1..c) = c
  BY <1>2, FS_Interval
<1>8. f \in Surjection(chosen, 1..c)
  BY <1>6, <1>7, FS_Injection
<1>9. \A k \in 1..c : \E i \in chosen : Rank(chosen, i) = k
  BY <1>5, <1>8 DEF Surjection
<1> QED
  BY <1>2, <1>9

\* A filtered list is a list of members of the list, and no longer.
LEMMA FilteredMembers ==
  ASSUME NEW S, NEW s \in Seq(S), NEW chosen \in SUBSET DOMAIN s
  PROVE  /\ Filtered(s, chosen) \in Seq(S)
         /\ Len(Filtered(s, chosen)) <= Len(s)
<1>1. PICK n \in Nat : n = Len(s) /\ DOMAIN s = 1..n
  OBVIOUS
<1>2. PICK c \in 0..n : /\ c = Cardinality(chosen)
                        /\ \A k \in 1..c : \E i \in chosen : Rank(chosen, i) = k
  BY <1>1, RanksAreDense
<1> DEFINE At(k) == CHOOSE i \in chosen : Rank(chosen, i) = k
<1>3. \A k \in 1..c : At(k) \in 1..n
  BY <1>1, <1>2
<1> HIDE DEF At
<1>4. \A k \in 1..c : s[At(k)] \in S
  BY <1>1, <1>3
<1>5. PICK t : t = [k \in 1..c |-> s[At(k)]]
  OBVIOUS
<1>6. t \in [1..c -> S]
  BY <1>4, <1>5
<1>7. t \in Seq(S) /\ Len(t) = c
  BY <1>6
<1>8. Filtered(s, chosen) = t
  BY <1>2, <1>5 DEF Filtered, At
<1> QED
  BY <1>1, <1>7, <1>8

\* A part of a list.
LEMMA Slices ==
  ASSUME NEW S, NEW q \in Seq(S), NEW m \in Nat \ {0}, NEW n \in 0..Len(q), m <= n + 1
  PROVE  /\ SubSeq(q, m, n) \in Seq(S)
         /\ DOMAIN SubSeq(q, m, n) = 1..(n - m + 1)
         /\ Len(SubSeq(q, m, n)) = n - m + 1
         /\ \A i \in 1..(n - m + 1) : SubSeq(q, m, n)[i] = q[m + i - 1]
<1>1. Len(q) \in Nat /\ DOMAIN q = 1..Len(q)
  BY LenProperties
<1>2. m \in Int /\ n \in Int /\ \A i \in m..n : i \in DOMAIN q
  BY <1>1
<1>3. \A i \in m..n : q[i] \in S
  BY <1>2, ElementOfSeq, <1>1
<1>4. /\ SubSeq(q, m, n) \in Seq(S)
      /\ Len(SubSeq(q, m, n)) = IF m <= n THEN n - m + 1 ELSE 0
      /\ \A i \in 1..(n - m + 1) : SubSeq(q, m, n)[i] = q[m + i - 1]
  BY <1>2, <1>3, SubSeqProperties
<1>5. Len(SubSeq(q, m, n)) = n - m + 1
  BY <1>2, <1>4
<1> QED
  BY <1>4, <1>5, LenProperties

\* The newest members of a list.
LEMMA NewestOf ==
  ASSUME NEW S, NEW q \in Seq(S), NEW n \in Nat \ {0}
  PROVE  /\ Newest(q, n) \in Seq(S)
         /\ Len(Newest(q, n)) = IF Len(q) > n THEN n ELSE Len(q)
         /\ DOMAIN Newest(q, n) = 1..Len(Newest(q, n))
         /\ \A i \in DOMAIN Newest(q, n) :
               /\ Len(q) - Len(Newest(q, n)) + i \in DOMAIN q
               /\ Newest(q, n)[i] = q[Len(q) - Len(Newest(q, n)) + i]
         /\ Len(q) <= n => Newest(q, n) = q
<1>1. Len(q) \in Nat /\ DOMAIN q = 1..Len(q)
  BY LenProperties
<1> DEFINE r == Newest(q, n)
           m == IF Len(q) > n THEN Len(q) - n + 1 ELSE 1
<1>2. r = SubSeq(q, m, Len(q)) /\ m \in Nat \ {0} /\ m <= Len(q) + 1
  BY <1>1 DEF Newest
<1>3. (Len(q) <= n => m = 1) /\ Len(q) - m + 1 = IF Len(q) > n THEN n ELSE Len(q)
  BY <1>1
<1>4. Len(q) \in 0..Len(q)
  BY <1>1
<1> HIDE DEF m, r
<1>5. /\ r \in Seq(S) /\ Len(r) = Len(q) - m + 1
      /\ DOMAIN r = 1..(Len(q) - m + 1)
      /\ \A i \in 1..(Len(q) - m + 1) : r[i] = q[m + i - 1]
  BY <1>2, <1>4, Slices
<1>6. \A i \in DOMAIN r : Len(q) - Len(r) + i \in DOMAIN q /\ r[i] = q[Len(q) - Len(r) + i]
  <2> SUFFICES ASSUME NEW i \in 1..(Len(q) - m + 1)
               PROVE  Len(q) - Len(r) + i \in DOMAIN q /\ r[i] = q[Len(q) - Len(r) + i]
    BY <1>5
  <2>1. m + i - 1 = Len(q) - Len(r) + i /\ Len(q) - Len(r) + i \in 1..Len(q)
    BY <1>1, <1>2, <1>5
  <2>2. r[i] = q[m + i - 1]
    BY <1>5
  <2> QED
    BY <1>1, <2>1, <2>2
<1>7. Len(q) <= n => r = q
  BY <1>1, <1>2, <1>3, SubSeqFull
<1>8. /\ r \in Seq(S)
      /\ Len(r) = IF Len(q) > n THEN n ELSE Len(q)
      /\ DOMAIN r = 1..Len(r)
  BY <1>3, <1>5
<1> QED
  BY <1>6, <1>7, <1>8 DEF r

\* One member taken out of a list.
LEMMA RemovedFrom ==
  ASSUME NEW S, NEW q \in Seq(S), NEW i \in DOMAIN q
  PROVE  /\ RemoveAt(q, i) \in Seq(S)
         /\ DOMAIN RemoveAt(q, i) = 1..(Len(q) - 1)
         /\ Len(RemoveAt(q, i)) = Len(q) - 1
         /\ \A j \in DOMAIN RemoveAt(q, i) :
               \E k \in DOMAIN q : k # i /\ RemoveAt(q, i)[j] = q[k] /\ k = IF j < i THEN j ELSE j + 1
         /\ \A k \in DOMAIN q : k # i => \E j \in DOMAIN RemoveAt(q, i) : RemoveAt(q, i)[j] = q[k]
<1> DEFINE l == SubSeq(q, 1, i - 1)
           r == SubSeq(q, i + 1, Len(q))
           w == l \o r
<1>1. Len(q) \in Nat /\ DOMAIN q = 1..Len(q) /\ i \in 1..Len(q)
  BY LenProperties
<1>2. /\ l \in Seq(S) /\ Len(l) = i - 1
      /\ \A j \in 1..(i - 1) : l[j] = q[j]
  <2>1. i - 1 \in 0..Len(q) /\ 1 \in Nat \ {0} /\ 1 <= i - 1 + 1 /\ (i - 1) - 1 + 1 = i - 1
    BY <1>1
  <2>2. /\ l \in Seq(S) /\ Len(l) = (i - 1) - 1 + 1
        /\ \A j \in 1..((i - 1) - 1 + 1) : l[j] = q[1 + j - 1]
    BY <2>1, Slices
  <2> HIDE DEF l
  <2>3. \A j \in 1..(i - 1) : 1 + j - 1 = j
    BY <1>1
  <2> QED
    BY <2>1, <2>2, <2>3
<1>3. /\ r \in Seq(S) /\ Len(r) = Len(q) - i
      /\ \A j \in 1..(Len(q) - i) : r[j] = q[i + j]
  <2>1. Len(q) \in 0..Len(q) /\ i + 1 \in Nat \ {0} /\ i + 1 <= Len(q) + 1 /\ Len(q) - (i + 1) + 1 = Len(q) - i
    BY <1>1
  <2>2. /\ r \in Seq(S) /\ Len(r) = Len(q) - (i + 1) + 1
        /\ \A j \in 1..(Len(q) - (i + 1) + 1) : r[j] = q[(i + 1) + j - 1]
    BY <2>1, Slices
  <2> HIDE DEF r
  <2>3. \A j \in 1..(Len(q) - i) : (i + 1) + j - 1 = i + j
    BY <1>1
  <2> QED
    BY <2>1, <2>2, <2>3
<1> HIDE DEF l, r
<1>4. /\ w \in Seq(S) /\ Len(w) = Len(l) + Len(r)
      /\ \A j \in 1..(Len(l) + Len(r)) : w[j] = IF j <= Len(l) THEN l[j] ELSE r[j - Len(l)]
  BY <1>2, <1>3, ConcatProperties
<1> HIDE DEF w
<1>5. Len(w) = Len(q) - 1 /\ DOMAIN w = 1..(Len(q) - 1)
  BY <1>1, <1>2, <1>3, <1>4, LenProperties
<1>6. \A j \in 1..(Len(q) - 1) : w[j] = q[IF j < i THEN j ELSE j + 1]
  <2> SUFFICES ASSUME NEW j \in 1..(Len(q) - 1) PROVE w[j] = q[IF j < i THEN j ELSE j + 1]
    OBVIOUS
  <2>1. w[j] = IF j <= Len(l) THEN l[j] ELSE r[j - Len(l)]
    BY <1>1, <1>2, <1>3, <1>4
  <2>2. CASE j < i
    <3>1. j <= Len(l) /\ j \in 1..(i - 1)
      BY <1>1, <1>2, <2>2
    <3> QED
      BY <1>2, <2>1, <2>2, <3>1
  <2>3. CASE ~(j < i)
    <3>1. ~(j <= Len(l)) /\ j - Len(l) \in 1..(Len(q) - i) /\ i + (j - Len(l)) = j + 1
      BY <1>1, <1>2, <2>3
    <3>2. r[j - Len(l)] = q[i + (j - Len(l))]
      BY <1>3, <3>1
    <3> QED
      BY <2>1, <2>3, <3>1, <3>2
  <2> QED
    BY <2>2, <2>3
<1>7. \A j \in DOMAIN w : \E k \in DOMAIN q : k # i /\ w[j] = q[k] /\ k = IF j < i THEN j ELSE j + 1
  BY <1>1, <1>5, <1>6
<1>8. ASSUME NEW k \in DOMAIN q, k # i PROVE \E j \in DOMAIN w : w[j] = q[k]
  <2>1. CASE k < i
    <3>1. k \in DOMAIN w /\ k < i
      BY <1>1, <1>5, <2>1
    <3> QED
      BY <1>5, <1>6, <3>1
  <2>2. CASE k > i
    <3>1. k - 1 \in DOMAIN w /\ ~(k - 1 < i) /\ (k - 1) + 1 = k
      BY <1>1, <1>5, <2>2
    <3>2. w[k - 1] = q[k]
      BY <1>5, <1>6, <3>1
    <3> QED
      BY <3>1, <3>2
  <2> QED
    BY <1>1, <1>8, <2>1, <2>2
<1>9. RemoveAt(q, i) = w
  BY DEF RemoveAt, w, l, r
<1> QED
  BY <1>4, <1>5, <1>7, <1>8, <1>9

-----------------------------------------------------------------------------
(* The inductive invariant.                                                *)

Requests == [kind : {"load", "refresh", "final"}, load : Nat, revision : Nat, since : Nat,
             live : BOOLEAN]
Pages == [load : Nat, revision : Nat, shown : Nat,
          connection : {"none", "connecting", "connected", "reconnecting", "closed"},
          attempts : Nat, cursor : Events, timer : BOOLEAN,
          final : {"idle", "pending", "failed", "complete"}, finalSeen : Nat]
Streams == [phase : {"off", "reading", "read", "live", "ended"}, newest : BOOLEAN,
            buffered : Seq(Events), replay : Seq(Events), last : Events, wire : Seq(Events)]
Publications == [pc : {"none", "batch", "record", "publish", "done"},
                 final : BOOLEAN, tries : Nat, event : Events]

StreamTypes ==
    /\ anonymous \in BOOLEAN
    /\ poll \in [commits : 0..MaxCommits, closed : BOOLEAN]
    /\ access \in [session : BOOLEAN, visible : BOOLEAN]
    /\ publication \in [Commits -> Publications]
    /\ redis \in [log : Seq(Events), sequence : Nat]
    /\ stream \in Streams
    /\ page \in Pages
    /\ requests \in Seq(Requests)

\* An event on its way tells of a commit, and has no number that was not given.
Sound(e) == e.commit \in 1..poll.commits /\ e.id <= redis.sequence

\* An event that was handled may be of numbers that expired.
Handled(e) ==
    \/ e = NoEvent
    \/ /\ e.commit \in 1..poll.commits
       /\ e.id <= redis.sequence \/ publication[e.commit].pc = "done"

\* A commit has a publication, which carries its number from the record on.
Announced ==
    \A c \in Commits :
        /\ publication[c].pc # "none" <=> c <= poll.commits
        /\ publication[c].pc = "publish" =>
              publication[c].event.commit = c /\ publication[c].event.id \in 1..redis.sequence

\* The numbers of the log are the last ones given, without a gap.
Numbered ==
    /\ Len(redis.log) <= redis.sequence
    /\ redis.log = << >> => redis.sequence = 0
    /\ \A i \in DOMAIN redis.log :
          /\ Sound(redis.log[i])
          /\ redis.log[i].id = redis.sequence - Len(redis.log) + i

\* Only what the publisher could not record has no number.
InMotion(st, pg) ==
    /\ \A i \in DOMAIN st.wire : Sound(st.wire[i])
    /\ \A i \in DOMAIN st.replay : Sound(st.replay[i]) /\ st.replay[i].id # NoId
    /\ \A i \in DOMAIN st.buffered : Sound(st.buffered[i]) /\ st.buffered[i].id # NoId
    /\ Handled(pg.cursor) /\ Handled(st.last)

\* What a connection holds in each phase; until the replay is sent, only events
\* without a number pass.
Phases ==
    /\ stream.phase # "off" <=> page.connection = "connected"
    /\ stream.phase = "off" => stream = NoStream
    /\ stream.phase \in {"live", "ended"} => stream.replay = << >> /\ stream.buffered = << >>
    /\ stream.phase = "reading" => stream.replay = << >>
    /\ stream.phase \in {"reading", "read"} =>
          stream.last = page.cursor /\ \A i \in DOMAIN stream.wire : stream.wire[i].id = NoId
    /\ stream.replay # << >> => stream.replay[1].id # stream.last.id
    /\ stream.buffered # << >> => Len(stream.buffered) <= MaxPending

\* A request of the load shown, and one whose answer the page will use.
Current(r, p) == r.load = p.load
Valid(r, p) == Current(r, p) /\ (r.kind = "refresh" => r.revision = p.revision)

\* Requests are older than the page and the commits; a load is alone.
RequestsInOrder ==
    /\ page.shown <= poll.commits /\ page.finalSeen <= poll.commits
    /\ \A i \in DOMAIN requests :
          /\ requests[i].load <= page.load /\ requests[i].since <= poll.commits
          /\ Current(requests[i], page) => requests[i].revision <= page.revision
          /\ Current(requests[i], page) /\ requests[i].kind = "load" =>
                /\ page = Loading(page.load, page.revision) /\ stream.phase = "off"
                /\ \A j \in DOMAIN requests : Current(requests[j], page) => j = i

\* An answer the page will use was asked for after the closing it knows of.
Finals ==
    /\ \A i \in DOMAIN requests :
          Valid(requests[i], page) /\ requests[i].kind # "load" => requests[i].since >= page.finalSeen
    /\ page.finalSeen = 0 =>
          /\ page.final = "idle"
          /\ \A i \in DOMAIN requests : Current(requests[i], page) => requests[i].kind # "final"
    /\ page.final = "complete" => page.connection = "none" /\ page.shown >= page.finalSeen

StreamInv ==
    /\ StreamTypes /\ Announced /\ Numbered /\ InMotion(stream, page) /\ Phases
    /\ RequestsInOrder /\ Finals

-----------------------------------------------------------------------------
(* Deliveries.                                                             *)

\* What is kept are events, and something is when an event differs from the one before.
LEMMA KeptEvents ==
  ASSUME NEW last, NEW events \in Seq(Events)
  PROVE  /\ Delivered(last, events).kept \in Seq(Events)
         /\ \A i \in DOMAIN Delivered(last, events).kept :
               \E j \in DOMAIN events : Delivered(last, events).kept[i] = events[j]
         /\ (\E j \in DOMAIN events : events[j].id # Before(last, events, j).id)
               => Delivered(last, events).kept # << >>
<1> DEFINE chosen == {i \in DOMAIN events : events[i].id # Before(last, events, i).id}
           kept == Filtered(events, chosen)
           R == {events[j] : j \in DOMAIN events}
<1>1. events \in Seq(R) /\ chosen \in SUBSET DOMAIN events /\ R \subseteq Events
  <2>1. \A j \in DOMAIN events : events[j] \in R /\ events[j] \in Events
    OBVIOUS
  <2>2. DOMAIN events = 1..Len(events) /\ Len(events) \in Nat /\ events = [j \in 1..Len(events) |-> events[j]]
    BY LenProperties
  <2> HIDE DEF R
  <2>3. events \in [1..Len(events) -> R]
    BY <2>1, <2>2
  <2>4. events \in Seq(R)
    BY <2>2, <2>3, IsASeq
  <2>5. R \subseteq Events
    BY <2>1 DEF R
  <2> QED
    BY <2>4, <2>5
<1>2. kept \in Seq(R)
  BY <1>1, FilteredMembers
<1>3. kept \in Seq(Events) /\ \A i \in DOMAIN kept : \E j \in DOMAIN events : kept[i] = events[j]
  <2> HIDE DEF kept, chosen
  <2>1. kept \in Seq(Events)
    BY <1>1, <1>2, SeqMonotonic
  <2>2. \A i \in DOMAIN kept : kept[i] \in R
    BY <1>2, ElementOfSeq, LenProperties
  <2> QED
    BY <2>1, <2>2
<1>4. chosen # {} => kept # << >>
  <2> SUFFICES ASSUME chosen # {} PROVE kept # << >>
    OBVIOUS
  <2>1. IsFiniteSet(DOMAIN events)
    BY FS_Interval, LenProperties
  <2>2. IsFiniteSet(chosen) /\ Cardinality(chosen) \in Nat
    BY <2>1, FS_Subset, FS_CardinalityType
  <2>3. Cardinality(chosen) # 0
    BY <2>2, FS_EmptySet
  <2>4. DOMAIN kept = 1..Cardinality(chosen)
    BY DEF Filtered
  <2>5. 1 \in DOMAIN kept
    BY <2>2, <2>3, <2>4
  <2> QED
    BY <2>5
<1>5. Delivered(last, events).kept = kept
  BY DEF Delivered
<1> QED
  BY <1>3, <1>4, <1>5

\* What is delivered follows what is on the wire.
LEMMA Deliveries ==
  ASSUME NEW s \in Streams, NEW events \in Seq(Events)
  PROVE  /\ Deliver(s, events) = [s EXCEPT !.wire = Deliver(s, events).wire, !.last = Deliver(s, events).last]
         /\ Deliver(s, events) \in Streams /\ Deliver(s, events).wire \in Seq(Events)
         /\ Deliver(s, events).wire = s.wire \o Delivered(s.last, events).kept
         /\ Deliver(s, events).last = IF events = << >> THEN s.last ELSE events[Len(events)]
<1> DEFINE d == Deliver(s, events)
           kept == Delivered(s.last, events).kept
<1>1. s.wire \in Seq(Events) /\ s.last \in Events
  BY DEF Streams
<1>2. d.wire = s.wire \o kept /\ d = [s EXCEPT !.wire = s.wire \o kept, !.last = d.last]
      /\ d.last = Delivered(s.last, events).last
  BY DEF Deliver, Streams
<1>3. Delivered(s.last, events).last = IF events = << >> THEN s.last ELSE events[Len(events)]
  BY DEF Delivered, Last
<1>4. kept \in Seq(Events)
  BY KeptEvents
<1> HIDE DEF d, kept
<1>5. d.wire \in Seq(Events)
  BY <1>1, <1>2, <1>4, ConcatProperties
<1>6. events # << >> => events[Len(events)] \in Events
  BY LenProperties, EmptySeq
<1>7. d \in Streams
  BY <1>1, <1>2, <1>3, <1>5, <1>6 DEF Streams
<1>8. d = [s EXCEPT !.wire = d.wire, !.last = d.last]
  BY <1>2
<1> QED
  BY <1>2, <1>3, <1>5, <1>7, <1>8 DEF d, kept

LEMMA DeliveredFrom ==
  ASSUME NEW s \in Streams, NEW events \in Seq(Events)
  PROVE  /\ \A i \in DOMAIN Deliver(s, events).wire :
               \/ \E j \in DOMAIN s.wire : Deliver(s, events).wire[i] = s.wire[j]
               \/ \E j \in DOMAIN events : Deliver(s, events).wire[i] = events[j]
         /\ \A i \in DOMAIN s.wire :
               i \in DOMAIN Deliver(s, events).wire /\ Deliver(s, events).wire[i] = s.wire[i]
         /\ s.wire # << >> \/ (\E j \in DOMAIN events : events[j].id # Before(s.last, events, j).id)
               => Deliver(s, events).wire # << >>
<1> DEFINE w == Deliver(s, events).wire
           kept == Delivered(s.last, events).kept
<1>1. s.wire \in Seq(Events) /\ w = s.wire \o kept /\ w \in Seq(Events)
  BY Deliveries DEF Streams
<1>2. /\ kept \in Seq(Events)
      /\ \A i \in DOMAIN kept : \E j \in DOMAIN events : kept[i] = events[j]
      /\ (\E j \in DOMAIN events : events[j].id # Before(s.last, events, j).id) => kept # << >>
  BY KeptEvents
<1> HIDE DEF w, kept
<1>3. Len(w) = Len(s.wire) + Len(kept)
      /\ \A i \in 1..Len(w) : w[i] = IF i <= Len(s.wire) THEN s.wire[i] ELSE kept[i - Len(s.wire)]
  BY <1>1, <1>2, ConcatProperties
<1>4. /\ DOMAIN w = 1..Len(w) /\ DOMAIN s.wire = 1..Len(s.wire) /\ DOMAIN kept = 1..Len(kept)
      /\ Len(s.wire) \in Nat /\ Len(kept) \in Nat
  BY <1>1, <1>2, LenProperties
<1>5. ASSUME NEW i \in DOMAIN w
      PROVE  \/ \E j \in DOMAIN s.wire : w[i] = s.wire[j]
             \/ \E j \in DOMAIN events : w[i] = events[j]
  <2>1. CASE i <= Len(s.wire)
    BY <2>1, <1>3, <1>4
  <2>2. CASE ~(i <= Len(s.wire))
    <3>1. w[i] = kept[i - Len(s.wire)] /\ i - Len(s.wire) \in DOMAIN kept
      BY <2>2, <1>3, <1>4
    <3> QED
      BY <3>1, <1>2
  <2> QED
    BY <2>1, <2>2
<1>6. \A i \in DOMAIN s.wire : i \in DOMAIN w /\ w[i] = s.wire[i]
  BY <1>3, <1>4
<1>7. s.wire # << >> \/ kept # << >> => w # << >>
  BY <1>1, <1>2, ConcatEqualIffEmpty, ConcatProperties, EmptySeq
<1> QED
  BY <1>2, <1>5, <1>6, <1>7 DEF w

\* An event that is skipped equals the last one delivered.
LEMMA SkippedEvents ==
  ASSUME NEW last \in Events, NEW events \in Seq(Events), ~Delivered(last, events).reused,
         \A j \in DOMAIN events : events[j].id = Before(last, events, j).id
  PROVE  \A j \in DOMAIN events : events[j].commit = last.commit
<1>1. DOMAIN events = 1..Len(events) /\ Len(events) \in Nat
  BY LenProperties
<1>2. \A j \in DOMAIN events : events[j].commit = Before(last, events, j).commit
  BY DEF Delivered
<1> DEFINE T == {j \in DOMAIN events : events[j].commit # last.commit}
<1>3. CASE T = {}
  BY <1>3
<1>4. CASE T # {}
  <2>0. T \subseteq Nat
    BY <1>1
  <2>1. PICK n \in T : \A m \in T : n <= m
    <3> HIDE DEF T
    <3> QED
      BY <2>0, <1>4, LeastElement
  <2>2. n # 1
    BY <1>2, <2>1 DEF Before
  <2>3. n - 1 \in DOMAIN events /\ events[n].commit = events[n - 1].commit
    BY <1>1, <1>2, <2>1, <2>2 DEF Before
  <2>4. n - 1 \in T
    BY <2>1, <2>3
  <2> QED
    BY <1>1, <2>1, <2>4
<1> QED
  BY <1>3, <1>4

-----------------------------------------------------------------------------
(* The invariant is kept.                                                  *)

USE DEF NoId, NoEvent

LEMMA InitStreamInv == Init => StreamInv
<1> SUFFICES ASSUME Init PROVE StreamInv
  OBVIOUS
<1>1. NoEvent \in Events /\ 0 \in 0..MaxCommits
  BY BoundsAssumption DEF Events
<1>2. NoStream \in Streams /\ NoStream.phase = "off" /\ NoStream.wire = << >> /\ NoStream.replay = << >>
      /\ NoStream.buffered = << >> /\ NoStream.last = NoEvent
  BY <1>1 DEF NoStream, Streams
<1>3. page \in Pages /\ page.load = 1 /\ page.revision = 1 /\ page.connection = "none" /\ page.shown = 0
      /\ page.finalSeen = 0 /\ page.final = "idle" /\ page.cursor = NoEvent
  BY <1>1 DEF Init, Loading, Pages
<1>4. requests = <<Request("load", page)>> /\ Request("load", page) \in Requests
      /\ Request("load", page).kind = "load" /\ Request("load", page).load = 1
      /\ Request("load", page).since = 0 /\ Request("load", page).revision = 1
  BY <1>1, <1>3 DEF Init, Request, Requests
<1>5. DOMAIN requests = {1} /\ requests[1] = Request("load", page) /\ requests \in Seq(Requests)
  BY <1>4
<1>6. StreamTypes
  BY <1>1, <1>2, <1>3, <1>5 DEF Init, StreamTypes, Publications, NoPublication
<1>7. Announced /\ Numbered
  BY DEF Init, Announced, Numbered, NoPublication, Commits
<1>8. InMotion(stream, page) /\ Phases
  BY <1>2, <1>3 DEF Init, InMotion, Phases, Handled
<1>9. RequestsInOrder
  BY <1>2, <1>3, <1>4, <1>5 DEF Init, RequestsInOrder, Current
<1>10. Finals
  BY <1>3, <1>4, <1>5 DEF Finals, Valid, Current
<1> QED
  BY <1>6, <1>7, <1>8, <1>9, <1>10 DEF StreamInv

\* Commits, numbers and publications only go on, but when the numbers expire.
GoesOn ==
    /\ poll.commits <= poll'.commits /\ redis.sequence <= redis'.sequence
    /\ \A c \in Commits : publication[c].pc = "done" => publication'[c].pc = "done"

LEMMA EventsStaySound ==
  ASSUME StreamTypes, StreamTypes', GoesOn
  PROVE  \A e \in Events : (Sound(e) => Sound(e)') /\ (Handled(e) => Handled(e)')
<1> SUFFICES ASSUME NEW e \in Events PROVE (Sound(e) => Sound(e)') /\ (Handled(e) => Handled(e)')
  OBVIOUS
<1>1. e.commit \in Nat /\ e.id \in Nat /\ poll.commits \in Nat /\ poll'.commits \in Nat
      /\ poll.commits <= MaxCommits /\ MaxCommits \in Nat
      /\ redis.sequence \in Nat /\ redis'.sequence \in Nat
  BY BoundsAssumption DEF StreamTypes, Events
<1>2. Sound(e) => Sound(e)'
  BY <1>1 DEF Sound, GoesOn
<1>3. Handled(e) => Handled(e)'
  BY <1>1 DEF Handled, GoesOn, Commits
<1> QED
  BY <1>2, <1>3

\* So what is in motion stays sound.
LEMMA MotionGoesOn ==
  ASSUME StreamTypes, StreamTypes', GoesOn, InMotion(stream', page')
  PROVE  InMotion(stream, page)'
<1>1. \A e \in Events : (Sound(e) => Sound(e)') /\ (Handled(e) => Handled(e)')
  BY EventsStaySound
<1>2. stream' \in Streams /\ page'.cursor \in Events
  BY DEF StreamTypes, Pages
<1>3. /\ \A i \in DOMAIN stream'.wire : stream'.wire[i] \in Events
      /\ \A i \in DOMAIN stream'.replay : stream'.replay[i] \in Events
      /\ \A i \in DOMAIN stream'.buffered : stream'.buffered[i] \in Events
      /\ stream'.last \in Events
  BY <1>2, ElementOfSeq, LenProperties DEF Streams
<1> QED
  BY <1>1, <1>2, <1>3 DEF InMotion

\* What is neither sent, delivered nor shown.
LEMMA NothingMoves ==
  ASSUME StreamInv, StreamTypes', GoesOn, UNCHANGED <<stream, page, requests>>
  PROVE  InMotion(stream, page)' /\ Phases' /\ RequestsInOrder' /\ Finals'
<1>4. InMotion(stream, page)'
  BY MotionGoesOn DEF StreamInv, InMotion
<1>5. Phases'
  BY DEF StreamInv, Phases
<1>6. requests \in Seq(Requests) /\ page.shown \in Nat /\ page.finalSeen \in Nat /\ poll.commits \in Nat /\ poll'.commits \in Nat
      /\ poll.commits <= poll'.commits
  BY DEF StreamInv, StreamTypes, Pages, GoesOn
<1>7. \A i \in DOMAIN requests : requests[i].since \in Nat
  <2>1. \A i \in DOMAIN requests : requests[i] \in Requests
    BY <1>6, ElementOfSeq, LenProperties
  <2> QED
    BY <2>1 DEF Requests
<1>8. RequestsInOrder'
  BY <1>6, <1>7 DEF StreamInv, RequestsInOrder, Current
<1>9. Finals'
  BY DEF StreamInv, Finals, Valid, Current
<1> QED
  BY <1>4, <1>5, <1>8, <1>9

\* What is announced is a publication to come.
LEMMA Announcements ==
  ASSUME StreamInv, NEW f \in BOOLEAN, Announce(f)
  PROVE  /\ poll.commits + 1 \in Commits /\ poll.commits < MaxCommits
         /\ publication' \in [Commits -> Publications]
         /\ publication'[poll.commits + 1].pc \in {"batch", "record"}
         /\ \A c \in Commits : c <= poll.commits => publication'[c] = publication[c]
         /\ \A c \in Commits : c # poll.commits + 1 => publication'[c] = publication[c]
<1>1. poll.commits \in 0..MaxCommits /\ MaxCommits \in Nat /\ publication \in [Commits -> Publications]
      /\ poll.commits < MaxCommits
  BY BoundsAssumption DEF StreamInv, StreamTypes, Announce
<1>2. poll.commits + 1 \in Commits
  BY <1>1 DEF Commits
<1>3. NoEvent \in Events
  BY <1>1 DEF Events
<1>4. NoPublication \in Publications
  BY <1>3 DEF NoPublication, Publications
<1>5. PICK pc \in {"batch", "record"} : pc = IF anonymous THEN "batch" ELSE "record"
  OBVIOUS
<1> DEFINE n == [NoPublication EXCEPT !.pc = pc, !.final = f]
<1>6. n \in Publications /\ n.pc \in {"batch", "record"}
  BY <1>4 DEF Publications
<1> HIDE DEF n
<1>7. publication' = [publication EXCEPT ![poll.commits + 1] = n]
  BY <1>5 DEF Announce, n
<1> QED
  BY <1>1, <1>2, <1>6, <1>7 DEF Commits

LEMMA CommitsKeepInv ==
  ASSUME StreamInv, SubmitResponse \/ ClosePoll \/ ReopenPoll \/ EndSession \/ HideResults
  PROVE  StreamInv'
<1>1. UNCHANGED <<anonymous, redis, stream, page, requests>>
  BY DEF SubmitResponse, ClosePoll, ReopenPoll, EndSession, HideResults, backend
<1>2. poll \in [commits : 0..MaxCommits, closed : BOOLEAN] /\ MaxCommits \in Nat
      /\ access \in [session : BOOLEAN, visible : BOOLEAN]
      /\ publication \in [Commits -> Publications]
  BY BoundsAssumption DEF StreamInv, StreamTypes
<1>3. \/ /\ poll'.commits = poll.commits /\ publication' = publication
         /\ poll' \in [commits : 0..MaxCommits, closed : BOOLEAN]
      \/ /\ poll'.commits = poll.commits + 1 /\ \E f \in BOOLEAN : Announce(f)
         /\ poll' \in [commits : 0..MaxCommits, closed : BOOLEAN]
  <2>1. CASE SubmitResponse
    <3>1. Announce(FALSE) /\ poll' = [poll EXCEPT !.commits = @ + 1]
      BY <2>1 DEF SubmitResponse
    <3>2. poll.commits < MaxCommits
      BY <3>1, Announcements
    <3>3. poll.commits + 1 \in 0..MaxCommits /\ poll'.commits = poll.commits + 1 /\ poll' \in [commits : 0..MaxCommits, closed : BOOLEAN]
      BY <1>2, <3>1, <3>2
    <3> QED
      BY <3>1, <3>3
  <2>2. CASE ClosePoll
    <3>1. Announce(TRUE) /\ poll' = [commits |-> poll.commits + 1, closed |-> TRUE]
      BY <2>2 DEF ClosePoll
    <3>2. poll.commits < MaxCommits
      BY <3>1, Announcements
    <3>3. poll.commits + 1 \in 0..MaxCommits /\ poll'.commits = poll.commits + 1 /\ poll' \in [commits : 0..MaxCommits, closed : BOOLEAN]
      BY <1>2, <3>1, <3>2
    <3> QED
      BY <3>1, <3>3
  <2>3. CASE ReopenPoll
    BY <1>2, <2>3 DEF ReopenPoll
  <2>4. CASE EndSession \/ HideResults
    BY <1>2, <2>4 DEF EndSession, HideResults, backend
  <2> QED
    BY <2>1, <2>2, <2>3, <2>4
<1>4. /\ publication' \in [Commits -> Publications]
      /\ \A c \in Commits : c <= poll.commits => publication'[c] = publication[c]
      /\ \A c \in Commits : c > poll'.commits => publication'[c] = publication[c]
      /\ poll'.commits = poll.commits + 1 => publication'[poll.commits + 1].pc \in {"batch", "record"}
  BY <1>2, <1>3, Announcements DEF Commits
<1>41. access' \in [session : BOOLEAN, visible : BOOLEAN]
  BY <1>2 DEF SubmitResponse, ClosePoll, ReopenPoll, EndSession, HideResults
<1>42. poll'.commits \in {poll.commits, poll.commits + 1} /\ poll'.commits \in Nat /\ poll.commits \in Nat
  BY <1>2, <1>3
<1>5. StreamTypes'
  BY <1>1, <1>3, <1>4, <1>41 DEF StreamInv, StreamTypes
<1>6. GoesOn
  BY <1>1, <1>4, <1>42 DEF GoesOn, StreamInv, StreamTypes, Announced
<1>7. Announced'
  <2> SUFFICES ASSUME NEW c \in Commits
               PROVE  /\ publication'[c].pc # "none" <=> c <= poll'.commits
                      /\ publication'[c].pc = "publish" =>
                            publication'[c].event.commit = c /\ publication'[c].event.id \in 1..redis.sequence
    BY <1>1 DEF Announced
  <2>1. c \in Nat
    BY DEF Commits
  <2>2. CASE c <= poll.commits \/ c > poll'.commits
    <3>1. publication'[c] = publication[c]
      BY <1>4, <2>2
    <3>2. c <= poll.commits <=> c <= poll'.commits
      BY <1>42, <2>1, <2>2
    <3> QED
      BY <3>1, <3>2 DEF StreamInv, Announced
  <2>3. CASE poll'.commits = poll.commits + 1 /\ c = poll.commits + 1
    <3>1. publication'[c].pc \in {"batch", "record"}
      BY <1>4, <2>3
    <3>2. c <= poll'.commits
      BY <1>42, <2>1, <2>3
    <3> QED
      BY <3>1, <3>2
  <2> QED
    BY <1>42, <2>1, <2>2, <2>3
<1>8. Numbered'
  <2>1. \A i \in DOMAIN redis.log : redis.log[i] \in Events
    BY ElementOfSeq, LenProperties DEF StreamInv, StreamTypes
  <2> QED
    BY <1>1, <1>5, <1>6, <2>1, EventsStaySound DEF StreamInv, Numbered
<1> QED
  BY <1>1, <1>5, <1>6, <1>7, <1>8, NothingMoves DEF StreamInv

-----------------------------------------------------------------------------
(* Records and publications.                                               *)

\* The number of an event recorded is the newest.
LEMMA Recordings ==
  ASSUME StreamInv, NEW c \in Commits, publication[c].pc = "record"
  PROVE  /\ Recorded(c) \in [log : Seq(Events), sequence : Nat]
         /\ redis.sequence <= Recorded(c).sequence
         /\ Stored(c) \in Events /\ Stored(c).commit = c /\ Stored(c).id \in 1..Recorded(c).sequence
         /\ Recorded(c).log # << >> /\ Last(Recorded(c).log) = Stored(c)
         /\ Len(Recorded(c).log) <= Recorded(c).sequence
         /\ \A i \in DOMAIN Recorded(c).log :
               /\ Recorded(c).log[i].commit \in 1..poll.commits
               /\ Recorded(c).log[i].id = Recorded(c).sequence - Len(Recorded(c).log) + i
         /\ \/ Recorded(c) = redis
            \/ Stored(c).id = redis.sequence + 1
<1>1. /\ redis \in [log : Seq(Events), sequence : Nat] /\ publication[c] \in Publications
      /\ c \in Nat \ {0} /\ c <= MaxCommits /\ MaxCommits \in Nat /\ c \in 1..poll.commits
  BY BoundsAssumption DEF StreamInv, StreamTypes, Commits, Announced
<1>2. /\ Len(redis.log) <= redis.sequence
      /\ Len(redis.log) \in Nat
      /\ DOMAIN redis.log = 1..Len(redis.log)
      /\ \A i \in DOMAIN redis.log : redis.log[i] \in Events
      /\ \A i \in DOMAIN redis.log : redis.log[i].commit \in 1..poll.commits
      /\ \A i \in DOMAIN redis.log : redis.log[i].id = redis.sequence - Len(redis.log) + i
  BY <1>1, LenProperties, ElementOfSeq DEF StreamInv, Numbered, Sound
<1>3. CASE IsRepetition(c)
  <2>1. /\ redis.log # << >> /\ Last(redis.log).commit = c
        /\ Stored(c) = Last(redis.log) /\ Recorded(c) = redis
    BY <1>3 DEF IsRepetition, Stored, Recorded
  <2>2. Len(redis.log) # 0
    BY <1>1, <2>1, EmptySeq
  <2>3. Len(redis.log) \in DOMAIN redis.log /\ Last(redis.log) = redis.log[Len(redis.log)]
    BY <1>2, <2>2 DEF Last
  <2>4. Stored(c).id = redis.sequence /\ redis.sequence \in Nat \ {0} /\ Stored(c) \in Events
    BY <1>1, <1>2, <2>1, <2>2, <2>3
  <2> QED
    BY <1>1, <1>2, <2>1, <2>4
<1>4. CASE ~IsRepetition(c)
  <2> DEFINE e == [id |-> redis.sequence + 1, commit |-> c, final |-> publication[c].final]
             q == Append(redis.log, e)
             r == Newest(q, MaxReplay)
  <2>1. Stored(c) = e /\ Recorded(c) = [log |-> r, sequence |-> redis.sequence + 1]
    BY <1>4 DEF Stored, Recorded
  <2>2. e \in Events /\ e.id = redis.sequence + 1 /\ e.commit = c
    BY <1>1 DEF Events, Publications
  <2> HIDE DEF e
  <2>3. /\ q \in Seq(Events)
        /\ Len(q) = Len(redis.log) + 1
        /\ \A i \in 1..Len(redis.log) : q[i] = redis.log[i]
        /\ q[Len(redis.log) + 1] = e
    BY <1>1, <2>2, AppendProperties
  <2> HIDE DEF q
  <2>4. MaxReplay \in Nat \ {0}
    BY BoundsAssumption
  <2>5. /\ r \in Seq(Events) /\ DOMAIN r = 1..Len(r) /\ Len(r) \in Nat
        /\ Len(r) = IF Len(q) > MaxReplay THEN MaxReplay ELSE Len(q)
        /\ \A i \in DOMAIN r : Len(q) - Len(r) + i \in DOMAIN q /\ r[i] = q[Len(q) - Len(r) + i]
    <3>1. q \in Seq(Events) /\ Len(q) \in Nat
      BY <1>2, <2>3
    <3>2. r \in Seq(Events) /\ DOMAIN r = 1..Len(r) /\ Len(r) = IF Len(q) > MaxReplay THEN MaxReplay ELSE Len(q)
      BY <2>4, <3>1, NewestOf
    <3>3. \A i \in DOMAIN r : Len(q) - Len(r) + i \in DOMAIN q /\ r[i] = q[Len(q) - Len(r) + i]
      BY <2>4, <3>1, NewestOf
    <3> QED
      BY <2>4, <3>1, <3>2, <3>3
  <2> HIDE DEF r
  <2>6. Len(r) \in Nat \ {0} /\ r # << >> /\ Len(r) \in DOMAIN r /\ Len(r) <= redis.sequence + 1
    BY <1>1, <1>2, <2>3, <2>4, <2>5, EmptySeq
  <2>7. r[Len(r)] = e
    BY <1>2, <2>3, <2>5, <2>6
  <2>8. DOMAIN q = 1..Len(redis.log) + 1
    BY <2>3, LenProperties
  <2>9. \A i \in DOMAIN q : q[i].commit \in 1..poll.commits /\ q[i].id = redis.sequence - Len(redis.log) + i
    <3> SUFFICES ASSUME NEW i \in DOMAIN q
                 PROVE  q[i].commit \in 1..poll.commits /\ q[i].id = redis.sequence - Len(redis.log) + i
      OBVIOUS
    <3>1. CASE i \in 1..Len(redis.log)
      BY <1>2, <2>3, <3>1
    <3>2. CASE i = Len(redis.log) + 1
      BY <1>1, <1>2, <2>2, <2>3, <3>2
    <3> QED
      BY <1>2, <2>8, <3>1, <3>2
  <2>10. \A i \in DOMAIN r : /\ r[i].commit \in 1..poll.commits
                             /\ r[i].id = (redis.sequence + 1) - Len(r) + i
    <3> SUFFICES ASSUME NEW i \in DOMAIN r
                 PROVE  r[i].commit \in 1..poll.commits /\ r[i].id = (redis.sequence + 1) - Len(r) + i
      OBVIOUS
    <3>1. i \in Nat /\ redis.sequence \in Nat /\ Len(r) \in Nat /\ Len(q) \in Nat
      BY <1>1, <1>2, <2>3, <2>5
    <3>2. Len(q) - Len(r) + i \in DOMAIN q /\ r[i] = q[Len(q) - Len(r) + i]
      BY <2>5
    <3>3. r[i].commit \in 1..poll.commits /\ r[i].id = redis.sequence - Len(redis.log) + (Len(q) - Len(r) + i)
      BY <2>9, <3>2
    <3>4. Len(redis.log) \in Nat /\ Len(q) = Len(redis.log) + 1
      BY <1>2, <2>3
    <3>5. redis.sequence - Len(redis.log) + (Len(q) - Len(r) + i) = (redis.sequence + 1) - Len(r) + i
      <4>1. PICK a, b, d, j, m \in Int : /\ a = redis.sequence /\ b = Len(redis.log) /\ d = Len(r) /\ j = i
                                         /\ m = Len(q)
        BY <3>1, <3>4
      <4>2. m = b + 1
        BY <3>4, <4>1
      <4>3. a - b + (m - d + j) = (a + 1) - d + j
        BY <4>2
      <4> QED
        BY <4>1, <4>3
    <3> QED
      BY <3>3, <3>5
  <2>11. Last(r) = e
    BY <2>7 DEF Last
  <2>12. Recorded(c).log = r /\ Recorded(c).sequence = redis.sequence + 1
    BY <2>1
  <2>13. redis.sequence \in Nat
    BY <1>1
  <2>14. Recorded(c) \in [log : Seq(Events), sequence : Nat]
    BY <2>1, <2>5, <2>13
  <2>15. /\ Stored(c) \in Events /\ Stored(c).commit = c /\ Stored(c).id \in 1..Recorded(c).sequence
         /\ redis.sequence <= Recorded(c).sequence /\ Stored(c).id = redis.sequence + 1
    BY <2>1, <2>2, <2>12, <2>13
  <2>16. Recorded(c).log # << >> /\ Last(Recorded(c).log) = Stored(c) /\ Len(Recorded(c).log) <= Recorded(c).sequence
    BY <2>1, <2>6, <2>11, <2>12
  <2>17. \A i \in DOMAIN Recorded(c).log :
            /\ Recorded(c).log[i].commit \in 1..poll.commits
            /\ Recorded(c).log[i].id = Recorded(c).sequence - Len(Recorded(c).log) + i
    <3> HIDE <2>16
    <3>1. Recorded(c).log = r /\ Recorded(c).sequence = redis.sequence + 1
      BY <2>12
    <3> QED
      BY <2>10, <3>1, Zenon
  <2> QED
    BY <2>14, <2>15, <2>16, <2>17, Zenon
<1> QED
  BY <1>3, <1>4

\* How an event of the channel reaches the page.
LEMMA Arrivals ==
  ASSUME StreamInv, NEW e \in Events, ReachPage(e)
  PROVE  \/ stream.phase \in {"off", "ended"} /\ UNCHANGED <<stream, page, lost>>
         \/ /\ Subscribed /\ ~access.visible
            /\ ServerEnds /\ page' = page /\ lost' = lost
         \/ /\ Subscribed /\ e.id = NoId
            /\ stream' = [stream EXCEPT !.wire = Append(stream.wire, e)]
            /\ page' = page /\ lost' = lost
         \/ /\ stream.phase = "live" /\ e.id # NoId
            /\ stream' = Deliver(stream, <<e>>)
            /\ page' = page /\ lost' = LostBy(stream, <<e>>)
         \/ /\ stream.phase \in {"reading", "read"} /\ e.id # NoId
            /\ stream' = [stream EXCEPT !.buffered = Newest(Append(stream.buffered, e), MaxPending)]
            /\ page' = page
            /\ lost' = IF Len(stream.buffered) = MaxPending THEN lost \cup {"dropped"} ELSE lost
<1>1. stream.phase \in {"off", "reading", "read", "live", "ended"}
  BY DEF StreamInv, StreamTypes, Streams
<1> QED
  BY <1>1 DEF ReachPage, Subscribed

-----------------------------------------------------------------------------
(* Steps of the stream and of the publications.                            *)

\* What a connection does not change of a page.
SamePage(p) ==
    /\ p.load = page.load /\ p.revision = page.revision /\ p.shown = page.shown
    /\ p.cursor = page.cursor /\ p.timer = page.timer
    /\ p.final = page.final /\ p.finalSeen = page.finalSeen

LEMMA StreamMoves ==
  ASSUME StreamInv, UNCHANGED <<anonymous, poll, access, requests>>,
         publication' \in [Commits -> Publications], redis' \in [log : Seq(Events), sequence : Nat],
         GoesOn, Announced', Numbered',
         stream' \in Streams, page' \in Pages, InMotion(stream', page'), Phases',
         \/ page' = page /\ (stream.phase = "off" => stream'.phase = "off")
         \/ page.connection # "none" /\ SamePage(page')
  PROVE  StreamInv'
<1>1. StreamTypes'
  BY DEF StreamInv, StreamTypes
<1>2. InMotion(stream, page)'
  BY <1>1, MotionGoesOn DEF StreamInv
<1>3. \A i \in DOMAIN requests : Current(requests[i], page) /\ requests[i].kind = "load" => page.connection = "none"
  <2>1. ASSUME NEW i \in DOMAIN requests, Current(requests[i], page), requests[i].kind = "load"
        PROVE  page.connection = "none"
    <3>1. page = Loading(page.load, page.revision)
      BY <2>1 DEF StreamInv, RequestsInOrder
    <3> QED
      BY <3>1 DEF Loading
  <2> QED
    BY <2>1
<1>4. CASE page' = page /\ (stream.phase = "off" => stream'.phase = "off")
  <2>1. RequestsInOrder'
    BY <1>4 DEF StreamInv, RequestsInOrder, Current
  <2>2. Finals'
    BY <1>4 DEF StreamInv, Finals, Valid, Current
  <2> QED
    BY <1>1, <1>2, <2>1, <2>2 DEF StreamInv
<1>5. CASE page.connection # "none" /\ SamePage(page')
  <2>1. RequestsInOrder'
    BY <1>3, <1>5 DEF StreamInv, RequestsInOrder, Current, SamePage
  <2>2. Finals'
    BY <1>5 DEF StreamInv, Finals, Valid, Current, SamePage
  <2> QED
    BY <1>1, <1>2, <2>1, <2>2 DEF StreamInv
<1> QED
  BY <1>4, <1>5

\* When nothing of the server's moves but the stream.
LEMMA StreamAlone ==
  ASSUME StreamInv, UNCHANGED <<anonymous, backend, access, requests>>,
         stream' \in Streams, page' \in Pages, InMotion(stream', page'), Phases',
         \/ page' = page /\ (stream.phase = "off" => stream'.phase = "off")
         \/ page.connection # "none" /\ SamePage(page')
  PROVE  StreamInv'
<1>1. publication' \in [Commits -> Publications] /\ redis' \in [log : Seq(Events), sequence : Nat]
      /\ poll' = poll /\ redis' = redis /\ publication' = publication
  BY DEF StreamInv, StreamTypes, backend
<1>2. GoesOn
  BY <1>1 DEF GoesOn, StreamInv, StreamTypes
<1>3. Announced' /\ Numbered'
  BY <1>1 DEF StreamInv, Announced, Numbered, Sound
<1> QED
  BY <1>1, <1>2, <1>3, StreamMoves

LEMMA EndedStreams ==
  ASSUME StreamInv, EndStream
  PROVE  /\ stream' \in Streams /\ stream' = NoStream /\ page' \in Pages
         /\ InMotion(stream', page') /\ Phases' /\ SamePage(page')
         /\ page'.connection \in {"closed", "reconnecting"}
<1>1. NoEvent \in Events
  BY BoundsAssumption DEF Events
<1>2. NoStream \in Streams /\ NoStream.phase = "off" /\ NoStream.wire = << >> /\ NoStream.replay = << >>
      /\ NoStream.buffered = << >> /\ NoStream.last = NoEvent
  BY <1>1 DEF NoStream, Streams
<1>3. page \in Pages
  BY DEF StreamInv, StreamTypes
<1>4. PICK c \in {"closed", "reconnecting"} : page' = [page EXCEPT !.attempts = page.attempts + 1, !.connection = c]
  BY DEF EndStream, Broken
<1>41. PICK n \in Nat : n = page.attempts + 1
  BY <1>3 DEF Pages
<1>42. page' = [page EXCEPT !.attempts = n, !.connection = c]
  BY <1>4, <1>41
<1>5. page' \in Pages /\ SamePage(page') /\ page'.connection = c
  BY <1>3, <1>42 DEF Pages, SamePage
<1>6. stream' = NoStream
  BY DEF EndStream
<1>7. InMotion(stream', page')
  BY <1>2, <1>5, <1>6 DEF InMotion, Handled, StreamInv, SamePage
<1>8. Phases'
  BY <1>2, <1>4, <1>5, <1>6 DEF Phases
<1> QED
  BY <1>2, <1>4, <1>5, <1>6, <1>7, <1>8

\* What the server has sent is all that remains of a stream it ends.
LEMMA LeftOnTheWire ==
  ASSUME StreamInv, Subscribed, ServerEnds, page' = page
  PROVE  /\ stream' \in Streams /\ stream'.phase = "ended" /\ stream'.wire = stream.wire
         /\ stream'.last = stream.last
         /\ InMotion(stream', page') /\ Phases'
<1>1. stream \in Streams /\ << >> \in Seq(Events)
  BY DEF StreamInv, StreamTypes
<1>2. /\ stream' \in Streams /\ stream'.phase = "ended" /\ stream'.wire = stream.wire
      /\ stream'.last = stream.last /\ stream'.replay = << >> /\ stream'.buffered = << >>
  BY <1>1 DEF ServerEnds, Streams
<1>3. InMotion(stream', page')
  BY <1>2 DEF InMotion, StreamInv
<1>4. Phases'
  BY <1>2 DEF Phases, StreamInv, Subscribed
<1> QED
  BY <1>2, <1>3, <1>4

LEMMA EndingsKeepInv ==
  ASSUME StreamInv, ConnectionDrops \/ StreamEnds \/ LifetimeEnds \/ ReauthorizationFails
  PROVE  StreamInv'
<1>1. CASE ConnectionDrops \/ StreamEnds
  <2>1. EndStream /\ stream.phase # "off" /\ UNCHANGED <<anonymous, backend, access, requests>>
    BY <1>1 DEF ConnectionDrops, StreamEnds
  <2>2. page.connection # "none"
    BY <2>1 DEF StreamInv, Phases
  <2> QED
    BY <2>1, <2>2, EndedStreams, StreamAlone
<1>2. CASE LifetimeEnds \/ ReauthorizationFails
  <2>1. ServerEnds /\ Subscribed /\ page' = page /\ UNCHANGED <<anonymous, backend, access, requests>>
    BY <1>2 DEF LifetimeEnds, ReauthorizationFails, Subscribed
  <2>2. page \in Pages /\ stream.phase # "off"
    BY <2>1 DEF StreamInv, StreamTypes, Subscribed
  <2> QED
    BY <2>1, <2>2, LeftOnTheWire, StreamAlone
<1> QED
  BY <1>1, <1>2

LEMMA ConnectKeepsInv ==
  ASSUME StreamInv, Connect
  PROVE  StreamInv'
<1>1. NoEvent \in Events
  BY BoundsAssumption DEF Events
<1>2. page \in Pages /\ page.cursor \in Events /\ Handled(page.cursor) /\ page.connection \in {"connecting", "reconnecting"}
  BY DEF StreamInv, StreamTypes, InMotion, Connect, Pages
<1>3. stream' \in Streams /\ stream'.phase = "reading" /\ stream'.last = page.cursor /\ stream'.wire = << >>
      /\ stream'.replay = << >> /\ stream'.buffered = << >>
  <2>1. NoStream \in Streams
    BY <1>1 DEF NoStream, Streams
  <2>2. stream' = [NoStream EXCEPT !.phase = "reading", !.newest = TRUE, !.last = page.cursor]
    BY DEF Connect
  <2>3. NoStream.wire = << >> /\ NoStream.replay = << >> /\ NoStream.buffered = << >>
    BY DEF NoStream
  <2> QED
    BY <1>2, <2>1, <2>2, <2>3 DEF Streams
<1>4. page' \in Pages /\ SamePage(page') /\ page'.connection = "connected"
  BY <1>2 DEF Connect, Pages, SamePage
<1>5. InMotion(stream', page')
  BY <1>2, <1>3, <1>4 DEF InMotion, SamePage
<1>6. Phases'
  BY <1>3, <1>4 DEF Phases, SamePage
<1> QED
  BY <1>2, <1>3, <1>4, <1>5, <1>6, StreamAlone DEF Connect

LEMMA NoConnectionKeepsInv ==
  ASSUME StreamInv, ConnectRefused \/ ConnectFails
  PROVE  StreamInv'
<1>1. page \in Pages /\ page.connection \in {"connecting", "reconnecting"}
      /\ stream \in Streams /\ stream.phase = "off" /\ stream = NoStream
  <2>1. page \in Pages /\ page.connection \in {"connecting", "reconnecting"} /\ stream \in Streams
    BY DEF StreamInv, StreamTypes, ConnectRefused, ConnectFails
  <2> QED
    BY <2>1 DEF StreamInv, Phases
<1>2. UNCHANGED <<anonymous, backend, access, requests, stream>>
  BY DEF ConnectRefused, ConnectFails
<1>3. PICK c \in {"closed", "reconnecting"} :
         \/ page' = [page EXCEPT !.connection = c]
         \/ page' = [page EXCEPT !.attempts = page.attempts + 1, !.connection = c]
  BY DEF ConnectRefused, ConnectFails, Broken
<1>31. PICK n \in Nat : n = page.attempts + 1
  BY <1>1 DEF Pages
<1>32. \/ page' = [page EXCEPT !.connection = c]
       \/ page' = [page EXCEPT !.attempts = n, !.connection = c]
  BY <1>3, <1>31
<1>4. page' \in Pages /\ SamePage(page') /\ page'.connection = c
  BY <1>1, <1>32 DEF Pages, SamePage
<1>5. InMotion(stream', page')
  BY <1>2, <1>4 DEF InMotion, StreamInv, SamePage
<1>6. Phases'
  BY <1>1, <1>2, <1>3, <1>4 DEF Phases, NoStream
<1> QED
  BY <1>1, <1>2, <1>4, <1>5, <1>6, StreamAlone

\* What the replay of a cursor holds.
LEMMA Replays ==
  ASSUME StreamInv, NEW cursor \in Events
  PROVE  /\ ReadReplay(cursor) \in Seq(Events)
         /\ \A j \in DOMAIN ReadReplay(cursor) : \E i \in DOMAIN redis.log : ReadReplay(cursor)[j] = redis.log[i]
         /\ ReadReplay(cursor) # << >> => ReadReplay(cursor)[1].id # cursor.id
         /\ ReadReplay(cursor) = << >> => redis.log = << >> \/ Last(redis.log).id = cursor.id
         /\ \A i \in DOMAIN redis.log : redis.log[i].id # NoId
<1> DEFINE r == ReadReplay(cursor)
           found == {i \in DOMAIN redis.log : redis.log[i].id = cursor.id}
<1>1. /\ redis.log \in Seq(Events) /\ redis.sequence \in Nat
      /\ Len(redis.log) <= redis.sequence
      /\ Len(redis.log) \in Nat
      /\ DOMAIN redis.log = 1..Len(redis.log)
      /\ \A i \in DOMAIN redis.log : redis.log[i] \in Events
      /\ \A i \in DOMAIN redis.log : redis.log[i].id = redis.sequence - Len(redis.log) + i
  BY LenProperties, ElementOfSeq DEF StreamInv, StreamTypes, Numbered
<1>2. \A i \in DOMAIN redis.log : redis.log[i].id # 0
  BY <1>1
<1>3. CASE redis.log = << >>
  <2>1. r = << >>
    BY <1>3 DEF ReadReplay
  <2>2. DOMAIN r = {} /\ r \in Seq(Events)
    BY <2>1
  <2> QED
    BY <1>2, <1>3, <2>1, <2>2
<1>4. CASE redis.log # << >> /\ (cursor.id = NoId \/ found = {})
  <2>1. r = <<Last(redis.log)>>
    BY <1>4 DEF ReadReplay
  <2>2. Len(redis.log) \in DOMAIN redis.log /\ Last(redis.log) = redis.log[Len(redis.log)]
    BY <1>1, <1>4, EmptySeq DEF Last
  <2>3. r \in Seq(Events) /\ DOMAIN r = {1} /\ r[1] = redis.log[Len(redis.log)] /\ r # << >>
    BY <1>1, <2>1, <2>2
  <2>4. r[1].id # cursor.id
    BY <1>2, <1>4, <2>2, <2>3
  <2> HIDE DEF r
  <2>5. \A j \in DOMAIN r : \E i \in DOMAIN redis.log : r[j] = redis.log[i]
    BY <2>2, <2>3
  <2> QED
    BY <1>2, <2>3, <2>4, <2>5 DEF r
<1>5. CASE redis.log # << >> /\ cursor.id # NoId /\ found # {}
  <2>1. PICK k \in DOMAIN redis.log : redis.log[k].id = cursor.id
    BY <1>5
  <2>2. found = {k}
    <3>1. \A i \in DOMAIN redis.log : redis.log[i].id = cursor.id => i = k
      BY <1>1, <2>1
    <3> QED
      BY <2>1, <3>1
  <2>3. Min(found) = k
    <3>1. k \in Nat
      BY <1>1
    <3> HIDE DEF found
    <3> QED
      BY <2>2, <3>1 DEF Min
  <2>4. r = SubSeq(redis.log, k + 1, Len(redis.log))
    BY <1>5, <2>3 DEF ReadReplay
  <2> HIDE DEF r, found
  <2>5. k + 1 \in Nat \ {0} /\ Len(redis.log) \in 0..Len(redis.log) /\ k + 1 <= Len(redis.log) + 1
        /\ Len(redis.log) - (k + 1) + 1 = Len(redis.log) - k
    BY <1>1
  <2>6. /\ r \in Seq(Events)
        /\ DOMAIN r = 1..(Len(redis.log) - k)
        /\ Len(r) = Len(redis.log) - k
        /\ \A i \in 1..(Len(redis.log) - k) : r[i] = redis.log[(k + 1) + i - 1]
    BY <1>1, <2>4, <2>5, Slices
  <2>7. \A j \in DOMAIN r : (k + 1) + j - 1 \in DOMAIN redis.log
    BY <1>1, <2>6
  <2>8. r # << >> => r[1].id # cursor.id
    <3> SUFFICES ASSUME r # << >> PROVE r[1].id # cursor.id
      OBVIOUS
    <3>1. Len(r) # 0
      BY <2>6, EmptySeq
    <3>2. 1 \in 1..(Len(redis.log) - k)
      BY <1>1, <2>6, <3>1
    <3>3. r[1] = redis.log[k + 1] /\ k + 1 \in DOMAIN redis.log
      BY <1>1, <2>6, <3>2
    <3> QED
      BY <1>1, <2>1, <3>3
  <2>9. r = << >> => Last(redis.log).id = cursor.id
    <3> SUFFICES ASSUME r = << >> PROVE Last(redis.log).id = cursor.id
      OBVIOUS
    <3>1. Len(redis.log) = k
      BY <1>1, <2>6
    <3> QED
      BY <2>1, <3>1 DEF Last
  <2>10. \A j \in DOMAIN r : \E i \in DOMAIN redis.log : r[j] = redis.log[i]
    BY <2>6, <2>7
  <2> QED
    BY <1>2, <2>6, <2>8, <2>9, <2>10 DEF r
<1> QED
  BY <1>3, <1>4, <1>5

LEMMA StartKeepsInv ==
  ASSUME StreamInv, StartReplay
  PROVE  StreamInv'
<1>1. stream \in Streams /\ stream.last \in Events /\ stream.phase = "reading" /\ page \in Pages
  BY DEF StreamInv, StreamTypes, Streams, StartReplay
<1> DEFINE r == ReadReplay(stream.last)
<1>2. /\ r \in Seq(Events)
      /\ \A j \in DOMAIN r : \E i \in DOMAIN redis.log : r[j] = redis.log[i]
      /\ r # << >> => r[1].id # stream.last.id
      /\ \A i \in DOMAIN redis.log : redis.log[i].id # NoId
  BY <1>1, Replays
<1>3. UNCHANGED <<anonymous, backend, access, requests, page>> /\ stream' = [stream EXCEPT !.phase = "read", !.replay = r]
  BY DEF StartReplay
<1> HIDE DEF r
<1>4. /\ stream' \in Streams
      /\ stream'.phase = "read" /\ stream'.replay = r
      /\ stream'.wire = stream.wire /\ stream'.buffered = stream.buffered /\ stream'.last = stream.last
  BY <1>1, <1>2, <1>3 DEF Streams
<1>5. \A j \in DOMAIN r : Sound(r[j]) /\ r[j].id # NoId
  BY <1>2 DEF StreamInv, Numbered
<1>6. InMotion(stream', page')
  BY <1>3, <1>4, <1>5 DEF StreamInv, InMotion
<1>7. Phases'
  BY <1>1, <1>2, <1>3, <1>4 DEF StreamInv, Phases
<1> QED
  BY <1>1, <1>3, <1>4, <1>6, <1>7, StreamAlone

\* Sound events delivered keep what is in motion sound.
LEMMA DeliveriesMove ==
  ASSUME StreamInv, NEW events \in Seq(Events), \A j \in DOMAIN events : Sound(events[j])
  PROVE  /\ Deliver(stream, events) \in Streams
         /\ InMotion(Deliver(stream, events), page)
         /\ Deliver(stream, events).phase = stream.phase
         /\ Deliver(stream, events).replay = stream.replay
         /\ Deliver(stream, events).buffered = stream.buffered
<1> DEFINE d == Deliver(stream, events)
<1>1. stream \in Streams /\ stream.last \in Events
  BY DEF StreamInv, StreamTypes, Streams
<1>21. d \in Streams
  BY <1>1, Deliveries
<1>22. d.last = IF events = << >> THEN stream.last ELSE events[Len(events)]
  BY <1>1, Deliveries
<1>23. d = [stream EXCEPT !.wire = d.wire, !.last = d.last]
  BY <1>1, Deliveries
<1>2. /\ d = [stream EXCEPT !.wire = d.wire, !.last = d.last]
      /\ d \in Streams
      /\ d.last = IF events = << >> THEN stream.last ELSE events[Len(events)]
  BY <1>21, <1>22, <1>23
<1>3. \A i \in DOMAIN d.wire : \/ \E j \in DOMAIN stream.wire : d.wire[i] = stream.wire[j]
                               \/ \E j \in DOMAIN events : d.wire[i] = events[j]
  <2> SUFFICES ASSUME NEW i \in DOMAIN d.wire
               PROVE  \/ \E j \in DOMAIN stream.wire : d.wire[i] = stream.wire[j]
                      \/ \E j \in DOMAIN events : d.wire[i] = events[j]
    OBVIOUS
  <2> QED
    BY <1>1, DeliveredFrom
<1> HIDE DEF d
<1>4. \A i \in DOMAIN d.wire : Sound(d.wire[i])
  BY <1>3 DEF StreamInv, InMotion
<1>5. events # << >> => Len(events) \in DOMAIN events
  BY LenProperties, EmptySeq
<1>6. Handled(d.last)
  BY <1>2, <1>5 DEF StreamInv, InMotion, Handled, Sound
<1>7. d.phase = stream.phase /\ d.replay = stream.replay /\ d.buffered = stream.buffered
  BY <1>1, <1>2 DEF Streams
<1> QED
  BY <1>2, <1>4, <1>6, <1>7 DEF d, StreamInv, InMotion

LEMMA ReplayedKeepInv ==
  ASSUME StreamInv, FinishReplay \/ ReplayFails
  PROVE  StreamInv'
<1>1. stream \in Streams /\ stream.phase \in {"reading", "read"} /\ page \in Pages
      /\ UNCHANGED <<anonymous, backend, access, requests, page>>
  BY DEF StreamInv, StreamTypes, FinishReplay, ReplayFails
<1>2. stream.replay \in Seq(Events) /\ stream.buffered \in Seq(Events)
      /\ stream.replay \o stream.buffered \in Seq(Events)
  BY <1>1, ConcatProperties DEF Streams
<1>3. \A j \in DOMAIN (stream.replay \o stream.buffered) : Sound((stream.replay \o stream.buffered)[j])
  <2> DEFINE q == stream.replay \o stream.buffered
  <2>1. /\ Len(q) = Len(stream.replay) + Len(stream.buffered)
        /\ \A i \in 1..(Len(stream.replay) + Len(stream.buffered)) :
              q[i] = IF i <= Len(stream.replay) THEN stream.replay[i] ELSE stream.buffered[i - Len(stream.replay)]
    BY <1>2, ConcatProperties
  <2>2. /\ DOMAIN q = 1..Len(q) /\ DOMAIN stream.replay = 1..Len(stream.replay)
        /\ DOMAIN stream.buffered = 1..Len(stream.buffered)
        /\ Len(stream.replay) \in Nat /\ Len(stream.buffered) \in Nat
    BY <1>2, LenProperties
  <2> HIDE DEF q
  <2>3. ASSUME NEW j \in DOMAIN q
        PROVE  \/ j \in DOMAIN stream.replay /\ q[j] = stream.replay[j]
               \/ /\ j - Len(stream.replay) \in DOMAIN stream.buffered
                  /\ q[j] = stream.buffered[j - Len(stream.replay)]
    <3>1. j \in 1..(Len(stream.replay) + Len(stream.buffered))
      BY <2>1, <2>2
    <3>2. q[j] = IF j <= Len(stream.replay) THEN stream.replay[j] ELSE stream.buffered[j - Len(stream.replay)]
      BY <2>1, <3>1
    <3>3. CASE j <= Len(stream.replay)
      BY <2>2, <3>1, <3>2, <3>3
    <3>4. CASE ~(j <= Len(stream.replay))
      <4>1. j - Len(stream.replay) \in 1..Len(stream.buffered)
        <5>1. PICK a, b \in Nat : a = Len(stream.replay) /\ b = Len(stream.buffered)
          BY <2>2
        <5>2. j \in 1..(a + b) /\ ~(j <= a)
          BY <3>1, <3>4, <5>1
        <5>3. j - a \in 1..b
          BY <5>2
        <5> QED
          BY <5>1, <5>3
      <4> QED
        BY <2>2, <3>2, <3>4, <4>1
    <3> QED
      BY <3>3, <3>4
  <2>4. \A j \in DOMAIN q : Sound(q[j])
    BY <2>3 DEF StreamInv, InMotion
  <2> QED
    BY <2>4 DEF q
<1>4. PICK events \in Seq(Events) :
        /\ \A j \in DOMAIN events : Sound(events[j])
        /\ stream' = [Deliver(stream, events) EXCEPT !.phase = "live", !.replay = << >>, !.buffered = << >>]
  BY <1>2, <1>3 DEF FinishReplay, ReplayFails, StreamInv, InMotion
<1>5. PICK d : d = Deliver(stream, events)
  OBVIOUS
<1>6. d \in Streams /\ InMotion(d, page)
  BY <1>4, <1>5, DeliveriesMove
<1>7. stream' = [d EXCEPT !.phase = "live", !.replay = << >>, !.buffered = << >>] /\ << >> \in Seq(Events)
  BY <1>4, <1>5
<1>8. /\ stream' \in Streams
      /\ stream'.phase = "live" /\ stream'.replay = << >> /\ stream'.buffered = << >>
      /\ stream'.wire = d.wire /\ stream'.last = d.last
  BY <1>6, <1>7 DEF Streams
<1>9. InMotion(stream', page')
  BY <1>1, <1>6, <1>8 DEF InMotion
<1>10. Phases'
  BY <1>1, <1>8 DEF StreamInv, Phases
<1> QED
  BY <1>1, <1>8, <1>9, <1>10, StreamAlone

\* A list with one more member.
LEMMA Appended ==
  ASSUME NEW S, NEW q \in Seq(S), NEW e \in S
  PROVE  /\ Append(q, e) \in Seq(S) /\ Append(q, e) # << >> /\ Len(Append(q, e)) = Len(q) + 1
         /\ DOMAIN Append(q, e) = 1..(Len(q) + 1) /\ Len(q) \in Nat /\ DOMAIN q = 1..Len(q)
         /\ \A i \in 1..Len(q) : Append(q, e)[i] = q[i]
         /\ Append(q, e)[Len(q) + 1] = e
         /\ \A i \in DOMAIN Append(q, e) : Append(q, e)[i] = e \/ (i \in DOMAIN q /\ Append(q, e)[i] = q[i])
<1> DEFINE w == Append(q, e)
<1>1. Len(q) \in Nat /\ DOMAIN q = 1..Len(q)
  BY LenProperties
<1>2. /\ w \in Seq(S) /\ w # << >> /\ Len(w) = Len(q) + 1
      /\ \A i \in 1..Len(q) : w[i] = q[i]
      /\ w[Len(q) + 1] = e
  BY AppendProperties
<1> HIDE DEF w
<1>3. DOMAIN w = 1..(Len(q) + 1)
  BY <1>2, LenProperties
<1>4. \A i \in DOMAIN w : i \in 1..Len(q) \/ i = Len(q) + 1
  BY <1>1, <1>3
<1>5. \A i \in DOMAIN w : w[i] = e \/ (i \in DOMAIN q /\ w[i] = q[i])
  BY <1>1, <1>2, <1>4
<1> QED
  BY <1>1, <1>2, <1>3, <1>5 DEF w

LEMMA ArrivalsMove ==
  ASSUME StreamInv, NEW e \in Events, Sound(e), ReachPage(e)
  PROVE  /\ stream' \in Streams /\ page' \in Pages /\ InMotion(stream', page') /\ Phases'
         /\ \/ page' = page /\ (stream.phase = "off" => stream'.phase = "off")
            \/ page.connection # "none" /\ SamePage(page')
<1>1. stream \in Streams /\ page \in Pages /\ stream.wire \in Seq(Events) /\ stream.buffered \in Seq(Events)
  BY DEF StreamInv, StreamTypes, Streams
<1>2. CASE stream.phase \in {"off", "ended"} /\ UNCHANGED <<stream, page, lost>>
  BY <1>1, <1>2 DEF StreamInv, Phases, InMotion
<1>3. CASE Subscribed /\ ServerEnds /\ page' = page
  <2>1. stream.phase # "off"
    BY <1>3 DEF Subscribed
  <2> QED
    BY <1>1, <1>3, <2>1, LeftOnTheWire
<1>4. CASE /\ Subscribed /\ e.id = NoId
           /\ stream' = [stream EXCEPT !.wire = Append(stream.wire, e)] /\ page' = page
  <2> DEFINE w == Append(stream.wire, e)
  <2>1. w \in Seq(Events) /\ \A i \in DOMAIN w : w[i] = e \/ (i \in DOMAIN stream.wire /\ w[i] = stream.wire[i])
    BY <1>1, Appended
  <2> HIDE DEF w
  <2>2. stream' = [stream EXCEPT !.wire = w]
    BY <1>4 DEF w
  <2>3. /\ stream' \in Streams /\ stream'.wire = w /\ stream'.phase = stream.phase /\ stream'.replay = stream.replay
        /\ stream'.buffered = stream.buffered /\ stream'.last = stream.last
    BY <1>1, <2>1, <2>2 DEF Streams
  <2>4. \A i \in DOMAIN w : Sound(w[i])
    BY <2>1 DEF StreamInv, InMotion
  <2>5. InMotion(stream', page')
    BY <1>4, <2>3, <2>4 DEF StreamInv, InMotion
  <2>6. Phases'
    BY <1>4, <2>1, <2>3 DEF StreamInv, Phases, Subscribed
  <2> QED
    BY <1>1, <1>4, <2>3, <2>5, <2>6
<1>5. CASE stream.phase = "live" /\ stream' = Deliver(stream, <<e>>) /\ page' = page
  <2>1. <<e>> \in Seq(Events) /\ \A j \in DOMAIN <<e>> : Sound(<<e>>[j])
    OBVIOUS
  <2>2. PICK events \in Seq(Events) : events = <<e>> /\ \A j \in DOMAIN events : Sound(events[j])
    BY <2>1
  <2>3. stream' = Deliver(stream, events)
    BY <1>5, <2>2
  <2>4. /\ stream' \in Streams
        /\ InMotion(stream', page)
        /\ stream'.phase = stream.phase
        /\ stream'.replay = stream.replay
        /\ stream'.buffered = stream.buffered
    BY <2>2, <2>3, DeliveriesMove
  <2>5. Phases'
    BY <1>5, <2>4 DEF StreamInv, Phases
  <2> QED
    BY <1>1, <1>5, <2>4, <2>5
<1>6. CASE /\ stream.phase \in {"reading", "read"} /\ e.id # NoId
           /\ stream' = [stream EXCEPT !.buffered = Newest(Append(stream.buffered, e), MaxPending)] /\ page' = page
  <2> DEFINE w == Append(stream.buffered, e)
             n == Newest(w, MaxPending)
  <2>1. w \in Seq(Events) /\ \A i \in DOMAIN w : w[i] = e \/ (i \in DOMAIN stream.buffered /\ w[i] = stream.buffered[i])
    BY <1>1, Appended
  <2>2. stream' = [stream EXCEPT !.buffered = n]
    BY <1>6
  <2> HIDE DEF w
  <2>3. MaxPending \in Nat \ {0}
    BY BoundsAssumption
  <2>4. n \in Seq(Events) /\ \A i \in DOMAIN n : Len(w) - Len(n) + i \in DOMAIN w /\ n[i] = w[Len(w) - Len(n) + i]
    BY <2>1, <2>3, NewestOf
  <2>41. Len(n) = IF Len(w) > MaxPending THEN MaxPending ELSE Len(w)
    BY <2>1, <2>3, NewestOf
  <2>42. Len(w) \in Nat /\ Len(n) <= MaxPending
    BY <2>1, <2>3, <2>41, LenProperties
  <2> HIDE DEF n
  <2>5. /\ stream' \in Streams /\ stream'.wire = stream.wire /\ stream'.phase = stream.phase
        /\ stream'.replay = stream.replay /\ stream'.buffered = n /\ stream'.last = stream.last
    BY <1>1, <2>2, <2>4 DEF Streams
  <2>6. \A i \in DOMAIN w : Sound(w[i]) /\ w[i].id # NoId
    BY <1>6, <2>1 DEF StreamInv, InMotion
  <2>7. \A i \in DOMAIN n : Sound(n[i]) /\ n[i].id # NoId
    BY <2>4, <2>6
  <2>8. InMotion(stream', page')
    BY <1>6, <2>5, <2>7 DEF StreamInv, InMotion
  <2>9. Phases'
    BY <1>6, <2>5, <2>42 DEF StreamInv, Phases
  <2> QED
    BY <1>1, <1>6, <2>5, <2>8, <2>9
<1> QED
  BY <1>2, <1>3, <1>4, <1>5, <1>6, Arrivals

\* One publication goes on; it may have been recorded.
LEMMA PublicationsMove ==
  ASSUME StreamInv, NEW c \in Commits, publication[c].pc \notin {"none", "done"},
         NEW p \in Publications, p.pc # "none",
         publication' = [publication EXCEPT ![c] = p], poll' = poll,
         redis' = redis \/ (publication[c].pc = "record" /\ redis' = Recorded(c)),
         p.pc = "publish" => p.event.commit = c /\ p.event.id \in 1..redis'.sequence
  PROVE  /\ publication' \in [Commits -> Publications] /\ redis' \in [log : Seq(Events), sequence : Nat]
         /\ GoesOn /\ Announced' /\ Numbered'
<1>1. publication \in [Commits -> Publications] /\ redis \in [log : Seq(Events), sequence : Nat]
      /\ poll.commits \in Nat
  BY BoundsAssumption DEF StreamInv, StreamTypes
<1>2. publication' \in [Commits -> Publications] /\ publication'[c] = p
      /\ \A d \in Commits : d # c => publication'[d] = publication[d]
  BY <1>1
<1>3. c <= poll.commits /\ c \in 1..poll.commits
  BY <1>1 DEF StreamInv, Announced, Commits
<1>4. CASE redis' = redis
  <2>1. GoesOn
    BY <1>1, <1>2, <1>4 DEF GoesOn
  <2>2. Announced'
    BY <1>2, <1>3, <1>4 DEF StreamInv, Announced
  <2>3. Numbered'
    BY <1>4 DEF StreamInv, Numbered, Sound
  <2> QED
    BY <1>1, <1>2, <1>4, <2>1, <2>2, <2>3
<1>5. CASE publication[c].pc = "record" /\ redis' = Recorded(c)
  <2>1. /\ redis' \in [log : Seq(Events), sequence : Nat]
        /\ redis.sequence <= redis'.sequence
        /\ redis'.log # << >>
        /\ Len(redis'.log) <= redis'.sequence
        /\ \A i \in DOMAIN redis'.log :
              /\ redis'.log[i].commit \in 1..poll.commits
              /\ redis'.log[i].id = redis'.sequence - Len(redis'.log) + i
    BY <1>5, Recordings
  <2>2. GoesOn
    BY <1>1, <1>2, <2>1 DEF GoesOn
  <2>3. Announced'
    <3>1. \A d \in Commits : d # c => (publication[d].pc = "publish" => publication[d].event.id \in 1..redis'.sequence)
      BY <1>1, <2>1 DEF StreamInv, Announced
    <3> QED
      BY <1>2, <1>3, <3>1 DEF StreamInv, Announced
  <2>4. Numbered'
    <3>1. \A i \in DOMAIN redis'.log : redis'.log[i].id <= redis'.sequence
      <4>1. redis'.log \in Seq(Events) /\ redis'.sequence \in Nat
        BY <2>1
      <4>2. DOMAIN redis'.log = 1..Len(redis'.log) /\ Len(redis'.log) \in Nat
        BY <4>1, LenProperties
      <4> QED
        BY <2>1, <4>1, <4>2
    <3> QED
      BY <2>1, <3>1 DEF Numbered, Sound
  <2> QED
    BY <1>2, <2>1, <2>2, <2>3, <2>4
<1> QED
  BY <1>4, <1>5

\* What a publication becomes.
LEMMA NextPublications ==
  ASSUME StreamInv, NEW c \in Commits
  PROVE  /\ \A pc \in {"record", "done"} :
              /\ [publication EXCEPT ![c].pc = pc] =
                    [publication EXCEPT ![c] = [publication[c] EXCEPT !.pc = pc]]
              /\ [publication[c] EXCEPT !.pc = pc] \in Publications
              /\ [publication[c] EXCEPT !.pc = pc].pc = pc
         /\ [publication EXCEPT ![c].tries = publication[c].tries + 1] =
               [publication EXCEPT ![c] = [publication[c] EXCEPT !.tries = publication[c].tries + 1]]
         /\ [publication[c] EXCEPT !.tries = publication[c].tries + 1] \in Publications
         /\ [publication[c] EXCEPT !.tries = publication[c].tries + 1].pc = publication[c].pc
         /\ [publication[c] EXCEPT !.tries = publication[c].tries + 1].event = publication[c].event
<1>1. publication \in [Commits -> Publications] /\ publication[c] \in Publications
  BY DEF StreamInv, StreamTypes
<1> QED
  BY <1>1 DEF Publications

LEMMA RecordsKeepInv ==
  ASSUME StreamInv, NEW c \in Commits, Record(c)
  PROVE  StreamInv'
<1>1. publication \in [Commits -> Publications] /\ publication[c] \in Publications /\ publication[c].pc = "record"
      /\ stream \in Streams /\ page \in Pages
  BY DEF StreamInv, StreamTypes, Record
<1>2. PICK e \in Events : e = Stored(c) /\ e.commit = c /\ e.id \in 1..redis'.sequence
  BY <1>1, Recordings DEF Record
<1>3. publication' = [publication EXCEPT ![c].pc = "publish", ![c].tries = 1, ![c].event = e]
  BY <1>2 DEF Record
<1>4. PICK p \in Publications : p.pc = "publish" /\ p.event = e /\ publication' = [publication EXCEPT ![c] = p]
  <2>1. publication' = [publication EXCEPT ![c] = publication'[c]]
    BY <1>1, <1>3
  <2>2. publication'[c] = [publication[c] EXCEPT !.pc = "publish", !.tries = 1, !.event = e]
    BY <1>1, <1>3
  <2>3. publication'[c] \in Publications /\ publication'[c].pc = "publish" /\ publication'[c].event = e
    <3>1. PICK q \in Publications : q = publication[c]
      BY <1>1
    <3>2. PICK p : p = [q EXCEPT !.pc = "publish", !.tries = 1, !.event = e]
      OBVIOUS
    <3>3. p \in Publications /\ p.pc = "publish" /\ p.event = e
      BY <1>2, <3>2 DEF Publications
    <3> QED
      BY <2>2, <3>1, <3>2, <3>3
  <2> QED
    BY <2>1, <2>3
<1>5. publication' \in [Commits -> Publications] /\ redis' \in [log : Seq(Events), sequence : Nat]
      /\ GoesOn /\ Announced' /\ Numbered'
  BY <1>1, <1>2, <1>4, PublicationsMove DEF Record
<1>6. /\ stream' \in Streams /\ stream'.wire = stream.wire /\ stream'.phase = stream.phase
      /\ stream'.replay = stream.replay /\ stream'.buffered = stream.buffered /\ stream'.last = stream.last
      /\ page' = page
  BY <1>1 DEF Record, Streams
<1>7. stream.phase = "off" => stream' = stream
  <2> SUFFICES ASSUME stream.phase = "off" PROVE stream' = stream
    OBVIOUS
  <2>1. stream = NoStream
    BY DEF StreamInv, Phases
  <2>2. stream.newest = FALSE /\ stream' = [stream EXCEPT !.newest = FALSE]
    BY <2>1 DEF Record, NoStream
  <2> QED
    BY <1>1, <2>2 DEF Streams
<1>8. InMotion(stream', page')
  BY <1>6 DEF StreamInv, InMotion
<1>9. Phases'
  BY <1>6, <1>7 DEF StreamInv, Phases
<1>10. UNCHANGED <<anonymous, poll, access, requests>>
  BY DEF Record
<1> QED
  BY <1>1, <1>5, <1>6, <1>8, <1>9, <1>10, StreamMoves

LEMMA FailedPublicationsKeepInv ==
  ASSUME StreamInv, NEW c \in Commits,
         PublicationDies(c) \/ ShouldPublishUpdate(c) \/ RecordFails(c) \/ Publish(c) \/ PublishFails(c)
  PROVE  StreamInv'
<1>1. /\ publication \in [Commits -> Publications] /\ publication[c] \in Publications
      /\ stream \in Streams /\ page \in Pages
      /\ publication[c].pc \notin {"none", "done"}
      /\ UNCHANGED <<anonymous, poll, access, requests>>
  BY DEF StreamInv, StreamTypes, PublicationDies, ShouldPublishUpdate, RecordFails, Publish, PublishFails
<1>2. PICK p \in Publications :
        /\ publication' = [publication EXCEPT ![c] = p]
        /\ p.pc # "none"
        /\ p.pc = "publish" => publication[c].pc = "publish" /\ p.event = publication[c].event
  <2>1. \/ \E pc \in {"record", "done"} : publication' = [publication EXCEPT ![c].pc = pc]
        \/ publication' = [publication EXCEPT ![c].tries = publication[c].tries + 1]
    BY DEF PublicationDies, ShouldPublishUpdate, RecordFails, Publish, PublishFails
  <2>2. CASE \E pc \in {"record", "done"} : publication' = [publication EXCEPT ![c].pc = pc]
    <3>1. PICK pc \in {"record", "done"} : publication' = [publication EXCEPT ![c].pc = pc]
      BY <2>2
    <3>2. PICK p \in Publications : p.pc = pc /\ publication' = [publication EXCEPT ![c] = p]
      BY <3>1, NextPublications
    <3> QED
      BY <3>1, <3>2
  <2>3. CASE publication' = [publication EXCEPT ![c].tries = publication[c].tries + 1]
    <3>1. PICK p \in Publications : /\ p.pc = publication[c].pc /\ p.event = publication[c].event
                                    /\ publication' = [publication EXCEPT ![c] = p]
      BY <2>3, NextPublications
    <3> QED
      BY <1>1, <3>1
  <2> QED
    BY <2>1, <2>2, <2>3
<1>3. redis' = redis \/ (publication[c].pc = "record" /\ redis' = Recorded(c))
  BY DEF PublicationDies, ShouldPublishUpdate, RecordFails, Publish, PublishFails
<1>4. redis.sequence \in Nat /\ redis'.sequence \in Nat /\ redis.sequence <= redis'.sequence
  <2>1. redis.sequence \in Nat
    BY DEF StreamInv, StreamTypes
  <2>2. CASE redis' = redis
    BY <2>1, <2>2
  <2>3. CASE publication[c].pc = "record" /\ redis' = Recorded(c)
    BY <2>1, <2>3, Recordings
  <2> QED
    BY <1>3, <2>2, <2>3
<1>5. p.pc = "publish" => p.event.commit = c /\ p.event.id \in 1..redis'.sequence
  BY <1>2, <1>4 DEF StreamInv, Announced
<1>6. publication' \in [Commits -> Publications] /\ redis' \in [log : Seq(Events), sequence : Nat]
      /\ GoesOn /\ Announced' /\ Numbered'
  BY <1>1, <1>2, <1>3, <1>5, PublicationsMove
<1>7. \/ UNCHANGED <<stream, page>>
      \/ \E e \in Events : Sound(e) /\ ReachPage(e)
  <2>1. CASE PublicationDies(c) \/ ShouldPublishUpdate(c)
    BY <2>1 DEF PublicationDies, ShouldPublishUpdate
  <2>2. CASE RecordFails(c)
    <3> DEFINE e == [id |-> NoId, commit |-> c, final |-> publication[c].final]
    <3>1. c \in 1..poll.commits /\ c \in 0..MaxCommits
      BY <1>1, BoundsAssumption DEF StreamInv, StreamTypes, Announced, Commits
    <3>2. e \in Events
      BY <1>1, <3>1 DEF Events, Publications
    <3>3. Sound(e)
      BY <1>4, <3>1 DEF Sound
    <3>4. ReachPage(e) \/ UNCHANGED <<stream, page>>
      BY <2>2 DEF RecordFails, Miss
    <3> QED
      BY <3>2, <3>3, <3>4
  <2>3. CASE Publish(c) \/ PublishFails(c)
    <3>1. publication[c].pc = "publish" /\ (ReachPage(publication[c].event) \/ UNCHANGED <<stream, page>>)
      BY <2>3 DEF Publish, PublishFails, MissedByPage, Miss
    <3>2. publication[c].event \in Events
      BY <1>1 DEF Publications
    <3>3. Sound(publication[c].event)
      BY <1>1, <1>4, <3>1 DEF StreamInv, StreamTypes, Announced, Sound, Commits
    <3> QED
      BY <3>1, <3>2, <3>3
  <2> QED
    BY <2>1, <2>2, <2>3
<1>8. CASE UNCHANGED <<stream, page>>
  <2>1. InMotion(stream', page') /\ Phases'
    BY <1>8 DEF StreamInv, InMotion, Phases
  <2> QED
    BY <1>1, <1>6, <1>8, <2>1, StreamMoves
<1>9. CASE \E e \in Events : Sound(e) /\ ReachPage(e)
  <2>1. PICK e \in Events : Sound(e) /\ ReachPage(e)
    BY <1>9
  <2> QED
    BY <1>1, <1>6, <2>1, ArrivalsMove, StreamMoves
<1> QED
  BY <1>7, <1>8, <1>9

\* When the keys expire nothing is on its way, and every number handed out is of a
\* publication that is over.
LEMMA ExpiryKeepsInv ==
  ASSUME StreamInv, ReplayExpires
  PROVE  StreamInv'
<1>1. /\ UNCHANGED <<anonymous, poll, access, publication, stream, page, requests>>
      /\ redis' = [log |-> << >>, sequence |-> 0] /\ NothingUnderWay
  BY DEF ReplayExpires
<1>2. StreamTypes'
  <2>1. redis' \in [log : Seq(Events), sequence : Nat]
    BY <1>1
  <2> QED
    BY <1>1, <2>1 DEF StreamInv, StreamTypes
<1>3. Announced'
  BY <1>1 DEF StreamInv, Announced, NothingUnderWay
<1>4. Numbered'
  BY <1>1 DEF Numbered
<1>5. stream.wire = << >> /\ stream.replay = << >> /\ stream.buffered = << >>
  BY <1>1 DEF StreamInv, Phases, NothingUnderWay, NoStream
<1>6. \A e \in Events : Handled(e) => Handled(e)'
  <2> SUFFICES ASSUME NEW e \in Events, Handled(e), e # NoEvent PROVE Handled(e)'
    BY DEF Handled
  <2>1. e.commit \in 1..poll.commits /\ e.commit \in Commits
    BY BoundsAssumption DEF Handled, Commits, StreamInv, StreamTypes
  <2>2. publication[e.commit].pc = "done"
    BY <1>1, <2>1, BoundsAssumption DEF NothingUnderWay, StreamInv, Announced, StreamTypes
  <2> QED
    BY <1>1, <2>1, <2>2 DEF Handled
<1>7. stream.last \in Events /\ page.cursor \in Events
  BY DEF StreamInv, StreamTypes, Streams, Pages
<1>8. InMotion(stream, page)'
  BY <1>1, <1>5, <1>6, <1>7 DEF StreamInv, InMotion
<1>9. Phases' /\ RequestsInOrder' /\ Finals'
  BY <1>1 DEF StreamInv, Phases, RequestsInOrder, Finals, Current, Valid
<1> QED
  BY <1>2, <1>3, <1>4, <1>8, <1>9 DEF StreamInv

-----------------------------------------------------------------------------
(* Steps of the page.                                                      *)

\* What a step of the page leaves alone.
LEMMA PageMoves ==
  ASSUME StreamInv, UNCHANGED <<anonymous, backend, access>>,
         stream' \in Streams, page' \in Pages, requests' \in Seq(Requests),
         InMotion(stream', page'), Phases', RequestsInOrder', Finals'
  PROVE  StreamInv'
<1>1. StreamTypes'
  BY DEF StreamInv, StreamTypes, backend
<1>2. GoesOn
  BY <1>1 DEF GoesOn, StreamInv, StreamTypes, backend
<1>3. InMotion(stream, page)'
  BY <1>1, <1>2, MotionGoesOn DEF StreamInv
<1>4. Announced' /\ Numbered'
  BY DEF StreamInv, Announced, Numbered, Sound, backend
<1> QED
  BY <1>1, <1>3, <1>4 DEF StreamInv

LEMMA RequestTypes ==
  ASSUME StreamInv
  PROVE  /\ page \in Pages /\ poll.commits \in Nat /\ page.shown \in Nat /\ page.finalSeen \in Nat
         /\ page.load \in Nat /\ page.revision \in Nat
         /\ requests \in Seq(Requests)
         /\ \A i \in DOMAIN requests :
               /\ requests[i] \in Requests
               /\ requests[i].since \in Nat /\ requests[i].load \in Nat /\ requests[i].revision \in Nat
               /\ requests[i].kind \in {"load", "refresh", "final"}
<1>1. page \in Pages /\ requests \in Seq(Requests) /\ poll.commits \in Nat
  BY BoundsAssumption DEF StreamInv, StreamTypes
<1>2. \A i \in DOMAIN requests : requests[i] \in Requests
  BY <1>1, ElementOfSeq, LenProperties
<1>3. \A r \in Requests : r.since \in Nat /\ r.load \in Nat /\ r.revision \in Nat /\ r.kind \in {"load", "refresh", "final"}
  BY DEF Requests
<1>4. page.shown \in Nat /\ page.finalSeen \in Nat /\ page.load \in Nat /\ page.revision \in Nat
  BY <1>1 DEF Pages
<1> QED
  BY <1>1, <1>2, <1>3, <1>4

\* An answered request of the load shown was its load, or came after it.
LEMMA AnsweredAlone ==
  ASSUME StreamInv, NEW i \in DOMAIN requests, Current(requests[i], page)
  PROVE  /\ \A k \in DOMAIN requests : k # i /\ Current(requests[k], page) => requests[k].kind # "load"
         /\ requests[i].kind = "load" => \A k \in DOMAIN requests : k # i => ~Current(requests[k], page)
BY DEF StreamInv, RequestsInOrder

\* A request that is answered, dropped or fails.
LEMMA Removals ==
  ASSUME StreamInv, NEW i \in DOMAIN requests, requests' = Remaining(i), poll' = poll,
         page' \in Pages,
         page'.load = page.load, page'.revision = page.revision, page'.finalSeen = page.finalSeen,
         page'.shown <= poll.commits,
         Current(requests[i], page) \/ UNCHANGED <<page, stream>>,
         page'.finalSeen = 0 => page'.final = "idle",
         page'.final = "complete" => page'.connection = "none" /\ page'.shown >= page'.finalSeen
  PROVE  requests' \in Seq(Requests) /\ RequestsInOrder' /\ Finals'
<1>1. /\ poll.commits \in Nat /\ page.finalSeen \in Nat /\ requests \in Seq(Requests)
      /\ page.finalSeen <= poll.commits
  BY RequestTypes DEF StreamInv, RequestsInOrder
<1>2. /\ requests' \in Seq(Requests)
      /\ \A j \in DOMAIN requests' :
            \E k \in DOMAIN requests : k # i /\ requests'[j] = requests[k] /\ k = IF j < i THEN j ELSE j + 1
  BY <1>1, RemovedFrom DEF Remaining
<1>3. \A r : Current(r, page') <=> Current(r, page)
  BY DEF Current
<1>4. \A r : Valid(r, page') <=> Valid(r, page)
  BY DEF Valid, Current
<1>5. ASSUME NEW j \in DOMAIN requests'
      PROVE  /\ requests'[j].load <= page'.load /\ requests'[j].since <= poll'.commits
             /\ Current(requests'[j], page') => requests'[j].revision <= page'.revision
             /\ Current(requests'[j], page') /\ requests'[j].kind = "load" =>
                   /\ page' = Loading(page'.load, page'.revision) /\ stream'.phase = "off"
                   /\ \A m \in DOMAIN requests' : Current(requests'[m], page') => m = j
  <2>1. PICK k \in DOMAIN requests : k # i /\ requests'[j] = requests[k] /\ k = IF j < i THEN j ELSE j + 1
    BY <1>2
  <2>2. /\ requests'[j].load <= page'.load /\ requests'[j].since <= poll'.commits
        /\ Current(requests'[j], page') => requests'[j].revision <= page'.revision
    BY <1>3, <2>1 DEF StreamInv, RequestsInOrder
  <2>3. ASSUME Current(requests'[j], page'), requests'[j].kind = "load"
        PROVE  /\ page' = Loading(page'.load, page'.revision) /\ stream'.phase = "off"
               /\ \A m \in DOMAIN requests' : Current(requests'[m], page') => m = j
    <3>1. Current(requests[k], page) /\ requests[k].kind = "load"
      BY <1>3, <2>1, <2>3
    <3>2. UNCHANGED <<page, stream>>
      BY <2>1, <3>1, AnsweredAlone
    <3>3. page = Loading(page.load, page.revision) /\ stream.phase = "off"
          /\ \A m \in DOMAIN requests : Current(requests[m], page) => m = k
      BY <3>1 DEF StreamInv, RequestsInOrder
    <3>4. ASSUME NEW m \in DOMAIN requests', Current(requests'[m], page') PROVE m = j
      <4>1. PICK n \in DOMAIN requests : n # i /\ requests'[m] = requests[n] /\ n = IF m < i THEN m ELSE m + 1
        BY <1>2
      <4>2. n = k
        BY <1>3, <3>3, <3>4, <4>1
      <4>3. m \in Nat /\ j \in Nat /\ i \in Nat
        BY <1>1, <1>2, LenProperties
      <4> QED
        BY <2>1, <4>1, <4>2, <4>3
    <3> QED
      BY <3>2, <3>3, <3>4
  <2> QED
    BY <2>2, <2>3
<1>6. RequestsInOrder'
  BY <1>1, <1>5 DEF RequestsInOrder
<1>7. Finals'
  <2>1. \A j \in DOMAIN requests' : Valid(requests'[j], page') /\ requests'[j].kind # "load" => requests'[j].since >= page'.finalSeen
    BY <1>2, <1>4 DEF StreamInv, Finals
  <2>2. page'.finalSeen = 0 => \A j \in DOMAIN requests' : Current(requests'[j], page') => requests'[j].kind # "final"
    BY <1>2, <1>3 DEF StreamInv, Finals
  <2> QED
    BY <2>1, <2>2 DEF Finals
<1> QED
  BY <1>2, <1>6, <1>7

\* A request that is sent by a page that shows its results.
LEMMA Sendings ==
  ASSUME StreamInv, NEW r \in Requests, requests' = Append(requests, r), poll' = poll,
         page' \in Pages,
         page'.load = page.load, page.revision <= page'.revision, page'.shown = page.shown,
         r.kind # "load", r.load = page.load, r.revision = page'.revision, r.since = poll.commits,
         \A i \in DOMAIN requests : Current(requests[i], page) => requests[i].kind # "load",
         page'.finalSeen <= poll.commits,
         page'.finalSeen = page.finalSeen \/ (page.finalSeen = 0 /\ page.revision < page'.revision),
         page'.finalSeen = 0 => page'.final = "idle" /\ r.kind # "final",
         page'.final = "complete" => /\ page.final = "complete" /\ page'.finalSeen = page.finalSeen
                                     /\ page'.connection = page.connection
  PROVE  requests' \in Seq(Requests) /\ RequestsInOrder' /\ Finals'
<1>1. /\ poll.commits \in Nat /\ page.finalSeen \in Nat /\ requests \in Seq(Requests)
      /\ page.finalSeen <= poll.commits /\ page.shown <= poll.commits
      /\ page.load \in Nat /\ page.revision \in Nat /\ page'.revision \in Nat /\ page'.finalSeen \in Nat
  BY RequestTypes DEF StreamInv, RequestsInOrder, Pages
<1>2. /\ requests' \in Seq(Requests)
      /\ \A i \in DOMAIN requests' : requests'[i] = r \/ (i \in DOMAIN requests /\ requests'[i] = requests[i])
  BY <1>1, Appended
<1>3. \A q : Current(q, page') <=> Current(q, page)
  BY DEF Current
<1>4. \A i \in DOMAIN requests' :
        /\ requests'[i].load <= page'.load /\ requests'[i].since <= poll'.commits
        /\ Current(requests'[i], page') => requests'[i].revision <= page'.revision
        /\ Current(requests'[i], page') => requests'[i].kind # "load"
  <2> SUFFICES ASSUME NEW i \in DOMAIN requests'
               PROVE  /\ requests'[i].load <= page'.load /\ requests'[i].since <= poll'.commits
                      /\ Current(requests'[i], page') => requests'[i].revision <= page'.revision
                      /\ Current(requests'[i], page') => requests'[i].kind # "load"
    OBVIOUS
  <2>1. CASE requests'[i] = r
    BY <1>1, <2>1
  <2>2. CASE i \in DOMAIN requests /\ requests'[i] = requests[i]
    <3>1. requests[i].revision \in Nat
      BY <2>2, RequestTypes
    <3> QED
      BY <1>1, <1>3, <2>2, <3>1 DEF StreamInv, RequestsInOrder
  <2> QED
    BY <1>2, <2>1, <2>2
<1>5. RequestsInOrder'
  BY <1>1, <1>4 DEF RequestsInOrder
<1>6. \A i \in DOMAIN requests' : Valid(requests'[i], page') /\ requests'[i].kind # "load" => requests'[i].since >= page'.finalSeen
  <2> SUFFICES ASSUME NEW i \in DOMAIN requests', Valid(requests'[i], page'), requests'[i].kind # "load"
               PROVE  requests'[i].since >= page'.finalSeen
    OBVIOUS
  <2>1. CASE requests'[i] = r
    BY <1>1, <2>1
  <2>2. CASE i \in DOMAIN requests /\ requests'[i] = requests[i]
    <3>1. Current(requests[i], page) /\ requests[i].revision \in Nat /\ requests[i].since \in Nat
          /\ requests[i].revision <= page.revision /\ requests[i].kind \in {"refresh", "final"}
          /\ (requests[i].kind = "refresh" => requests[i].revision = page'.revision)
      BY <1>3, <2>2, RequestTypes DEF Valid, StreamInv, RequestsInOrder
    <3>2. CASE page'.finalSeen = page.finalSeen /\ page'.revision = page.revision
      BY <2>2, <3>1, <3>2 DEF Valid, StreamInv, Finals
    <3>3. CASE page'.finalSeen = page.finalSeen /\ page'.revision # page.revision
      <4>1. requests[i].kind # "refresh"
        BY <1>1, <3>1, <3>3
      <4> QED
        BY <2>2, <3>1, <3>3, <4>1 DEF Valid, StreamInv, Finals
    <3>4. CASE page.finalSeen = 0 /\ page.revision < page'.revision
      <4>1. requests[i].kind # "refresh"
        BY <1>1, <3>1, <3>4
      <4>2. requests[i].kind # "final"
        BY <2>2, <3>1, <3>4 DEF StreamInv, Finals
      <4> QED
        BY <3>1, <4>1, <4>2
    <3> QED
      BY <3>2, <3>3, <3>4
  <2> QED
    BY <1>2, <2>1, <2>2
<1>7. page'.finalSeen = 0 => \A i \in DOMAIN requests' : Current(requests'[i], page') => requests'[i].kind # "final"
  BY <1>1, <1>2, <1>3 DEF StreamInv, Finals
<1>8. page'.final = "complete" => page'.connection = "none" /\ page'.shown >= page'.finalSeen
  BY DEF StreamInv, Finals
<1> QED
  BY <1>2, <1>5, <1>6, <1>7, <1>8 DEF Finals

\* The first member of a list, and the others.
LEMMA HeadAndTail ==
  ASSUME NEW S, NEW q \in Seq(S), q # << >>
  PROVE  /\ Head(q) \in S /\ 1 \in DOMAIN q /\ Head(q) = q[1]
         /\ Tail(q) \in Seq(S) /\ Len(Tail(q)) = Len(q) - 1
         /\ \A i \in DOMAIN Tail(q) : i + 1 \in DOMAIN q /\ Tail(q)[i] = q[i + 1]
<1>1. /\ Head(q) \in S
      /\ Tail(q) \in Seq(S)
      /\ Len(Tail(q)) = Len(q) - 1
      /\ \A i \in 1..Len(q) - 1 : Tail(q)[i] = q[i + 1]
  BY HeadTailProperties
<1>2. Len(q) \in Nat /\ DOMAIN q = 1..Len(q) /\ Len(q) # 0 /\ DOMAIN Tail(q) = 1..(Len(q) - 1)
  BY <1>1, LenProperties, EmptySeq
<1>3. 1 \in DOMAIN q /\ Head(q) = q[1]
  BY <1>2
<1>4. \A i \in DOMAIN Tail(q) : i + 1 \in DOMAIN q /\ Tail(q)[i] = q[i + 1]
  BY <1>1, <1>2
<1> QED
  BY <1>1, <1>3, <1>4

LEMMA RequestMade ==
  ASSUME StreamInv, NEW p \in Pages, NEW kind \in {"load", "refresh", "final"}
  PROVE  /\ Request(kind, p) \in Requests
         /\ Request(kind, p).kind = kind /\ Request(kind, p).load = p.load
         /\ Request(kind, p).revision = p.revision /\ Request(kind, p).since = poll.commits
<1>1. poll.commits \in Nat /\ p.load \in Nat /\ p.revision \in Nat
  BY RequestTypes DEF Pages
<1> QED
  BY <1>1 DEF Request, Requests

\* The next event: the page keeps its load, takes a cursor, and shows what it showed.
LEMMA EventTaken ==
  ASSUME StreamInv, HandleEvent
  PROVE  /\ stream.wire # << >> /\ Head(stream.wire) \in Events /\ Sound(Head(stream.wire))
         /\ stream' \in Streams /\ stream' = [stream EXCEPT !.wire = Tail(stream.wire)]
         /\ stream'.wire = Tail(stream.wire)
         /\ page' \in Pages
         /\ page'.load = page.load /\ page'.shown = page.shown /\ page'.connection = page.connection
         /\ page'.cursor = IF Head(stream.wire).id = NoId THEN page.cursor ELSE Head(stream.wire)
         /\ \/ /\ Head(stream.wire).final /\ page'.final = "pending"
               /\ page'.revision = page.revision + 1 /\ page'.timer = page.timer
               /\ page'.finalSeen = IF page.finalSeen = 0 THEN Head(stream.wire).commit ELSE page.finalSeen
               /\ requests' = Append(requests, Request("final", page'))
            \/ /\ ~Head(stream.wire).final /\ page'.timer /\ requests' = requests
               /\ page'.final = page.final /\ page'.finalSeen = page.finalSeen /\ page'.revision = page.revision
<1>1. stream \in Streams /\ stream.wire \in Seq(Events) /\ page \in Pages /\ stream.wire # << >>
  BY DEF StreamInv, StreamTypes, Streams, HandleEvent
<1> DEFINE event == Head(stream.wire)
           seen == IF event.id = NoId THEN page.cursor ELSE event
<1>2. event \in Events /\ event = stream.wire[1] /\ 1 \in DOMAIN stream.wire /\ Tail(stream.wire) \in Seq(Events)
  BY <1>1, HeadAndTail
<1>3. Sound(event)
  BY <1>2 DEF StreamInv, InMotion
<1>4. seen \in Events /\ event.commit \in Nat /\ page.revision \in Nat /\ page.finalSeen \in Nat
  BY <1>1, <1>2, BoundsAssumption DEF Pages, Events
<1>5. stream' = [stream EXCEPT !.wire = Tail(stream.wire)]
  BY DEF HandleEvent
<1>6. stream' \in Streams /\ stream'.wire = Tail(stream.wire)
  BY <1>1, <1>2, <1>5 DEF Streams
<1>7. \/ /\ event.final
         /\ page' = [page EXCEPT !.cursor = seen, !.revision = page.revision + 1, !.final = "pending",
                                 !.finalSeen = IF page.finalSeen = 0 THEN event.commit ELSE page.finalSeen]
         /\ requests' = Append(requests, Request("final", page'))
      \/ /\ ~event.final
         /\ page' = [page EXCEPT !.cursor = seen, !.timer = TRUE]
         /\ requests' = requests
  BY DEF HandleEvent
<1> HIDE DEF event, seen
<1>8. CASE /\ event.final
           /\ page' = [page EXCEPT !.cursor = seen, !.revision = page.revision + 1, !.final = "pending",
                                   !.finalSeen = IF page.finalSeen = 0 THEN event.commit ELSE page.finalSeen]
           /\ requests' = Append(requests, Request("final", page'))
  <2>1. PICK r \in Nat, f \in Nat : /\ r = page.revision + 1
                                    /\ f = IF page.finalSeen = 0 THEN event.commit ELSE page.finalSeen
    BY <1>4
  <2>2. page' = [page EXCEPT !.cursor = seen, !.revision = r, !.final = "pending", !.finalSeen = f]
    BY <1>8, <2>1
  <2>3. /\ page' \in Pages /\ page'.cursor = seen /\ page'.revision = r /\ page'.final = "pending" /\ page'.finalSeen = f
        /\ page'.load = page.load /\ page'.shown = page.shown /\ page'.connection = page.connection
        /\ page'.timer = page.timer
    BY <1>1, <1>4, <2>2 DEF Pages
  <2> QED
    BY <1>1, <1>2, <1>3, <1>5, <1>6, <1>8, <2>1, <2>3 DEF event, seen
<1>9. CASE ~event.final /\ page' = [page EXCEPT !.cursor = seen, !.timer = TRUE] /\ requests' = requests
  <2>1. /\ page' \in Pages /\ page'.cursor = seen /\ page'.timer = TRUE
        /\ page'.load = page.load /\ page'.shown = page.shown /\ page'.connection = page.connection
        /\ page'.final = page.final /\ page'.finalSeen = page.finalSeen /\ page'.revision = page.revision
    BY <1>1, <1>4, <1>9 DEF Pages
  <2> QED
    BY <1>1, <1>2, <1>3, <1>5, <1>6, <1>9, <2>1 DEF event, seen
<1> QED
  BY <1>7, <1>8, <1>9

\* Its page is loaded.
LEMMA NoLoads ==
  ASSUME StreamInv,
         stream.phase # "off" \/ page.timer \/ page.connection # "none" \/ page.final # "idle" \/ page.finalSeen # 0
  PROVE  \A i \in DOMAIN requests : Current(requests[i], page) => requests[i].kind # "load"
<1> SUFFICES ASSUME NEW i \in DOMAIN requests, Current(requests[i], page), requests[i].kind = "load" PROVE FALSE
  OBVIOUS
<1>1. page = Loading(page.load, page.revision) /\ stream.phase = "off"
  BY DEF StreamInv, RequestsInOrder
<1>2. /\ page.timer = FALSE
      /\ page.connection = "none"
      /\ page.final = "idle"
      /\ page.finalSeen = 0
  BY <1>1 DEF Loading
<1> QED
  BY <1>1, <1>2

LEMMA HandleKeepsInv ==
  ASSUME StreamInv, HandleEvent
  PROVE  StreamInv'
<1> DEFINE event == Head(stream.wire)
<1>1. /\ stream.wire # << >> /\ event \in Events /\ Sound(event)
      /\ stream' \in Streams /\ stream' = [stream EXCEPT !.wire = Tail(stream.wire)]
      /\ stream'.wire = Tail(stream.wire)
      /\ page' \in Pages
      /\ page'.load = page.load /\ page'.shown = page.shown /\ page'.connection = page.connection
      /\ page'.cursor = IF event.id = NoId THEN page.cursor ELSE event
  BY EventTaken
<1>2. \/ /\ event.final /\ page'.final = "pending"
         /\ page'.revision = page.revision + 1 /\ page'.timer = page.timer
         /\ page'.finalSeen = IF page.finalSeen = 0 THEN event.commit ELSE page.finalSeen
         /\ requests' = Append(requests, Request("final", page'))
      \/ /\ ~event.final /\ requests' = requests
         /\ page'.final = page.final /\ page'.finalSeen = page.finalSeen /\ page'.revision = page.revision
  BY EventTaken
<1>3. stream \in Streams /\ stream.wire \in Seq(Events) /\ UNCHANGED <<anonymous, backend, access>> /\ poll' = poll
  BY DEF StreamInv, StreamTypes, Streams, HandleEvent, backend
<1>4. /\ event = stream.wire[1] /\ 1 \in DOMAIN stream.wire
      /\ \A i \in DOMAIN Tail(stream.wire) : i + 1 \in DOMAIN stream.wire /\ Tail(stream.wire)[i] = stream.wire[i + 1]
  BY <1>1, <1>3, HeadAndTail
<1> HIDE DEF event
<1>5. /\ stream'.phase = stream.phase /\ stream'.replay = stream.replay /\ stream'.buffered = stream.buffered
      /\ stream'.last = stream.last
  BY <1>1, <1>3 DEF Streams
<1>6. stream.phase # "off"
  BY <1>1 DEF StreamInv, Phases, NoStream
<1>7. InMotion(stream', page')
  <2>1. \A i \in DOMAIN stream'.wire : Sound(stream'.wire[i])
    BY <1>1, <1>4 DEF StreamInv, InMotion
  <2>2. Handled(page'.cursor)
    BY <1>1 DEF StreamInv, InMotion, Handled, Sound
  <2> QED
    BY <1>5, <2>1, <2>2 DEF StreamInv, InMotion
<1>8. Phases'
  <2>1. ASSUME stream.phase \in {"reading", "read"}
        PROVE  stream'.last = page'.cursor /\ \A i \in DOMAIN stream'.wire : stream'.wire[i].id = NoId
    <3>1. stream.last = page.cursor /\ \A i \in DOMAIN stream.wire : stream.wire[i].id = NoId
      BY <2>1 DEF StreamInv, Phases
    <3> QED
      BY <1>1, <1>4, <1>5, <3>1
  <2> QED
    BY <1>1, <1>5, <1>6, <2>1 DEF StreamInv, Phases
<1>9. \A i \in DOMAIN requests : Current(requests[i], page) => requests[i].kind # "load"
  BY <1>6, NoLoads
<1>10. /\ poll.commits \in Nat /\ page.finalSeen \in Nat /\ page.finalSeen <= poll.commits /\ page.shown <= poll.commits
       /\ page.revision \in Nat /\ event.commit \in 1..poll.commits
  BY <1>1, RequestTypes DEF StreamInv, RequestsInOrder, Sound
<1>11. CASE event.final
  <2> DEFINE r == Request("final", page')
  <2>1. /\ r \in Requests /\ r.kind = "final" /\ r.load = page.load
        /\ r.revision = page'.revision /\ r.since = poll.commits /\ requests' = Append(requests, r)
    BY <1>1, <1>2, <1>11, RequestMade
  <2> HIDE DEF r
  <2>2. page.revision < page'.revision /\ page.revision <= page'.revision /\ page'.final = "pending"
    BY <1>2, <1>10, <1>11
  <2>3. /\ page'.finalSeen <= poll.commits /\ page'.finalSeen # 0
        /\ page'.finalSeen = page.finalSeen \/ (page.finalSeen = 0 /\ page.revision < page'.revision)
    BY <1>2, <1>10, <1>11, <2>2
  <2>4. requests' \in Seq(Requests) /\ RequestsInOrder' /\ Finals'
    BY <1>1, <1>3, <1>9, <2>1, <2>2, <2>3, Sendings
  <2> QED
    BY <1>1, <1>3, <1>7, <1>8, <2>4, PageMoves
<1>12. CASE ~event.final
  <2>1. /\ requests' = requests /\ requests \in Seq(Requests)
        /\ page'.final = page.final /\ page'.finalSeen = page.finalSeen /\ page'.revision = page.revision
    BY <1>2, <1>12 DEF StreamInv, StreamTypes
  <2>2. \A r : (Current(r, page') <=> Current(r, page)) /\ (Valid(r, page') <=> Valid(r, page))
    BY <1>1, <2>1 DEF Current, Valid
  <2>3. RequestsInOrder'
    BY <1>1, <1>3, <1>9, <2>1, <2>2 DEF StreamInv, RequestsInOrder
  <2>4. Finals'
    BY <1>1, <2>1, <2>2 DEF StreamInv, Finals
  <2> QED
    BY <1>1, <1>3, <1>7, <1>8, <2>1, <2>3, <2>4, PageMoves
<1> QED
  BY <1>11, <1>12

LEMMA SendingsKeepInv ==
  ASSUME StreamInv, RefreshResults \/ RetryFinalResults
  PROVE  StreamInv'
<1>1. /\ UNCHANGED <<anonymous, backend, access, stream>> /\ poll' = poll
      /\ stream \in Streams /\ page \in Pages
      /\ page.timer \/ page.final # "idle"
  BY DEF StreamInv, StreamTypes, RefreshResults, RetryFinalResults, backend
<1>2. PICK kind \in {"refresh", "final"} :
        /\ requests' = Append(requests, Request(kind, page))
        /\ \/ kind = "refresh" /\ page' = [page EXCEPT !.timer = FALSE]
           \/ kind = "final" /\ page.final = "failed" /\ page' = [page EXCEPT !.final = "pending"]
  BY DEF RefreshResults, RetryFinalResults
<1>3. /\ page' \in Pages /\ page'.load = page.load /\ page'.revision = page.revision /\ page'.shown = page.shown
      /\ page'.finalSeen = page.finalSeen /\ page'.connection = page.connection /\ page'.cursor = page.cursor
      /\ \/ kind = "refresh" /\ page'.final = page.final
         \/ kind = "final" /\ page.final = "failed" /\ page'.final = "pending"
  BY <1>1, <1>2 DEF Pages
<1>4. \A i \in DOMAIN requests : Current(requests[i], page) => requests[i].kind # "load"
  BY <1>1, NoLoads
<1>5. page'.finalSeen = 0 => page'.final = "idle" /\ kind # "final"
  BY <1>3 DEF StreamInv, Finals
<1> DEFINE r == Request(kind, page)
<1>6. /\ r \in Requests /\ r.kind = kind /\ r.load = page.load
      /\ r.revision = page.revision /\ r.since = poll.commits /\ requests' = Append(requests, r)
  BY <1>1, <1>2, RequestMade
<1> HIDE DEF r
<1>7. page.revision <= page'.revision /\ page'.finalSeen <= poll.commits
  BY <1>3, RequestTypes DEF StreamInv, RequestsInOrder
<1>8. r.kind # "load" /\ (page'.finalSeen = 0 => page'.final = "idle" /\ r.kind # "final")
      /\ (page'.final = "complete" => page.final = "complete")
  BY <1>2, <1>3, <1>5, <1>6
<1>9. requests' \in Seq(Requests) /\ RequestsInOrder' /\ Finals'
  BY <1>1, <1>3, <1>4, <1>6, <1>7, <1>8, Sendings
<1>10. InMotion(stream', page') /\ Phases'
  BY <1>1, <1>3 DEF StreamInv, InMotion, Phases
<1> QED
  BY <1>1, <1>3, <1>9, <1>10, PageMoves

LEMMA LoadKeepsInv ==
  ASSUME StreamInv, Load
  PROVE  StreamInv'
<1>1. /\ UNCHANGED <<anonymous, backend, access>> /\ poll' = poll /\ stream' = NoStream
      /\ page' = Loading(page.load + 1, page.revision + 1)
      /\ requests' = Append(requests, Request("load", page'))
  BY DEF Load, backend
<1>2. /\ poll.commits \in Nat /\ page.load \in Nat /\ page.revision \in Nat
      /\ requests \in Seq(Requests)
      /\ \A i \in DOMAIN requests : requests[i].load \in Nat
  BY RequestTypes
<1>3. NoEvent \in Events
  BY BoundsAssumption DEF Events
<1>4. stream' \in Streams /\ stream'.phase = "off" /\ stream'.wire = << >> /\ stream'.replay = << >>
      /\ stream'.buffered = << >> /\ stream'.last = NoEvent
  BY <1>1, <1>3 DEF NoStream, Streams
<1>5. /\ page' \in Pages /\ page'.load = page.load + 1 /\ page'.revision = page.revision + 1
      /\ page'.connection = "none" /\ page'.shown = 0
      /\ page'.finalSeen = 0 /\ page'.final = "idle" /\ page'.cursor = NoEvent
  BY <1>1, <1>2, <1>3 DEF Loading, Pages
<1> DEFINE r == Request("load", page')
<1>6. /\ r \in Requests /\ r.kind = "load" /\ r.load = page'.load /\ r.revision = page'.revision
      /\ r.since = poll.commits /\ requests' = Append(requests, r)
  BY <1>1, <1>5, RequestMade
<1> HIDE DEF r
<1>7. /\ requests' \in Seq(Requests)
      /\ DOMAIN requests' = 1..(Len(requests) + 1)
      /\ DOMAIN requests = 1..Len(requests)
      /\ Len(requests) \in Nat
      /\ \A i \in 1..Len(requests) : requests'[i] = requests[i]
      /\ requests'[Len(requests) + 1] = r
  BY <1>2, <1>6, Appended
<1>8. \A i \in 1..Len(requests) : ~Current(requests'[i], page') /\ requests'[i].load <= page'.load
                                   /\ requests'[i].since <= poll.commits
  <2> SUFFICES ASSUME NEW i \in 1..Len(requests)
               PROVE  /\ ~Current(requests'[i], page') /\ requests'[i].load <= page'.load
                      /\ requests'[i].since <= poll.commits
    OBVIOUS
  <2>1. i \in DOMAIN requests /\ requests'[i] = requests[i]
    BY <1>7
  <2>2. requests[i].load <= page.load /\ requests[i].since <= poll.commits /\ requests[i].load \in Nat
    BY <1>2, <2>1 DEF StreamInv, RequestsInOrder
  <2> QED
    BY <1>2, <1>5, <2>1, <2>2 DEF Current
<1>9. \A i \in DOMAIN requests' : i \in 1..Len(requests) \/ (i = Len(requests) + 1 /\ requests'[i] = r)
  BY <1>7
<1>10. page' = Loading(page'.load, page'.revision)
  BY <1>1, <1>5
<1>11. RequestsInOrder'
  <2>1. \A i \in DOMAIN requests' :
          /\ requests'[i].load <= page'.load /\ requests'[i].since <= poll'.commits
          /\ Current(requests'[i], page') => requests'[i].revision <= page'.revision
    BY <1>1, <1>2, <1>5, <1>6, <1>8, <1>9
  <2>2. \A i \in DOMAIN requests' : Current(requests'[i], page') => i = Len(requests) + 1
    BY <1>8, <1>9
  <2>3. page'.shown <= poll'.commits /\ page'.finalSeen <= poll'.commits
    BY <1>1, <1>2, <1>5
  <2> QED
    BY <1>4, <1>10, <2>1, <2>2, <2>3 DEF RequestsInOrder
<1>12. Finals'
  <2>1. \A i \in DOMAIN requests' : Current(requests'[i], page') => requests'[i].kind = "load"
    BY <1>6, <1>8, <1>9
  <2>2. \A i \in DOMAIN requests' : Valid(requests'[i], page') => requests'[i].kind = "load"
    BY <2>1 DEF Valid
  <2> QED
    BY <1>5, <2>1, <2>2 DEF Finals
<1>13. InMotion(stream', page')
  BY <1>4, <1>5 DEF InMotion, Handled
<1>14. Phases'
  BY <1>1, <1>4, <1>5 DEF Phases
<1> QED
  BY <1>1, <1>4, <1>5, <1>7, <1>11, <1>12, <1>13, <1>14, PageMoves

\* What an answer shows.
LEMMA Answered ==
  ASSUME StreamInv, NEW i \in DOMAIN requests, NEW commits \in Answers(requests[i])
  PROVE  /\ commits \in Nat /\ requests[i].since <= commits /\ commits <= poll.commits
         /\ Valid(requests[i], page) /\ requests[i].kind # "load" => commits >= page.finalSeen
<1>1. requests[i].since \in Nat /\ poll.commits \in Nat /\ page.finalSeen \in Nat
  BY RequestTypes
<1>2. commits \in Nat /\ requests[i].since <= commits /\ commits <= poll.commits
  BY <1>1 DEF Answers
<1>3. Valid(requests[i], page) /\ requests[i].kind # "load" => requests[i].since >= page.finalSeen
  BY DEF StreamInv, Finals
<1> QED
  BY <1>1, <1>2, <1>3

LEMMA LoadedKeepsInv ==
  ASSUME StreamInv, NEW i \in DOMAIN requests, LoadAnswered(i)
  PROVE  StreamInv'
<1>1. /\ UNCHANGED <<anonymous, backend, access, stream>> /\ poll' = poll /\ stream \in Streams
      /\ requests[i].kind = "load" /\ Current(requests[i], page) /\ requests' = Remaining(i)
  BY DEF StreamInv, StreamTypes, LoadAnswered, IsLoadCurrent, Current, backend
<1>2. page \in Pages /\ page = Loading(page.load, page.revision) /\ stream.phase = "off"
  BY <1>1 DEF StreamInv, StreamTypes, RequestsInOrder
<1>3. page.connection = "none" /\ page.finalSeen = 0 /\ page.final = "idle"
  BY <1>2 DEF Loading
<1>4. PICK commits \in Answers(requests[i]), c \in {"none", "connecting"} :
         page' = [page EXCEPT !.shown = commits, !.connection = c]
  BY <1>3 DEF LoadAnswered
<1>5. commits \in Nat /\ commits <= poll.commits
  BY Answered
<1>6. /\ page' \in Pages /\ page'.load = page.load /\ page'.revision = page.revision /\ page'.shown = commits
      /\ page'.finalSeen = page.finalSeen /\ page'.connection = c /\ page'.cursor = page.cursor
      /\ page'.final = page.final
  BY <1>2, <1>4, <1>5 DEF Pages
<1>7. requests' \in Seq(Requests) /\ RequestsInOrder' /\ Finals'
  BY <1>1, <1>3, <1>5, <1>6, Removals
<1>8. InMotion(stream', page')
  BY <1>1, <1>6 DEF StreamInv, InMotion
<1>9. Phases'
  BY <1>1, <1>2, <1>6 DEF StreamInv, Phases
<1> QED
  BY <1>1, <1>6, <1>7, <1>8, <1>9, PageMoves

LEMMA RefreshedKeepsInv ==
  ASSUME StreamInv, NEW i \in DOMAIN requests, RefreshAnswered(i)
  PROVE  StreamInv'
<1>1. /\ UNCHANGED <<anonymous, backend, access, stream>> /\ poll' = poll /\ stream \in Streams /\ page \in Pages
      /\ requests[i].kind = "refresh" /\ Current(requests[i], page) /\ Valid(requests[i], page)
      /\ requests' = Remaining(i)
  BY DEF StreamInv, StreamTypes, RefreshAnswered, IsLoadCurrent, Current, Valid, backend
<1>2. PICK commits \in Answers(requests[i]) : page' = [page EXCEPT !.shown = commits]
  BY DEF RefreshAnswered
<1>3. commits \in Nat /\ commits <= poll.commits /\ commits >= page.finalSeen
  BY <1>1, Answered
<1>4. /\ page' \in Pages /\ page'.load = page.load /\ page'.revision = page.revision /\ page'.shown = commits
      /\ page'.finalSeen = page.finalSeen /\ page'.connection = page.connection /\ page'.cursor = page.cursor
      /\ page'.final = page.final
  BY <1>1, <1>2, <1>3 DEF Pages
<1>5. /\ page'.finalSeen = 0 => page'.final = "idle"
      /\ page'.final = "complete" => page'.connection = "none" /\ page'.shown >= page'.finalSeen
  BY <1>3, <1>4 DEF StreamInv, Finals
<1>6. requests' \in Seq(Requests) /\ RequestsInOrder' /\ Finals'
  BY <1>1, <1>3, <1>4, <1>5, Removals
<1>7. InMotion(stream', page') /\ Phases'
  BY <1>1, <1>4 DEF StreamInv, InMotion, Phases
<1> QED
  BY <1>1, <1>4, <1>6, <1>7, PageMoves

LEMMA ReconciledKeepsInv ==
  ASSUME StreamInv, NEW i \in DOMAIN requests, FinalAnswered(i)
  PROVE  StreamInv'
<1>1. /\ UNCHANGED <<anonymous, backend, access>> /\ poll' = poll /\ stream' = NoStream /\ page \in Pages
      /\ requests[i].kind = "final" /\ Current(requests[i], page) /\ Valid(requests[i], page)
      /\ requests' = Remaining(i)
  BY DEF StreamInv, StreamTypes, FinalAnswered, IsLoadCurrent, Current, Valid, backend
<1>2. PICK commits \in Answers(requests[i]) :
         page' = CloseResultsEvents([page EXCEPT !.shown = commits, !.final = "complete"])
  BY DEF FinalAnswered
<1>3. commits \in Nat /\ commits <= poll.commits /\ commits >= page.finalSeen
  BY <1>1, Answered
<1>4. PICK p : p = [page EXCEPT !.shown = commits, !.final = "complete"]
  OBVIOUS
<1>5. /\ p \in Pages /\ p.load = page.load /\ p.revision = page.revision /\ p.shown = commits
      /\ p.finalSeen = page.finalSeen /\ p.cursor = page.cursor /\ p.final = "complete"
  BY <1>1, <1>3, <1>4 DEF Pages
<1>6. page' = [p EXCEPT !.timer = FALSE, !.connection = "none"]
  BY <1>2, <1>4 DEF CloseResultsEvents
<1>7. /\ page' \in Pages /\ page'.load = page.load /\ page'.revision = page.revision /\ page'.shown = commits
      /\ page'.finalSeen = page.finalSeen /\ page'.cursor = page.cursor /\ page'.final = "complete"
      /\ page'.connection = "none"
  BY <1>5, <1>6 DEF Pages
<1>8. page.finalSeen # 0
  BY <1>1 DEF StreamInv, Finals
<1>9. requests' \in Seq(Requests) /\ RequestsInOrder' /\ Finals'
  BY <1>1, <1>3, <1>7, <1>8, Removals
<1>10. NoEvent \in Events
  BY BoundsAssumption DEF Events
<1>11. stream' \in Streams /\ stream'.phase = "off" /\ stream'.wire = << >> /\ stream'.replay = << >>
      /\ stream'.buffered = << >> /\ stream'.last = NoEvent
  BY <1>1, <1>10 DEF NoStream, Streams
<1>12. InMotion(stream', page')
  BY <1>7, <1>11 DEF StreamInv, InMotion, Handled
<1>13. Phases'
  BY <1>1, <1>7, <1>11 DEF Phases
<1> QED
  BY <1>1, <1>7, <1>9, <1>11, <1>12, <1>13, PageMoves

LEMMA DroppedKeepsInv ==
  ASSUME StreamInv, NEW i \in DOMAIN requests, AnswerDropped(i) \/ RequestFails(i)
  PROVE  StreamInv'
<1>1. /\ UNCHANGED <<anonymous, backend, access, stream>> /\ poll' = poll /\ stream \in Streams /\ page \in Pages
      /\ requests' = Remaining(i)
      /\ \/ page' = page
         \/ /\ Current(requests[i], page) /\ requests[i].kind = "final"
            /\ page' = [page EXCEPT !.final = "failed"]
  BY DEF StreamInv, StreamTypes, AnswerDropped, RequestFails, IsLoadCurrent, Current, backend
<1>2. /\ page' \in Pages /\ page'.load = page.load /\ page'.revision = page.revision /\ page'.shown = page.shown
      /\ page'.finalSeen = page.finalSeen /\ page'.connection = page.connection /\ page'.cursor = page.cursor
      /\ \/ page' = page
         \/ /\ Current(requests[i], page) /\ requests[i].kind = "final"
            /\ page'.final = "failed"
  BY <1>1 DEF Pages
<1>3. /\ page'.finalSeen = 0 => page'.final = "idle"
      /\ page'.final = "complete" => page'.connection = "none" /\ page'.shown >= page'.finalSeen
  BY <1>2 DEF StreamInv, Finals
<1>4. page'.shown <= poll.commits
  BY <1>2 DEF StreamInv, RequestsInOrder
<1>5. requests' \in Seq(Requests) /\ RequestsInOrder' /\ Finals'
  BY <1>1, <1>2, <1>3, <1>4, Removals
<1>6. InMotion(stream', page') /\ Phases'
  BY <1>1, <1>2 DEF StreamInv, InMotion, Phases
<1> QED
  BY <1>1, <1>2, <1>5, <1>6, PageMoves

-----------------------------------------------------------------------------
(* Every step keeps the invariant.                                         *)

LEMMA StreamInvStep ==
  ASSUME StreamInv, [Next]_vars
  PROVE  StreamInv'
<1>1. CASE UNCHANGED vars
  <2>1. UNCHANGED <<anonymous, backend, access, requests, stream, page>>
    BY <1>1 DEF vars, backend
  <2>2. stream' \in Streams /\ page' \in Pages /\ InMotion(stream', page') /\ Phases'
    BY <2>1 DEF StreamInv, StreamTypes, InMotion, Phases
  <2> QED
    BY <2>1, <2>2, StreamAlone
<1>2. CASE PublicationStep
  <2>1. PICK c \in Commits : ShouldPublishUpdate(c) \/ Record(c) \/ RecordFails(c) \/ Publish(c) \/ PublishFails(c)
    BY <1>2 DEF PublicationStep
  <2> QED
    BY <2>1, RecordsKeepInv, FailedPublicationsKeepInv
<1>3. CASE StreamStep
  BY <1>3, ConnectKeepsInv, NoConnectionKeepsInv, EndingsKeepInv, StartKeepsInv, ReplayedKeepInv DEF StreamStep
<1>4. CASE PageStep
  <2>1. CASE HandleEvent \/ RefreshResults
    BY <2>1, HandleKeepsInv, SendingsKeepInv
  <2>2. CASE \E i \in DOMAIN requests : \/ LoadAnswered(i) \/ RefreshAnswered(i)
                                        \/ FinalAnswered(i) \/ AnswerDropped(i) \/ RequestFails(i)
    BY <2>2, LoadedKeepsInv, RefreshedKeepsInv, ReconciledKeepsInv, DroppedKeepsInv
  <2> QED
    BY <1>4, <2>1, <2>2 DEF PageStep
<1>5. CASE Environment
  <2>1. CASE \E c \in Commits : PublicationDies(c)
    BY <2>1, FailedPublicationsKeepInv
  <2>2. CASE SubmitResponse \/ ClosePoll \/ ReopenPoll \/ EndSession \/ HideResults
    BY <2>2, CommitsKeepInv
  <2>3. CASE ReplayExpires
    BY <2>3, ExpiryKeepsInv
  <2>4. CASE ConnectFails \/ ConnectionDrops \/ ReplayFails
    BY <2>4, NoConnectionKeepsInv, EndingsKeepInv, ReplayedKeepInv
  <2>5. CASE RetryFinalResults \/ Load
    BY <2>5, SendingsKeepInv, LoadKeepsInv
  <2> QED
    BY <1>5, <2>1, <2>2, <2>3, <2>4, <2>5 DEF Environment
<1> QED
  BY <1>1, <1>2, <1>3, <1>4, <1>5 DEF Next

\* The invariant of the stream: what the keys of the replay, the connection and the
\* page hold are events of commits that exist, whose numbers were given.
THEOREM StreamInvariant == Spec => []StreamInv
<1>1. StreamInv /\ [Next]_vars => StreamInv'
  BY StreamInvStep
<1> QED
  BY <1>1, InitStreamInv, PTL DEF Spec

\* No answer to a request sent before the closing replaces the final results: the
\* page drops the answers of refreshes older than the one it last asked for.
THEOREM ClosingCovered == Spec => []CompleteResultsCoverTheClosing
<1>1. StreamInv => CompleteResultsCoverTheClosing
  BY DEF StreamInv, Finals, CompleteResultsCoverTheClosing
<1> QED
  BY <1>1, StreamInvariant, PTL

-----------------------------------------------------------------------------
(* What keeps a commit from being lost: a page that watches and has no     *)
(* reason to miss a commit holds it, or something will make it read again. *)

\* The page reads again for an event without a number, and holds what it shows, will
\* read when its timer ends, or reads with a request sent since.
Unrecorded == \E i \in DOMAIN stream.wire : stream.wire[i].id = NoId
Awaited(c) == \E i \in DOMAIN requests : Valid(requests[i], page) /\ c <= requests[i].since
Held(c) == c <= page.shown \/ page.timer \/ Unrecorded \/ Awaited(c)

LoadUnderWay == \E i \in DOMAIN requests : Current(requests[i], page) /\ requests[i].kind = "load"
Watching ==
    \/ Subscribed
    \/ MayRead /\ (page.connection \in {"connecting", "connected", "reconnecting"} \/ LoadUnderWay)

\* The newest event recorded is not the last one the page saw.
NewsInLog ==
    /\ redis.log # << >>
    /\ \/ Last(redis.log).id # page.cursor.id
       \/ Last(redis.log).commit # page.cursor.commit

\* Each published commit is held, or news of it is in the log, on the wire, in the
\* replay or in the buffer, whichever the phase of the connection will use.
Kept ==
    /\ \A c \in Commits : publication[c].pc \in {"publish", "done"} => Held(c) \/ NewsInLog
    /\ stream.phase = "live" =>
          \A c \in Commits : publication[c].pc = "done" => Held(c) \/ stream.wire # << >>
    /\ stream.phase = "read" =>
          \A c \in Commits : publication[c].pc = "done" =>
              \/ Held(c) \/ stream.replay # << >>
              \/ \E i \in DOMAIN stream.buffered : stream.buffered[i].commit = c
    /\ Held(page.cursor.commit)
    /\ stream.phase = "live" => Held(stream.last.commit) \/ stream.wire # << >>

Follow == Watching /\ lost = {} => Kept

\* What is held stays held.
LEMMA HeldOn ==
  ASSUME page.shown \in Nat, page'.shown \in Nat, page.shown <= page'.shown,
         page.timer => page'.timer, Unrecorded => Unrecorded',
         \A i \in DOMAIN requests : requests[i].since \in Nat,
         \A i \in DOMAIN requests : Valid(requests[i], page) =>
            \/ requests[i].since <= page'.shown
            \/ \E j \in DOMAIN requests' : Valid(requests'[j], page') /\ requests'[j].since = requests[i].since
  PROVE  \A c \in Nat : Held(c) => Held(c)'
<1> SUFFICES ASSUME NEW c \in Nat, Held(c) PROVE Held(c)'
  OBVIOUS
<1>1. CASE c <= page.shown
  <2>1. c <= page'.shown
    BY <1>1
  <2> QED
    BY <2>1 DEF Held
<1>2. CASE page.timer \/ Unrecorded
  BY <1>2 DEF Held
<1>3. CASE Awaited(c)
  <2>1. PICK i \in DOMAIN requests : Valid(requests[i], page) /\ c <= requests[i].since
    BY <1>3 DEF Awaited
  <2>2. CASE requests[i].since <= page'.shown
    <3>1. c <= page'.shown
      BY <2>1, <2>2
    <3> QED
      BY <3>1 DEF Held
  <2>3. CASE \E j \in DOMAIN requests' : Valid(requests'[j], page') /\ requests'[j].since = requests[i].since
    <3>1. \E j \in DOMAIN requests' : Valid(requests'[j], page') /\ c <= requests'[j].since
      BY <2>1, <2>3
    <3> QED
      BY <3>1 DEF Held, Awaited
  <2> QED
    BY <2>1, <2>2, <2>3
<1> QED
  BY <1>1, <1>2, <1>3 DEF Held

\* The commits named by the state exist.
CommitsExist ==
    /\ poll.commits \in Nat
    /\ \A c \in Commits : c \in Nat
    /\ \A c \in Commits : publication[c].pc # "none" => c <= poll.commits
    /\ page.cursor.commit \in Nat /\ page.cursor.commit <= poll.commits
    /\ stream.last.commit \in Nat /\ stream.last.commit <= poll.commits

LEMMA NamedCommits == StreamInv => CommitsExist
<1> SUFFICES ASSUME StreamInv PROVE CommitsExist
  OBVIOUS
<1>1. poll.commits \in Nat /\ \A c \in Commits : c \in Nat
  BY RequestTypes DEF Commits
<1>2. \A e : Handled(e) => e.commit \in Nat /\ e.commit <= poll.commits
  BY <1>1 DEF Handled
<1> QED
  BY <1>1, <1>2 DEF StreamInv, Announced, InMotion, CommitsExist

\* A page about to read again holds every commit.
LEMMA AllHeld ==
  ASSUME StreamInv',
         \/ page'.timer \/ Unrecorded' \/ page'.shown = poll'.commits
         \/ \E i \in DOMAIN requests' : Valid(requests'[i], page') /\ requests'[i].since = poll'.commits
  PROVE  Follow'
<1>0. CommitsExist'
  BY NamedCommits, PTL
<1>1. /\ poll'.commits \in Nat
      /\ \A c \in Commits : c \in Nat
      /\ \A c \in Commits : publication'[c].pc # "none" => c <= poll'.commits
      /\ page'.cursor.commit \in Nat /\ page'.cursor.commit <= poll'.commits
      /\ stream'.last.commit \in Nat /\ stream'.last.commit <= poll'.commits
  BY <1>0 DEF CommitsExist
<1>2. \A c \in Nat : c <= poll'.commits => Held(c)'
  BY DEF Held, Awaited
<1>3. \A c \in Commits : publication'[c].pc # "none" => Held(c)'
  BY <1>1, <1>2
<1>4. Held(page.cursor.commit)' /\ Held(stream.last.commit)'
  <2>1. \A c \in Nat : c <= poll'.commits => \/ c <= page'.shown \/ page'.timer \/ Unrecorded'
                                              \/ \E i \in DOMAIN requests' : Valid(requests'[i], page') /\ c <= requests'[i].since
    BY <1>2 DEF Held, Awaited
  <2> QED
    BY <1>1, <2>1 DEF Held, Awaited
<1> QED
  BY <1>3, <1>4 DEF Follow, Kept

\* Steps that add nothing to what is known of the commits.
LEMMA FollowOn ==
  ASSUME StreamInv, Follow, Watching' => Watching, lost' = {} => lost = {},
         \A c \in Nat : Held(c) => Held(c)',
         page'.cursor = page.cursor, redis' = redis,
         \A c \in Commits : publication'[c].pc \in {"publish", "done"} => publication[c].pc \in {"publish", "done"},
         \/ stream'.phase \in {"off", "reading", "ended"}
         \/ /\ stream'.phase = stream.phase /\ stream'.wire = stream.wire /\ stream'.replay = stream.replay
            /\ stream'.buffered = stream.buffered /\ stream'.last = stream.last
            /\ \A c \in Commits : publication'[c].pc = "done" => publication[c].pc = "done"
  PROVE  Follow'
<1> SUFFICES ASSUME Watching', lost' = {} PROVE Kept'
  BY DEF Follow
<1>1. Kept
  BY DEF Follow
<1>2. (\A c \in Commits : c \in Nat) /\ page.cursor.commit \in Nat /\ stream.last.commit \in Nat
  BY NamedCommits DEF CommitsExist
<1>3. NewsInLog' <=> NewsInLog
  BY DEF NewsInLog
<1>4. Held(page.cursor.commit)'
  <2>1. PICK n \in Nat : n = page.cursor.commit
    BY <1>2
  <2>2. Held(n)'
    BY <1>1, <2>1 DEF Kept
  <2> QED
    BY <2>1, <2>2 DEF Held, Awaited
<1>5. \A c \in Commits : publication'[c].pc \in {"publish", "done"} => Held(c)' \/ NewsInLog'
  BY <1>1, <1>2, <1>3 DEF Kept
<1>6. CASE stream'.phase \in {"off", "reading", "ended"}
  BY <1>4, <1>5, <1>6 DEF Kept
<1>7. CASE /\ stream'.phase = stream.phase /\ stream'.wire = stream.wire /\ stream'.replay = stream.replay
           /\ stream'.buffered = stream.buffered /\ stream'.last = stream.last
           /\ \A c \in Commits : publication'[c].pc = "done" => publication[c].pc = "done"
  <2>1. stream'.phase = "live" =>
          \A c \in Commits : publication'[c].pc = "done" => Held(c)' \/ stream'.wire # << >>
    BY <1>1, <1>2, <1>7 DEF Kept
  <2>2. stream'.phase = "read" =>
          \A c \in Commits : publication'[c].pc = "done" =>
              \/ Held(c)' \/ stream'.replay # << >>
              \/ \E i \in DOMAIN stream'.buffered : stream'.buffered[i].commit = c
    BY <1>1, <1>2, <1>7 DEF Kept
  <2>3. stream'.phase = "live" => Held(stream.last.commit)' \/ stream'.wire # << >>
    <3>1. PICK n \in Nat : n = stream.last.commit
      BY <1>2
    <3>2. stream'.phase = "live" => Held(n)' \/ stream'.wire # << >>
      BY <1>1, <1>7, <3>1 DEF Kept
    <3> QED
      BY <1>7, <3>1, <3>2 DEF Held, Awaited
  <2> QED
    BY <1>4, <1>5, <2>1, <2>2, <2>3 DEF Kept
<1> QED
  BY <1>6, <1>7

\* Nothing is lost of what a page holds while its requests and its wire stay.
LEMMA HeldStill ==
  ASSUME StreamInv, page'.shown = page.shown, page'.timer = page.timer, page'.load = page.load,
         page'.revision = page.revision, requests' = requests, Unrecorded => Unrecorded'
  PROVE  (\A c \in Nat : Held(c) => Held(c)') /\ (LoadUnderWay' <=> LoadUnderWay)
<1>1. \A r : (Current(r, page') <=> Current(r, page)) /\ (Valid(r, page') <=> Valid(r, page))
  BY DEF Current, Valid
<1>2. page.shown \in Nat /\ page'.shown \in Nat /\ page.shown <= page'.shown
      /\ \A i \in DOMAIN requests : requests[i].since \in Nat
  BY RequestTypes
<1>3. \A c \in Nat : Held(c) => Held(c)'
  BY <1>1, <1>2, HeldOn
<1> QED
  BY <1>1, <1>3 DEF LoadUnderWay

LEMMA FollowCommits ==
  ASSUME StreamInv, Follow, SubmitResponse \/ ClosePoll \/ ReopenPoll \/ EndSession \/ HideResults
  PROVE  Follow'
<1>1. UNCHANGED <<redis, stream, page, requests, lost>>
  BY DEF SubmitResponse, ClosePoll, ReopenPoll, EndSession, HideResults, backend
<1>2. (\A c \in Nat : Held(c) => Held(c)') /\ (LoadUnderWay' <=> LoadUnderWay)
  BY <1>1, HeldStill DEF Unrecorded
<1>3. MayRead' => MayRead
  BY DEF MayRead, SubmitResponse, ClosePoll, ReopenPoll, EndSession, HideResults, StreamInv, StreamTypes
<1>4. Watching' => Watching
  BY <1>1, <1>2, <1>3 DEF Watching, Subscribed
<1>5. \A c \in Commits : publication'[c].pc \in {"publish", "done"} => publication'[c] = publication[c]
  <2>1. CASE SubmitResponse \/ ClosePoll
    <3>1. PICK f \in BOOLEAN : Announce(f)
      BY <2>1 DEF SubmitResponse, ClosePoll
    <3> QED
      BY <3>1, Announcements
  <2>2. CASE ReopenPoll \/ EndSession \/ HideResults
    BY <2>2 DEF ReopenPoll, EndSession, HideResults, backend
  <2> QED
    BY <2>1, <2>2
<1> QED
  BY <1>1, <1>2, <1>4, <1>5, FollowOn

\* A publication that dies or is held for its batch is a reason to miss it.
LEMMA FollowBatches ==
  ASSUME StreamInv, Follow, NEW c \in Commits, PublicationDies(c) \/ ShouldPublishUpdate(c)
  PROVE  Follow'
<1>1. UNCHANGED <<access, redis, stream, page, requests>>
  BY DEF PublicationDies, ShouldPublishUpdate
<1>2. (\A n \in Nat : Held(n) => Held(n)') /\ (LoadUnderWay' <=> LoadUnderWay)
  BY <1>1, HeldStill DEF Unrecorded
<1>3. Watching' => Watching
  BY <1>1, <1>2 DEF Watching, MayRead, Subscribed
<1>4. publication \in [Commits -> Publications]
  BY DEF StreamInv, StreamTypes
<1>5. lost' # {} \/ (lost' = lost /\ publication' = [publication EXCEPT ![c].pc = "record"])
  BY DEF PublicationDies, ShouldPublishUpdate
<1>6. CASE lost' # {}
  BY <1>6 DEF Follow
<1>7. CASE lost' = lost /\ publication' = [publication EXCEPT ![c].pc = "record"]
  <2>1. publication'[c].pc = "record" /\ \A d \in Commits : d # c => publication'[d] = publication[d]
    BY <1>4, <1>7 DEF Publications
  <2> QED
    BY <1>1, <1>2, <1>3, <1>7, <2>1, FollowOn
<1> QED
  BY <1>5, <1>6, <1>7

\* An event recorded is news to a page that has not seen its commit; if the page has
\* seen it, nothing was recorded.
LEMMA NewsRecorded ==
  ASSUME StreamInv, Kept, NEW c \in Commits, publication[c].pc = "record",
         redis' = Recorded(c), page' = page
  PROVE  \/ NewsInLog'
         \/ redis' = redis /\ Held(c) /\ ~NewsInLog
<1>1. /\ Stored(c).commit = c
      /\ redis'.log # << >> /\ Last(redis'.log) = Stored(c)
      /\ redis' = redis \/ Stored(c).id = redis.sequence + 1
  BY Recordings
<1>2. redis.sequence \in Nat /\ page.cursor \in Events /\ c # 0
  BY DEF StreamInv, StreamTypes, Pages, Commits
<1>3. CASE page.cursor.commit # c
  BY <1>1, <1>3 DEF NewsInLog
<1>4. CASE page.cursor.commit = c /\ redis' = redis
  <2>1. Held(c)
    BY <1>4 DEF Kept
  <2> QED
    BY <1>4, <2>1 DEF NewsInLog
<1>5. CASE page.cursor.commit = c /\ Stored(c).id = redis.sequence + 1
  <2>1. page.cursor.id <= redis.sequence /\ page.cursor.id \in Nat
    BY <1>2, <1>5 DEF StreamInv, InMotion, Handled, Events
  <2>2. page.cursor.id # Stored(c).id
    BY <1>2, <1>5, <2>1
  <2> QED
    BY <1>1, <2>2 DEF NewsInLog
<1> QED
  BY <1>1, <1>3, <1>4, <1>5

LEMMA FollowRecordings ==
  ASSUME StreamInv, Follow, NEW c \in Commits, publication[c].pc = "record",
         redis' \in {redis, Recorded(c)}, UNCHANGED <<access, page, requests, lost>>,
         stream'.phase = stream.phase, stream'.wire = stream.wire, stream'.replay = stream.replay,
         stream'.buffered = stream.buffered, stream'.last = stream.last,
         \A d \in Commits : d # c => publication'[d] = publication[d],
         publication'[c].pc \in {"record", "publish"}, publication'[c].pc = "publish" => redis' = Recorded(c)
  PROVE  Follow'
<1> SUFFICES ASSUME Watching', lost' = {} PROVE Kept'
  BY DEF Follow
<1>1. (\A n \in Nat : Held(n) => Held(n)') /\ (LoadUnderWay' <=> LoadUnderWay)
  BY HeldStill DEF Unrecorded
<1>2. Watching' => Watching
  BY <1>1 DEF Watching, MayRead, Subscribed
<1>3. Kept
  BY <1>2 DEF Follow
<1>4. (\A d \in Commits : d \in Nat) /\ page.cursor.commit \in Nat /\ stream.last.commit \in Nat
  BY NamedCommits DEF CommitsExist
<1>5. \A d \in Commits : publication'[d].pc \in {"publish", "done"} => Held(d)' \/ NewsInLog'
  <2>1. CASE redis' = Recorded(c)
    <3>1. CASE NewsInLog'
      BY <3>1
    <3>2. CASE redis' = redis /\ Held(c) /\ ~NewsInLog
      BY <1>1, <1>3, <1>4, <3>2 DEF Kept
    <3> QED
      BY <1>3, <2>1, <3>1, <3>2, NewsRecorded
  <2>2. CASE redis' = redis /\ publication'[c].pc = "record"
    <3>1. NewsInLog' <=> NewsInLog
      BY <2>2 DEF NewsInLog
    <3> QED
      BY <1>1, <1>3, <1>4, <2>2, <3>1 DEF Kept
  <2> QED
    BY <2>1, <2>2
<1>6. Held(page.cursor.commit)'
  <2>1. PICK n \in Nat : n = page.cursor.commit
    BY <1>4
  <2>2. Held(n)'
    BY <1>1, <1>3, <2>1 DEF Kept
  <2> QED
    BY <2>1, <2>2 DEF Held, Awaited
<1>7. stream'.phase = "live" => Held(stream.last.commit)' \/ stream'.wire # << >>
  <2>1. PICK n \in Nat : n = stream.last.commit
    BY <1>4
  <2>2. stream'.phase = "live" => Held(n)' \/ stream'.wire # << >>
    BY <1>1, <1>3, <2>1 DEF Kept
  <2> QED
    BY <2>1, <2>2 DEF Held, Awaited
<1>8. \A d \in Commits : publication'[d].pc = "done" => publication[d].pc = "done"
  OBVIOUS
<1>9. stream'.phase = "live" =>
        \A d \in Commits : publication'[d].pc = "done" => Held(d)' \/ stream'.wire # << >>
  BY <1>1, <1>3, <1>4, <1>8 DEF Kept
<1>10. stream'.phase = "read" =>
        \A d \in Commits : publication'[d].pc = "done" =>
            \/ Held(d)' \/ stream'.replay # << >>
            \/ \E i \in DOMAIN stream'.buffered : stream'.buffered[i].commit = d
  BY <1>1, <1>3, <1>4, <1>8 DEF Kept
<1> QED
  BY <1>5, <1>6, <1>7, <1>9, <1>10 DEF Kept

\* A page whose stream ended and that may not read follows nothing.
LEMMA NoLongerWatching ==
  ASSUME stream'.phase \in {"off", "ended"}, access' = access, ~MayRead
  PROVE  Follow'
BY DEF Follow, Watching, MayRead, Subscribed

LEMMA FollowRecords ==
  ASSUME StreamInv, StreamInv', Follow, NEW c \in Commits, Record(c) \/ RecordFails(c)
  PROVE  Follow'
<1>1. publication \in [Commits -> Publications] /\ publication[c].pc = "record" /\ stream \in Streams
      /\ publication[c] \in Publications /\ UNCHANGED <<access, requests>> /\ redis' \in {redis, Recorded(c)}
  BY DEF StreamInv, StreamTypes, Record, RecordFails
<1>2. CASE Record(c)
  <2>1. /\ stream'.phase = stream.phase /\ stream'.wire = stream.wire /\ stream'.replay = stream.replay
        /\ stream'.buffered = stream.buffered /\ stream'.last = stream.last
        /\ UNCHANGED <<page, lost>> /\ redis' = Recorded(c)
    BY <1>1, <1>2 DEF Record, Streams
  <2>2. publication'[c].pc = "publish" /\ \A d \in Commits : d # c => publication'[d] = publication[d]
    BY <1>1, <1>2 DEF Record, Publications
  <2> QED
    BY <1>1, <2>1, <2>2, FollowRecordings
<1>3. CASE RecordFails(c) /\ publication[c].tries < MaxAttempts
  <2>1. UNCHANGED <<stream, page, lost>> /\ publication' = [publication EXCEPT ![c].tries = publication[c].tries + 1]
    BY <1>3 DEF RecordFails
  <2>2. publication'[c].pc = "record" /\ \A d \in Commits : d # c => publication'[d] = publication[d]
    BY <1>1, <2>1 DEF Publications
  <2> QED
    BY <1>1, <2>1, <2>2, FollowRecordings
<1>4. CASE RecordFails(c) /\ ~(publication[c].tries < MaxAttempts)
  <2> DEFINE e == [id |-> NoId, commit |-> c, final |-> publication[c].final]
  <2>1. lost' # {} \/ (Subscribed /\ ReachPage(e))
    BY <1>4 DEF RecordFails, Miss
  <2>2. CASE lost' # {}
    BY <2>2 DEF Follow
  <2>3. CASE Subscribed /\ ReachPage(e)
    <3>1. e.id = NoId
      OBVIOUS
    <3>2. CASE ~access.visible
      <4>1. stream'.phase = "ended"
        BY <1>1, <2>3, <3>2 DEF ReachPage, ServerEnds, Streams
      <4> QED
        BY <1>1, <3>2, <4>1, NoLongerWatching DEF MayRead
    <3>3. CASE access.visible
      <4>1. stream' = [stream EXCEPT !.wire = Append(stream.wire, e)]
        BY <2>3, <3>1, <3>3 DEF ReachPage
      <4>2. stream.wire \in Seq(Events) /\ e \in Events
        <5>1. c \in 0..MaxCommits
          BY BoundsAssumption DEF Commits
        <5> QED
          BY <1>1, <5>1 DEF Streams, Events, Publications
      <4> HIDE DEF e
      <4>3. DOMAIN Append(stream.wire, e) = 1..(Len(stream.wire) + 1) /\ Len(stream.wire) \in Nat
            /\ Append(stream.wire, e)[Len(stream.wire) + 1] = e
        BY <4>2, Appended
      <4>4. stream'.wire = Append(stream.wire, e)
        BY <1>1, <4>1 DEF Streams
      <4>5. Len(stream.wire) + 1 \in DOMAIN stream'.wire /\ stream'.wire[Len(stream.wire) + 1].id = NoId
        BY <3>1, <4>3, <4>4
      <4>6. Unrecorded'
        BY <4>5 DEF Unrecorded
      <4> QED
        BY <4>6, AllHeld
    <3> QED
      BY <3>2, <3>3
  <2> QED
    BY <2>1, <2>2, <2>3
<1> QED
  BY <1>2, <1>3, <1>4

\* The event of a recorded commit reaches the page.
LEMMA FollowArrivals ==
  ASSUME StreamInv, StreamInv', Follow, NEW c \in Commits, publication[c].pc = "publish",
         ReachPage(publication[c].event), UNCHANGED <<access, redis, requests>>,
         \A d \in Commits : d # c => publication'[d] = publication[d]
  PROVE  Follow'
<1> DEFINE e == publication[c].event
<1>1. stream \in Streams /\ stream.wire \in Seq(Events) /\ stream.buffered \in Seq(Events)
      /\ stream.last \in Events /\ publication[c] \in Publications
  BY DEF StreamInv, StreamTypes, Streams
<1>2. e \in Events /\ e.commit = c /\ e.id # NoId /\ ReachPage(e)
  BY <1>1 DEF StreamInv, Announced, Publications
<1>3. /\ \A d \in Commits : d \in Nat
      /\ page.cursor.commit \in Nat
      /\ stream.last.commit \in Nat
  BY NamedCommits DEF CommitsExist
<1> HIDE DEF e
<1>4. CASE stream.phase \in {"off", "ended"} /\ UNCHANGED <<stream, page, lost>>
  <2>1. (\A n \in Nat : Held(n) => Held(n)') /\ (LoadUnderWay' <=> LoadUnderWay)
    BY <1>4, HeldStill DEF Unrecorded
  <2>2. Watching' => Watching
    BY <1>4, <2>1 DEF Watching, MayRead, Subscribed
  <2> QED
    BY <1>4, <2>1, <2>2, FollowOn
<1>5. CASE ServerEnds /\ ~access.visible
  <2>1. stream'.phase = "ended"
    BY <1>1, <1>5 DEF ServerEnds, Streams
  <2> QED
    BY <1>5, <2>1, NoLongerWatching DEF MayRead
<1>6. CASE stream.phase = "live" /\ stream' = Deliver(stream, <<e>>) /\ page' = page /\ lost' = LostBy(stream, <<e>>)
  <2> SUFFICES ASSUME Watching', lost' = {} PROVE Kept'
    BY DEF Follow
  <2>1. PICK events \in Seq(Events) : /\ events = <<e>> /\ DOMAIN events = {1} /\ events[1] = e /\ Len(events) = 1
                                      /\ events # << >>
    <3>1. PICK events : events = <<e>>
      OBVIOUS
    <3>2. events \in Seq(Events) /\ DOMAIN events = {1} /\ events[1] = e /\ Len(events) = 1
      BY <1>2, <3>1
    <3>3. events # << >>
      BY <3>1
    <3> QED
      BY <3>1, <3>2, <3>3
  <2>2. stream' = Deliver(stream, events)
    BY <1>6, <2>1
  <2>3. /\ stream'.last = e
        /\ stream' = [stream EXCEPT !.wire = stream'.wire, !.last = stream'.last]
    BY <1>1, <2>1, <2>2, Deliveries
  <2>4. stream'.phase = "live"
    BY <1>1, <1>6, <2>3 DEF Streams
  <2>5. /\ \A i \in DOMAIN stream.wire : i \in DOMAIN stream'.wire /\ stream'.wire[i] = stream.wire[i]
        /\ stream.wire # << >> \/ (\E j \in DOMAIN events : events[j].id # Before(stream.last, events, j).id)
              => stream'.wire # << >>
    BY <1>1, <2>2, DeliveredFrom
  <2>6. lost = {} /\ ~Delivered(stream.last, events).reused
    BY <1>6, <2>1 DEF LostBy
  <2>7. Unrecorded => Unrecorded'
    BY <2>5 DEF Unrecorded
  <2>8. (\A n \in Nat : Held(n) => Held(n)') /\ (LoadUnderWay' <=> LoadUnderWay)
    BY <1>6, <2>7, HeldStill
  <2>9. Watching
    BY <1>6, <2>8 DEF Watching, MayRead, Subscribed
  <2>10. Kept
    BY <2>6, <2>9 DEF Follow
  <2>11. Held(c)' \/ stream'.wire # << >>
    <3>1. CASE e.id # stream.last.id
      BY <2>1, <2>5, <3>1 DEF Before
    <3>2. CASE e.id = stream.last.id
      <4>1. \A j \in DOMAIN events : events[j].id = Before(stream.last, events, j).id
        BY <2>1, <3>2 DEF Before
      <4>2. c = stream.last.commit
        <5>1. \A j \in DOMAIN events : events[j].commit = stream.last.commit
          BY <1>1, <2>6, <4>1, SkippedEvents
        <5> QED
          BY <1>2, <2>1, <5>1
      <4>3. Held(c) \/ stream.wire # << >>
        BY <1>6, <2>10, <4>2 DEF Kept
      <4> QED
        BY <1>3, <2>5, <2>8, <4>3
    <3> QED
      BY <3>1, <3>2
  <2>12. \A d \in Commits : publication'[d].pc = "done" => Held(d)' \/ stream'.wire # << >>
    <3>1. ASSUME NEW d \in Commits, publication'[d].pc = "done" PROVE Held(d)' \/ stream'.wire # << >>
      <4>1. CASE d = c
        BY <2>11, <4>1
      <4>2. CASE d # c
        BY <1>3, <1>6, <2>5, <2>8, <2>10, <3>1, <4>2 DEF Kept
      <4> QED
        BY <4>1, <4>2
    <3> QED
      BY <3>1
  <2>13. Held(stream.last.commit)' \/ stream'.wire # << >>
    BY <1>2, <2>3, <2>11 DEF Held, Awaited
  <2>14. Held(page.cursor.commit)'
    <3>1. PICK n \in Nat : n = page.cursor.commit
      BY <1>3
    <3>2. Held(n)'
      BY <2>8, <2>10, <3>1 DEF Kept
    <3> QED
      BY <1>6, <3>1, <3>2 DEF Held, Awaited
  <2>15. \A d \in Commits : publication'[d].pc \in {"publish", "done"} => Held(d)' \/ NewsInLog'
    <3>1. NewsInLog' <=> NewsInLog
      BY <1>6 DEF NewsInLog
    <3> QED
      BY <1>3, <2>8, <2>10, <3>1 DEF Kept
  <2> QED
    BY <2>4, <2>12, <2>13, <2>14, <2>15 DEF Kept
<1>7. CASE /\ stream.phase \in {"reading", "read"}
           /\ stream' = [stream EXCEPT !.buffered = Newest(Append(stream.buffered, e), MaxPending)]
           /\ page' = page
           /\ lost' = IF Len(stream.buffered) = MaxPending THEN lost \cup {"dropped"} ELSE lost
  <2> SUFFICES ASSUME Watching', lost' = {} PROVE Kept'
    BY DEF Follow
  <2> DEFINE w == Append(stream.buffered, e)
  <2>1. lost = {} /\ Len(stream.buffered) # MaxPending
    BY <1>7
  <2>2. /\ w \in Seq(Events) /\ Len(w) = Len(stream.buffered) + 1
        /\ DOMAIN w = 1..(Len(stream.buffered) + 1)
        /\ DOMAIN stream.buffered = 1..Len(stream.buffered)
        /\ Len(stream.buffered) \in Nat
        /\ \A i \in 1..Len(stream.buffered) : w[i] = stream.buffered[i]
        /\ w[Len(stream.buffered) + 1] = e
    BY <1>1, <1>2, Appended
  <2>3. stream' = [stream EXCEPT !.buffered = Newest(w, MaxPending)]
    BY <1>7
  <2> HIDE DEF w
  <2>4. MaxPending \in Nat \ {0}
    BY BoundsAssumption
  <2>5. Len(stream.buffered) <= MaxPending
    <3>1. stream.buffered = << >> => Len(stream.buffered) = 0
      OBVIOUS
    <3> QED
      BY <2>4, <3>1 DEF StreamInv, Phases
  <2>6. Newest(w, MaxPending) = w
    <3>1. Len(w) <= MaxPending
      BY <2>1, <2>2, <2>4, <2>5
    <3> QED
      BY <2>2, <2>4, <3>1, NewestOf
  <2>7. /\ stream'.buffered = w /\ stream'.phase = stream.phase /\ stream'.wire = stream.wire
        /\ stream'.replay = stream.replay
    BY <1>1, <2>3, <2>6 DEF Streams
  <2>8. (\A n \in Nat : Held(n) => Held(n)') /\ (LoadUnderWay' <=> LoadUnderWay)
    <3>1. Unrecorded => Unrecorded'
      BY <2>7 DEF Unrecorded
    <3> QED
      BY <1>7, <3>1, HeldStill
  <2>9. Watching
    BY <1>7, <2>8 DEF Watching, MayRead, Subscribed
  <2>10. Kept
    BY <2>1, <2>9 DEF Follow
  <2>11. \A d \in Commits : publication'[d].pc \in {"publish", "done"} => Held(d)' \/ NewsInLog'
    <3>1. NewsInLog' <=> NewsInLog
      BY <1>7 DEF NewsInLog
    <3> QED
      BY <1>3, <2>8, <2>10, <3>1 DEF Kept
  <2>12. stream'.phase = "read" =>
           \A d \in Commits : publication'[d].pc = "done" =>
               \/ Held(d)' \/ stream'.replay # << >>
               \/ \E i \in DOMAIN stream'.buffered : stream'.buffered[i].commit = d
    <3> SUFFICES ASSUME stream'.phase = "read", NEW d \in Commits, publication'[d].pc = "done"
                 PROVE  \/ Held(d)' \/ stream'.replay # << >>
                        \/ \E i \in DOMAIN w : w[i].commit = d
      BY <2>7
    <3>1. CASE d = c
      <4>1. Len(stream.buffered) + 1 \in DOMAIN w /\ w[Len(stream.buffered) + 1].commit = c
        BY <1>2, <2>2
      <4> QED
        BY <3>1, <4>1
    <3>2. CASE d # c
      <4>1. \/ Held(d) \/ stream.replay # << >>
            \/ \E i \in DOMAIN stream.buffered : stream.buffered[i].commit = d
        BY <2>7, <2>10, <3>2 DEF Kept
      <4>2. \A i \in DOMAIN stream.buffered : i \in DOMAIN w /\ w[i] = stream.buffered[i]
        BY <2>2
      <4> QED
        BY <1>3, <2>7, <2>8, <4>1, <4>2
    <3> QED
      BY <3>1, <3>2
  <2>13. Held(page.cursor.commit)'
    <3>1. PICK n \in Nat : n = page.cursor.commit
      BY <1>3
    <3>2. Held(n)'
      BY <2>8, <2>10, <3>1 DEF Kept
    <3> QED
      BY <1>7, <3>1, <3>2 DEF Held, Awaited
  <2>14. stream'.phase # "live"
    BY <1>7, <2>7
  <2> QED
    BY <2>11, <2>12, <2>13, <2>14 DEF Kept
<1> QED
  BY <1>2, <1>4, <1>5, <1>6, <1>7, Arrivals

LEMMA FollowPublications ==
  ASSUME StreamInv, StreamInv', Follow, NEW c \in Commits, Publish(c) \/ PublishFails(c)
  PROVE  Follow'
<1>1. publication \in [Commits -> Publications] /\ publication[c].pc = "publish"
      /\ UNCHANGED <<access, redis, requests>>
  BY DEF StreamInv, StreamTypes, Publish, PublishFails
<1>2. \A d \in Commits : d # c => publication'[d] = publication[d]
  BY <1>1 DEF Publish, PublishFails
<1>3. \/ ReachPage(publication[c].event)
      \/ lost' # {}
      \/ UNCHANGED <<stream, page, lost>> /\ ~Subscribed
      \/ UNCHANGED <<stream, page, lost>> /\ publication' = [publication EXCEPT ![c].tries = publication[c].tries + 1]
  BY DEF Publish, PublishFails, MissedByPage, Miss
<1>4. CASE ReachPage(publication[c].event)
  BY <1>1, <1>2, <1>4, FollowArrivals
<1>5. CASE lost' # {}
  BY <1>5 DEF Follow
<1>6. CASE UNCHANGED <<stream, page, lost>> /\ ~Subscribed
  <2>1. (\A n \in Nat : Held(n) => Held(n)') /\ (LoadUnderWay' <=> LoadUnderWay)
    BY <1>1, <1>6, HeldStill DEF Unrecorded
  <2>2. Watching' => Watching
    BY <1>1, <1>6, <2>1 DEF Watching, MayRead, Subscribed
  <2>3. stream'.phase \in {"off", "ended"}
    BY <1>1, <1>6 DEF Subscribed, StreamInv, StreamTypes, Streams
  <2> QED
    BY <1>1, <1>2, <1>6, <2>1, <2>2, <2>3, FollowOn
<1>7. CASE UNCHANGED <<stream, page, lost>> /\ publication' = [publication EXCEPT ![c].tries = publication[c].tries + 1]
  <2>1. (\A n \in Nat : Held(n) => Held(n)') /\ (LoadUnderWay' <=> LoadUnderWay)
    BY <1>1, <1>7, HeldStill DEF Unrecorded
  <2>2. Watching' => Watching
    BY <1>1, <1>7, <2>1 DEF Watching, MayRead, Subscribed
  <2>3. publication'[c].pc = publication[c].pc
    BY <1>1, <1>7 DEF Publications
  <2> QED
    BY <1>1, <1>2, <1>7, <2>1, <2>2, <2>3, FollowOn
<1> QED
  BY <1>3, <1>4, <1>5, <1>6, <1>7

LEMMA FollowConnections ==
  ASSUME StreamInv, StreamInv', Follow, Connect \/ ConnectRefused \/ ConnectFails
  PROVE  Follow'
<1>1. page \in Pages /\ page.connection \in {"connecting", "reconnecting"}
      /\ UNCHANGED <<access, requests, lost, redis, publication>>
  BY DEF StreamInv, StreamTypes, Connect, ConnectRefused, ConnectFails, backend
<1>2. stream.phase = "off" /\ stream = NoStream
  BY <1>1 DEF StreamInv, Phases
<1>3. ~Unrecorded
  BY <1>2 DEF Unrecorded, NoStream
<1>4. PICK c \in {"closed", "reconnecting", "connected"} :
        \/ /\ Connect /\ page' = [page EXCEPT !.connection = c, !.attempts = 0]
        \/ /\ ConnectRefused /\ c = "closed" /\ page' = [page EXCEPT !.connection = c]
        \/ /\ ConnectFails /\ c # "connected" /\ page' = [page EXCEPT !.attempts = page.attempts + 1, !.connection = c]
  BY DEF Connect, ConnectRefused, ConnectFails, Broken
<1>5. PICK n \in Nat : n = page.attempts + 1
  BY <1>1 DEF Pages
<1>6. SamePage(page') /\ page'.connection = c
  <2>1. \/ page' = [page EXCEPT !.connection = c, !.attempts = 0]
        \/ page' = [page EXCEPT !.connection = c]
        \/ page' = [page EXCEPT !.attempts = n, !.connection = c]
    BY <1>4, <1>5
  <2> QED
    BY <1>1, <2>1 DEF Pages, SamePage
<1>7. (\A m \in Nat : Held(m) => Held(m)') /\ (LoadUnderWay' <=> LoadUnderWay)
  BY <1>1, <1>3, <1>6, HeldStill DEF SamePage
<1>8. Watching' => Watching
  <2>1. CASE Connect
    BY <1>1, <2>1 DEF Connect, Watching, Subscribed
  <2>2. CASE ConnectRefused \/ ConnectFails
    BY <1>1, <1>2, <2>2 DEF ConnectRefused, ConnectFails, Watching, MayRead, Subscribed
  <2> QED
    BY <1>4, <2>1, <2>2
<1>9. stream'.phase \in {"off", "reading"}
  BY <1>2 DEF Connect, ConnectRefused, ConnectFails, NoStream
<1> QED
  BY <1>1, <1>6, <1>7, <1>8, <1>9, FollowOn DEF SamePage

LEMMA FollowEndings ==
  ASSUME StreamInv, StreamInv', Follow,
         ConnectionDrops \/ StreamEnds \/ LifetimeEnds \/ ReauthorizationFails
  PROVE  Follow'
<1>1. UNCHANGED <<access, requests, redis, publication>>
  BY DEF ConnectionDrops, StreamEnds, LifetimeEnds, ReauthorizationFails, backend
<1>2. CASE Unrecorded /\ ConnectionDrops
  BY <1>2 DEF ConnectionDrops, Unrecorded, Follow
<1>3. CASE ~Unrecorded /\ (ConnectionDrops \/ StreamEnds)
  <2>1. EndStream /\ stream.phase # "off" /\ lost' = lost
    BY <1>3 DEF ConnectionDrops, StreamEnds, Unrecorded
  <2>2. SamePage(page') /\ stream' = NoStream
    BY <2>1, EndedStreams
  <2>3. (\A m \in Nat : Held(m) => Held(m)') /\ (LoadUnderWay' <=> LoadUnderWay)
    BY <1>1, <1>3, <2>2, HeldStill DEF SamePage
  <2>4. stream'.phase = "off" /\ page.connection = "connected"
    BY <2>1, <2>2 DEF NoStream, StreamInv, Phases
  <2>5. Watching' => Watching
    BY <1>1, <2>4 DEF Watching, MayRead, Subscribed
  <2> QED
    BY <1>1, <2>1, <2>2, <2>3, <2>4, <2>5, FollowOn DEF SamePage
<1>4. ~(Unrecorded /\ StreamEnds)
  BY DEF Unrecorded, StreamEnds
<1>5. CASE LifetimeEnds \/ ReauthorizationFails
  <2>1. ServerEnds /\ Subscribed /\ UNCHANGED <<page, lost>> /\ stream \in Streams
    BY <1>5 DEF LifetimeEnds, ReauthorizationFails, Subscribed, StreamInv, StreamTypes
  <2>2. stream'.phase = "ended" /\ stream'.wire = stream.wire
    BY <2>1 DEF ServerEnds, Streams
  <2>3. (\A m \in Nat : Held(m) => Held(m)') /\ (LoadUnderWay' <=> LoadUnderWay)
    BY <1>1, <2>1, <2>2, HeldStill DEF Unrecorded
  <2>4. Watching' => Watching
    BY <2>1 DEF Watching, Subscribed
  <2> QED
    BY <1>1, <2>1, <2>2, <2>3, <2>4, FollowOn
<1> QED
  BY <1>2, <1>3, <1>4, <1>5

LEMMA FollowStart ==
  ASSUME StreamInv, StreamInv', Follow, StartReplay
  PROVE  Follow'
<1> SUFFICES ASSUME Watching', lost' = {} PROVE Kept'
  BY DEF Follow
<1>1. stream \in Streams /\ stream.phase = "reading" /\ stream.last = page.cursor /\ stream.last \in Events
      /\ UNCHANGED <<access, requests, redis, publication, page>>
  BY DEF StreamInv, StreamTypes, Phases, Streams, StartReplay, backend
<1> DEFINE r == ReadReplay(stream.last)
<1>2. stream' = [stream EXCEPT !.phase = "read", !.replay = r]
  BY DEF StartReplay
<1>3. /\ r = << >> => redis.log = << >> \/ Last(redis.log).id = stream.last.id
      /\ \A i \in DOMAIN redis.log : redis.log[i].id # NoId
  BY <1>1, Replays
<1> HIDE DEF r
<1>4. stream'.phase = "read" /\ stream'.replay = r /\ stream'.wire = stream.wire
  BY <1>1, <1>2 DEF Streams
<1>5. lost = {} /\ ~(stream.last.id # NoId /\ CursorReused(stream.last))
  BY DEF StartReplay
<1>6. (\A m \in Nat : Held(m) => Held(m)') /\ (LoadUnderWay' <=> LoadUnderWay)
  BY <1>1, <1>4, HeldStill DEF Unrecorded
<1>7. Watching
  BY <1>1, <1>6 DEF Watching, MayRead, Subscribed
<1>8. Kept
  BY <1>5, <1>7 DEF Follow
<1>9. (\A d \in Commits : d \in Nat) /\ page.cursor.commit \in Nat
  BY NamedCommits DEF CommitsExist
<1>10. NewsInLog => r # << >>
  <2> SUFFICES ASSUME NewsInLog, r = << >> PROVE FALSE
    OBVIOUS
  <2>1. redis.log # << >> /\ Last(redis.log).id = stream.last.id /\ Last(redis.log).commit # stream.last.commit
    BY <1>1, <1>3 DEF NewsInLog
  <2>2. Len(redis.log) \in DOMAIN redis.log /\ Last(redis.log) = redis.log[Len(redis.log)]
    <3>1. redis.log \in Seq(Events)
      BY DEF StreamInv, StreamTypes
    <3> QED
      BY <2>1, <3>1, LenProperties, EmptySeq DEF Last
  <2>3. CursorReused(stream.last) /\ stream.last.id # NoId
    BY <1>3, <2>1, <2>2 DEF CursorReused
  <2> QED
    BY <1>5, <2>3
<1>11. \A d \in Commits : publication'[d].pc \in {"publish", "done"} => Held(d)' \/ (NewsInLog' /\ r # << >>)
  <2>1. NewsInLog' <=> NewsInLog
    BY <1>1 DEF NewsInLog
  <2> QED
    BY <1>1, <1>6, <1>8, <1>9, <1>10, <2>1 DEF Kept
<1>12. Held(page.cursor.commit)'
  <2>1. PICK n \in Nat : n = page.cursor.commit
    BY <1>9
  <2>2. Held(n)'
    BY <1>6, <1>8, <2>1 DEF Kept
  <2> QED
    BY <1>1, <2>1, <2>2 DEF Held, Awaited
<1> QED
  BY <1>4, <1>11, <1>12 DEF Kept

LEMMA FollowReplayed ==
  ASSUME StreamInv, StreamInv', Follow, FinishReplay \/ ReplayFails
  PROVE  Follow'
<1> SUFFICES ASSUME Watching', lost' = {} PROVE Kept'
  BY DEF Follow
<1> DEFINE events == stream.replay \o stream.buffered
<1>1. /\ stream \in Streams /\ stream.phase = "read" /\ stream.last = page.cursor /\ stream.last \in Events
      /\ UNCHANGED <<access, requests, redis, publication, page>>
      /\ stream' = [Deliver(stream, events) EXCEPT !.phase = "live", !.replay = << >>, !.buffered = << >>]
      /\ lost' = LostBy(stream, events)
  BY DEF StreamInv, StreamTypes, Phases, Streams, FinishReplay, ReplayFails, backend
<1>2. stream.replay \in Seq(Events) /\ stream.buffered \in Seq(Events)
  BY <1>1 DEF Streams
<1>3. /\ events \in Seq(Events)
      /\ Len(events) = Len(stream.replay) + Len(stream.buffered)
      /\ \A i \in 1..(Len(stream.replay) + Len(stream.buffered)) :
            events[i] = IF i <= Len(stream.replay) THEN stream.replay[i] ELSE stream.buffered[i - Len(stream.replay)]
  BY <1>2, ConcatProperties
<1> HIDE DEF events
<1>4. PICK a, b \in Nat : /\ a = Len(stream.replay) /\ b = Len(stream.buffered)
                          /\ DOMAIN stream.replay = 1..a /\ DOMAIN stream.buffered = 1..b
                          /\ DOMAIN events = 1..(a + b) /\ Len(events) = a + b
  BY <1>2, <1>3, LenProperties
<1>41. a \in Nat /\ b \in Nat
  OBVIOUS
<1>5. \A i \in 1..(a + b) : events[i] = IF i <= a THEN stream.replay[i] ELSE stream.buffered[i - a]
  BY <1>3, <1>4
<1>6. stream.replay # << >> => a # 0
  BY <1>2, <1>4, EmptySeq
<1>7. stream.replay # << >> => 1 \in DOMAIN events /\ events[1].id # stream.last.id
  <2> SUFFICES ASSUME stream.replay # << >> PROVE 1 \in DOMAIN events /\ events[1].id # stream.last.id
    OBVIOUS
  <2>1. 1 \in 1..(a + b) /\ 1 <= a
    BY <1>41, <1>6
  <2>2. events[1] = stream.replay[1]
    BY <1>5, <2>1
  <2> QED
    BY <1>4, <2>1, <2>2 DEF StreamInv, Phases
<1>8. \A i \in DOMAIN stream.buffered : \E j \in DOMAIN events : events[j] = stream.buffered[i]
  <2> SUFFICES ASSUME NEW i \in 1..b PROVE \E j \in DOMAIN events : events[j] = stream.buffered[i]
    BY <1>4
  <2>1. a + i \in 1..(a + b) /\ ~(a + i <= a) /\ (a + i) - a = i
    BY <1>41
  <2>2. events[a + i] = stream.buffered[i]
    BY <1>5, <2>1
  <2> QED
    BY <1>4, <2>1, <2>2
<1>9. PICK d : d = Deliver(stream, events)
  OBVIOUS
<1>10. /\ d \in Streams
       /\ d.last = IF events = << >> THEN stream.last ELSE events[Len(events)]
  BY <1>1, <1>3, <1>9, Deliveries
<1>11. /\ \A i \in DOMAIN stream.wire : i \in DOMAIN d.wire /\ d.wire[i] = stream.wire[i]
       /\ stream.wire # << >> \/ (\E j \in DOMAIN events : events[j].id # Before(stream.last, events, j).id)
             => d.wire # << >>
  BY <1>1, <1>3, <1>9, DeliveredFrom
<1>12. stream'.phase = "live" /\ stream'.wire = d.wire /\ stream'.last = d.last
  <2>1. stream' = [d EXCEPT !.phase = "live", !.replay = << >>, !.buffered = << >>] /\ << >> \in Seq(Events)
    BY <1>1, <1>9
  <2> QED
    BY <1>10, <2>1 DEF Streams
<1>13. lost = {} /\ ~Delivered(stream.last, events).reused
  BY <1>1 DEF LostBy
<1>14. (\A n \in Nat : Held(n) => Held(n)') /\ (LoadUnderWay' <=> LoadUnderWay)
  <2>1. Unrecorded => Unrecorded'
    BY <1>11, <1>12 DEF Unrecorded
  <2> QED
    BY <1>1, <2>1, HeldStill
<1>15. Watching
  BY <1>1, <1>14 DEF Watching, MayRead, Subscribed
<1>16. Kept
  BY <1>13, <1>15 DEF Follow
<1>17. (\A c \in Commits : c \in Nat) /\ page.cursor.commit \in Nat
  BY NamedCommits DEF CommitsExist
<1>18. PICK n \in Nat : n = page.cursor.commit /\ Held(n)'
  BY <1>14, <1>16, <1>17 DEF Kept
<1>19. stream'.wire # << >> \/ \A j \in DOMAIN events : events[j].commit = n
  <2>1. CASE \E j \in DOMAIN events : events[j].id # Before(stream.last, events, j).id
    BY <1>11, <1>12, <2>1
  <2>2. CASE \A j \in DOMAIN events : events[j].id = Before(stream.last, events, j).id
    <3>1. \A j \in DOMAIN events : events[j].commit = stream.last.commit
      BY <1>1, <1>3, <1>13, <2>2, SkippedEvents
    <3> QED
      BY <1>1, <1>18, <3>1
  <2> QED
    BY <2>1, <2>2
<1>20. stream.replay # << >> => stream'.wire # << >>
  BY <1>7, <1>11, <1>12 DEF Before
<1>21. \A c \in Commits : publication'[c].pc = "done" => Held(c)' \/ stream'.wire # << >>
  <2> SUFFICES ASSUME NEW c \in Commits, publication[c].pc = "done", stream'.wire = << >> PROVE Held(c)'
    BY <1>1
  <2>1. Held(c) \/ \E i \in DOMAIN stream.buffered : stream.buffered[i].commit = c
    BY <1>1, <1>16, <1>20 DEF Kept
  <2>2. CASE Held(c)
    BY <1>14, <1>17, <2>2
  <2>3. CASE \E i \in DOMAIN stream.buffered : stream.buffered[i].commit = c
    <3>1. c = n
      BY <1>8, <1>19, <2>3
    <3> QED
      BY <1>18, <3>1
  <2> QED
    BY <2>1, <2>2, <2>3
<1>22. Held(stream.last.commit)' \/ stream'.wire # << >>
  <2>1. CASE events = << >>
    <3>1. stream'.last.commit = n
      BY <1>1, <1>10, <1>12, <1>18, <2>1
    <3> QED
      BY <1>18, <3>1 DEF Held, Awaited
  <2>2. CASE events # << >>
    <3>1. Len(events) \in DOMAIN events
      <4>1. events \in Seq(Events)
        BY <1>3
      <4> QED
        BY <2>2, <4>1, LenProperties, EmptySeq
    <3>2. stream'.wire # << >> \/ stream'.last.commit = n
      BY <1>10, <1>12, <1>19, <2>2, <3>1
    <3> QED
      BY <1>18, <3>2 DEF Held, Awaited
  <2> QED
    BY <2>1, <2>2
<1>23. Held(page.cursor.commit)'
  BY <1>1, <1>18 DEF Held, Awaited
<1>24. \A c \in Commits : publication'[c].pc \in {"publish", "done"} => Held(c)' \/ NewsInLog'
  <2>1. NewsInLog' <=> NewsInLog
    BY <1>1 DEF NewsInLog
  <2> QED
    BY <1>1, <1>14, <1>16, <1>17, <2>1 DEF Kept
<1> QED
  BY <1>12, <1>21, <1>22, <1>23, <1>24 DEF Kept

\* Events and requests make the page read again.
LEMMA FollowReadings ==
  ASSUME StreamInv, StreamInv', Follow, HandleEvent \/ RefreshResults \/ RetryFinalResults \/ Load
  PROVE  Follow'
<1>1. poll' = poll /\ requests \in Seq(Requests) /\ page \in Pages
  BY DEF StreamInv, StreamTypes, HandleEvent, RefreshResults, RetryFinalResults, Load, backend
<1>2. CASE page'.timer
  BY <1>2, AllHeld
<1>3. CASE \E kind \in {"load", "refresh", "final"}, p \in Pages :
             /\ requests' = Append(requests, Request(kind, p))
             /\ p.load = page'.load /\ p.revision = page'.revision
  <2>1. PICK kind \in {"load", "refresh", "final"}, p \in Pages :
             /\ requests' = Append(requests, Request(kind, p))
             /\ p.load = page'.load /\ p.revision = page'.revision
    BY <1>3
  <2> DEFINE r == Request(kind, p)
  <2>2. r \in Requests /\ Valid(r, page') /\ r.since = poll'.commits /\ requests' = Append(requests, r)
    BY <1>1, <2>1, RequestMade DEF Valid, Current
  <2> HIDE DEF r
  <2>3. DOMAIN requests' = 1..(Len(requests) + 1) /\ requests'[Len(requests) + 1] = r /\ Len(requests) \in Nat
    BY <1>1, <2>2, Appended
  <2>4. \E i \in DOMAIN requests' : Valid(requests'[i], page') /\ requests'[i].since = poll'.commits
    BY <2>2, <2>3
  <2> QED
    BY <2>4, AllHeld
<1>4. page' \in Pages
  BY DEF StreamInv, StreamTypes
<1>5. CASE HandleEvent
  <2>1. page'.timer \/ requests' = Append(requests, Request("final", page'))
    BY <1>5, EventTaken
  <2> QED
    BY <1>2, <1>3, <1>4, <2>1
<1>6. CASE RefreshResults
  <2>1. /\ requests' = Append(requests, Request("refresh", page))
        /\ page' = [page EXCEPT !.timer = FALSE]
    BY <1>6 DEF RefreshResults
  <2>2. page.load = page'.load /\ page.revision = page'.revision
    BY <1>1, <2>1 DEF Pages
  <2> QED
    BY <1>1, <1>3, <2>1, <2>2
<1>7. CASE RetryFinalResults
  <2>1. /\ requests' = Append(requests, Request("final", page))
        /\ page' = [page EXCEPT !.final = "pending"]
    BY <1>7 DEF RetryFinalResults
  <2>2. page.load = page'.load /\ page.revision = page'.revision
    BY <1>1, <2>1 DEF Pages
  <2> QED
    BY <1>1, <1>3, <2>1, <2>2
<1>8. CASE Load
  <2>1. requests' = Append(requests, Request("load", page'))
    BY <1>8 DEF Load
  <2> QED
    BY <1>3, <1>4, <2>1
<1> QED
  BY <1>5, <1>6, <1>7, <1>8

\* The requests that stay are still waited for.
LEMMA HeldWithout ==
  ASSUME StreamInv, StreamInv', NEW i \in DOMAIN requests, requests' = Remaining(i),
         page'.load = page.load, page'.revision = page.revision, page.shown <= page'.shown,
         page'.timer = page.timer, stream' = stream,
         Valid(requests[i], page) => requests[i].since <= page'.shown
  PROVE  (\A c \in Nat : Held(c) => Held(c)') /\ (LoadUnderWay' => LoadUnderWay)
<1>1. \A r : (Current(r, page') <=> Current(r, page)) /\ (Valid(r, page') <=> Valid(r, page))
  BY DEF Current, Valid
<1>2. requests \in Seq(Requests) /\ page.shown \in Nat /\ \A k \in DOMAIN requests : requests[k].since \in Nat
  BY RequestTypes
<1>3. page'.shown \in Nat
  BY DEF StreamInv, StreamTypes, Pages
<1>4. /\ \A j \in DOMAIN requests' : \E k \in DOMAIN requests : requests'[j] = requests[k]
      /\ \A k \in DOMAIN requests : k # i => \E j \in DOMAIN requests' : requests'[j] = requests[k]
  BY <1>2, RemovedFrom DEF Remaining
<1>5. Unrecorded => Unrecorded'
  BY DEF Unrecorded
<1>6. \A k \in DOMAIN requests : Valid(requests[k], page) =>
        \/ requests[k].since <= page'.shown
        \/ \E j \in DOMAIN requests' : Valid(requests'[j], page') /\ requests'[j].since = requests[k].since
  BY <1>1, <1>4
<1>7. \A c \in Nat : Held(c) => Held(c)'
  BY <1>2, <1>3, <1>5, <1>6, HeldOn
<1>8. LoadUnderWay' => LoadUnderWay
  BY <1>1, <1>4 DEF LoadUnderWay
<1> QED
  BY <1>7, <1>8

LEMMA FollowAnswers ==
  ASSUME StreamInv, StreamInv', Follow, NEW i \in DOMAIN requests,
         LoadAnswered(i) \/ RefreshAnswered(i) \/ AnswerDropped(i)
  PROVE  Follow'
<1>1. /\ UNCHANGED <<access, stream, redis, publication, poll>> /\ requests' = Remaining(i) /\ page \in Pages
  BY DEF StreamInv, StreamTypes, LoadAnswered, RefreshAnswered, AnswerDropped, backend
<1>2. CASE LoadAnswered(i)
  <2>1. requests[i].kind = "load" /\ Current(requests[i], page) /\ MayRead /\ lost' = lost
    BY <1>2 DEF LoadAnswered, IsLoadCurrent, Current
  <2>2. page = Loading(page.load, page.revision) /\ stream.phase = "off"
        /\ \A k \in DOMAIN requests : k # i => ~Current(requests[k], page)
    BY <2>1, AnsweredAlone DEF StreamInv, RequestsInOrder
  <2>3. page.shown = 0
    BY <2>2 DEF Loading
  <2>4. PICK commits \in Answers(requests[i]), c \in {page.connection, "connecting"} :
           page' = [page EXCEPT !.shown = commits, !.connection = c]
    BY <1>2 DEF LoadAnswered
  <2>5. commits \in Nat /\ requests[i].since <= commits
    BY Answered
  <2>6. /\ page'.load = page.load /\ page'.revision = page.revision /\ page'.shown = commits
        /\ page'.cursor = page.cursor /\ page'.timer = page.timer /\ page.shown <= page'.shown
    BY <1>1, <2>3, <2>4, <2>5 DEF Pages
  <2>7. (\A n \in Nat : Held(n) => Held(n)') /\ (LoadUnderWay' => LoadUnderWay)
    BY <1>1, <2>5, <2>6, HeldWithout
  <2>8. Watching
    BY <2>1 DEF Watching, LoadUnderWay, Subscribed
  <2> QED
    BY <1>1, <2>1, <2>2, <2>6, <2>7, <2>8, FollowOn
<1>3. CASE RefreshAnswered(i)
  <2>1. Valid(requests[i], page)
    BY <1>3 DEF RefreshAnswered, IsLoadCurrent, Current, Valid
  <2>2. PICK commits \in Answers(requests[i]) :
           page' = [page EXCEPT !.shown = commits] /\ lost' = LostAfterShowing(commits)
    BY <1>3 DEF RefreshAnswered
  <2>3. commits \in Nat /\ requests[i].since <= commits /\ page.shown \in Nat
    BY Answered, RequestTypes
  <2>4. /\ page'.load = page.load /\ page'.revision = page.revision /\ page'.shown = commits
        /\ page'.cursor = page.cursor /\ page'.timer = page.timer /\ page'.connection = page.connection
    BY <1>1, <2>2, <2>3 DEF Pages
  <2>5. CASE commits = poll.commits
    BY <1>1, <2>4, <2>5, AllHeld
  <2>6. CASE commits # poll.commits /\ commits < page.shown
    BY <2>2, <2>6 DEF LostAfterShowing, Follow
  <2>7. CASE commits # poll.commits /\ ~(commits < page.shown)
    <3>1. lost' = lost
      BY <2>2, <2>7 DEF LostAfterShowing
    <3>2. page.shown <= page'.shown
      BY <2>3, <2>4, <2>7
    <3>3. (\A n \in Nat : Held(n) => Held(n)') /\ (LoadUnderWay' => LoadUnderWay)
      BY <1>1, <2>3, <2>4, <3>2, HeldWithout
    <3>4. Watching' => Watching
      BY <1>1, <2>4, <3>3 DEF Watching, MayRead, Subscribed
    <3> QED
      BY <1>1, <2>4, <3>1, <3>3, <3>4, FollowOn
  <2> QED
    BY <2>5, <2>6, <2>7
<1>4. CASE AnswerDropped(i)
  <2>1. UNCHANGED <<page, lost>> /\ ~Valid(requests[i], page)
    BY <1>4 DEF AnswerDropped, IsLoadCurrent, Current, Valid
  <2>2. page.shown <= page'.shown
    BY <2>1, RequestTypes
  <2>3. (\A n \in Nat : Held(n) => Held(n)') /\ (LoadUnderWay' => LoadUnderWay)
    BY <1>1, <2>1, <2>2, HeldWithout
  <2>4. Watching' => Watching
    BY <1>1, <2>1, <2>3 DEF Watching, MayRead, Subscribed
  <2> QED
    BY <1>1, <2>1, <2>3, <2>4, FollowOn
<1> QED
  BY <1>2, <1>3, <1>4

\* A page with final results closes its stream; a failed request is a reason to
\* miss a commit.
LEMMA FollowOutcomes ==
  ASSUME StreamInv, StreamInv', Follow, NEW i \in DOMAIN requests, FinalAnswered(i) \/ RequestFails(i)
  PROVE  Follow'
<1>1. CASE RequestFails(i)
  BY <1>1 DEF RequestFails, Follow
<1>2. CASE FinalAnswered(i)
  <2>1. requests[i].kind = "final" /\ Current(requests[i], page) /\ requests' = Remaining(i) /\ page \in Pages
        /\ requests \in Seq(Requests)
    BY <1>2 DEF StreamInv, StreamTypes, FinalAnswered, IsLoadCurrent, Current
  <2>2. PICK commits \in Answers(requests[i]) :
           page' = CloseResultsEvents([page EXCEPT !.shown = commits, !.final = "complete"])
    BY <1>2 DEF FinalAnswered
  <2>3. commits \in Nat
    BY Answered
  <2>4. PICK p : p = [page EXCEPT !.shown = commits, !.final = "complete"]
    OBVIOUS
  <2>5. p \in Pages /\ p.load = page.load
    BY <2>1, <2>3, <2>4 DEF Pages
  <2>6. page' = [p EXCEPT !.timer = FALSE, !.connection = "none"]
    BY <2>2, <2>4 DEF CloseResultsEvents
  <2>7. page'.load = page.load /\ page'.connection = "none"
    BY <2>5, <2>6 DEF Pages
  <2>8. \A k \in DOMAIN requests : Current(requests[k], page) => requests[k].kind # "load"
    BY <2>1, AnsweredAlone
  <2>9. \A j \in DOMAIN requests' : \E k \in DOMAIN requests : requests'[j] = requests[k]
    BY <2>1, RemovedFrom DEF Remaining
  <2>10. ~LoadUnderWay'
    BY <2>7, <2>8, <2>9 DEF LoadUnderWay, Current
  <2>11. ~Subscribed'
    BY <1>2 DEF FinalAnswered, NoStream, Subscribed
  <2> QED
    BY <2>7, <2>10, <2>11 DEF Follow, Watching
<1> QED
  BY <1>1, <1>2

\* The keys expire unnoticed only when their newest event was seen.
LEMMA FollowExpiry ==
  ASSUME StreamInv, StreamInv', Follow, ReplayExpires
  PROVE  Follow'
<1> SUFFICES ASSUME Watching', lost' = {} PROVE Kept'
  BY DEF Follow
<1>1. UNCHANGED <<access, publication, stream, page, requests>> /\ lost = {} /\ Last(redis.log) = page.cursor
  BY DEF ReplayExpires
<1>2. (\A n \in Nat : Held(n) => Held(n)') /\ (LoadUnderWay' <=> LoadUnderWay)
  BY <1>1, HeldStill DEF Unrecorded
<1>3. Watching
  BY <1>1, <1>2 DEF Watching, MayRead, Subscribed
<1>4. Kept
  BY <1>1, <1>3 DEF Follow
<1>5. /\ \A c \in Commits : c \in Nat
      /\ page.cursor.commit \in Nat
      /\ stream.last.commit \in Nat
  BY NamedCommits DEF CommitsExist
<1>6. ~NewsInLog
  BY <1>1 DEF NewsInLog
<1>7. \A c \in Commits : publication'[c].pc \in {"publish", "done"} => Held(c)'
  BY <1>1, <1>2, <1>4, <1>5, <1>6 DEF Kept
<1>8. Held(page.cursor.commit)'
  <2>1. PICK n \in Nat : n = page.cursor.commit /\ Held(n)'
    BY <1>2, <1>4, <1>5 DEF Kept
  <2> QED
    BY <1>1, <2>1 DEF Held, Awaited
<1>9. stream'.phase = "live" => Held(stream.last.commit)' \/ stream'.wire # << >>
  <2>1. PICK n \in Nat : n = stream.last.commit
    BY <1>5
  <2>2. stream'.phase = "live" => Held(n)' \/ stream'.wire # << >>
    BY <1>1, <1>2, <1>4, <2>1 DEF Kept
  <2> QED
    BY <1>1, <2>1, <2>2 DEF Held, Awaited
<1> QED
  BY <1>7, <1>8, <1>9 DEF Kept

LEMMA FollowStep ==
  ASSUME StreamInv, StreamInv', Follow, [Next]_vars
  PROVE  Follow'
<1>1. CASE UNCHANGED vars
  <2>1. UNCHANGED <<access, publication, redis, requests, stream, page, lost>>
    BY <1>1 DEF vars
  <2>2. (\A n \in Nat : Held(n) => Held(n)') /\ (LoadUnderWay' <=> LoadUnderWay)
    BY <2>1, HeldStill DEF Unrecorded
  <2>3. Watching' => Watching
    BY <2>1, <2>2 DEF Watching, MayRead, Subscribed
  <2> QED
    BY <2>1, <2>2, <2>3, FollowOn
<1>2. CASE PublicationStep
  <2>1. PICK c \in Commits : ShouldPublishUpdate(c) \/ Record(c) \/ RecordFails(c) \/ Publish(c) \/ PublishFails(c)
    BY <1>2 DEF PublicationStep
  <2> QED
    BY <2>1, FollowBatches, FollowRecords, FollowPublications
<1>3. CASE StreamStep
  BY <1>3, FollowConnections, FollowEndings, FollowStart, FollowReplayed DEF StreamStep
<1>4. CASE PageStep
  <2>1. CASE HandleEvent \/ RefreshResults
    BY <2>1, FollowReadings
  <2>2. CASE \E i \in DOMAIN requests : \/ LoadAnswered(i) \/ RefreshAnswered(i)
                                        \/ FinalAnswered(i) \/ AnswerDropped(i) \/ RequestFails(i)
    BY <2>2, FollowAnswers, FollowOutcomes
  <2> QED
    BY <1>4, <2>1, <2>2 DEF PageStep
<1>5. CASE Environment
  <2>1. CASE \E c \in Commits : PublicationDies(c)
    BY <2>1, FollowBatches
  <2>2. CASE SubmitResponse \/ ClosePoll \/ ReopenPoll \/ EndSession \/ HideResults
    BY <2>2, FollowCommits
  <2>3. CASE ReplayExpires
    BY <2>3, FollowExpiry
  <2>4. CASE ConnectFails \/ ConnectionDrops \/ ReplayFails
    BY <2>4, FollowConnections, FollowEndings, FollowReplayed
  <2>5. CASE RetryFinalResults \/ Load
    BY <2>5, FollowReadings
  <2> QED
    BY <1>5, <2>1, <2>2, <2>3, <2>4, <2>5 DEF Environment
<1> QED
  BY <1>1, <1>2, <1>3, <1>4, <1>5 DEF Next

LEMMA InitFollow == Init => Follow
<1> SUFFICES ASSUME Init PROVE Kept
  BY DEF Follow
<1>1. page.shown = 0 /\ page.cursor.commit = 0 /\ stream.phase = "off"
  BY DEF Init, Loading, NoStream
<1>2. \A c \in Commits : publication[c].pc = "none"
  BY DEF Init, NoPublication
<1>3. Held(page.cursor.commit)
  BY <1>1 DEF Held
<1> QED
  BY <1>1, <1>2, <1>3 DEF Kept

\* While no reason to miss a commit was recorded, a page that watches holds every
\* commit that was published, or something on its way to it makes it read again.
THEOREM FollowAlways == Spec => []Follow
<1>1. StreamInv /\ StreamInv' /\ Follow /\ [Next]_vars => Follow'
  BY FollowStep
<1> QED
  BY <1>1, InitFollow, StreamInvariant, PTL DEF Spec

\* A page with a live stream and nothing under way shows every commit, or `lost'
\* says why not: subscribing before the replay is read, buffering what arrives
\* meanwhile and going on from the last event the page handled leave no gap.
THEOREM QuietPagesFollow == Spec => []QuietPagesAreCurrent
<1>1. StreamInv /\ Follow => QuietPagesAreCurrent
  <2> SUFFICES ASSUME StreamInv, Follow, stream.phase = "live", NothingUnderWay, lost = {}
               PROVE  page.shown = poll.commits
    BY DEF QuietPagesAreCurrent
  <2>1. Watching
    BY DEF StreamInv, Phases, Watching, Subscribed
  <2>2. Kept
    BY <2>1 DEF Follow
  <2>3. stream.wire = << >> /\ ~page.timer /\ requests = << >>
        /\ \A c \in Commits : publication[c].pc \in {"none", "done"}
    BY DEF NothingUnderWay
  <2>4. ~Unrecorded /\ \A c : ~Awaited(c)
    BY <2>3 DEF Unrecorded, Awaited
  <2>5. page.shown \in Nat /\ page.shown <= poll.commits /\ poll.commits \in 0..MaxCommits /\ MaxCommits \in Nat
    BY RequestTypes, BoundsAssumption DEF StreamInv, RequestsInOrder, StreamTypes
  <2>6. CASE poll.commits = 0
    BY <2>5, <2>6
  <2>7. CASE poll.commits # 0
    <3>1. poll.commits \in Commits
      BY <2>5, <2>7 DEF Commits
    <3>2. publication[poll.commits].pc = "done"
      BY <2>3, <2>5, <3>1 DEF StreamInv, Announced
    <3>3. Held(poll.commits)
      BY <2>2, <2>3, <3>1, <3>2 DEF Kept
    <3>4. poll.commits <= page.shown
      BY <2>3, <2>4, <3>3 DEF Held
    <3> QED
      BY <2>5, <3>4
  <2> QED
    BY <2>6, <2>7
<1> QED
  BY <1>1, FollowAlways, StreamInvariant, PTL
=============================================================================
