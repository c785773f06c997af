-------------------------- MODULE BuilderPageProofs --------------------------
(***************************************************************************)
(* Proofs about BuilderPage for every set of polls, texts and items and    *)
(* every bound: no save overwrites what the administrator did not see, the *)
(* lists on the page are those of the poll shown, and no button stays      *)
(* disabled.                                                               *)
(***************************************************************************)
EXTENDS BuilderPage, FiniteSetTheorems, SequenceTheorems, NaturalsInduction, TLAPS

ShownLists == Lists \cup {"results"}
Requests == ShownLists \cup {"get", "post", "put", "status", "delete", "change", "upload",
                             "removal"}
Ops == {"select", "save", "status", "delete", "list", "enroll", "slate", "image"}
ImageRests == {<<"post", "upload", "put">>, <<"upload", "put">>, <<"put">>, <<"removal">>}

PollIds == Polls \cup {None}
Pairs == PollIds \X (Items \cup {"results"})
Answers == PollRecords \cup (SUBSET Pairs) \cup {None, Refused, "done"}

TaskRecords ==
    [n : Nat, op : Ops, rest : Seq(Requests),
     what : {None, "published", "closed"} \cup Changes, poll : PollIds, gen : Nat,
     draft : PollRecords, base : PollRecords \cup {None}, reply : Answers]

-----------------------------------------------------------------------------
(* What the page may rely on                                               *)

\* A version names one poll in one state, its image apart; an image stored is that of
\* a poll stored.
StoreTypes ==
    /\ clock \in Nat
    /\ server \in [Polls -> PollRecords \cup {None, Gone}]
    /\ imageOf # None => imageOf \in Polls /\ Exists(imageOf)
    /\ lists \in [Lists -> [Polls -> SUBSET Items]]
    /\ \A p \in Polls : Exists(p) =>
          server[p].id = p /\ 1 <= server[p].version /\ server[p].version <= clock
    /\ \A p, q \in Polls :
          Exists(p) /\ Exists(q) /\ server[p].version = server[q].version => p = q

PageTypes ==
    /\ draft \in PollRecords
    /\ authoritative \in PollRecords \cup {None}
    /\ shown \in [ShownLists -> SUBSET Pairs]
    /\ generation \in Nat
    /\ ops \in Nat

Agree(a, b) == a.id = b.id /\ a.text = b.text /\ a.uses = b.uses /\ a.status = b.status

\* A poll that is still stored in the version of the draft is what the page was told.
Known(d, b) ==
    /\ d.version <= clock
    /\ \A p \in Polls : Exists(p) /\ server[p].version = d.version
                            => b # None /\ Agree(server[p], b)

AnswerFits(t) ==
    /\ Head(t.rest) \in {"get", "post", "put", "status"} =>
          t.reply \in PollRecords /\ t.reply.id \in Polls /\ Known(t.reply, t.reply)
    /\ Head(t.rest) \in ShownLists \cup {"change"} =>
          t.reply \in SUBSET Pairs /\ \A pair \in t.reply : pair[1] = t.poll

TaskOK(t) ==
    /\ t \in TaskRecords /\ t.rest # <<>>
    /\ Known(t.draft, t.base)
    /\ Head(t.rest) # "post" => t.poll \in Polls
    /\ t.op = "image" => t.rest \in ImageRests
    /\ Head(t.rest) = "change" => t.what \in Changes
    /\ t.op \in {"select", "save", "status", "list"} => Tail(t.rest) \in Seq(ShownLists)
    /\ t.reply \notin {None, Refused} => AnswerFits(t)

IInv ==
    /\ StoreTypes /\ PageTypes
    /\ Known(draft, authoritative)
    /\ \A t \in tasks : TaskOK(t)
    /\ NoBlindOverwrite

\* What a step may add to the lists.
OnlyOwn ==
    \A list \in DOMAIN shown : \A pair \in shown'[list] \ shown[list] : pair[1] = draft'.id

\* What a step may leave disabled.
ButtonsKept ==
    \A flag \in {"saving", "uploading"} :
        IsReleased(flag) => IsReleased(flag)' \/ (flag = "saving" /\ NewDuringSelection)

-----------------------------------------------------------------------------
(* The initial states                                                      *)

\* The draft of a new poll.
LEMMA BlankPollType == BlankPoll \in PollRecords /\ BlankPoll.version = 0 /\ BlankPoll.id = None
BY DEF BlankPoll, PollRecords, PollIds

\* Stored polls have distinct versions.
LEMMA Versions ==
  /\ UpdatedAt \in [Stored -> 1..Cardinality(Stored)]
  /\ \A p, q \in Stored : p # q => UpdatedAt[p] # UpdatedAt[q]
  /\ Cardinality(Stored) \in Nat
<1> DEFINE n == Cardinality(Stored)
<1>1. n \in Nat /\ ExistsBijection(1..n, Stored)
  BY StoredAssumption, FS_CardinalityType
<1>2. PICK f \in [1..n -> Stored] : \A p \in Stored : \E i \in 1..n : f[i] = p
  BY <1>1 DEF ExistsBijection, Bijection, Surjection
<1> DEFINE at == [p \in Stored |-> CHOOSE i \in 1..n : f[i] = p]
<1>3. \A p \in Stored : at[p] \in 1..n /\ f[at[p]] = p
  BY <1>2
<1>4. at \in [Stored -> 1..n] /\ \A p, q \in Stored : p # q => at[p] # at[q]
  BY <1>3
<1> QED
  BY <1>1, <1>4 DEF UpdatedAt

LEMMA InitIInv == Init => IInv
<1> SUFFICES ASSUME Init PROVE IInv
  OBVIOUS
<1>1. \A p \in Polls : p \in Stored =>
         /\ server[p] \in PollRecords /\ server[p].id = p /\ server[p].version = UpdatedAt[p]
         /\ UpdatedAt[p] \in 1..Cardinality(Stored)
  <2> SUFFICES ASSUME NEW p \in Polls, p \in Stored
               PROVE  /\ server[p] \in PollRecords /\ server[p].id = p
                      /\ server[p].version = UpdatedAt[p]
                      /\ UpdatedAt[p] \in 1..Cardinality(Stored)
    OBVIOUS
  <2>1. UpdatedAt[p] \in 1..Cardinality(Stored) /\ UpdatedAt[p] \in Nat
    BY Versions
  <2>2. server[p] = [BlankPoll EXCEPT !.id = p, !.text = CHOOSE text \in Texts : TRUE, !.uses = {"enrollments"},
                                      !.version = UpdatedAt[p]]
    BY DEF Init
  <2>3. (CHOOSE text \in Texts : TRUE) \in Texts
    BY StoredAssumption
  <2> QED
    BY <2>1, <2>2, <2>3 DEF BlankPoll, PollRecords, PollIds, Lists
<1>2. \A p \in Polls : p \notin Stored => server[p] = None
  BY DEF Init
<1>3. StoreTypes
  <2>1. clock \in Nat /\ server \in [Polls -> PollRecords \cup {None, Gone}]
    BY <1>1, <1>2, Versions DEF Init
  <2>2. lists \in [Lists -> [Polls -> SUBSET Items]]
    BY DEF Init
  <2>3. \A p \in Polls : Exists(p) => p \in Stored
    BY <1>2 DEF Exists
  <2>4. clock = Cardinality(Stored)
    BY DEF Init
  <2>5. \A p \in Polls : Exists(p) =>
           server[p].id = p /\ 1 <= server[p].version /\ server[p].version <= clock
    BY <1>1, <2>3, <2>4, Versions
  <2>6. \A p, q \in Polls :
           Exists(p) /\ Exists(q) /\ server[p].version = server[q].version => p = q
    BY <1>1, <2>3, Versions
  <2> QED
    BY <2>1, <2>2, <2>5, <2>6 DEF StoreTypes, Init
<1>4. PageTypes
  BY BlankPollType DEF Init, PageTypes, NoLists, ShownLists
<1>5. Known(draft, authoritative)
  <2>1. draft.version = 0
    BY BlankPollType DEF Init
  <2> QED
    BY <1>3, <2>1 DEF Known, StoreTypes, PollRecords
<1>6. NoBlindOverwrite /\ tasks = {}
  BY DEF Init, NoBlindOverwrite
<1> QED
  BY <1>3, <1>4, <1>5, <1>6 DEF IInv

-----------------------------------------------------------------------------
(* What a step may do to the polls stored                                  *)

\* A poll stored is one that was, in the same version and state, or a new version.
StoreMoves ==
    /\ clock <= clock'
    /\ \A p \in Polls : Exists(p)' =>
          \/ Exists(p) /\ server'[p].version = server[p].version
                       /\ Agree(server'[p], server[p])
          \/ server'[p].version > clock

\* What a page was told stays true: versions only grow.
LEMMA KnownStays ==
  ASSUME StoreTypes, StoreTypes', StoreMoves
  PROVE  \A d \in PollRecords : \A b : Known(d, b) => Known(d, b)'
<1> SUFFICES ASSUME NEW d \in PollRecords, NEW b, Known(d, b)
             PROVE  Known(d, b)'
  OBVIOUS
<1>1. d.version \in Nat /\ clock \in Nat /\ clock' \in Nat
  BY DEF PollRecords, StoreTypes
<1>2. ASSUME NEW p \in Polls, Exists(p)', server'[p].version = d.version
      PROVE  b # None /\ Agree(server'[p], b)
  <2>1. Exists(p) /\ server'[p].version = server[p].version /\ Agree(server'[p], server[p])
    BY <1>1, <1>2 DEF StoreMoves, Known
  <2> QED
    BY <1>2, <2>1 DEF Known, Agree
<1> QED
  BY <1>1, <1>2 DEF Known, StoreMoves

\* So does what an operation under way holds.
LEMMA TasksStay ==
  ASSUME StoreTypes, StoreTypes', StoreMoves
  PROVE  \A t : TaskOK(t) => TaskOK(t)'
<1> SUFFICES ASSUME NEW t, TaskOK(t)
             PROVE  TaskOK(t)'
  OBVIOUS
<1>1. t.draft \in PollRecords
  BY DEF TaskOK, TaskRecords
<1>2. Known(t.draft, t.base)'
  BY <1>1, KnownStays DEF TaskOK
<1>3. AnswerFits(t) => AnswerFits(t)'
  BY KnownStays DEF AnswerFits
<1> QED
  BY <1>2, <1>3 DEF TaskOK

\* A version that no poll had yet.
LEMMA WritesStore ==
  ASSUME StoreTypes, NEW p \in Polls, NEW poll \in PollRecords, Writes(p, poll),
         lists' \in [Lists -> [Polls -> SUBSET Items]], imageOf' \in {imageOf, None}
  PROVE  /\ StoreTypes' /\ StoreMoves
         /\ server'[p] = [poll EXCEPT !.id = p, !.version = clock + 1]
         /\ server'[p] \in PollRecords /\ server'[p].id = p
         /\ \A new : new = server'[p] => Known(new, new)'
<1>0. clock \in Nat /\ clock' = clock + 1
  BY DEF StoreTypes, Writes
<1>n. PICK new : new = [poll EXCEPT !.id = p, !.version = clock + 1]
  OBVIOUS
<1>1. new \in PollRecords /\ new.id = p /\ new.version = clock + 1
  <2>1. clock + 1 \in Nat /\ p \in PollIds
    BY <1>0 DEF PollIds
  <2> QED
    BY <1>n, <2>1 DEF PollRecords
<1>2. server' = [server EXCEPT ![p] = new]
  BY <1>n DEF Writes
<1>3. /\ server' \in [Polls -> PollRecords \cup {None, Gone}] /\ server'[p] = new
      /\ \A q \in Polls \ {p} : server'[q] = server[q]
  BY <1>1, <1>2 DEF StoreTypes
<1>4. \A q \in Polls \ {p} : Exists(q)' => Exists(q) /\ server'[q].version <= clock
                                              /\ server[q].version \in Nat
  BY <1>3 DEF StoreTypes, Exists, PollRecords
<1>5. StoreTypes'
  <2>1. \A q \in Polls : Exists(q)' =>
           server'[q].id = q /\ 1 <= server'[q].version /\ server'[q].version <= clock'
    BY <1>0, <1>1, <1>3, <1>4 DEF StoreTypes
  <2>2. \A q, r \in Polls : Exists(q)' /\ Exists(r)' /\ server'[q].version = server'[r].version
           => q = r
    BY <1>0, <1>1, <1>3, <1>4 DEF StoreTypes
  <2>3. \A q \in Polls : Exists(q) => Exists(q)'
    BY <1>1, <1>3, NoneAssumption DEF Exists
  <2> QED
    BY <1>0, <1>3, <2>1, <2>2, <2>3 DEF StoreTypes
<1>6. StoreMoves
  <2>1. \A q \in Polls \ {p} : Exists(q)' => Exists(q) /\ server'[q] = server[q]
    BY <1>3, <1>4
  <2>2. server'[p].version > clock
    BY <1>0, <1>1, <1>3
  <2> QED
    BY <1>0, <2>1, <2>2 DEF StoreMoves, Agree
<1>7. Known(new, new)'
  <2>1. \A q \in Polls : Exists(q)' /\ server'[q].version = new.version => q = p
    BY <1>0, <1>1, <1>3, <1>4
  <2>2. Exists(p)' => new # None
    BY <1>3 DEF Exists
  <2>3. ASSUME NEW q \in Polls, Exists(q)', server'[q].version = new.version
        PROVE  new # None /\ Agree(server'[q], new)
    <3>1. q = p
      BY <2>1, <2>3
    <3> QED
      BY <1>3, <2>2, <2>3, <3>1 DEF Agree
  <2>4. new.version <= clock'
    BY <1>0, <1>1
  <2> QED
    BY <2>3, <2>4 DEF Known
<1> QED
  <2>1. \A n : n = server'[p] => Known(n, n)'
    BY <1>3, <1>7
  <2> QED
    BY <1>n, <1>1, <1>3, <1>5, <1>6, <2>1

\* The store may stand still.
LEMMA StoreStands ==
  ASSUME StoreTypes, UNCHANGED store
  PROVE  StoreTypes' /\ StoreMoves
<1>1. UNCHANGED <<server, lists, imageOf, clock>>
  BY DEF store
<1>2. StoreTypes'
  BY <1>1 DEF StoreTypes, Exists
<1>3. StoreMoves
  BY <1>1 DEF StoreTypes, StoreMoves, Exists, Agree
<1> QED
  BY <1>2, <1>3

\* A deletion is a move of the store.
LEMMA DeletesStore ==
  ASSUME StoreTypes, NEW p \in Polls, Deletes(p)
  PROVE  StoreTypes' /\ StoreMoves
<1>1. /\ server' \in [Polls -> PollRecords \cup {None, Gone}]
      /\ \A q \in Polls : Exists(q)' => Exists(q) /\ server'[q] = server[q]
      /\ clock' = clock
  BY DEF StoreTypes, Deletes, Exists
<1>2. lists' \in [Lists -> [Polls -> SUBSET Items]]
  BY DEF StoreTypes, Deletes
<1>3. imageOf' # None => imageOf' \in Polls /\ Exists(imageOf)'
  BY DEF StoreTypes, Deletes, Exists
<1>4. StoreTypes'
  BY <1>1, <1>2, <1>3 DEF StoreTypes
<1>5. StoreMoves
  BY <1>1 DEF StoreTypes, StoreMoves, Agree
<1> QED
  BY <1>4, <1>5

-----------------------------------------------------------------------------
(* Which tasks release the buttons                                         *)

Buttons == {"saving", "uploading"}

Holder(t, flag) ==
    \/ t.op = "select" /\ t.gen = generation /\ flag = "saving"
    \/ t.op \in {"save", "status", "delete"} /\ flag = "saving"
    \/ t.op = "image" /\ flag = IF Head(t.rest) = "post" THEN "saving" ELSE "uploading"

\* Which operations release a button.
LEMMA Holders ==
  \A t : \A flag \in Buttons : flag \in FlagsOf(t) /\ Releases(t) <=> Holder(t, flag)
BY DEF Buttons, FlagsOf, Releases, Holder

\* The same of a button, by the operation that releases it.
LEMMA ReleasedByHolders ==
  ASSUME NEW flag \in Buttons
  PROVE  /\ IsReleased(flag) <=> (flag \in busy => \E t \in tasks : Holder(t, flag))
         /\ IsReleased(flag)' <=> (flag \in busy' => \E t \in tasks' : Holder(t, flag)')
<1>1. \A t : flag \in FlagsOf(t) /\ Releases(t)' <=> Holder(t, flag)'
  BY DEF Buttons, FlagsOf, Releases, Holder
<1> QED
  BY <1>1, Holders DEF IsReleased, Buttons, FlagsOf

\* A task goes on, with the button it held.
LEMMA HolderGoesOn ==
  ASSUME UNCHANGED generation, busy' \cap Buttons \subseteq busy,
         NEW t, NEW u, tasks \ {t} \subseteq tasks', u \in tasks',
         u.op = t.op, t.op = "select" => u.gen = t.gen,
         t.op = "image" => (Head(u.rest) = "post" <=> Head(t.rest) = "post")
  PROVE  ButtonsKept
<1> SUFFICES ASSUME NEW flag \in Buttons, IsReleased(flag), flag \in busy'
             PROVE  \E v \in tasks' : Holder(v, flag)'
  BY ReleasedByHolders DEF ButtonsKept, Buttons
<1>1. PICK v \in tasks : Holder(v, flag)
  BY ReleasedByHolders
<1>2. Holder(v, flag)'
  BY <1>1 DEF Holder
<1>3. CASE v # t
  BY <1>2, <1>3
<1>4. CASE v = t
  BY <1>1, <1>4 DEF Holder
<1> QED
  BY <1>3, <1>4

\* A task ends, and releases its button if it held one.
LEMMA HolderEnds ==
  ASSUME UNCHANGED generation, NEW t, Ends(t)
  PROVE  ButtonsKept
<1> SUFFICES ASSUME NEW flag \in Buttons, IsReleased(flag), flag \in busy'
             PROVE  \E v \in tasks' : Holder(v, flag)'
  BY ReleasedByHolders DEF ButtonsKept, Buttons
<1>1. flag \in busy /\ tasks' = tasks \ {t} /\ (Releases(t) => flag \notin FlagsOf(t))
  BY DEF Ends
<1>2. PICK v \in tasks : Holder(v, flag)
  BY <1>1, ReleasedByHolders
<1>3. v # t
  BY <1>1, <1>2, Holders
<1>4. Holder(v, flag)'
  BY <1>2 DEF Holder
<1> QED
  BY <1>1, <1>3, <1>4

-----------------------------------------------------------------------------
(* The server                                                              *)

\* Answers without a record.
LEMMA AnswerValues == None \in Answers /\ Refused \in Answers /\ "done" \in Answers
BY DEF Answers

\* The fields of an operation under way.
LEMMA TaskFields ==
  ASSUME NEW t \in TaskRecords
  PROVE  /\ t.n \in Nat /\ t.op \in Ops /\ t.rest \in Seq(Requests) /\ t.poll \in PollIds
         /\ t.what \in {None, "published", "closed"} \cup Changes /\ t.gen \in Nat
         /\ t.draft \in PollRecords /\ t.base \in PollRecords \cup {None}
         /\ t.reply \in Answers
  BY DEF TaskRecords

\* An answer changes nothing else of it.
LEMMA ReplyFields ==
  ASSUME NEW t \in TaskRecords, NEW reply \in Answers
  PROVE  LET u == [t EXCEPT !.reply = reply]
         IN  /\ u \in TaskRecords /\ u.reply = reply /\ u.op = t.op /\ u.rest = t.rest
             /\ u.what = t.what /\ u.poll = t.poll /\ u.gen = t.gen /\ u.draft = t.draft
             /\ u.base = t.base
  BY DEF TaskRecords

\* A request is answered, or lost; the store may have changed.
LEMMA Replied ==
  ASSUME IInv, StoreTypes', StoreMoves, NoBlindOverwrite', NEW t \in tasks,
         NEW reply \in Answers, Replies(t, reply), UNCHANGED <<page, ops>>,
         reply \notin {None, Refused} => AnswerFits([t EXCEPT !.reply = reply])'
  PROVE  IInv' /\ OnlyOwn /\ ButtonsKept
<1>p. PICK u : u = [t EXCEPT !.reply = reply]
  OBVIOUS
<1>1. TaskOK(t) /\ t \in TaskRecords
  BY DEF IInv, TaskOK
<1>2. /\ u \in TaskRecords /\ u.reply = reply /\ u.op = t.op /\ u.rest = t.rest
      /\ u.what = t.what /\ u.poll = t.poll /\ u.gen = t.gen /\ u.draft = t.draft
      /\ u.base = t.base
  BY <1>p, <1>1, ReplyFields
<1>3. tasks' = (tasks \ {t}) \cup {u}
  BY <1>p DEF Replies, Becomes
<1>4. UNCHANGED <<draft, authoritative, shown, generation, busy, ops>>
  BY DEF page
<1>5. reply \notin {None, Refused} => AnswerFits(u)'
  BY <1>p
<1>6. \A v : TaskOK(v) => TaskOK(v)'
  BY TasksStay DEF IInv
<1>7. TaskOK(u)'
  <2>1. TaskOK(t)'
    BY <1>1, <1>6
  <2> QED
    BY <1>2, <1>5, <2>1 DEF TaskOK
<1>8. PageTypes' /\ Known(draft, authoritative)'
  <2>1. PICK d, b : d = draft /\ b = authoritative
    OBVIOUS
  <2>2. Known(d, b) /\ d \in PollRecords
    BY <2>1 DEF IInv, PageTypes
  <2>3. Known(d, b)'
    BY <2>2, KnownStays DEF IInv
  <2> QED
    BY <1>4, <2>1, <2>3 DEF IInv, PageTypes, Known
<1>9. ButtonsKept
  BY <1>2, <1>3, <1>4, HolderGoesOn
<1>10. OnlyOwn
  BY <1>4 DEF OnlyOwn
<1> QED
  BY <1>3, <1>6, <1>7, <1>8, <1>9, <1>10 DEF IInv

\* What the server checked of a request it accepts.
LEMMA Accepted ==
  ASSUME NEW t, Accepts(t)
  PROVE  /\ Head(t.rest) \in ShownLists \cup {"get", "put", "status", "change", "upload"}
               => Exists(t.poll)
         /\ Head(t.rest) = "post" => \E q \in Polls : server[q] = None
         /\ Head(t.rest) \in {"put", "status"} => t.draft.version = server[t.poll].version
         /\ Head(t.rest) = "status" => t.what \in {"published", "closed"}
<1> USE DEF Accepts, ShownLists, Lists
<1>1. CASE Head(t.rest) = "post"
  BY <1>1
<1>2. CASE Head(t.rest) = "put"
  BY <1>2
<1>3. CASE Head(t.rest) = "status"
  BY <1>3
<1>4. CASE Head(t.rest) = "change"
  BY <1>4
<1>5. CASE Head(t.rest) \in {"get", "enrollments", "slates", "results", "upload"}
  BY <1>5
<1> QED
  BY <1>1, <1>2, <1>3, <1>4, <1>5

\* An image is removed from the poll that has it.
LEMMA AcceptedRemoval ==
  ASSUME NEW t, Accepts(t), Head(t.rest) = "removal"
  PROVE  imageOf = t.poll
BY DEF Accepts

\* A stored poll is known to whoever reads it.
LEMMA StoredPoll ==
  ASSUME StoreTypes, NEW p \in Polls, Exists(p)
  PROVE  /\ server[p] \in PollRecords /\ server[p].id = p
         /\ \A poll : poll = server[p] => Known(poll, poll)
  BY DEF StoreTypes, Exists, Known, Agree, PollRecords

\* Requests that read the store, are refused or are lost.
LEMMA ReadsKeepIInv ==
  ASSUME IInv, NEW t \in tasks,
         Refuses(t) \/ GetPoll(t) \/ GetList(t) \/ GetResults(t) \/ Loses(t)
  PROVE  IInv' /\ OnlyOwn /\ ButtonsKept
<1>0. TaskOK(t) /\ StoreTypes
  BY DEF IInv
<1>1. UNCHANGED <<store, page, ops, write>>
  BY DEF Refuses, GetPoll, GetList, GetResults, Loses, Elsewhere
<1>2. StoreTypes' /\ StoreMoves
  BY <1>0, <1>1, StoreStands
<1>3. NoBlindOverwrite'
  BY <1>1 DEF IInv, NoBlindOverwrite
<1>4. CASE Refuses(t) \/ Loses(t)
  <2>1. PICK reply : reply = Refused
    OBVIOUS
  <2>2. Replies(t, reply) /\ reply \in Answers
    BY <1>4, <2>1, AnswerValues DEF Refuses, Loses, Replies
  <2>3. reply \notin {None, Refused} => AnswerFits([t EXCEPT !.reply = reply])'
    BY <2>1
  <2> QED
    BY <1>1, <1>2, <1>3, <2>2, <2>3, Replied
<1>5. CASE GetPoll(t)
  <2>1. Head(t.rest) = "get" /\ Accepts(t)
    BY <1>5 DEF GetPoll, Awaits
  <2>2. t.poll \in Polls /\ Exists(t.poll)
    BY <1>0, <2>1, Accepted DEF TaskOK
  <2>3. PICK reply : reply = server[t.poll]
    OBVIOUS
  <2>4. reply \in PollRecords /\ reply.id = t.poll /\ Known(reply, reply)
    BY <1>0, <2>2, <2>3, StoredPoll
  <2>5. Known(reply, reply)'
    BY <1>0, <1>2, <2>4, KnownStays
  <2>6. Replies(t, reply) /\ reply \in Answers
    BY <1>5, <2>3, <2>4 DEF GetPoll, Answers
  <2>7. PICK u : u = [t EXCEPT !.reply = reply]
    OBVIOUS
  <2>8. u.rest = t.rest /\ u.reply = reply
    BY <1>0, <2>6, <2>7, ReplyFields DEF TaskOK
  <2>9. AnswerFits(u)'
    BY <2>1, <2>2, <2>4, <2>5, <2>8 DEF AnswerFits, ShownLists, Lists
  <2> QED
    BY <1>1, <1>2, <1>3, <2>6, <2>7, <2>9, Replied
<1>6. CASE GetList(t) \/ GetResults(t)
  <2>1. Head(t.rest) \in ShownLists /\ Accepts(t)
    BY <1>6 DEF GetList, GetResults, Awaits, ShownLists
  <2>2. t.poll \in Polls /\ t.poll \in PollIds
    BY <1>0, <2>1 DEF TaskOK, ShownLists, Lists, PollIds
  <2>3. PICK items \in SUBSET (Items \cup {"results"}) : Replies(t, Of(t.poll, items))
    <3>1. CASE GetResults(t)
      BY <3>1 DEF GetResults
    <3>2. CASE GetList(t)
      <4>1. PICK list \in Lists : Replies(t, Of(t.poll, lists[list][t.poll]))
        BY <3>2 DEF GetList
      <4>2. lists[list][t.poll] \in SUBSET Items
        BY <1>0, <2>2 DEF StoreTypes
      <4> QED
        BY <4>1, <4>2
    <3> QED
      BY <1>6, <3>1, <3>2
  <2>4. PICK reply : reply = Of(t.poll, items)
    OBVIOUS
  <2>5. reply \in SUBSET Pairs /\ \A pair \in reply : pair[1] = t.poll
    BY <2>2, <2>4 DEF Of, Pairs
  <2>6. Replies(t, reply) /\ reply \in Answers
    BY <2>3, <2>4, <2>5 DEF Answers
  <2>7. PICK u : u = [t EXCEPT !.reply = reply]
    OBVIOUS
  <2>8. u.rest = t.rest /\ u.reply = reply /\ u.poll = t.poll
    BY <1>0, <2>6, <2>7, ReplyFields DEF TaskOK
  <2>9. AnswerFits(u)'
    BY <2>1, <2>5, <2>8 DEF AnswerFits, ShownLists, Lists
  <2> QED
    BY <1>1, <1>2, <1>3, <2>6, <2>7, <2>9, Replied
<1> QED
  BY <1>4, <1>5, <1>6

\* A poll that was written is answered with.
LEMMA WriteReplied ==
  ASSUME IInv, NEW t \in tasks, NEW p \in Polls, NEW poll \in PollRecords,
         Writes(p, poll), lists' \in [Lists -> [Polls -> SUBSET Items]],
         imageOf' \in {imageOf, None},
         Head(t.rest) \in {"post", "put", "status"}, Replies(t, server'[p]),
         UNCHANGED <<page, ops>>, NoBlindOverwrite'
  PROVE  IInv' /\ OnlyOwn /\ ButtonsKept
<1>1. /\ StoreTypes' /\ StoreMoves
      /\ server'[p] \in PollRecords /\ server'[p].id = p
      /\ \A new : new = server'[p] => Known(new, new)'
  BY WritesStore DEF IInv
<1>2. PICK reply : reply = server'[p]
  OBVIOUS
<1>3. reply \in PollRecords /\ reply.id = p /\ Known(reply, reply)' /\ reply \in Answers
      /\ Replies(t, reply)
  BY <1>1, <1>2 DEF Answers
<1>4. PICK u : u = [t EXCEPT !.reply = reply]
  OBVIOUS
<1>5. u.rest = t.rest /\ u.reply = reply
  BY <1>3, <1>4, ReplyFields DEF IInv, TaskOK
<1>6. AnswerFits(u)'
  BY <1>3, <1>5 DEF AnswerFits, ShownLists, Lists
<1> QED
  BY <1>1, <1>3, <1>4, <1>6, Replied

\* What a save or a change of status replaces is what its task knew.
LEMMA OverwriteKnown ==
  ASSUME IInv, NEW t \in tasks, Head(t.rest) \in {"put", "status"}, Accepts(t),
         write' = [replaced |-> server[t.poll], baseline |-> t.base]
  PROVE  NoBlindOverwrite'
<1>1. TaskOK(t) /\ t.poll \in Polls
  BY DEF IInv, TaskOK
<1>2. Exists(t.poll) /\ server[t.poll].version = t.draft.version
  BY Accepted
<1>3. t.base # None /\ Agree(server[t.poll], t.base)
  BY <1>1, <1>2 DEF TaskOK, Known
<1>4. write'.replaced = server[t.poll] /\ write'.baseline = t.base
  OBVIOUS
<1> QED
  BY <1>3, <1>4 DEF NoBlindOverwrite, Agree

\* The writes of a poll: create, update and status.
LEMMA WritesKeepIInv ==
  ASSUME IInv, NEW t \in tasks, CreatePoll(t) \/ UpdatePoll(t) \/ UpdatePollStatus(t)
  PROVE  IInv' /\ OnlyOwn /\ ButtonsKept
<1>0. /\ TaskOK(t) /\ StoreTypes /\ NoBlindOverwrite
      /\ lists \in [Lists -> [Polls -> SUBSET Items]]
      /\ t.draft \in PollRecords
  BY TaskFields DEF IInv, StoreTypes, TaskOK
<1>1. CASE CreatePoll(t)
  <2>1. Head(t.rest) = "post" /\ \E q \in Polls : server[q] = None
    BY <1>1, Accepted DEF CreatePoll, Awaits
  <2>2. PICK p \in Polls : Writes(p, t.draft) /\ Replies(t, server'[p])
    BY <1>1, <2>1 DEF CreatePoll
  <2>3. NoBlindOverwrite' /\ UNCHANGED <<page, ops, lists>>
        /\ imageOf' \in {imageOf, None}
    BY <1>0, <1>1 DEF CreatePoll, Elsewhere, NoBlindOverwrite
  <2> QED
    BY <1>0, <2>1, <2>2, <2>3, WriteReplied
<1>2. CASE UpdatePoll(t)
  <2>1. Head(t.rest) = "put" /\ Accepts(t) /\ t.poll \in Polls
    BY <1>0, <1>2 DEF UpdatePoll, Awaits, TaskOK
  <2>2. server[t.poll] \in PollRecords
    BY <1>0, <2>1, Accepted, StoredPoll
  <2>3. PICK poll : poll = [t.draft EXCEPT !.status = server[t.poll].status]
    OBVIOUS
  <2>4. poll \in PollRecords
    BY <1>0, <2>2, <2>3 DEF PollRecords
  <2>5. Writes(t.poll, poll) /\ Replies(t, server'[t.poll]) /\ UNCHANGED <<page, ops, lists>>
        /\ imageOf' \in {imageOf, None}
    BY <1>2, <2>3 DEF UpdatePoll, Elsewhere
  <2>6. NoBlindOverwrite'
    BY <1>2, <2>1, OverwriteKnown DEF UpdatePoll
  <2> QED
    BY <1>0, <2>1, <2>4, <2>5, <2>6, WriteReplied
<1>3. CASE UpdatePollStatus(t)
  <2>1. Head(t.rest) = "status" /\ Accepts(t) /\ t.poll \in Polls
    BY <1>0, <1>3 DEF UpdatePollStatus, Awaits, TaskOK
  <2>2. server[t.poll] \in PollRecords /\ t.what \in {"published", "closed"}
    BY <1>0, <2>1, Accepted, StoredPoll
  <2>3. PICK poll : poll = [server[t.poll] EXCEPT !.status = t.what]
    OBVIOUS
  <2>4. poll \in PollRecords
    BY <2>2, <2>3 DEF PollRecords
  <2>5. Writes(t.poll, poll) /\ Replies(t, server'[t.poll]) /\ UNCHANGED <<page, ops, lists>>
        /\ imageOf' \in {imageOf, None}
    BY <1>3, <2>3 DEF UpdatePollStatus, Elsewhere
  <2>6. NoBlindOverwrite'
    BY <1>3, <2>1, OverwriteKnown DEF UpdatePollStatus
  <2> QED
    BY <1>0, <2>1, <2>4, <2>5, <2>6, WriteReplied
<1> QED
  BY <1>1, <1>2, <1>3

\* A change of a list is answered with the list.
LEMMA ListChangeKeepsIInv ==
  ASSUME IInv, NEW t \in tasks, ChangeList(t)
  PROVE  IInv' /\ OnlyOwn /\ ButtonsKept
<1>0. TaskOK(t) /\ StoreTypes /\ t \in TaskRecords
  BY DEF IInv, TaskOK
<1>1. Head(t.rest) = "change" /\ Accepts(t) /\ t.poll \in Polls /\ t.poll \in PollIds
  BY <1>0 DEF ChangeList, Awaits, TaskOK, PollIds
<1>2. Exists(t.poll) /\ ListOf(t) \in Lists
  BY <1>1, Accepted DEF ListOf, Lists
<1>3. PICK items : items = Changed(lists[ListOf(t)][t.poll], t.what)
  OBVIOUS
<1>4. lists' = [lists EXCEPT ![ListOf(t)][t.poll] = items]
  BY <1>3 DEF ChangeList
<1>5. lists \in [Lists -> [Polls -> SUBSET Items]]
  BY <1>0 DEF StoreTypes
<1>6. items \in SUBSET Items
  <2>1. lists[ListOf(t)][t.poll] \in SUBSET Items /\ t.what.item \in Items
    BY <1>0, <1>1, <1>2, <1>5 DEF TaskOK, Changes
  <2> QED
    BY <1>3, <2>1 DEF Changed
<1>7. lists' \in [Lists -> [Polls -> SUBSET Items]] /\ lists'[ListOf(t)][t.poll] = items
  BY <1>1, <1>2, <1>4, <1>5, <1>6
<1>8. StoreTypes' /\ StoreMoves
  <2>0. imageOf' = imageOf
    BY DEF ChangeList
  <2>1. CASE t.op = "enroll"
    <3>1. PICK poll : poll = server[t.poll]
      OBVIOUS
    <3>2. poll \in PollRecords /\ Writes(t.poll, poll)
      BY <1>0, <1>1, <1>2, <2>1, <3>1, StoredPoll DEF ChangeList
    <3> QED
      BY <1>0, <1>1, <1>7, <2>0, <3>2, WritesStore
  <2>2. CASE t.op # "enroll"
    <3>1. UNCHANGED <<server, clock, imageOf>>
      BY <2>2 DEF ChangeList
    <3> QED
      BY <1>0, <1>7, <3>1 DEF StoreTypes, StoreMoves, Exists, Agree
  <2> QED
    BY <2>1, <2>2
<1>9. NoBlindOverwrite' /\ UNCHANGED <<page, ops>>
  BY DEF ChangeList, Elsewhere, IInv, NoBlindOverwrite
<1>10. PICK reply : reply = Of(t.poll, items)
  OBVIOUS
<1>11. reply \in SUBSET Pairs /\ \A pair \in reply : pair[1] = t.poll
  BY <1>1, <1>6, <1>10 DEF Of, Pairs
<1>12. Replies(t, reply) /\ reply \in Answers
  BY <1>7, <1>10, <1>11 DEF Answers, ChangeList
<1>13. PICK u : u = [t EXCEPT !.reply = reply]
  OBVIOUS
<1>14. u.rest = t.rest /\ u.reply = reply /\ u.poll = t.poll
  BY <1>0, <1>12, <1>13, ReplyFields
<1>15. AnswerFits(u)'
  BY <1>1, <1>11, <1>14 DEF AnswerFits, ShownLists, Lists
<1> QED
  BY <1>8, <1>9, <1>12, <1>13, <1>15, Replied

\* Images, and a poll deleted.
LEMMA OthersDoneKeepIInv ==
  ASSUME IInv, NEW t \in tasks, DeletePollOnServer(t) \/ StoreImage(t) \/ DeleteImage(t)
  PROVE  IInv' /\ OnlyOwn /\ ButtonsKept
<1>0. TaskOK(t) /\ StoreTypes /\ t \in TaskRecords
  BY DEF IInv, TaskOK
<1>1. /\ Head(t.rest) \in {"delete", "upload", "removal"}
      /\ UNCHANGED <<page, ops>> /\ Replies(t, "done") /\ "done" \in Answers
      /\ NoBlindOverwrite'
  <2>1. UNCHANGED <<page, ops, write>> /\ Replies(t, "done")
    BY DEF DeletePollOnServer, StoreImage, DeleteImage, Elsewhere
  <2>2. Head(t.rest) \in {"delete", "upload", "removal"}
    BY DEF DeletePollOnServer, StoreImage, DeleteImage, Awaits
  <2>3. NoBlindOverwrite'
    BY <2>1 DEF IInv, NoBlindOverwrite
  <2> QED
    BY <2>1, <2>2, <2>3, AnswerValues
<1>2. t.poll \in Polls
  BY <1>0, <1>1 DEF TaskOK
<1>3. StoreTypes' /\ StoreMoves
  <2>1. CASE DeletePollOnServer(t)
    BY <1>0, <1>2, <2>1, DeletesStore DEF DeletePollOnServer
  <2>2. CASE StoreImage(t)
    <3>1. UNCHANGED <<server, lists, clock>> /\ imageOf' = t.poll /\ Exists(t.poll)
      BY <2>2, Accepted DEF StoreImage, Awaits
    <3> QED
      BY <1>0, <1>2, <3>1 DEF StoreTypes, StoreMoves, Exists, Agree
  <2>3. CASE DeleteImage(t)
    <3>1. UNCHANGED <<lists, clock>> /\ imageOf' = None /\ imageOf = t.poll
          /\ server' = [server EXCEPT ![t.poll].image = FALSE]
      BY <2>3, AcceptedRemoval DEF DeleteImage, Awaits
    <3>2. PICK poll : poll = [server[t.poll] EXCEPT !.image = FALSE]
      OBVIOUS
    <3>3. Exists(t.poll) /\ server[t.poll] \in PollRecords
      BY <1>0, <1>2, <3>1, NoneAssumption, StoredPoll DEF StoreTypes
    <3>4. poll \in PollRecords /\ Agree(poll, server[t.poll])
          /\ poll.version = server[t.poll].version
      BY <3>2, <3>3 DEF PollRecords, Agree
    <3>5. /\ server' \in [Polls -> PollRecords \cup {None, Gone}] /\ server'[t.poll] = poll
          /\ \A p \in Polls \ {t.poll} : server'[p] = server[p]
      BY <1>0, <1>2, <3>1, <3>2, <3>4 DEF StoreTypes
    <3>6. \A p \in Polls : Exists(p)' =>
             Exists(p) /\ server'[p].version = server[p].version
                       /\ Agree(server'[p], server[p])
      BY <3>3, <3>4, <3>5 DEF Exists, Agree
    <3>7. StoreTypes'
      BY <1>0, <3>1, <3>5, <3>6 DEF StoreTypes, Agree
    <3>8. clock <= clock'
      BY <1>0, <3>1 DEF StoreTypes
    <3> QED
      BY <3>6, <3>7, <3>8 DEF StoreMoves
  <2> QED
    BY <2>1, <2>2, <2>3
<1>4. PICK u : u = [t EXCEPT !.reply = "done"]
  OBVIOUS
<1>5. u.rest = t.rest
  BY <1>0, <1>1, <1>4, ReplyFields
<1>6. AnswerFits(u)'
  BY <1>1, <1>5 DEF AnswerFits, ShownLists, Lists
<1> QED
  BY <1>1, <1>3, <1>4, <1>6, Replied

\* Whatever the server does with a request, or loses.
LEMMA ServerKeepsIInv ==
  ASSUME IInv, NEW t \in tasks, Server(t) \/ Loses(t)
  PROVE  IInv' /\ OnlyOwn /\ ButtonsKept
BY ReadsKeepIInv, WritesKeepIInv, ListChangeKeepsIInv, OthersDoneKeepIInv DEF Server

-----------------------------------------------------------------------------
(* The other administrators                                                *)

\* Steps of others touch neither the page nor its operations.
LEMMA StoreOnly ==
  ASSUME IInv, StoreTypes', StoreMoves, UNCHANGED <<page, tasks, ops, write>>
  PROVE  IInv' /\ OnlyOwn /\ ButtonsKept
<1>1. UNCHANGED <<draft, authoritative, shown, generation, busy, tasks, ops, write>>
  BY DEF page
<1>2. \A t \in tasks' : TaskOK(t)'
  BY <1>1, TasksStay DEF IInv
<1>3. PageTypes' /\ Known(draft, authoritative)'
  <2>1. PICK d, b : d = draft /\ b = authoritative
    OBVIOUS
  <2>2. Known(d, b) /\ d \in PollRecords
    BY <2>1 DEF IInv, PageTypes
  <2>3. Known(d, b)'
    BY <2>2, KnownStays DEF IInv
  <2> QED
    BY <1>1, <2>1, <2>3 DEF IInv, PageTypes, Known
<1>4. NoBlindOverwrite' /\ OnlyOwn
  BY <1>1 DEF IInv, NoBlindOverwrite, OnlyOwn
<1>5. ButtonsKept
  BY <1>1 DEF ButtonsKept, IsReleased, Releases, IsPollSelectionCurrent
<1> QED
  BY <1>2, <1>3, <1>4, <1>5 DEF IInv

\* The steps of other administrators.
LEMMA OthersKeepIInv ==
  ASSUME IInv, Others
  PROVE  IInv' /\ OnlyOwn /\ ButtonsKept
<1>0. StoreTypes /\ lists \in [Lists -> [Polls -> SUBSET Items]]
  BY DEF IInv, StoreTypes
<1>1. ASSUME NEW p \in Polls, NEW text \in Texts, OtherSaves(p, text)
      PROVE  StoreTypes' /\ StoreMoves /\ ByOthers
  <2>1. PICK poll : poll = [server[p] EXCEPT !.text = text]
    OBVIOUS
  <2>2. poll \in PollRecords
    BY <1>0, <1>1, <2>1, StoredPoll DEF OtherSaves, PollRecords
  <2> QED
    BY <1>0, <1>1, <2>1, <2>2, WritesStore DEF OtherSaves
<1>2. ASSUME NEW p \in Polls, NEW item \in Items, OtherEnrolls(p, item)
      PROVE  StoreTypes' /\ StoreMoves /\ ByOthers
  <2>1. PICK poll : poll = server[p]
    OBVIOUS
  <2>2. poll \in PollRecords
    BY <1>0, <1>2, <2>1, StoredPoll DEF OtherEnrolls
  <2>3. lists' \in [Lists -> [Polls -> SUBSET Items]]
    BY <1>0, <1>2 DEF OtherEnrolls, Lists
  <2> QED
    BY <1>0, <1>2, <2>1, <2>2, <2>3, WritesStore DEF OtherEnrolls
<1>3. ASSUME NEW p \in Polls, OtherPublishes(p)
      PROVE  StoreTypes' /\ StoreMoves /\ ByOthers
  <2>1. PICK poll : poll = [server[p] EXCEPT !.status = "published"]
    OBVIOUS
  <2>2. poll \in PollRecords
    BY <1>0, <1>3, <2>1, StoredPoll DEF OtherPublishes, PollRecords
  <2> QED
    BY <1>0, <1>3, <2>1, <2>2, WritesStore DEF OtherPublishes
<1>4. ASSUME NEW p \in Polls, OtherDeletes(p)
      PROVE  StoreTypes' /\ StoreMoves /\ ByOthers
  BY <1>0, <1>4, DeletesStore DEF OtherDeletes
<1>5. StoreTypes' /\ StoreMoves /\ ByOthers
  BY <1>1, <1>2, <1>3, <1>4 DEF Others
<1> QED
  BY <1>5, StoreOnly DEF ByOthers

-----------------------------------------------------------------------------
(* The administrator                                                       *)

\* The store is as it was: what is known of it still is.
LEMMA PageOnly ==
  ASSUME IInv, UNCHANGED <<store, write>>, PageTypes', Known(draft, authoritative)',
         \A t \in tasks' : t \in tasks \/ TaskOK(t)'
  PROVE  IInv'
<1>1. StoreTypes' /\ StoreMoves
  BY StoreStands DEF IInv
<1>2. \A t \in tasks' : TaskOK(t)'
  BY <1>1, TasksStay DEF IInv
<1> QED
  BY <1>1, <1>2 DEF IInv, NoBlindOverwrite

\* What is known depends on the store alone.
LEMMA KnownStands ==
  ASSUME UNCHANGED store
  PROVE  \A d, b : Known(d, b)' <=> Known(d, b)
BY DEF store, Known, Exists, Agree

\* The draft has the id of a poll or none.
LEMMA Draft ==
  ASSUME PageTypes
  PROVE  draft.id # None => draft.id \in Polls
BY DEF PageTypes, PollRecords

\* An operation starts with what the page shows.
LEMMA TaskStarts ==
  ASSUME IInv, UNCHANGED store, NEW op \in Ops, NEW rest \in Seq(Requests), rest # <<>>,
         NEW what \in {None, "published", "closed"} \cup Changes,
         NEW u, u = Task(op, rest, what),
         Head(rest) # "post" => draft.id # None,
         op = "image" => rest \in ImageRests,
         Head(rest) = "change" => what \in Changes,
         op \in {"select", "save", "status", "list"} => Tail(rest) \in Seq(ShownLists)
  PROVE  TaskOK(u)' /\ u.op = op /\ u.rest = rest /\ u.gen = generation
<1>1. /\ u.n = ops /\ u.op = op /\ u.rest = rest /\ u.what = what /\ u.poll = draft.id
      /\ u.gen = generation /\ u.draft = draft /\ u.base = authoritative /\ u.reply = None
  BY DEF Task
<1>2. u \in TaskRecords
  <2>1. ops \in Nat /\ draft.id \in PollIds /\ generation \in Nat /\ draft \in PollRecords
        /\ authoritative \in PollRecords \cup {None}
    BY DEF IInv, PageTypes, PollRecords, PollIds
  <2> QED
    BY <2>1, AnswerValues DEF Task, TaskRecords
<1>3. Known(u.draft, u.base)'
  <2>1. Known(u.draft, u.base)
    BY <1>1 DEF IInv
  <2> QED
    BY <2>1, KnownStands
<1>4. Head(u.rest) # "post" => u.poll \in Polls
  BY <1>1, Draft DEF IInv
<1> QED
  BY <1>1, <1>2, <1>3, <1>4 DEF TaskOK

\* The requests of the operations.
LEMMA Rests ==
  /\ \A request \in Requests :
        <<request>> \in Seq(Requests) /\ <<request>> # <<>> /\ Head(<<request>>) = request
        /\ Tail(<<request>>) \in Seq(ShownLists)
  /\ \A rest \in ImageRests : rest \in Seq(Requests) /\ rest # <<>>
  /\ Head(<<"post", "upload", "put">>) = "post"
  /\ Head(<<"upload", "put">>) = "upload"
  /\ Head(<<"put">>) = "put" /\ Head(<<"removal">>) = "removal"
  /\ Tail(<<"post", "upload", "put">>) = <<"upload", "put">>
  /\ Tail(<<"upload", "put">>) = <<"put">>
<1>1. \A request \in Requests :
        <<request>> \in Seq(Requests) /\ <<request>> # <<>> /\ Head(<<request>>) = request
        /\ Tail(<<request>>) \in Seq(ShownLists)
  OBVIOUS
<1>2. \A rest \in ImageRests : rest \in Seq(Requests) /\ rest # <<>>
  <2>1. {"post", "upload", "put", "removal"} \subseteq Requests
    BY DEF Requests
  <2>2. /\ <<"post", "upload", "put">> \in Seq(Requests) /\ <<"upload", "put">> \in Seq(Requests)
        /\ <<"put">> \in Seq(Requests) /\ <<"removal">> \in Seq(Requests)
    BY <2>1
  <2>3. /\ <<"post", "upload", "put">> # <<>> /\ <<"upload", "put">> # <<>>
        /\ <<"put">> # <<>> /\ <<"removal">> # <<>>
    OBVIOUS
  <2>4. ASSUME NEW rest \in ImageRests
        PROVE  rest \in Seq(Requests) /\ rest # <<>>
    BY <2>2, <2>3, ZenonT(30) DEF ImageRests
  <2> QED
    BY <2>4
<1> QED
  BY <1>1, <1>2

\* A button is disabled by an operation that will release it.
LEMMA HoldersStart ==
  ASSUME tasks \subseteq tasks',
         generation' = generation \/ "saving" \notin busy,
         \A flag \in (busy' \ busy) \cap Buttons : \E u \in tasks' : Holder(u, flag)'
  PROVE  ButtonsKept
<1> SUFFICES ASSUME NEW flag \in Buttons, IsReleased(flag), flag \in busy'
             PROVE  \E v \in tasks' : Holder(v, flag)'
  BY ReleasedByHolders DEF ButtonsKept, Buttons
<1>1. CASE flag \in busy
  <2>1. PICK v \in tasks : Holder(v, flag)
    BY <1>1, ReleasedByHolders
  <2>2. Holder(v, flag)'
    BY <1>1, <2>1 DEF Holder, Buttons
  <2> QED
    BY <2>2
<1> QED
  BY <1>1

\* What is known of a draft is known of its version.
LEMMA KnownByVersion ==
  \A d, e, b : d.version = e.version /\ Known(d, b) => Known(e, b)
BY DEF Known

\* A task begins, and the button it takes is disabled.
LEMMA BeginsKeepsIInv ==
  ASSUME IInv, NEW flag, NEW task, Begins(flag, task), TaskOK(task)',
         flag \in Buttons => Holder(task, flag)
  PROVE  IInv' /\ OnlyOwn /\ ButtonsKept
<1>1. /\ UNCHANGED <<store, draft, authoritative, shown, generation, write>>
      /\ tasks' = tasks \cup {task} /\ ops' = ops + 1 /\ busy' = busy \cup {flag}
  BY DEF Begins, Starts
<1>2. PageTypes'
  BY <1>1 DEF IInv, PageTypes
<1>3. Known(draft, authoritative)'
  <2>1. PICK d, b : d = draft /\ b = authoritative
    OBVIOUS
  <2> QED
    BY <1>1, <2>1, KnownStands DEF IInv
<1>4. ButtonsKept
  <2>1. flag \in Buttons => Holder(task, flag)'
    BY <1>1 DEF Holder
  <2> QED
    BY <1>1, <2>1, HoldersStart
<1>5. OnlyOwn
  BY <1>1 DEF OnlyOwn
<1> QED
  BY <1>1, <1>2, <1>3, <1>4, <1>5, PageOnly

\* The buttons: save, publish, close, delete, lists and images.
LEMMA TasksBegin ==
  ASSUME IInv, \/ Save \/ SetStatus \/ DeletePoll \/ UploadImage \/ RemoveImage
               \/ \E change \in Changes : ChangeEnrollments(change) \/ ChangeSlates(change)
  PROVE  IInv' /\ OnlyOwn /\ ButtonsKept
<1>1. ASSUME NEW flag, NEW op \in Ops, NEW rest \in Seq(Requests), rest # <<>>,
             NEW what \in {None, "published", "closed"} \cup Changes,
             Begins(flag, Task(op, rest, what)),
             Head(rest) # "post" => draft.id # None,
             op = "image" => rest \in ImageRests,
             Head(rest) = "change" => what \in Changes,
             op \in {"select", "save", "status", "list"} => Tail(rest) \in Seq(ShownLists),
             flag \in Buttons =>
                \/ op \in {"save", "status", "delete"} /\ flag = "saving"
                \/ op = "image" /\ flag = IF Head(rest) = "post" THEN "saving" ELSE "uploading"
      PROVE  IInv' /\ OnlyOwn /\ ButtonsKept
  <2>1. PICK u : u = Task(op, rest, what)
    OBVIOUS
  <2>2. Begins(flag, u)
    BY <1>1, <2>1 DEF Begins, Starts
  <2>3. UNCHANGED store
    BY <2>2 DEF Begins
  <2>4. TaskOK(u)' /\ u.op = op /\ u.rest = rest
    BY <1>1, <2>1, <2>3, TaskStarts
  <2>5. flag \in Buttons => Holder(u, flag)
    BY <1>1, <2>4 DEF Holder
  <2> QED
    BY <2>2, <2>4, <2>5, BeginsKeepsIInv
<1>r. {"post", "put", "status", "delete", "change"} \subseteq Requests
      /\ {"save", "status", "delete", "enroll", "slate", "image"} \subseteq Ops
      /\ "importing" \notin Buttons /\ "savingSlate" \notin Buttons
  BY DEF Requests, Ops, Buttons
<1>2. CASE Save
  <2>1. PICK request \in {"post", "put"} :
            /\ request = IF draft.id = None THEN "post" ELSE "put"
            /\ Begins("saving", Task("save", <<request>>, None))
    BY <1>2 DEF Save
  <2> QED
    BY <1>1, <1>r, <2>1, Rests
<1>3. CASE SetStatus
  <2>1. PICK what \in {"published", "closed"} :
            Begins("saving", Task("status", <<"status">>, what)) /\ draft.id # None
    BY <1>3 DEF SetStatus
  <2> QED
    BY <1>1, <1>r, <2>1, Rests
<1>4. CASE DeletePoll
  <2>1. Begins("saving", Task("delete", <<"delete">>, None)) /\ draft.id # None
    BY <1>4 DEF DeletePoll
  <2> QED
    BY <1>1, <1>r, <2>1, Rests
<1>5. ASSUME NEW change \in Changes, ChangeEnrollments(change)
      PROVE  IInv' /\ OnlyOwn /\ ButtonsKept
  <2>1. Begins("importing", Task("enroll", <<"change">>, change)) /\ draft.id # None
    BY <1>5 DEF ChangeEnrollments, Needed
  <2> QED
    BY <1>1, <1>r, <2>1, Rests
<1>6. ASSUME NEW change \in Changes, ChangeSlates(change)
      PROVE  IInv' /\ OnlyOwn /\ ButtonsKept
  <2>1. Begins("savingSlate", Task("slate", <<"change">>, change)) /\ draft.id # None
    BY <1>6 DEF ChangeSlates, Needed
  <2> QED
    BY <1>1, <1>r, <2>1, Rests
<1>7. CASE UploadImage
  <2>1. <<"post", "upload", "put">> \in ImageRests /\ <<"upload", "put">> \in ImageRests
    BY DEF ImageRests
  <2>2. CASE draft.id = None
    <3>1. Begins("saving", Task("image", <<"post", "upload", "put">>, None))
      BY <1>7, <2>2 DEF UploadImage
    <3> QED
      BY <1>1, <1>r, <2>1, <3>1, Rests
  <2>3. CASE draft.id # None
    <3>1. Begins("uploading", Task("image", <<"upload", "put">>, None))
      BY <1>7, <2>3 DEF UploadImage
    <3> QED
      BY <1>1, <1>r, <2>1, <2>3, <3>1, Rests
  <2> QED
    BY <2>2, <2>3
<1>8. CASE RemoveImage
  <2>1. <<"removal">> \in ImageRests
    BY DEF ImageRests
  <2>2. Begins("uploading", Task("image", <<"removal">>, None)) /\ draft.id # None
    BY <1>8 DEF RemoveImage
  <2> QED
    BY <1>1, <1>r, <2>1, <2>2, Rests
<1> QED
  BY <1>2, <1>3, <1>4, <1>5, <1>6, <1>7, <1>8

\* An edit keeps the version of the draft.
LEMMA EditsKeepIInv ==
  ASSUME IInv, NEW poll \in PollRecords, poll.version = draft.version, Edits(poll),
         shown' \in [ShownLists -> SUBSET Pairs],
         \A list \in ShownLists : shown'[list] \subseteq shown[list],
         ops' = ops + 1,
         \/ UNCHANGED tasks
         \/ \E u : tasks' = tasks \cup {u} /\ TaskOK(u)'
  PROVE  IInv' /\ OnlyOwn /\ ButtonsKept
<1>1. UNCHANGED <<store, authoritative, generation, busy, write>> /\ draft' = poll
  BY DEF Edits
<1>2. PageTypes'
  BY <1>1 DEF IInv, PageTypes
<1>3. Known(draft, authoritative)'
  <2>1. PICK d, b : d = draft /\ b = authoritative
    OBVIOUS
  <2>2. Known(poll, b)
    BY <2>1, KnownByVersion DEF IInv
  <2> QED
    BY <1>1, <2>1, <2>2, KnownStands
<1>4. ButtonsKept
  BY <1>1, HoldersStart
<1>5. OnlyOwn
  BY DEF OnlyOwn, IInv, PageTypes
<1> QED
  BY <1>1, <1>2, <1>3, <1>4, <1>5, PageOnly

\* The controls of the draft.
LEMMA DraftsKeepIInv ==
  ASSUME IInv, \/ \E text \in Texts \cup {None} : EditText(text)
               \/ \E uses \in SUBSET Lists :
                     UpdatePollMode(uses) \/ UpdateVoterEligibilitySource(uses)
  PROVE  IInv' /\ OnlyOwn /\ ButtonsKept
<1>0. draft \in PollRecords /\ shown \in [ShownLists -> SUBSET Pairs]
  BY DEF IInv, PageTypes
<1>1. ASSUME NEW text \in Texts \cup {None}, EditText(text)
      PROVE  IInv' /\ OnlyOwn /\ ButtonsKept
  <2>1. PICK poll : poll = [draft EXCEPT !.text = text]
    OBVIOUS
  <2>2. poll \in PollRecords /\ poll.version = draft.version
    BY <1>0, <2>1 DEF PollRecords
  <2>3. Edits(poll) /\ ops' = ops + 1 /\ UNCHANGED <<shown, tasks>>
    BY <1>1, <2>1 DEF EditText
  <2> QED
    BY <1>0, <2>2, <2>3, EditsKeepIInv
<1>2. ASSUME NEW uses \in SUBSET Lists, UpdatePollMode(uses)
      PROVE  IInv' /\ OnlyOwn /\ ButtonsKept
  <2>1. PICK poll : poll = [draft EXCEPT !.uses = uses]
    OBVIOUS
  <2>2. poll \in PollRecords /\ poll.version = draft.version
    BY <1>0, <2>1 DEF PollRecords
  <2>3. Edits(poll) /\ ops' = ops + 1 /\ UNCHANGED <<shown, tasks>>
    BY <1>2, <2>1 DEF UpdatePollMode
  <2> QED
    BY <1>0, <2>2, <2>3, EditsKeepIInv
<1>3. ASSUME NEW uses \in SUBSET Lists, UpdateVoterEligibilitySource(uses)
      PROVE  IInv' /\ OnlyOwn /\ ButtonsKept
  <2>1. PICK poll : poll = [draft EXCEPT !.uses = uses]
    OBVIOUS
  <2>2. poll \in PollRecords /\ poll.version = draft.version /\ poll.id = draft.id
    BY <1>0, <2>1 DEF PollRecords
  <2>3. Edits(poll) /\ draft' = poll /\ UNCHANGED store
    BY <1>3, <2>1 DEF UpdateVoterEligibilitySource, Edits
  <2>4. CASE Needed("enrollments", draft')
    <3>1. Starts(Task("list", <<"enrollments">>, None)) /\ UNCHANGED shown
      BY <1>3, <2>4 DEF UpdateVoterEligibilitySource
    <3>2. draft.id # None
      BY <2>2, <2>3, <2>4 DEF Needed
    <3>3. PICK u : u = Task("list", <<"enrollments">>, None)
      OBVIOUS
    <3>4. "enrollments" \in Requests /\ "list" \in Ops
      BY DEF Requests, ShownLists, Lists, Ops
    <3>5. <<"enrollments">> \in Seq(Requests) /\ <<"enrollments">> # <<>>
          /\ Head(<<"enrollments">>) = "enrollments"
          /\ Tail(<<"enrollments">>) \in Seq(ShownLists)
      BY <3>4, Rests
    <3>6. TaskOK(u)'
      <4>1. PICK op \in Ops, rest \in Seq(Requests),
                 what \in {None, "published", "closed"} \cup Changes :
               op = "list" /\ rest = <<"enrollments">> /\ what = None
        BY <3>4, <3>5
      <4>2. u = Task(op, rest, what)
        BY <3>3, <4>1 DEF Task
      <4>3. /\ rest # <<>> /\ op # "image" /\ Head(rest) # "change"
            /\ Tail(rest) \in Seq(ShownLists)
        BY <3>5, <4>1
      <4> QED
        BY <2>3, <3>2, <4>2, <4>3, TaskStarts
    <3>7. tasks' = tasks \cup {u} /\ ops' = ops + 1
      BY <3>1, <3>3 DEF Starts
    <3> QED
      BY <1>0, <2>2, <2>3, <3>1, <3>6, <3>7, EditsKeepIInv
  <2>5. CASE ~Needed("enrollments", draft')
    <3>1. shown' = [shown EXCEPT !["enrollments"] = {}] /\ ops' = ops + 1 /\ UNCHANGED tasks
      BY <1>3, <2>5 DEF UpdateVoterEligibilitySource
    <3>2. /\ shown' \in [ShownLists -> SUBSET Pairs]
          /\ \A list \in ShownLists : shown'[list] \subseteq shown[list]
      BY <1>0, <3>1
    <3> QED
      BY <2>2, <2>3, <3>1, <3>2, EditsKeepIInv
  <2> QED
    BY <2>4, <2>5
<1> QED
  BY <1>1, <1>2, <1>3

\* Another poll is shown, or a new one: no task shows what it learns any more.
LEMMA SelectionKeepsIInv ==
  ASSUME IInv, NewPoll \/ \E p \in Polls : SelectPoll(p)
  PROVE  IInv' /\ OnlyOwn /\ ButtonsKept
<1>0. PageTypes
  BY DEF IInv
<1>1. UNCHANGED <<store, write>> /\ shown' = NoLists /\ generation' = generation + 1
      /\ ops' = ops + 1
  BY DEF NewPoll, SelectPoll, Starts
<1>2. NoLists \in [ShownLists -> SUBSET Pairs] /\ \A list \in ShownLists : NoLists[list] = {}
  BY DEF NoLists, ShownLists
<1>3. OnlyOwn
  BY <1>0, <1>1, <1>2 DEF OnlyOwn, PageTypes
<1>4. CASE NewPoll
  <2>1. /\ draft' = BlankPoll /\ authoritative' = None /\ UNCHANGED tasks
        /\ busy' = busy \ {"importing", "savingSlate"}
    BY <1>4 DEF NewPoll
  <2>2. PageTypes'
    BY <1>0, <1>1, <1>2, <2>1, BlankPollType DEF PageTypes
  <2>3. Known(draft, authoritative)'
    <3>1. PICK d : d = BlankPoll
      OBVIOUS
    <3>2. Known(d, None)
      BY <3>1, BlankPollType DEF IInv, StoreTypes, Known, PollRecords
    <3> QED
      BY <1>1, <2>1, <3>1, <3>2, KnownStands
  <2>4. ButtonsKept
    <3> SUFFICES ASSUME NEW flag \in Buttons, IsReleased(flag), flag \in busy',
                        ~(flag = "saving" /\ NewDuringSelection)
                 PROVE  \E v \in tasks' : Holder(v, flag)'
      BY ReleasedByHolders DEF ButtonsKept, Buttons
    <3>1. PICK v \in tasks : Holder(v, flag)
      BY <2>1, ReleasedByHolders
    <3>2. ~(v.op = "select" /\ v.gen = generation /\ flag = "saving")
      BY <1>4 DEF NewDuringSelection
    <3>3. Holder(v, flag)'
      BY <3>1, <3>2 DEF Holder
    <3> QED
      BY <2>1, <3>3
  <2> QED
    BY <1>1, <1>3, <2>1, <2>2, <2>3, <2>4, PageOnly
<1>5. ASSUME NEW p \in Polls, SelectPoll(p)
      PROVE  IInv' /\ OnlyOwn /\ ButtonsKept
  <2>1. PICK t : t = Task("select", <<"get">>, None)
    OBVIOUS
  <2>2. PICK u : u = [t EXCEPT !.poll = p, !.gen = generation + 1]
    OBVIOUS
  <2>3. /\ UNCHANGED <<draft, authoritative>> /\ tasks' = tasks \cup {u}
        /\ busy' = (busy \ {"importing", "savingSlate"}) \cup {"saving"}
    BY <1>5, <2>1, <2>2 DEF SelectPoll, Starts
  <2>4. "get" \in Requests /\ <<"get">> \in Seq(Requests) /\ <<"get">> # <<>>
        /\ Head(<<"get">>) = "get" /\ Tail(<<"get">>) \in Seq(ShownLists)
    BY Rests DEF Requests
  <2>5. t.op = "select" /\ t.rest = <<"get">> /\ t.reply = None /\ t.what = None
    BY <2>1 DEF Task
  <2>6. t \in TaskRecords /\ Known(t.draft, t.base)
    <3>1. ops \in Nat /\ draft.id \in PollIds /\ generation \in Nat /\ draft \in PollRecords
          /\ authoritative \in PollRecords \cup {None}
      BY <1>0 DEF PageTypes, PollRecords, PollIds
    <3> QED
      BY <2>1, <2>4, <3>1, AnswerValues DEF Task, TaskRecords, Ops, IInv
  <2>7. /\ u \in TaskRecords /\ u.op = t.op /\ u.rest = t.rest /\ u.reply = t.reply
        /\ u.draft = t.draft /\ u.base = t.base /\ u.poll = p /\ u.gen = generation + 1
    <3>1. generation + 1 \in Nat /\ p \in PollIds
      BY <1>0 DEF PageTypes, PollIds
    <3>2. PICK gen \in Nat, id \in PollIds : gen = generation + 1 /\ id = p
      BY <3>1
    <3>3. u = [t EXCEPT !.poll = id, !.gen = gen]
      BY <2>2, <3>2
    <3> QED
      BY <2>6, <3>2, <3>3 DEF TaskRecords
  <2>8. TaskOK(u)'
    BY <1>1, <2>4, <2>5, <2>6, <2>7, KnownStands DEF TaskOK
  <2>9. PageTypes'
    BY <1>0, <1>1, <1>2, <2>3 DEF PageTypes
  <2>10. Known(draft, authoritative)'
    <3>1. PICK d, b : d = draft /\ b = authoritative
      OBVIOUS
    <3> QED
      BY <1>1, <2>3, <3>1, KnownStands DEF IInv
  <2>11. Holder(u, "saving")'
    BY <1>1, <2>5, <2>7 DEF Holder
  <2>12. ButtonsKept
    <3>1. "saving" \notin busy
      BY <1>5 DEF SelectPoll, May
    <3> QED
      BY <2>3, <2>11, <3>1, HoldersStart DEF Buttons
  <2> QED
    BY <1>1, <1>3, <2>3, <2>8, <2>9, <2>10, <2>12, PageOnly
<1> QED
  BY <1>4, <1>5

\* Whatever the administrator of the page does.
LEMMA AdministratorKeepsIInv ==
  ASSUME IInv, Administrator
  PROVE  IInv' /\ OnlyOwn /\ ButtonsKept
BY TasksBegin, DraftsKeepIInv, SelectionKeepsIInv DEF Administrator

-----------------------------------------------------------------------------
(* The answers                                                             *)

\* Every set of natural numbers that is not empty has a least member.
LEMMA LeastElement ==
  ASSUME NEW T, T \subseteq Nat, T # {}
  PROVE  \E n \in T : \A m \in T : n <= m
<1> DEFINE R == {ss \in Nat \X Nat : ss[1] < ss[2]}
<1>1. IsWellFoundedOn(R, Nat)
  BY NatLessThanWellFounded DEF OpToRel
<1>2. \A m, n \in Nat : m < n => <<m, n>> \in R
  OBVIOUS
<1> HIDE DEF R
<1>3. PICK n \in T : \A m \in T : ~(<<m, n>> \in R)
  BY <1>1, WFMin
<1>4. \A m \in T : ~(m < n)
  BY <1>2, <1>3
<1>5. \A m \in T : n <= m
  BY <1>4
<1> QED
  BY <1>5

\* The task asks for a list of the poll, or ends.
LEMMA LoadsNext ==
  ASSUME StoreTypes, generation \in Nat, UNCHANGED <<store, generation>>, NEW t, TaskOK(t),
         t.op \in {"select", "save", "status", "list"},
         NEW rest \in Seq(ShownLists), NEW poll \in PollRecords,
         NEW lists0 \in [ShownLists -> SUBSET Pairs], Loads(t, rest, poll, lists0)
  PROVE  /\ shown' \in [ShownLists -> SUBSET Pairs]
         /\ \A list \in ShownLists : shown'[list] \subseteq lists0[list]
         /\ \/ Ends(t)
            \/ \E u : /\ Becomes(t, u) /\ busy' = busy /\ TaskOK(u)'
                      /\ u.op = t.op /\ (t.op = "select" => u.gen = t.gen)
<1> DEFINE needed == {i \in DOMAIN rest : Needed(rest[i], poll)}
           first == CHOOSE i \in needed : \A j \in needed : i <= j
           stale == t.op = "select" /\ t.gen # generation
           r == SubSeq(rest, first, Len(rest))
<1>1. /\ shown' \in [ShownLists -> SUBSET Pairs]
      /\ \A list \in ShownLists : shown'[list] \subseteq lists0[list]
  <2> DEFINE cleared == {rest[i] : i \in {k \in DOMAIN rest : \A j \in needed : k < j}}
  <2>1. shown' = [list \in DOMAIN lists0 |->
                     IF ~stale /\ list \in cleared THEN {} ELSE lists0[list]]
    BY DEF Loads
  <2> HIDE DEF cleared, stale
  <2> QED
    BY <2>1
<1>2. CASE stale \/ needed = {}
  <2>1. Ends(t)
    BY <1>2 DEF Loads
  <2> QED
    BY <1>1, <2>1
<1>3. CASE ~stale /\ needed # {}
  <2>0. Len(rest) \in Nat /\ DOMAIN rest = 1..Len(rest)
    BY LenProperties
  <2>1. first \in 1..Len(rest) /\ Needed(rest[first], poll)
    <3>1. needed \subseteq Nat
      BY <2>0
    <3>2. \E i \in needed : \A j \in needed : i <= j
      BY <1>3, <3>1, LeastElement
    <3>3. first \in needed
      BY <3>2
    <3> QED
      BY <2>0, <3>3
  <2>2. poll.id \in Polls /\ poll.id \in PollIds
    BY <2>1 DEF Needed, PollRecords, PollIds
  <2>3. PICK gen \in Nat : gen = IF t.op = "select" THEN t.gen ELSE generation
    BY DEF TaskOK, TaskRecords
  <2>4. PICK u : u = [t EXCEPT !.rest = r, !.poll = poll.id, !.reply = None, !.gen = gen]
    OBVIOUS
  <2>5. Becomes(t, u) /\ busy' = busy
    BY <1>3, <2>3, <2>4 DEF Loads
  <2> HIDE DEF first, needed, stale
  <2>6. r \in Seq(ShownLists) /\ r # <<>>
    <3>1. \A i \in first..Len(rest) : rest[i] \in ShownLists
      BY <2>0, <2>1, ElementOfSeq
    <3>2. /\ SubSeq(rest, first, Len(rest)) \in Seq(ShownLists)
          /\ Len(SubSeq(rest, first, Len(rest))) = Len(rest) - first + 1
      BY <2>0, <2>1, <3>1, SubSeqProperties
    <3>3. Len(r) # 0
      BY <2>0, <2>1, <3>2
    <3>4. r \in Seq(ShownLists)
      BY <3>2
    <3> HIDE DEF r
    <3> QED
      BY <3>3, <3>4, EmptySeq
  <2> HIDE DEF r
  <2>7. Head(r) \in ShownLists /\ Tail(r) \in Seq(ShownLists)
    BY <2>6, HeadTailProperties
  <2>8. r \in Seq(Requests)
    BY <2>6, SeqMonotonic DEF Requests
  <2>9. t \in TaskRecords /\ Known(t.draft, t.base)
    BY DEF TaskOK
  <2>10. /\ u \in TaskRecords /\ u.op = t.op /\ u.rest = r /\ u.reply = None /\ u.gen = gen
         /\ u.draft = t.draft /\ u.base = t.base /\ u.poll = poll.id
    BY <2>2, <2>4, <2>8, <2>9, AnswerValues DEF TaskRecords
  <2>11. TaskOK(u)'
    BY <2>2, <2>6, <2>7, <2>9, <2>10, KnownStands DEF TaskOK, ShownLists, Lists
  <2> QED
    BY <1>1, <2>3, <2>5, <2>10, <2>11
<1> QED
  BY <1>2, <1>3

\* What every answer leaves to show.
LEMMA Answering ==
  ASSUME IInv, NEW t \in tasks, Here, shown' \in [ShownLists -> SUBSET Pairs],
         draft' \in PollRecords, authoritative' \in PollRecords \cup {None},
         Known(draft, authoritative)',
         \/ Ends(t)
         \/ \E u : /\ Becomes(t, u) /\ busy' = busy /\ TaskOK(u)'
                   /\ u.op = t.op /\ (t.op = "select" => u.gen = t.gen)
                   /\ t.op = "image" => Head(u.rest) # "post" /\ Head(t.rest) # "post"
  PROVE  IInv' /\ ButtonsKept
<1>1. UNCHANGED <<store, generation, ops, write>>
  BY DEF Here
<1>2. PageTypes'
  BY <1>1 DEF IInv, PageTypes
<1>3. \A u \in tasks' : u \in tasks \/ TaskOK(u)'
  BY DEF Ends, Becomes
<1>4. ButtonsKept
  <2>1. CASE Ends(t)
    BY <1>1, <2>1, HolderEnds
  <2>2. ASSUME NEW u, Becomes(t, u), busy' = busy, u.op = t.op,
               t.op = "select" => u.gen = t.gen,
               t.op = "image" => Head(u.rest) # "post" /\ Head(t.rest) # "post"
        PROVE  ButtonsKept
    BY <1>1, <2>2, HolderGoesOn DEF Becomes
  <2> QED
    BY <2>1, <2>2
<1> QED
  BY <1>1, <1>2, <1>3, <1>4, PageOnly

\* An answer that leaves the draft alone.
LEMMA DraftKept ==
  ASSUME IInv, Here, Keeps
  PROVE  /\ draft' \in PollRecords /\ authoritative' \in PollRecords \cup {None}
         /\ Known(draft, authoritative)'
<1>1. PICK d, b : d = draft /\ b = authoritative
  OBVIOUS
<1> QED
  BY <1>1, KnownStands DEF IInv, PageTypes, Here, Keeps

\* An answer that replaces it (setServerPoll).
LEMMA DraftSet ==
  ASSUME Here, NEW poll \in PollRecords, Known(poll, poll), SetServerPoll(poll)
  PROVE  /\ draft' \in PollRecords /\ authoritative' \in PollRecords \cup {None}
         /\ Known(draft, authoritative)'
BY KnownStands DEF SetServerPoll, Here

\* An answer that adds to no list but those of the poll shown.
LEMMA Unshown ==
  ASSUME IInv, shown' \in [ShownLists -> SUBSET Pairs],
         \A list \in ShownLists : \A pair \in shown'[list] \ shown[list] : pair[1] = draft'.id
  PROVE  OnlyOwn
BY DEF OnlyOwn, IInv, PageTypes

\* Answers to a selection, a list and a save.
LEMMA ListAnswersKeepIInv ==
  ASSUME IInv, NEW t \in tasks, AnswerSelected(t) \/ AnswerList(t) \/ AnswerSaved(t)
  PROVE  IInv' /\ OnlyOwn /\ ButtonsKept
<1>0. /\ TaskOK(t) /\ t \in TaskRecords /\ StoreTypes /\ generation \in Nat
      /\ shown \in [ShownLists -> SUBSET Pairs] /\ draft \in PollRecords
  BY DEF IInv, TaskOK, PageTypes
<1>1. Here /\ UNCHANGED <<store, generation>>
  BY DEF AnswerSelected, AnswerList, AnswerSaved, Here
<1>2. ASSUME t.reply \notin {None, Refused}, Head(t.rest) \in {"get", "post", "put", "status"}
      PROVE  t.reply \in PollRecords /\ Known(t.reply, t.reply)
  BY <1>0, <1>2 DEF TaskOK, AnswerFits
<1>3. ASSUME Ends(t), Keeps, UNCHANGED shown
      PROVE  IInv' /\ OnlyOwn /\ ButtonsKept
  BY <1>0, <1>1, <1>3, DraftKept, Answering, Unshown
<1>4. ASSUME NEW rest \in Seq(ShownLists), t.reply \in PollRecords, Known(t.reply, t.reply),
             SetServerPoll(t.reply), t.op \in {"select", "save", "status"},
             Loads(t, rest, t.reply, shown)
      PROVE  IInv' /\ OnlyOwn /\ ButtonsKept
  <2>1. PICK l : l = shown
    OBVIOUS
  <2>2. l \in [ShownLists -> SUBSET Pairs] /\ Loads(t, rest, t.reply, l)
    BY <1>0, <1>4, <2>1 DEF Loads
  <2>3. /\ shown' \in [ShownLists -> SUBSET Pairs]
        /\ \A list \in ShownLists : shown'[list] \subseteq l[list]
        /\ \/ Ends(t)
           \/ \E u : /\ Becomes(t, u) /\ busy' = busy /\ TaskOK(u)'
                     /\ u.op = t.op /\ (t.op = "select" => u.gen = t.gen)
    BY <1>0, <1>1, <1>4, <2>2, LoadsNext
  <2>4. OnlyOwn
    BY <2>1, <2>3, Unshown
  <2>5. /\ draft' \in PollRecords /\ authoritative' \in PollRecords \cup {None}
        /\ Known(draft, authoritative)'
    BY <1>1, <1>4, DraftSet
  <2> QED
    BY <1>1, <1>4, <2>3, <2>4, <2>5, Answering
<1>5. CASE AnswerSelected(t)
  <2>1. t.op = "select" /\ Head(t.rest) = "get" /\ t.reply # None
    BY <1>5 DEF AnswerSelected, Answered
  <2>2. CASE t.reply = Refused \/ t.gen # generation
    BY <1>3, <1>5, <2>2 DEF AnswerSelected
  <2>3. CASE t.reply # Refused /\ t.gen = generation
    <3>1. All \in Seq(ShownLists)
      BY DEF All, ShownLists, Lists
    <3>2. SetServerPoll(t.reply) /\ Loads(t, All, t.reply, shown)
      BY <1>5, <2>3 DEF AnswerSelected
    <3> QED
      BY <1>2, <1>4, <2>1, <2>3, <3>1, <3>2
  <2> QED
    BY <2>2, <2>3
<1>6. CASE AnswerSaved(t)
  <2>1. t.op \in {"save", "status"} /\ Head(t.rest) \in {"post", "put", "status"}
        /\ t.reply # None
    BY <1>6 DEF AnswerSaved, Answered
  <2>2. CASE t.reply = Refused
    BY <1>3, <1>6, <2>2 DEF AnswerSaved
  <2>3. CASE t.reply # Refused
    <3>1. PICK rest \in Seq(ShownLists) : rest = IF t.op = "save" THEN All ELSE <<"slates">>
      <4>1. All \in Seq(ShownLists) /\ <<"slates">> \in Seq(ShownLists)
        BY DEF All, ShownLists, Lists
      <4> QED
        BY <4>1
    <3>2. SetServerPoll(t.reply) /\ Loads(t, rest, t.reply, shown)
      BY <1>6, <2>3, <3>1 DEF AnswerSaved
    <3> QED
      BY <1>2, <1>4, <2>1, <2>3, <3>2
  <2> QED
    BY <2>2, <2>3
<1>7. CASE AnswerList(t)
  <2>1. /\ t.op \in {"select", "save", "status", "list"} /\ Head(t.rest) \in ShownLists
        /\ t.reply # None /\ Keeps
    BY <1>7 DEF AnswerList, Answered, ShownLists
  <2>2. PICK rest \in Seq(ShownLists) : rest = Tail(t.rest)
    BY <1>0, <2>1 DEF TaskOK
  <2>3. PICK d \in PollRecords : d = draft
    BY <1>0
  <2>4. PICK l : l = IF t.reply # Refused /\ IsPollSelectionCurrent(t.gen, t.poll)
                     THEN [shown EXCEPT ![Head(t.rest)] = t.reply] ELSE shown
    OBVIOUS
  <2>5. Loads(t, rest, d, l)
    BY <1>7, <2>2, <2>3, <2>4 DEF AnswerList, Loads
  <2>6. t.reply # Refused => t.reply \in SUBSET Pairs /\ \A pair \in t.reply : pair[1] = t.poll
    BY <1>0, <2>1 DEF TaskOK, AnswerFits
  <2>7. /\ l \in [ShownLists -> SUBSET Pairs]
        /\ \A list \in ShownLists : \A pair \in l[list] \ shown[list] : pair[1] = draft.id
    BY <1>0, <2>1, <2>4, <2>6 DEF IsPollSelectionCurrent
  <2>8. /\ shown' \in [ShownLists -> SUBSET Pairs]
        /\ \A list \in ShownLists : shown'[list] \subseteq l[list]
        /\ \/ Ends(t)
           \/ \E u : /\ Becomes(t, u) /\ busy' = busy /\ TaskOK(u)'
                     /\ u.op = t.op /\ (t.op = "select" => u.gen = t.gen)
    BY <1>0, <1>1, <2>1, <2>5, <2>7, LoadsNext
  <2>9. OnlyOwn
    BY <2>1, <2>7, <2>8, Unshown DEF Keeps
  <2>10. /\ draft' \in PollRecords /\ authoritative' \in PollRecords \cup {None}
         /\ Known(draft, authoritative)'
    BY <1>1, <2>1, DraftKept
  <2> QED
    BY <1>1, <2>1, <2>8, <2>9, <2>10, Answering
<1> QED
  BY <1>5, <1>6, <1>7

\* The answer to a deletion.
LEMMA DeletedKeepsIInv ==
  ASSUME IInv, NEW t \in tasks, AnswerDeleted(t)
  PROVE  IInv' /\ OnlyOwn /\ ButtonsKept
<1>0. /\ StoreTypes /\ draft \in PollRecords /\ authoritative \in PollRecords \cup {None}
      /\ shown \in [ShownLists -> SUBSET Pairs]
  BY DEF IInv, PageTypes
<1>1. Here /\ Ends(t) /\ authoritative' = authoritative
  BY DEF AnswerDeleted
<1>2. /\ shown' \in [ShownLists -> SUBSET Pairs]
      /\ \A list \in ShownLists : shown'[list] \subseteq shown[list]
  BY <1>0 DEF AnswerDeleted, ShownLists
<1>3. draft' \in PollRecords /\ Known(draft, authoritative)'
  <2>1. PICK d, e, b : d = draft /\ e = draft' /\ b = authoritative
    OBVIOUS
  <2>2. e \in PollRecords /\ (e = d \/ e = BlankPoll)
    BY <1>0, <2>1, BlankPollType DEF AnswerDeleted
  <2>3. Known(e, b)
    BY <1>0, <2>1, <2>2, BlankPollType DEF IInv, StoreTypes, Known, PollRecords
  <2>4. Known(e, b)'
    BY <1>1, <2>3, KnownStands DEF Here
  <2> QED
    BY <1>1, <2>1, <2>2, <2>4
<1> QED
  BY <1>0, <1>1, <1>2, <1>3, Answering, Unshown

\* A task that goes on with the same poll.
LEMMA NextRequest ==
  ASSUME Here, NEW t, TaskOK(t), NEW rest \in Seq(Requests), rest # <<>>,
         NEW u, u = [t EXCEPT !.rest = rest, !.reply = None],
         t.poll \in Polls, Head(rest) # "change",
         t.op \notin {"select", "save", "status", "list"},
         t.op = "image" => rest \in ImageRests
  PROVE  TaskOK(u)' /\ u.op = t.op /\ u.gen = t.gen /\ u.rest = rest
<1>1. t \in TaskRecords /\ Known(t.draft, t.base)
  BY DEF TaskOK
<1>2. /\ u \in TaskRecords /\ u.op = t.op /\ u.rest = rest /\ u.reply = None /\ u.gen = t.gen
      /\ u.draft = t.draft /\ u.base = t.base /\ u.poll = t.poll
  BY <1>1, AnswerValues DEF TaskRecords
<1> QED
  BY <1>1, <1>2, KnownStands DEF TaskOK, Here

\* A list changed as an answer says.
LEMMA ListChangedKeepsIInv ==
  ASSUME IInv, NEW t \in tasks, t.op \in {"enroll", "slate"}, Head(t.rest) = "change",
         NEW items, ListChanged(t, items),
         t.reply # Refused /\ IsPollSelectionCurrent(t.gen, t.poll) =>
            /\ items \in SUBSET Pairs
            /\ \A pair \in items \ shown[ListOf(t)] : pair[1] = draft.id
  PROVE  IInv' /\ OnlyOwn /\ ButtonsKept
<1>0. TaskOK(t) /\ t.poll \in Polls /\ shown \in [ShownLists -> SUBSET Pairs]
  BY DEF IInv, TaskOK, PageTypes
<1>1. Here /\ Keeps
  BY DEF ListChanged
<1>2. /\ draft' \in PollRecords /\ authoritative' \in PollRecords \cup {None}
      /\ Known(draft, authoritative)'
  BY <1>1, DraftKept
<1>3. CASE t.reply = Refused \/ ~IsPollSelectionCurrent(t.gen, t.poll)
  <2>1. Ends(t) /\ UNCHANGED shown
    BY <1>3 DEF ListChanged
  <2> QED
    BY <1>0, <1>1, <1>2, <2>1, Answering, Unshown
<1>4. CASE t.reply # Refused /\ IsPollSelectionCurrent(t.gen, t.poll)
  <2>1. PICK rest \in Seq(Requests) : rest = <<"get">> /\ rest # <<>> /\ Head(rest) = "get"
    <3>1. "get" \in Requests
      BY DEF Requests
    <3> QED
      BY <3>1, Rests
  <2>2. PICK u : u = [t EXCEPT !.rest = rest, !.reply = None]
    OBVIOUS
  <2>3. Becomes(t, u) /\ busy' = busy /\ shown' = [shown EXCEPT ![ListOf(t)] = items]
    BY <1>4, <2>1, <2>2 DEF ListChanged
  <2>4. TaskOK(u)' /\ u.op = t.op /\ u.gen = t.gen
    <3>1. t.op \notin {"select", "save", "status", "list", "image"}
      OBVIOUS
    <3>2. Head(rest) # "change" /\ (t.op = "image" => rest \in ImageRests)
      BY <2>1, <3>1
    <3>3. TaskOK(u)' /\ u.op = t.op /\ u.gen = t.gen /\ u.rest = rest
      <4>1. Here /\ TaskOK(t) /\ t.poll \in Polls /\ rest # <<>>
        BY <1>0, <1>1, <2>1
      <4>2. t \in TaskRecords /\ Known(t.draft, t.base)
        BY <4>1 DEF TaskOK
      <4>3. /\ u \in TaskRecords /\ u.op = t.op /\ u.rest = rest /\ u.reply = None
            /\ u.gen = t.gen /\ u.draft = t.draft /\ u.base = t.base /\ u.poll = t.poll
        BY <2>2, <4>2, AnswerValues DEF TaskRecords
      <4> QED
        BY <3>1, <3>2, <4>1, <4>2, <4>3, KnownStands DEF TaskOK, Here
    <3> QED
      BY <3>3
  <2>5. shown' \in [ShownLists -> SUBSET Pairs]
    BY <1>0, <1>4, <2>3
  <2>6. \A list \in ShownLists : \A pair \in shown'[list] \ shown[list] : pair[1] = draft.id
    BY <1>0, <1>4, <2>3
  <2>7. OnlyOwn
    BY <1>1, <2>5, <2>6, Unshown DEF Keeps
  <2> QED
    BY <1>1, <1>2, <2>3, <2>4, <2>5, <2>7, Answering
<1> QED
  BY <1>3, <1>4

\* Answers to changes of enrollments and slates.
LEMMA ChangesAnsweredKeepIInv ==
  ASSUME IInv, NEW t \in tasks, AnswerEnrollmentsChanged(t) \/ AnswerSlatesChanged(t)
  PROVE  IInv' /\ OnlyOwn /\ ButtonsKept
<1>0. TaskOK(t) /\ shown \in [ShownLists -> SUBSET Pairs]
  BY DEF IInv, PageTypes
<1>1. t.reply # None /\ Head(t.rest) = "change" /\ t.poll \in Polls /\ t.what \in Changes
  BY <1>0 DEF AnswerEnrollmentsChanged, AnswerSlatesChanged, Answered, TaskOK
<1>2. t.what.item \in Items /\ t.poll \in PollIds
  BY <1>1 DEF Changes, PollIds
<1>3. t.reply # Refused => t.reply \in SUBSET Pairs /\ \A pair \in t.reply : pair[1] = t.poll
  BY <1>0, <1>1 DEF TaskOK, AnswerFits
<1>4. Of(t.poll, {t.what.item}) \in SUBSET Pairs
      /\ \A pair \in Of(t.poll, {t.what.item}) : pair[1] = t.poll
  BY <1>2 DEF Of, Pairs
<1>5. CASE AnswerEnrollmentsChanged(t)
  <2>1. t.op = "enroll" /\ ListOf(t) = "enrollments"
    BY <1>5 DEF AnswerEnrollmentsChanged, Answered, ListOf
  <2>2. PICK items : items = IF t.what.kind = "remove"
                             THEN shown["enrollments"] \ Of(t.poll, {t.what.item}) ELSE t.reply
    OBVIOUS
  <2>3. ListChanged(t, items)
    BY <1>5, <2>2 DEF AnswerEnrollmentsChanged, ListChanged
  <2>4. t.reply # Refused /\ IsPollSelectionCurrent(t.gen, t.poll) =>
            /\ items \in SUBSET Pairs
            /\ \A pair \in items \ shown[ListOf(t)] : pair[1] = draft.id
    BY <1>0, <1>3, <2>1, <2>2 DEF IsPollSelectionCurrent, ShownLists, Lists
  <2> QED
    BY <1>1, <2>1, <2>3, <2>4, ListChangedKeepsIInv
<1>6. CASE AnswerSlatesChanged(t)
  <2>1. t.op = "slate" /\ ListOf(t) = "slates"
    BY <1>6 DEF AnswerSlatesChanged, Answered, ListOf
  <2>2. PICK items : items = IF t.what.kind = "remove"
                             THEN shown["slates"] \ Of(t.poll, {t.what.item})
                             ELSE shown["slates"] \cup Of(t.poll, {t.what.item})
    OBVIOUS
  <2>3. ListChanged(t, items)
    BY <1>6, <2>2 DEF AnswerSlatesChanged, ListChanged
  <2>4. shown["slates"] \in SUBSET Pairs
    BY <1>0 DEF ShownLists, Lists
  <2>5. t.reply # Refused /\ IsPollSelectionCurrent(t.gen, t.poll) =>
            /\ items \in SUBSET Pairs
            /\ \A pair \in items \ shown[ListOf(t)] : pair[1] = draft.id
    BY <1>4, <2>1, <2>2, <2>4 DEF IsPollSelectionCurrent
  <2> QED
    BY <1>1, <2>1, <2>3, <2>5, ListChangedKeepsIInv
<1> QED
  BY <1>5, <1>6

\* The version of the draft moves with the list of enrollments only while the page was
\* told all there is to know of that version.
LEMMA SynchronizedKeepsIInv ==
  ASSUME IInv, NEW t \in tasks, SynchronizePollVersion(t) \/ ReloadPollAfterSlateChange(t)
  PROVE  IInv' /\ OnlyOwn /\ ButtonsKept
<1>0. /\ TaskOK(t) /\ draft \in PollRecords /\ authoritative \in PollRecords \cup {None}
      /\ shown \in [ShownLists -> SUBSET Pairs]
  BY DEF IInv, PageTypes
<1>1. Here /\ Ends(t) /\ UNCHANGED shown /\ Head(t.rest) = "get" /\ t.reply # None
  BY DEF SynchronizePollVersion, ReloadPollAfterSlateChange, Answered
<1>2. OnlyOwn
  BY <1>0, <1>1, Unshown
<1>3. t.reply # Refused => t.reply \in PollRecords /\ Known(t.reply, t.reply)
  BY <1>0, <1>1 DEF TaskOK, AnswerFits
<1>4. CASE Keeps
  BY <1>0, <1>1, <1>2, <1>4, DraftKept, Answering
<1>5. CASE SetServerPoll(t.reply) /\ t.reply # Refused
  <2>1. /\ draft' \in PollRecords /\ authoritative' \in PollRecords \cup {None}
        /\ Known(draft, authoritative)'
    BY <1>1, <1>3, <1>5, DraftSet
  <2> QED
    BY <1>0, <1>1, <1>2, <2>1, Answering
<1>6. ASSUME t.reply # Refused, authoritative # None => SamePollContent(authoritative, t.reply),
             draft' = [draft EXCEPT !.version = t.reply.version],
             authoritative' = [(IF authoritative = None THEN t.reply ELSE authoritative)
                                  EXCEPT !.version = t.reply.version]
      PROVE  IInv' /\ OnlyOwn /\ ButtonsKept
  <2>1. PICK r \in PollRecords : r = t.reply /\ Known(r, r)
    BY <1>3, <1>6
  <2>2. authoritative' = r
    <3>1. CASE authoritative = None
      BY <1>6, <2>1, <3>1 DEF PollRecords
    <3>2. CASE authoritative # None
      <4>1. PICK a \in PollRecords : a = authoritative
        BY <1>0, <3>2
      <4>2. [a EXCEPT !.version = 0] = [r EXCEPT !.version = 0]
        BY <1>6, <2>1, <3>2, <4>1 DEF SamePollContent, Content
      <4>3. a.id = r.id /\ a.text = r.text /\ a.uses = r.uses /\ a.status = r.status
            /\ a.image = r.image
        BY <4>2 DEF PollRecords
      <4>4. [a EXCEPT !.version = r.version] = r
        BY <4>3 DEF PollRecords
      <4> QED
        BY <1>6, <2>1, <3>2, <4>1, <4>4
    <3> QED
      BY <3>1, <3>2
  <2>3. PICK d : d = draft'
    OBVIOUS
  <2>4. d \in PollRecords /\ d.version = r.version
    BY <1>0, <1>6, <2>1, <2>3 DEF PollRecords
  <2>5. Known(d, r)
    BY <2>1, <2>4, KnownByVersion
  <2>6. Known(d, r)'
    BY <1>1, <2>5, KnownStands DEF Here
  <2>7. /\ draft' \in PollRecords /\ authoritative' \in PollRecords \cup {None}
        /\ Known(draft, authoritative)'
    BY <2>2, <2>3, <2>4, <2>6
  <2> QED
    BY <1>0, <1>1, <1>2, <2>7, Answering
<1>7. CASE SynchronizePollVersion(t)
  BY <1>4, <1>6, <1>7 DEF SynchronizePollVersion
<1>8. CASE ReloadPollAfterSlateChange(t)
  BY <1>4, <1>5, <1>8 DEF ReloadPollAfterSlateChange
<1> QED
  BY <1>7, <1>8

\* What is left to do of an upload.
LEMMA ImageRestsOf ==
  ASSUME NEW t, TaskOK(t), t.op = "image"
  PROVE  /\ Head(t.rest) = "post" => t.rest = <<"post", "upload", "put">>
         /\ Head(t.rest) = "upload" => t.rest = <<"upload", "put">>
BY Rests DEF TaskOK, ImageRests

\* The answer to a poll created for its images (ensurePollSavedForImages).
LEMMA CreatedForImagesKeepsIInv ==
  ASSUME IInv, NEW t \in tasks, AnswerCreatedForImages(t)
  PROVE  IInv' /\ OnlyOwn /\ ButtonsKept
<1>0. TaskOK(t) /\ t \in TaskRecords /\ shown \in [ShownLists -> SUBSET Pairs]
      /\ t.op = "image" /\ Head(t.rest) = "post" /\ t.reply # None
      /\ Known(t.draft, t.base)
  BY DEF IInv, TaskOK, PageTypes, AnswerCreatedForImages, Answered
<1>1. Here /\ UNCHANGED shown
  BY DEF AnswerCreatedForImages
<1>2. OnlyOwn
  BY <1>0, <1>1, Unshown
<1>3. CASE t.reply = Refused
  <2>1. Ends(t) /\ Keeps
    BY <1>3 DEF AnswerCreatedForImages
  <2> QED
    BY <1>0, <1>1, <1>2, <2>1, DraftKept, Answering
<1>4. CASE t.reply # Refused
  <2>1. t.reply \in PollRecords /\ t.reply.id \in Polls /\ Known(t.reply, t.reply)
    BY <1>0, <1>4 DEF TaskOK, AnswerFits
  <2>2. PICK rest \in Seq(Requests), id \in PollIds :
            rest = <<"upload", "put">> /\ rest \in ImageRests /\ id = t.reply.id
    BY <2>1, Rests DEF ImageRests, PollIds
  <2>3. rest # <<>> /\ Head(rest) = "upload" /\ Tail(t.rest) = rest
    BY <1>0, <2>2, ImageRestsOf, Rests
  <2>4. PICK u : u = [t EXCEPT !.rest = rest, !.poll = id, !.reply = None]
    OBVIOUS
  <2>5. /\ SetServerPoll(t.reply) /\ tasks' = (tasks \ {t}) \cup {u}
        /\ busy' = (busy \ {"saving"}) \cup {"uploading"}
    BY <1>4, <2>2, <2>3, <2>4 DEF AnswerCreatedForImages, Becomes
  <2>6. /\ u \in TaskRecords /\ u.op = t.op /\ u.rest = rest /\ u.reply = None
        /\ u.draft = t.draft /\ u.base = t.base /\ u.poll = id
    BY <1>0, <2>4, AnswerValues DEF TaskRecords
  <2>7. TaskOK(u)'
    BY <1>0, <1>1, <2>1, <2>2, <2>3, <2>6, KnownStands DEF TaskOK, Here
  <2>8. /\ draft' \in PollRecords /\ authoritative' \in PollRecords \cup {None}
        /\ Known(draft, authoritative)'
    BY <1>1, <2>1, <2>5, DraftSet
  <2>9. PageTypes' /\ UNCHANGED <<store, write>>
    BY <1>0, <1>1, <2>8 DEF IInv, PageTypes, Here
  <2>10. ButtonsKept
    <3>1. Holder(u, "uploading")'
      BY <1>0, <2>3, <2>6 DEF Holder
    <3>2. busy' \cap Buttons \subseteq {"uploading"}
      BY <2>5 DEF Buttons
    <3> QED
      BY <2>5, <3>1, <3>2, ReleasedByHolders DEF ButtonsKept, Buttons
  <2>11. \A v \in tasks' : v \in tasks \/ TaskOK(v)'
    BY <2>5, <2>7
  <2> QED
    BY <1>2, <2>8, <2>9, <2>10, <2>11, PageOnly
<1> QED
  BY <1>3, <1>4

\* Answers to an upload, a removal and the save after it.
LEMMA ImagesKeepIInv ==
  ASSUME IInv, NEW t \in tasks, \/ AnswerUploaded(t) \/ AnswerImageRemoved(t)
                                \/ PersistCurrentDraftAfterImageChange(t)
  PROVE  IInv' /\ OnlyOwn /\ ButtonsKept
<1>0. TaskOK(t) /\ t \in TaskRecords /\ shown \in [ShownLists -> SUBSET Pairs]
      /\ draft \in PollRecords /\ authoritative \in PollRecords \cup {None}
      /\ t.op = "image" /\ t.reply # None
  BY DEF IInv, TaskOK, PageTypes, AnswerUploaded, AnswerImageRemoved,
         PersistCurrentDraftAfterImageChange, Answered
<1>1. Here /\ UNCHANGED shown
  BY DEF AnswerUploaded, AnswerImageRemoved, PersistCurrentDraftAfterImageChange
<1>2. OnlyOwn
  BY <1>0, <1>1, Unshown
<1>3. ASSUME NEW image \in BOOLEAN, draft' = [draft EXCEPT !.image = image],
             UNCHANGED authoritative
      PROVE  draft' \in PollRecords /\ Known(draft', authoritative) /\ Known(draft, authoritative)'
  <2>1. PICK d, e, b : d = draft /\ e = draft' /\ b = authoritative
    OBVIOUS
  <2>2. e \in PollRecords /\ e.version = d.version
    BY <1>0, <1>3, <2>1 DEF PollRecords
  <2>3. Known(e, b)
    BY <2>1, <2>2, KnownByVersion DEF IInv
  <2>4. Known(e, b)'
    BY <1>1, <2>3, KnownStands DEF Here
  <2> QED
    BY <1>3, <2>1, <2>2, <2>3, <2>4
<1>4. ASSUME Ends(t), UNCHANGED <<draft, authoritative>>
      PROVE  IInv' /\ OnlyOwn /\ ButtonsKept
  BY <1>0, <1>1, <1>2, <1>4, DraftKept, Answering DEF Keeps
<1>5. CASE AnswerUploaded(t)
  <2>1. CASE t.reply = Refused
    BY <1>4, <1>5, <2>1 DEF AnswerUploaded
  <2>2. CASE t.reply # Refused
    <3>1. Head(t.rest) = "upload" /\ draft' = [draft EXCEPT !.image = TRUE]
          /\ UNCHANGED <<authoritative, busy>>
      BY <1>5, <2>2 DEF AnswerUploaded, Answered
    <3>2. PICK rest \in Seq(Requests) : rest = <<"put">> /\ rest \in ImageRests
      BY Rests DEF ImageRests
    <3>3. rest # <<>> /\ Head(rest) = "put" /\ Tail(t.rest) = rest
      BY <1>0, <3>1, <3>2, ImageRestsOf, Rests
    <3>4. PICK d \in PollRecords, b \in PollRecords \cup {None} :
              d = draft' /\ b = authoritative /\ Known(d, b)
      BY <1>0, <1>3, <3>1
    <3>5. PICK u : u = [t EXCEPT !.rest = rest, !.draft = d, !.base = b, !.reply = None]
      OBVIOUS
    <3>6. Becomes(t, u)
      BY <1>5, <2>2, <3>3, <3>4, <3>5 DEF AnswerUploaded
    <3>7. /\ u \in TaskRecords /\ u.op = t.op /\ u.rest = rest /\ u.reply = None
          /\ u.draft = d /\ u.base = b /\ u.poll = t.poll
      BY <1>0, <3>5, AnswerValues DEF TaskRecords
    <3>8. TaskOK(u)'
      BY <1>0, <1>1, <3>1, <3>2, <3>3, <3>4, <3>7, KnownStands DEF TaskOK, Here
    <3>9. draft' \in PollRecords /\ Known(draft, authoritative)'
      BY <1>3, <3>1
    <3> QED
      BY <1>0, <1>1, <1>2, <3>1, <3>3, <3>6, <3>7, <3>8, <3>9, Answering
  <2> QED
    BY <2>1, <2>2
<1>6. CASE AnswerImageRemoved(t)
  <2>1. Ends(t) /\ UNCHANGED authoritative
        /\ draft' = IF t.reply = Refused THEN draft ELSE [draft EXCEPT !.image = FALSE]
    BY <1>6 DEF AnswerImageRemoved
  <2>2. CASE t.reply = Refused
    BY <1>4, <2>1, <2>2
  <2>3. CASE t.reply # Refused
    <3>1. draft' \in PollRecords /\ Known(draft, authoritative)'
      BY <1>3, <2>1, <2>3
    <3> QED
      BY <1>0, <1>1, <1>2, <2>1, <3>1, Answering
  <2> QED
    BY <2>2, <2>3
<1>7. CASE PersistCurrentDraftAfterImageChange(t)
  <2>1. Ends(t) /\ Head(t.rest) = "put"
    BY <1>7 DEF PersistCurrentDraftAfterImageChange, Answered
  <2>2. CASE t.reply = Refused
    BY <1>4, <1>7, <2>1, <2>2 DEF PersistCurrentDraftAfterImageChange, Keeps
  <2>3. CASE t.reply # Refused
    <3>1. t.reply \in PollRecords /\ Known(t.reply, t.reply) /\ SetServerPoll(t.reply)
      BY <1>0, <1>7, <2>1, <2>3 DEF TaskOK, AnswerFits, PersistCurrentDraftAfterImageChange
    <3>2. /\ draft' \in PollRecords /\ authoritative' \in PollRecords \cup {None}
          /\ Known(draft, authoritative)'
      BY <1>1, <3>1, DraftSet
    <3> QED
      BY <1>0, <1>1, <1>2, <2>1, <3>2, Answering
  <2> QED
    BY <2>2, <2>3
<1> QED
  BY <1>5, <1>6, <1>7

-----------------------------------------------------------------------------

LEMMA StepIInv == IInv /\ [Next]_vars => IInv' /\ OnlyOwn /\ ButtonsKept
<1> SUFFICES ASSUME IInv, [Next]_vars
             PROVE  IInv' /\ OnlyOwn /\ ButtonsKept
  OBVIOUS
<1>1. CASE UNCHANGED vars
  <2>1. UNCHANGED <<store, page, tasks, ops, write>>
    BY <1>1 DEF vars
  <2>2. StoreTypes' /\ StoreMoves
    BY <2>1, StoreStands DEF IInv
  <2> QED
    BY <2>1, <2>2, StoreOnly
<1>2. CASE Administrator
  BY <1>2, AdministratorKeepsIInv
<1>3. CASE Others
  BY <1>3, OthersKeepIInv
<1>4. ASSUME NEW t \in tasks, Server(t) \/ Loses(t)
      PROVE  IInv' /\ OnlyOwn /\ ButtonsKept
  BY <1>4, ServerKeepsIInv
<1>5. ASSUME NEW t \in tasks, Page(t)
      PROVE  IInv' /\ OnlyOwn /\ ButtonsKept
  BY <1>5, ListAnswersKeepIInv, DeletedKeepsIInv, ChangesAnsweredKeepIInv,
     SynchronizedKeepsIInv, CreatedForImagesKeepsIInv, ImagesKeepIInv DEF Page
<1> QED
  BY <1>1, <1>2, <1>3, <1>4, <1>5 DEF Next

\* NoBlindOverwrite: the version a save sends is that of a poll as the page was told of
\* it, though the list of enrollments moves that version under the draft, answers come
\* late and others write; so what the server accepts replaces what was shown.
THEOREM SavesReplaceWhatWasShown == Spec => []NoBlindOverwrite
<1>1. IInv => NoBlindOverwrite
  BY DEF IInv
<1> QED
  BY <1>1, InitIInv, StepIInv, PTL DEF Spec

\* OnlyNewLeavesButtonsDisabled: whoever was going to enable the buttons of saving and
\* uploading still is after any step, or has, whatever the answers; "Nova" during a
\* selection is the one step after which nobody does.
THEOREM OnlyNewLeavesThemDisabled == Spec => OnlyNewLeavesButtonsDisabled
<1>1. IInv /\ [Next]_vars
        => [\A flag \in {"saving", "uploading"} :
               IsReleased(flag) => \/ IsReleased(flag)'
                                   \/ flag = "saving" /\ NewDuringSelection]_vars
  BY StepIInv DEF ButtonsKept
<1> QED
  BY <1>1, InitIInv, StepIInv, PTL DEF Spec, OnlyNewLeavesButtonsDisabled

\* ListsAreOfThePollShown: no answer adds to the lists what is not of the poll that is
\* shown when it arrives.
THEOREM ListsFollowThePoll == Spec => ListsAreOfThePollShown
<1>1. IInv /\ [Next]_vars
        => [\A list \in DOMAIN shown : \A pair \in shown'[list] \ shown[list] :
               pair[1] = draft'.id]_vars
  BY StepIInv DEF OnlyOwn
<1> QED
  BY <1>1, InitIInv, StepIInv, PTL DEF Spec, ListsAreOfThePollShown
=============================================================================
