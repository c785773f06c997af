--------------------------- MODULE PollImageObjects ---------------------------
(***************************************************************************)
(* The objects of poll images in S3 against their rows in PostgreSQL.  A   *)
(* PollObjectDeletion row is the durable intent to delete an object: it is *)
(* written before an upload can succeed and in the transaction that removes*)
(* an image, and a cleanup run every minute retries what is due.  The      *)
(* module covers one poll; every transaction, every S3 call and every read *)
(* outside a transaction is a step, and a process may die between any two  *)
(* of them.                                                                *)
(***************************************************************************)
EXTENDS FiniteSets

CONSTANTS
    Images,       \* uploads; an image id and its object key are never reused
    Handlers,     \* HTTP requests that delete objects after their transaction
    Workers       \* service instances running the cleanup

ASSUME ImagesAssumption ==
    /\ IsFiniteSet(Images)
    /\ Handlers \cap Workers = {}

Deleters == Handlers \cup Workers

VARIABLES
    pollExists,
    upload,     \* progress of uploadPollImage
    row,        \* the PollImage row: "UNUSED" is a staged upload
    aged,       \* staged uploads older than 24 h
    object,     \* objects in S3
    intent,     \* the PollObjectDeletion row: "waiting" until nextAttemptAt
    job,        \* deleteObjectBestEffort, and the cleanup run around it
    unanswered  \* uploads whose commit lost its answer (history)

vars == <<pollExists, upload, row, aged, object, intent, job, unanswered>>

-----------------------------------------------------------------------------

Rows == {i \in Images : row[i] # "absent"}

\* pending holds the fetched intents whose nextAttemptAt has not changed since;
\* the claim of any other fetched intent matches no row.
Jobs ==
    [pc : {"idle", "expiring", "fetching", "next", "check", "delete", "forget", "defer"},
     key : {{}} \cup {{i} : i \in Images}, queue : SUBSET Images, pending : SUBSET Images]

Idle == [pc |-> "idle", key |-> {}, queue |-> {}, pending |-> {}]

TypeOK ==
    /\ pollExists \in BOOLEAN
    /\ upload \in [Images -> {"none", "intended", "stored", "failing", "done"}]
    /\ row \in [Images -> {"absent", "UNUSED", "attached"}]
    /\ aged \subseteq Images
    /\ object \subseteq Images
    /\ intent \in [Images -> {"none", "waiting", "due"}]
    /\ job \in [Deleters -> Jobs]
    /\ unanswered \subseteq Images

Init ==
    /\ pollExists = TRUE
    /\ upload = [i \in Images |-> "none"]
    /\ row = [i \in Images |-> "absent"]
    /\ aged = {}
    /\ object = {}
    /\ intent = [i \in Images |-> "none"]
    /\ job = [d \in Deleters |-> Idle]
    /\ unanswered = {}

\* Writing an intent's nextAttemptAt, or the row away, defeats the claims of
\* those who fetched it before.
Invalidate(jobs, changed) ==
    [d \in Deleters |-> [jobs[d] EXCEPT !.pending = @ \ changed]]

-----------------------------------------------------------------------------
(* Upload *)

\* The intent, delayed by 24 h, is written before S3 is called.
BeginUpload(i) ==
    /\ upload[i] = "none"
    /\ pollExists
    /\ upload' = [upload EXCEPT ![i] = "intended"]
    /\ intent' = [intent EXCEPT ![i] = "waiting"]
    /\ UNCHANGED <<pollExists, row, aged, object, job, unanswered>>

StoreObject(i) ==
    /\ upload[i] = "intended"
    /\ upload' = [upload EXCEPT ![i] = "stored"]
    /\ object' = object \cup {i}
    /\ UNCHANGED <<pollExists, row, aged, intent, job, unanswered>>

\* A failed PUT may have stored the object.
StoreObjectFails(i) ==
    /\ upload[i] = "intended"
    /\ upload' = [upload EXCEPT ![i] = "failing"]
    /\ object' \in {object, object \cup {i}}
    /\ UNCHANGED <<pollExists, row, aged, intent, job, unanswered>>

\* The row is created and the intent withdrawn in one transaction; the commit
\* may succeed without its answer.
CommitUpload(i) ==
    /\ upload[i] = "stored"
    /\ pollExists
    /\ row' = [row EXCEPT ![i] = "UNUSED"]
    /\ intent' = [intent EXCEPT ![i] = "none"]
    /\ job' = Invalidate(job, {i})
    /\ \/ upload' = [upload EXCEPT ![i] = "done"] /\ UNCHANGED unanswered
       \/ /\ upload' = [upload EXCEPT ![i] = "failing"]
          /\ unanswered' = unanswered \cup {i}
    /\ UNCHANGED <<pollExists, aged, object>>

CommitUploadFails(i) ==
    /\ upload[i] = "stored"
    /\ upload' = [upload EXCEPT ![i] = "failing"]
    /\ UNCHANGED <<pollExists, row, aged, object, intent, job, unanswered>>

\* The catch of uploadPollImage deletes the object.
Compensate(i, h) ==
    /\ upload[i] = "failing"
    /\ job[h].pc = "idle"
    /\ upload' = [upload EXCEPT ![i] = "done"]
    /\ job' = [job EXCEPT ![h].pc = "next", ![h].queue = {i}]
    /\ UNCHANGED <<pollExists, row, aged, object, intent, unanswered>>

UploadCrashes(i) ==
    /\ upload[i] \in {"intended", "stored", "failing"}
    /\ upload' = [upload EXCEPT ![i] = "done"]
    /\ UNCHANGED <<pollExists, row, aged, object, intent, job, unanswered>>

-----------------------------------------------------------------------------
(* Removal *)

\* upsert, or createMany with skipDuplicates: an intent that exists is kept.
IntentsFor(removed) ==
    [i \in Images |-> IF i \in removed /\ intent[i] = "none" THEN "due" ELSE intent[i]]

\* The rows go and their intents are written in one transaction; then the handler
\* deletes the objects, unless it dies first.
Remove(removed, h) ==
    /\ job[h].pc = "idle"
    /\ intent' = IntentsFor(removed)
    /\ job' \in {job, [job EXCEPT ![h].pc = "next", ![h].queue = removed]}

DeletePollImage(i, h) ==
    /\ row[i] # "absent"
    /\ row' = [row EXCEPT ![i] = "absent"]
    /\ Remove({i}, h)
    /\ UNCHANGED <<pollExists, upload, aged, object, unanswered>>

\* reconcilePollImages: what the saved poll references is attached, what was
\* attached and is no longer referenced goes, staged uploads stay.
SavePoll(referenced, h) ==
    LET removed == {i \in Rows : row[i] = "attached" /\ i \notin referenced} IN
    /\ pollExists
    /\ referenced \subseteq Rows
    /\ row' = [i \in Images |-> CASE i \in referenced -> "attached"
                                  [] i \in removed -> "absent"
                                  [] OTHER -> row[i]]
    /\ Remove(removed, h)
    /\ UNCHANGED <<pollExists, upload, aged, object, unanswered>>

DeletePoll(h) ==
    /\ pollExists
    /\ pollExists' = FALSE
    /\ row' = [i \in Images |-> "absent"]
    /\ Remove(Rows, h)
    /\ UNCHANGED <<upload, aged, object, unanswered>>

-----------------------------------------------------------------------------
(* Cleanup run *)

\* expireAbandonedStaging first reads which staged uploads are too old.
StartCleanup(w) ==
    /\ job[w].pc = "idle"
    /\ job' = [job EXCEPT ![w].pc = "expiring",
                          ![w].queue = {i \in aged : row[i] = "UNUSED"}]
    /\ UNCHANGED <<pollExists, upload, row, aged, object, intent, unanswered>>

ExpiredWithoutRecheck(w) == job[w].queue \cap Rows

\* The DELETE rechecks the placement.
Expired(w) == {i \in job[w].queue : row[i] = "UNUSED"}

ExpireAbandonedStaging(w) ==
    /\ job[w].pc = "expiring"
    /\ row' = [i \in Images |-> IF i \in Expired(w) THEN "absent" ELSE row[i]]
    /\ intent' = IntentsFor(Expired(w))
    /\ job' = [job EXCEPT ![w].pc = "fetching", ![w].queue = {}]
    /\ UNCHANGED <<pollExists, upload, aged, object, unanswered>>

FetchPending(w) ==
    /\ job[w].pc = "fetching"
    /\ job' = [job EXCEPT ![w].pc = "next",
                          ![w].pending = {i \in Images : intent[i] = "due"}]
    /\ UNCHANGED <<pollExists, upload, row, aged, object, intent, unanswered>>

\* The claim pushes nextAttemptAt two minutes ahead.
Claim(d, i) ==
    /\ job[d].pc = "next"
    /\ i \in job[d].pending
    /\ intent' = [intent EXCEPT ![i] = "waiting"]
    /\ job' = Invalidate([job EXCEPT ![d].pc = "check", ![d].key = {i}], {i})
    /\ UNCHANGED <<pollExists, upload, row, aged, object, unanswered>>

\* A handler goes through its own keys without a claim.
TakeFromQueue(d, i) ==
    /\ job[d].pc = "next"
    /\ i \in job[d].queue
    /\ job' = [job EXCEPT ![d].pc = "check", ![d].key = {i}, ![d].queue = @ \ {i}]
    /\ UNCHANGED <<pollExists, upload, row, aged, object, intent, unanswered>>

\* The flag that keeps a second run out stays set.
RunHangs(d) ==
    /\ job[d].pc = "next"
    /\ job[d].queue \cup job[d].pending = {}
    /\ UNCHANGED vars

RunEnds(d) ==
    /\ job[d].pc = "next"
    /\ job[d].queue \cup job[d].pending = {}
    /\ job' = [job EXCEPT ![d] = Idle]
    /\ UNCHANGED <<pollExists, upload, row, aged, object, intent, unanswered>>

\* The process dies or stops, or the database refuses the run.
RunStops(d) ==
    /\ job[d].pc # "idle"
    /\ job' = [job EXCEPT ![d] = Idle]
    /\ UNCHANGED <<pollExists, upload, row, aged, object, intent, unanswered>>

-----------------------------------------------------------------------------
(* deleteObjectBestEffort *)

CheckSkipped(d) ==
    /\ job[d].pc = "check"
    /\ job' = [job EXCEPT ![d].pc = "delete"]
    /\ UNCHANGED <<pollExists, upload, row, aged, object, intent, unanswered>>

\* A surviving reference always wins.
CheckReference(d) ==
    /\ job[d].pc = "check"
    /\ job' = [job EXCEPT ![d].pc = IF job[d].key \subseteq Rows THEN "forget" ELSE "delete"]
    /\ UNCHANGED <<pollExists, upload, row, aged, object, intent, unanswered>>

DeleteObject(d) ==
    /\ job[d].pc = "delete"
    /\ object' = object \ job[d].key
    /\ job' = [job EXCEPT ![d].pc = "forget"]
    /\ UNCHANGED <<pollExists, upload, row, aged, intent, unanswered>>

Forgotten(keys) == [i \in Images |-> IF i \in keys THEN "none" ELSE intent[i]]

ForgetIntent(d) ==
    /\ job[d].pc = "forget"
    /\ intent' = Forgotten(job[d].key)
    /\ job' = Invalidate([job EXCEPT ![d].pc = "next", ![d].key = {}], job[d].key)
    /\ UNCHANGED <<pollExists, upload, row, aged, object, unanswered>>

\* A call throws, with or without effect; while attempts are left the whole body
\* is repeated.
AttemptFails(d) ==
    /\ job[d].pc \in {"check", "delete", "forget"}
    /\ \/ object' = object /\ intent' = intent
       \/ job[d].pc = "delete" /\ object' = object \ job[d].key /\ intent' = intent
       \/ job[d].pc = "forget" /\ object' = object /\ intent' = Forgotten(job[d].key)
    /\ \E pc \in {"check", "defer"} :
          job' = Invalidate([job EXCEPT ![d].pc = pc],
                            {i \in Images : intent'[i] # intent[i]})
    /\ UNCHANGED <<pollExists, upload, row, aged, unanswered>>

\* nextAttemptAt moves five minutes ahead, unless that write fails as well.
Defer(d) ==
    /\ job[d].pc = "defer"
    /\ \/ /\ intent' = [i \in Images |-> IF i \in job[d].key /\ intent[i] # "none"
                                         THEN "waiting" ELSE intent[i]]
          /\ job' = Invalidate([job EXCEPT ![d].pc = "next", ![d].key = {}], job[d].key)
       \/ /\ job' = [job EXCEPT ![d].pc = "next", ![d].key = {}]
          /\ UNCHANGED intent
    /\ UNCHANGED <<pollExists, upload, row, aged, object, unanswered>>

-----------------------------------------------------------------------------
(* Time *)

\* An upload ends long before the 24 h its intent is delayed.
IntentFallsDue(i) ==
    /\ intent[i] = "waiting"
    /\ upload[i] \notin {"intended", "stored"}
    /\ intent' = [intent EXCEPT ![i] = "due"]
    /\ UNCHANGED <<pollExists, upload, row, aged, object, job, unanswered>>

StagingAges(i) ==
    /\ row[i] = "UNUSED"
    /\ aged' = aged \cup {i}
    /\ UNCHANGED <<pollExists, upload, row, object, intent, job, unanswered>>

-----------------------------------------------------------------------------

Upload(i) ==
    \/ BeginUpload(i) \/ StoreObject(i) \/ StoreObjectFails(i) \/ CommitUpload(i)
    \/ CommitUploadFails(i) \/ UploadCrashes(i)
    \/ \E h \in Handlers : Compensate(i, h)

Removal(h) ==
    \/ \E i \in Images : DeletePollImage(i, h)
    \/ \E referenced \in SUBSET Images : SavePoll(referenced, h)
    \/ DeletePoll(h)

Cleanup(w) == StartCleanup(w) \/ ExpireAbandonedStaging(w) \/ FetchPending(w)

\* The steps a running process takes when nothing fails.
Proceed(d) ==
    \/ \E i \in Images : Claim(d, i) \/ TakeFromQueue(d, i)
    \/ RunEnds(d) \/ CheckReference(d) \/ DeleteObject(d) \/ ForgetIntent(d) \/ Defer(d)

Next ==
    \/ \E i \in Images : Upload(i)
    \/ \E h \in Handlers : Removal(h)
    \/ \E w \in Workers : Cleanup(w)
    \/ \E d \in Deleters : Proceed(d)
    \/ \E d \in Deleters : RunStops(d)
    \/ \E d \in Deleters : AttemptFails(d)
    \/ \E i \in Images : IntentFallsDue(i)
    \/ \E i \in Images : StagingAges(i)

Spec == Init /\ [][Next]_vars

\* Every instance repeats the cleanup each minute and neither S3 nor the database
\* fails for ever, so a step that keeps becoming possible succeeds in the end.
FairSpec ==
    /\ Spec
    /\ \A i \in Images : WF_vars(IntentFallsDue(i))
    /\ \A w \in Workers :
          /\ SF_vars(StartCleanup(w))
          /\ SF_vars(ExpireAbandonedStaging(w))
          /\ SF_vars(FetchPending(w))
          /\ SF_vars(RunEnds(w))
          /\ SF_vars(CheckReference(w))
          /\ SF_vars(DeleteObject(w))
          /\ SF_vars(ForgetIntent(w))
          /\ SF_vars(Defer(w))
          /\ \A i \in Images : SF_vars(Claim(w, i))

-----------------------------------------------------------------------------
(* Properties *)

\* deleteObjectBestEffort: the object of an image that has a row is never deleted,
\* not by a compensation that wrongly believes its upload failed and not by a
\* cleanup that fetched the intent earlier.
LiveImagesHaveObjects == Rows \subseteq object

\* "cascading deletes cannot discard cleanup work": an object without an image row is
\* accounted for by an upload in progress or by a durable intent. It does not hold of
\* an upload whose commit was not answered: its compensation may withdraw the intent
\* a later deletion left.
EveryOrphanHasAnIntent ==
    \A i \in object \ Rows :
        intent[i] # "none" \/ upload[i] \in {"intended", "stored", "failing"}

\* expireAbandonedStaging: a cleanup run removes no image a save has attached
\* since the run listed it.
AttachedImagesOutliveCleanup ==
    [][\A w \in Workers :
          job[w].pc = "expiring" /\ job'[w].pc = "fetching"
            => \A i \in Images : row[i] = "attached" => row'[i] = "attached"]_vars

\* retryPendingObjectDeletions: an object without an image row is deleted in the
\* end, once its upload has ended and if its commit was answered.
OrphansAreDeleted ==
    \A i \in Images :
        i \in (object \ Rows) \ unanswered /\ upload[i] = "done" ~> i \notin object
=============================================================================
