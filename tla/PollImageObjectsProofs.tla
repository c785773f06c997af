----------------------- MODULE PollImageObjectsProofs -----------------------
(***************************************************************************)
(* Proofs about PollImageObjects for every set of images, handlers and     *)
(* cleanup workers.                                                        *)
(***************************************************************************)
EXTENDS PollImageObjects, TLAPS

\* The types the proofs rest on; what a job works on is at most one image.
Types ==
    /\ upload \in [Images -> {"none", "intended", "stored", "failing", "done"}]
    /\ row \in [Images -> {"absent", "UNUSED", "attached"}]
    /\ intent \in [Images -> {"none", "waiting", "due"}]
    /\ job \in [Deleters -> Jobs]
    /\ aged \subseteq Images

\* Nothing can give the image a row any more.
Ended(i) == upload[i] \in {"failing", "done"}

UploadsAreStored ==
    \A i \in Images :
        /\ row[i] # "absent" => Ended(i) /\ i \in object
        /\ upload[i] = "stored" => i \in object
        /\ intent[i] = "due" => Ended(i)
        /\ intent[i] # "none" => upload[i] # "none"

\* Every object a job is about to delete belongs to an upload that is over.
JobsAreAboutEnded ==
    \A d \in Deleters :
        \A i \in job[d].key \cup job[d].queue \cup job[d].pending : Ended(i)

\* Between the check and the deletion the image gets no row.
DeletionsAreUnreferenced ==
    \A d \in Deleters :
        job[d].pc = "delete" => \A i \in job[d].key : row[i] = "absent"

IInv == Types /\ UploadsAreStored /\ JobsAreAboutEnded /\ DeletionsAreUnreferenced

-----------------------------------------------------------------------------
(* Jobs *)

\* What an update leaves of a job.
LEMMA JobFields ==
  ASSUME NEW j \in Jobs
  PROVE  /\ \A pc \in {"expiring", "fetching", "next", "check", "delete", "forget", "defer"} :
               [j EXCEPT !.pc = pc] \in Jobs
         /\ \A pc \in {"expiring", "fetching", "next", "check"}, q \in SUBSET Images :
               [j EXCEPT !.pc = pc, !.queue = q] \in Jobs
         /\ \A i \in Images : [j EXCEPT !.pc = "check", !.key = {i}] \in Jobs
         /\ \A i \in Images, q \in SUBSET Images :
               [j EXCEPT !.pc = "check", !.key = {i}, !.queue = q] \in Jobs
         /\ [j EXCEPT !.pc = "next", !.key = {}] \in Jobs
         /\ \A q \in SUBSET Images : [j EXCEPT !.pc = "next", !.pending = q] \in Jobs
         /\ \A q \in SUBSET Images : [j EXCEPT !.pending = q] \in Jobs
         /\ Idle \in Jobs
BY DEF Jobs, Idle

\* Invalidate only takes images away from what was fetched.
LEMMA InvalidateJobs ==
  ASSUME NEW jobs \in [Deleters -> Jobs], NEW changed
  PROVE  /\ Invalidate(jobs, changed) \in [Deleters -> Jobs]
         /\ \A d \in Deleters :
               /\ Invalidate(jobs, changed)[d].pc = jobs[d].pc
               /\ Invalidate(jobs, changed)[d].key = jobs[d].key
               /\ Invalidate(jobs, changed)[d].queue = jobs[d].queue
               /\ Invalidate(jobs, changed)[d].pending = jobs[d].pending \ changed
<1>1. ASSUME NEW d \in Deleters
      PROVE  /\ [jobs[d] EXCEPT !.pending = @ \ changed] \in Jobs
             /\ Invalidate(jobs, changed)[d] = [jobs[d] EXCEPT !.pending = @ \ changed]
  <2>1. jobs[d] \in Jobs /\ jobs[d].pending \ changed \in SUBSET Images
    BY DEF Jobs
  <2> QED
    BY <2>1, JobFields DEF Invalidate
<1>2. Invalidate(jobs, changed) \in [Deleters -> Jobs]
  BY <1>1 DEF Invalidate
<1> QED
  BY ZenonT(60), <1>1, <1>2 DEF Jobs

\* What a job may still delete.
Items(d) == job[d].key \cup job[d].queue \cup job[d].pending

\* A step keeps the invariant if no upload starts again, jobs take up only images
\* whose upload is over, and whoever deletes keeps its checked key.
LEMMA StepFrame ==
  ASSUME IInv, Types', UploadsAreStored',
         \A i \in Images : Ended(i) => Ended(i)' /\ (row[i] = "absent" => row'[i] = "absent"),
         \A d \in Deleters :
            /\ \A i \in Items(d)' : i \in Items(d) \/ Ended(i)'
            /\ job'[d].pc = "delete" =>
                  \/ job[d].pc = "delete" /\ job'[d].key = job[d].key
                  \/ \A i \in job'[d].key : row'[i] = "absent"
  PROVE  IInv'
<1>1. \A d \in Deleters : Items(d) \subseteq Images
  BY DEF IInv, Types, Jobs, Items
<1>2. JobsAreAboutEnded'
  BY <1>1 DEF IInv, JobsAreAboutEnded, Items
<1>3. DeletionsAreUnreferenced'
  BY <1>1 DEF IInv, JobsAreAboutEnded, DeletionsAreUnreferenced, Items
<1> QED
  BY <1>2, <1>3 DEF IInv

LEMMA InitIInv == Init => IInv
<1> SUFFICES ASSUME Init PROVE IInv
  OBVIOUS
<1>1. job \in [Deleters -> Jobs]
  BY JobFields, InvalidateJobs DEF Init, Jobs, Idle
<1>2. \A d \in Deleters : job[d] = Idle
  BY DEF Init
<1>3. Types
  BY <1>1 DEF Init, Types
<1>4. UploadsAreStored
  BY DEF Init, UploadsAreStored
<1> QED
  BY <1>2, <1>3, <1>4 DEF IInv, JobsAreAboutEnded, DeletionsAreUnreferenced, Idle

-----------------------------------------------------------------------------
(* Upload *)

LEMMA UploadKeepsIInv ==
  ASSUME IInv, NEW i \in Images, Upload(i)
  PROVE  IInv'
<1> USE DEF Items, Ended
<1>0. Types /\ UploadsAreStored
  BY DEF IInv
<1>1. CASE BeginUpload(i) \/ StoreObject(i) \/ StoreObjectFails(i)
           \/ CommitUploadFails(i) \/ UploadCrashes(i)
  <2>1. Types' /\ UNCHANGED <<job, row>>
    BY <1>0, <1>1 DEF Types, BeginUpload, StoreObject, StoreObjectFails, CommitUploadFails, UploadCrashes
  <2>2. \A k \in Images : Ended(k) => Ended(k)'
    BY <1>0, <1>1 DEF Types, BeginUpload, StoreObject, StoreObjectFails, CommitUploadFails, UploadCrashes
  <2>3. UploadsAreStored'
    BY <1>0, <1>1, <2>2 DEF Types, UploadsAreStored, BeginUpload, StoreObject, StoreObjectFails,
       CommitUploadFails, UploadCrashes
  <2> QED
    BY <2>1, <2>2, <2>3, StepFrame
<1>2. CASE CommitUpload(i)
  <2>1. job' = Invalidate(job, {i})
    BY <1>2 DEF CommitUpload
  <2>2. Types'
    BY <1>0, <1>2, <2>1, InvalidateJobs DEF Types, CommitUpload
  <2>3. \A k \in Images : Ended(k) => Ended(k)' /\ k # i
    BY <1>0, <1>2 DEF Types, CommitUpload
  <2>4. UploadsAreStored'
    BY <1>0, <1>2 DEF Types, UploadsAreStored, CommitUpload
  <2>5. \A k \in Images \ {i} : row'[k] = row[k]
    BY <1>0, <1>2 DEF Types, CommitUpload
  <2>6. \A d \in Deleters : /\ job'[d].pc = job[d].pc /\ job'[d].key = job[d].key
                            /\ job'[d].queue = job[d].queue
                            /\ job'[d].pending \subseteq job[d].pending
    BY <1>0, <2>1, InvalidateJobs DEF Types
  <2> HIDE DEF Ended
  <2> QED
    BY <2>2, <2>3, <2>4, <2>5, <2>6, StepFrame
<1>3. ASSUME NEW h \in Handlers, Compensate(i, h)
      PROVE  IInv'
  <2>0. h \in Deleters
    BY DEF Deleters
  <2> DEFINE j == [job[h] EXCEPT !.pc = "next", !.queue = {i}]
  <2>1. j \in Jobs
    BY <1>0, <2>0, JobFields DEF Types
  <2>2. job' = [job EXCEPT ![h] = j]
    BY <1>3 DEF Compensate
  <2>3. j.pc = "next" /\ j.key = job[h].key /\ j.queue = {i} /\ j.pending = job[h].pending
    BY <1>0, <2>0 DEF Types, Jobs
  <2> HIDE DEF j
  <2>4. Types'
    BY <1>0, <1>3, <2>1, <2>2 DEF Types, Compensate
  <2>5. \A k \in Images : Ended(k) => Ended(k)'
    BY <1>0, <1>3 DEF Types, Compensate
  <2>6. Ended(i)' /\ row' = row
    BY <1>0, <1>3 DEF Types, Compensate
  <2>7. UploadsAreStored'
    BY <1>0, <1>3, <2>5 DEF Types, UploadsAreStored, Compensate
  <2>8. \A d \in Deleters : IF d = h THEN job'[d] = j ELSE job'[d] = job[d]
    BY <1>0, <2>2 DEF Types
  <2> HIDE DEF Ended
  <2> QED
    BY <2>3, <2>4, <2>5, <2>6, <2>7, <2>8, StepFrame
<1> QED
  BY <1>1, <1>2, <1>3 DEF Upload

-----------------------------------------------------------------------------
(* Removal *)

\* Rows only go, and due intents appear only for rows that went.
LEMMA RemovalFrame ==
  ASSUME IInv, NEW removed \in SUBSET Rows, NEW h \in Handlers, Remove(removed, h),
         UNCHANGED <<upload, object, aged>>,
         row' \in [Images -> {"absent", "UNUSED", "attached"}],
         \A i \in Images : row[i] = "absent" => row'[i] = "absent"
  PROVE  IInv'
<1> USE DEF Items
<1>0. Types /\ UploadsAreStored /\ h \in Deleters
  BY DEF IInv, Deleters
<1>1. removed \subseteq Images /\ \A i \in removed : Ended(i)
  BY <1>0 DEF Rows, UploadsAreStored
<1>2. /\ intent' \in [Images -> {"none", "waiting", "due"}]
      /\ \A i \in Images :
            /\ intent'[i] = "due" => intent[i] = "due" \/ Ended(i)
            /\ intent'[i] # "none" => intent[i] # "none" \/ Ended(i)
  BY <1>0, <1>1 DEF Remove, IntentsFor, Types
<1>3. UploadsAreStored'
  BY <1>0, <1>2 DEF UploadsAreStored, Ended
<1>4. CASE job' = job
  <2>1. Types'
    BY <1>0, <1>2, <1>4 DEF Types
  <2> QED
    BY <1>3, <1>4, <2>1, StepFrame DEF Ended
<1>5. CASE job' = [job EXCEPT ![h].pc = "next", ![h].queue = removed]
  <2> DEFINE j == [job[h] EXCEPT !.pc = "next", !.queue = removed]
  <2>1. j \in Jobs
    BY <1>0, <1>1, JobFields DEF Types
  <2>2. job' = [job EXCEPT ![h] = j]
    BY <1>5
  <2>3. j.pc = "next" /\ j.key = job[h].key /\ j.queue = removed /\ j.pending = job[h].pending
    BY <1>0 DEF Types, Jobs
  <2> HIDE DEF j
  <2>4. Types'
    BY <1>0, <1>2, <2>1, <2>2 DEF Types
  <2>5. \A d \in Deleters : IF d = h THEN job'[d] = j ELSE job'[d] = job[d]
    BY <1>0, <2>2 DEF Types
  <2>6. \A i \in Images : Ended(i)' <=> Ended(i)
    BY DEF Ended
  <2> QED
    BY <1>1, <1>3, <2>3, <2>4, <2>5, <2>6, StepFrame
<1> QED
  BY <1>4, <1>5 DEF Remove

LEMMA RemovalKeepsIInv ==
  ASSUME IInv, NEW h \in Handlers, Removal(h)
  PROVE  IInv'
<1>0. Types
  BY DEF IInv
<1>1. ASSUME NEW i \in Images, DeletePollImage(i, h)
      PROVE  IInv'
  BY <1>0, <1>1, RemovalFrame DEF DeletePollImage, Types, Rows
<1>2. ASSUME NEW referenced \in SUBSET Images, SavePoll(referenced, h)
      PROVE  IInv'
  <2> DEFINE removed == {i \in Rows : row[i] = "attached" /\ i \notin referenced}
  <2>1. /\ removed \in SUBSET Rows /\ Remove(removed, h) /\ UNCHANGED <<upload, object, aged>>
        /\ referenced \subseteq Rows
    BY <1>2 DEF SavePoll
  <2>2. row' = [i \in Images |-> CASE i \in referenced -> "attached"
                                   [] i \in removed -> "absent"
                                   [] OTHER -> row[i]]
    BY <1>2 DEF SavePoll
  <2>3. /\ row' \in [Images -> {"absent", "UNUSED", "attached"}]
        /\ \A i \in Images : row[i] = "absent" => row'[i] = "absent"
    BY <1>0, <2>1, <2>2 DEF Types, Rows
  <2> QED
    BY <2>1, <2>3, RemovalFrame
<1>3. CASE DeletePoll(h)
  BY <1>0, <1>3, RemovalFrame DEF DeletePoll, Types
<1> QED
  BY <1>1, <1>2, <1>3 DEF Removal

-----------------------------------------------------------------------------
(* Deletion *)

\* A step of one deleter: it turns its job into j, and its writes defeat what others
\* fetched.
LEMMA JobStep ==
  ASSUME IInv, NEW d \in Deleters, NEW j \in Jobs, NEW changed,
         \/ job' = [job EXCEPT ![d] = j]
         \/ job' = Invalidate([job EXCEPT ![d] = j], changed),
         \A i \in j.key \cup j.queue \cup j.pending : i \in Items(d) \/ Ended(i),
         j.pc = "delete" =>
            \/ job[d].pc = "delete" /\ j.key = job[d].key
            \/ \A i \in j.key : row'[i] = "absent",
         intent' \in [Images -> {"none", "waiting", "due"}],
         row' \in [Images -> {"absent", "UNUSED", "attached"}],
         UNCHANGED <<upload, aged>>,
         \A i \in Images : row[i] = "absent" => row'[i] = "absent",
         \A i \in Images :
            /\ intent'[i] = "due" => intent[i] = "due" \/ Ended(i)
            /\ intent'[i] # "none" => intent[i] # "none" \/ Ended(i),
         \A i \in Images : (i \in object /\ i \notin object') =>
            row'[i] = "absent" /\ Ended(i)
  PROVE  IInv'
<1>0. Types /\ UploadsAreStored
  BY DEF IInv
<1> DEFINE jobs == [job EXCEPT ![d] = j]
<1>1. jobs \in [Deleters -> Jobs] /\ \A e \in Deleters : jobs[e] = IF e = d THEN j ELSE job[e]
  BY <1>0 DEF Types
<1> HIDE DEF jobs
<1>2. /\ job' \in [Deleters -> Jobs]
      /\ \A e \in Deleters :
            /\ job'[e].pc = jobs[e].pc /\ job'[e].key = jobs[e].key
            /\ job'[e].queue = jobs[e].queue /\ job'[e].pending \subseteq jobs[e].pending
  <2>1. CASE job' = jobs
    BY <1>1, <2>1
  <2>2. CASE job' = Invalidate(jobs, changed)
    BY <1>1, <2>2, InvalidateJobs
  <2> QED
    BY <2>1, <2>2 DEF jobs
<1>3. Types'
  BY <1>0, <1>2 DEF Types
<1>4. \A i \in Images : Ended(i)' <=> Ended(i)
  BY DEF Ended
<1>5. UploadsAreStored'
  <2>1. \A i \in Images : (upload[i] = "stored" => ~Ended(i)) /\ (Ended(i) => upload[i] # "none")
    BY DEF Ended
  <2> QED
    BY <1>0, <1>4, <2>1 DEF UploadsAreStored
<1>6. \A e \in Deleters : Items(e)' \subseteq jobs[e].key \cup jobs[e].queue \cup jobs[e].pending
  BY <1>2 DEF Items
<1>7. \A e \in Deleters : \A i \in Items(e)' : i \in Items(e) \/ Ended(i)'
  <2>1. \A e \in Deleters : Items(e)' \subseteq Images
    BY <1>2 DEF Items, Jobs
  <2> QED
    BY <1>1, <1>4, <1>6, <2>1 DEF Items
<1>8. \A e \in Deleters : job'[e].pc = "delete" =>
         \/ job[e].pc = "delete" /\ job'[e].key = job[e].key
         \/ \A i \in job'[e].key : row'[i] = "absent"
  <2>1. \A e \in Deleters \ {d} : job'[e].pc = job[e].pc /\ job'[e].key = job[e].key
    BY <1>1, <1>2
  <2>2. job'[d].pc = j.pc /\ job'[d].key = j.key
    BY <1>1, <1>2
  <2> QED
    BY <2>1, <2>2
<1> QED
  BY <1>3, <1>4, <1>5, <1>7, <1>8, StepFrame

LEMMA CleanupKeepsIInv ==
  ASSUME IInv, NEW w \in Workers, Cleanup(w)
  PROVE  IInv'
<1>0. Types /\ UploadsAreStored /\ w \in Deleters /\ job[w] \in Jobs
  BY DEF IInv, Types, Deleters
<1>1. CASE StartCleanup(w)
  <2> DEFINE q == {i \in aged : row[i] = "UNUSED"}
             j == [job[w] EXCEPT !.pc = "expiring", !.queue = q]
  <2>1. q \in SUBSET Images /\ \A i \in q : Ended(i)
    BY <1>0 DEF Types, UploadsAreStored
  <2> HIDE DEF q
  <2>2. j \in Jobs
    BY <1>0, <2>1, JobFields
  <2>3. j.pc = "expiring" /\ j.key = job[w].key /\ j.queue = q /\ j.pending = job[w].pending
    BY <1>0 DEF Jobs
  <2>4. job' = [job EXCEPT ![w] = j]
    BY <1>1 DEF StartCleanup, q
  <2> HIDE DEF j
  <2> QED
    BY <1>0, <1>1, <2>1, <2>2, <2>3, <2>4, JobStep DEF StartCleanup, Types, Items
<1>2. CASE ExpireAbandonedStaging(w)
  <2> DEFINE j == [job[w] EXCEPT !.pc = "fetching", !.queue = {}]
  <2>1. j \in Jobs
    BY <1>0, JobFields
  <2>2. j.pc = "fetching" /\ j.key = job[w].key /\ j.queue = {} /\ j.pending = job[w].pending
    BY <1>0 DEF Jobs
  <2>3. job' = [job EXCEPT ![w] = j]
    BY <1>2 DEF ExpireAbandonedStaging
  <2> HIDE DEF j
  <2>4. /\ row' \in [Images -> {"absent", "UNUSED", "attached"}]
        /\ \A i \in Images : row[i] = "absent" => row'[i] = "absent"
    BY <1>0, <1>2 DEF ExpireAbandonedStaging, Types
  <2>5. \A i \in Expired(w) \cap Images : Ended(i)
    BY <1>0 DEF Expired, UploadsAreStored
  <2>6. /\ intent' \in [Images -> {"none", "waiting", "due"}]
        /\ \A i \in Images :
              /\ intent'[i] = "due" => intent[i] = "due" \/ Ended(i)
              /\ intent'[i] # "none" => intent[i] # "none" \/ Ended(i)
    BY <1>0, <1>2, <2>5 DEF ExpireAbandonedStaging, IntentsFor, Types
  <2> QED
    BY <1>0, <1>2, <2>1, <2>2, <2>3, <2>4, <2>6, JobStep DEF ExpireAbandonedStaging, Items
<1>3. CASE FetchPending(w)
  <2> DEFINE q == {i \in Images : intent[i] = "due"}
             j == [job[w] EXCEPT !.pc = "next", !.pending = q]
  <2>1. q \in SUBSET Images /\ \A i \in q : Ended(i)
    BY <1>0 DEF UploadsAreStored
  <2> HIDE DEF q
  <2>2. j \in Jobs
    BY <1>0, <2>1, JobFields
  <2>3. j.pc = "next" /\ j.key = job[w].key /\ j.queue = job[w].queue /\ j.pending = q
    BY <1>0 DEF Jobs
  <2>4. job' = [job EXCEPT ![w] = j]
    BY <1>3 DEF FetchPending, q
  <2> HIDE DEF j
  <2> QED
    BY <1>0, <1>3, <2>1, <2>2, <2>3, <2>4, JobStep DEF FetchPending, Types, Items
<1> QED
  BY <1>1, <1>2, <1>3 DEF Cleanup

LEMMA ProceedKeepsIInv ==
  ASSUME IInv, NEW d \in Deleters, Proceed(d)
  PROVE  IInv'
<1>0. Types /\ UploadsAreStored /\ job[d] \in Jobs
  BY DEF IInv, Types
<1>1. ASSUME NEW i \in Images, Claim(d, i)
      PROVE  IInv'
  <2> DEFINE j == [job[d] EXCEPT !.pc = "check", !.key = {i}]
  <2>1. j \in Jobs
    BY <1>0, JobFields
  <2>2. j.pc = "check" /\ j.key = {i} /\ j.queue = job[d].queue /\ j.pending = job[d].pending
    BY <1>0 DEF Jobs
  <2>3. job' = Invalidate([job EXCEPT ![d] = j], {i})
    BY <1>1 DEF Claim
  <2> HIDE DEF j
  <2>4. i \in job[d].pending
    BY <1>1 DEF Claim
  <2> QED
    <3>1. Ended(i) /\ UNCHANGED <<upload, row, aged, object>>
      BY <1>1, <2>4 DEF Claim, IInv, JobsAreAboutEnded
    <3>2. /\ intent' \in [Images -> {"none", "waiting", "due"}]
          /\ \A k \in Images : intent'[k] = intent[k] \/ (intent'[k] = "waiting" /\ k = i)
      BY <1>0, <1>1 DEF Claim, Types
    <3>3. \A k \in j.key \cup j.queue \cup j.pending : k \in Items(d)
      BY <2>2, <2>4 DEF Items
    <3>4. row \in [Images -> {"absent", "UNUSED", "attached"}]
      BY <1>0 DEF Types
    <3> QED
      BY <2>1, <2>2, <2>3, <3>1, <3>2, <3>3, <3>4, JobStep
<1>2. ASSUME NEW i \in Images, TakeFromQueue(d, i)
      PROVE  IInv'
  <2> DEFINE q == job[d].queue \ {i}
             j == [job[d] EXCEPT !.pc = "check", !.key = {i}, !.queue = q]
  <2>1. q \in SUBSET Images /\ i \in job[d].queue
    BY <1>0, <1>2 DEF TakeFromQueue, Jobs
  <2>2. j \in Jobs
    BY <1>0, <2>1, JobFields
  <2>3. j.pc = "check" /\ j.key = {i} /\ j.queue = q /\ j.pending = job[d].pending
    BY <1>0 DEF Jobs
  <2>4. job' = [job EXCEPT ![d] = j]
    BY <1>2 DEF TakeFromQueue
  <2> HIDE DEF j
  <2> QED
    <3>1. UNCHANGED <<upload, row, aged, object, intent>>
      BY <1>2 DEF TakeFromQueue
    <3>2. \A k \in j.key \cup j.queue \cup j.pending : k \in Items(d)
      BY <2>1, <2>3 DEF Items
    <3> HIDE DEF q
    <3> QED
      BY <1>0, <2>2, <2>3, <2>4, <3>1, <3>2, JobStep DEF Types
<1>3. CASE RunEnds(d)
  <2>1. Idle \in Jobs
    BY <1>0, JobFields
  <2> QED
    BY <1>0, <1>3, <2>1, JobStep DEF RunEnds, Types, Idle
<1>4. CASE CheckReference(d)
  <2> DEFINE pc == IF job[d].key \subseteq Rows THEN "forget" ELSE "delete"
             j == [job[d] EXCEPT !.pc = pc]
  <2>1. pc \in {"forget", "delete"}
    OBVIOUS
  <2>2. pc = "delete" => \A i \in job[d].key : row[i] = "absent"
    BY <1>0 DEF Rows, Jobs
  <2> HIDE DEF pc
  <2>3. j \in Jobs
    BY <1>0, <2>1, JobFields
  <2>4. j.pc = pc /\ j.key = job[d].key /\ j.queue = job[d].queue /\ j.pending = job[d].pending
    BY <1>0 DEF Jobs
  <2>5. job' = [job EXCEPT ![d] = j]
    BY <1>4 DEF CheckReference, pc
  <2> HIDE DEF j
  <2> QED
    BY <1>0, <1>4, <2>2, <2>3, <2>4, <2>5, JobStep DEF CheckReference, Types, Items
<1>5. CASE DeleteObject(d)
  <2> DEFINE j == [job[d] EXCEPT !.pc = "forget"]
  <2>1. j \in Jobs
    BY <1>0, JobFields
  <2>2. j.pc = "forget" /\ j.key = job[d].key /\ j.queue = job[d].queue /\ j.pending = job[d].pending
    BY <1>0 DEF Jobs
  <2>3. job' = [job EXCEPT ![d] = j]
    BY <1>5 DEF DeleteObject
  <2> HIDE DEF j
  <2>4. \A i \in job[d].key : row[i] = "absent" /\ Ended(i)
    BY <1>5 DEF DeleteObject, IInv, DeletionsAreUnreferenced, JobsAreAboutEnded
  <2> QED
    <3>1. UNCHANGED <<upload, row, aged, intent>> /\ object' = object \ job[d].key
      BY <1>5 DEF DeleteObject
    <3>2. \A k \in j.key \cup j.queue \cup j.pending : k \in Items(d)
      BY <2>2 DEF Items
    <3> QED
      BY <1>0, <2>1, <2>2, <2>3, <2>4, <3>1, <3>2, JobStep DEF Types
<1>6. CASE ForgetIntent(d)
  <2> DEFINE j == [job[d] EXCEPT !.pc = "next", !.key = {}]
  <2>1. j \in Jobs
    BY <1>0, JobFields
  <2>2. j.pc = "next" /\ j.key = {} /\ j.queue = job[d].queue /\ j.pending = job[d].pending
    BY <1>0 DEF Jobs
  <2>3. job' = Invalidate([job EXCEPT ![d] = j], job[d].key)
    BY <1>6 DEF ForgetIntent
  <2> HIDE DEF j
  <2>4. /\ intent' \in [Images -> {"none", "waiting", "due"}]
        /\ \A i \in Images :
              /\ intent'[i] = "due" => intent[i] = "due"
              /\ intent'[i] # "none" => intent[i] # "none"
    BY <1>0, <1>6 DEF ForgetIntent, Forgotten, Types
  <2> QED
    <3>1. UNCHANGED <<upload, row, aged, object>>
      BY <1>6 DEF ForgetIntent
    <3>2. \A k \in j.key \cup j.queue \cup j.pending : k \in Items(d)
      BY <2>2 DEF Items
    <3> QED
      BY <1>0, <2>1, <2>2, <2>3, <2>4, <3>1, <3>2, JobStep DEF Types
<1>7. CASE Defer(d)
  <2> DEFINE j == [job[d] EXCEPT !.pc = "next", !.key = {}]
  <2>1. j \in Jobs
    BY <1>0, JobFields
  <2>2. j.pc = "next" /\ j.key = {} /\ j.queue = job[d].queue /\ j.pending = job[d].pending
    BY <1>0 DEF Jobs
  <2>3. \/ job' = [job EXCEPT ![d] = j]
        \/ job' = Invalidate([job EXCEPT ![d] = j], job[d].key)
    BY <1>7 DEF Defer
  <2> HIDE DEF j
  <2>4. /\ intent' \in [Images -> {"none", "waiting", "due"}]
        /\ \A i \in Images :
              /\ intent'[i] = "due" => intent[i] = "due"
              /\ intent'[i] # "none" => intent[i] # "none"
    BY <1>0, <1>7 DEF Defer, Types
  <2> QED
    <3>1. UNCHANGED <<upload, row, aged, object>>
      BY <1>7 DEF Defer
    <3>2. \A k \in j.key \cup j.queue \cup j.pending : k \in Items(d)
      BY <2>2 DEF Items
    <3>3. row' \in [Images -> {"absent", "UNUSED", "attached"}]
      BY <1>0, <3>1 DEF Types
    <3> QED
      BY <2>1, <2>2, <2>3, <2>4, <3>1, <3>2, <3>3, JobStep
<1> QED
  BY <1>1, <1>2, <1>3, <1>4, <1>5, <1>6, <1>7 DEF Proceed

LEMMA FailureKeepsIInv ==
  ASSUME IInv, NEW d \in Deleters, RunStops(d) \/ AttemptFails(d)
  PROVE  IInv'
<1>0. Types /\ UploadsAreStored /\ job[d] \in Jobs
  BY DEF IInv, Types
<1>1. CASE RunStops(d)
  <2>1. Idle \in Jobs
    BY <1>0, JobFields
  <2> QED
    BY <1>0, <1>1, <2>1, JobStep DEF RunStops, Types, Idle
<1>2. CASE AttemptFails(d)
  <2>1. PICK pc \in {"check", "defer"} :
           job' = Invalidate([job EXCEPT ![d].pc = pc],
                             {i \in Images : intent'[i] # intent[i]})
    BY <1>2 DEF AttemptFails
  <2> DEFINE j == [job[d] EXCEPT !.pc = pc]
             changed == {i \in Images : intent'[i] # intent[i]}
  <2>2. j \in Jobs
    BY <1>0, JobFields
  <2>3. j.pc = pc /\ j.key = job[d].key /\ j.queue = job[d].queue /\ j.pending = job[d].pending
    BY <1>0 DEF Jobs
  <2>4. job' = Invalidate([job EXCEPT ![d] = j], changed)
    BY <2>1
  <2> HIDE DEF j, changed
  <2>5. job[d].pc = "delete" => \A i \in job[d].key : row[i] = "absent" /\ Ended(i)
    BY DEF IInv, DeletionsAreUnreferenced, JobsAreAboutEnded
  <2>6. /\ intent' \in [Images -> {"none", "waiting", "due"}]
        /\ \A i \in Images :
              /\ intent'[i] = "due" => intent[i] = "due"
              /\ intent'[i] # "none" => intent[i] # "none"
    BY <1>0, <1>2 DEF AttemptFails, Forgotten, Types
  <2>7. object' = object \/ (job[d].pc = "delete" /\ object' = object \ job[d].key)
    BY <1>2 DEF AttemptFails
  <2>8. UNCHANGED <<row, upload, aged>>
    BY <1>2 DEF AttemptFails
  <2> QED
    <3>1. \A k \in j.key \cup j.queue \cup j.pending : k \in Items(d)
      BY <2>3 DEF Items
    <3>2. row' \in [Images -> {"absent", "UNUSED", "attached"}]
      BY <1>0, <2>8 DEF Types
    <3>3. \A i \in Images : (i \in object /\ i \notin object') => row'[i] = "absent" /\ Ended(i)
      BY <2>5, <2>7, <2>8
    <3> QED
      BY <2>2, <2>3, <2>4, <2>6, <2>8, <3>1, <3>2, <3>3, JobStep
<1> QED
  BY <1>1, <1>2

\* Time only makes the intents of ended uploads due.
LEMMA TimeKeepsIInv ==
  ASSUME IInv, NEW i \in Images, IntentFallsDue(i) \/ StagingAges(i)
  PROVE  IInv'
<1>0. Types /\ UploadsAreStored
  BY DEF IInv
<1>1. Types'
  BY <1>0 DEF Types, IntentFallsDue, StagingAges
<1>2. UploadsAreStored'
  <2>1. CASE StagingAges(i)
    BY <1>0, <2>1 DEF UploadsAreStored, Ended, StagingAges
  <2>2. CASE IntentFallsDue(i)
    <3>1. Ended(i) /\ UNCHANGED <<upload, row, object>>
      BY <1>0, <2>2 DEF Types, UploadsAreStored, Ended, IntentFallsDue
    <3> QED
      BY <1>0, <2>2, <3>1 DEF Types, UploadsAreStored, Ended, IntentFallsDue
  <2> QED
    BY <2>1, <2>2
<1>3. UNCHANGED <<job, row, upload>>
  BY DEF IntentFallsDue, StagingAges
<1> QED
  BY <1>1, <1>2, <1>3, StepFrame DEF Items, Ended

LEMMA StepIInv == IInv /\ [Next]_vars => IInv'
<1>1. ASSUME IInv, UNCHANGED vars
      PROVE  IInv'
  BY <1>1 DEF vars, IInv, Types, UploadsAreStored, Ended, JobsAreAboutEnded, DeletionsAreUnreferenced
<1> QED
  BY <1>1, UploadKeepsIInv, RemovalKeepsIInv, CleanupKeepsIInv, ProceedKeepsIInv,
     FailureKeepsIInv, TimeKeepsIInv DEF Next

\* Every reachable state satisfies the invariant.
THEOREM ObjectsInvariant == Spec => []IInv
<1> QED
  BY InitIInv, StepIInv, PTL DEF Spec

\* LiveImagesHaveObjects: no compensation, handler or cleanup deletes the object of an
\* image that has a row, however they interleave, fail and die.
THEOREM LiveImagesKeepTheirObjects == Spec => []LiveImagesHaveObjects
<1>1. IInv => LiveImagesHaveObjects
  BY DEF IInv, UploadsAreStored, LiveImagesHaveObjects, Rows
<1> QED
  BY <1>1, ObjectsInvariant, PTL

\* A request that removes images is not a cleanup run.
LEMMA RemovalsAreNotCleanups ==
  ASSUME Types, NEW h \in Handlers, Removal(h), NEW w \in Workers
  PROVE  job'[w] = job[w]
<1>1. PICK removed : Remove(removed, h)
  BY DEF Removal, DeletePollImage, SavePoll, DeletePoll
<1>2. w # h /\ w \in Deleters
  BY ImagesAssumption DEF Deleters
<1> QED
  BY <1>1, <1>2 DEF Remove, Types

\* Every other step leaves attached images alone, but for the deletion of a cleanup run,
\* which takes staged ones.
LEMMA AttachedImagesAreLeft ==
  ASSUME IInv, Next, ~\E h \in Handlers : Removal(h), NEW i \in Images, row[i] = "attached"
  PROVE  row'[i] = "attached"
<1>0. row \in [Images -> {"absent", "UNUSED", "attached"}] /\ upload[i] \in {"failing", "done"}
  BY DEF IInv, Types, UploadsAreStored, Ended
<1>1. CASE \E j \in Images : Upload(j)
  <2>1. PICK j \in Images : Upload(j)
    BY <1>1
  <2>2. CASE CommitUpload(j) \/ CommitUploadFails(j)
    <3>1. upload[j] = "stored"
      BY <2>2 DEF CommitUpload, CommitUploadFails
    <3>2. j # i
      BY <1>0, <3>1
    <3> QED
      BY <1>0, <2>2, <3>2 DEF CommitUpload, CommitUploadFails
  <2>3. CASE BeginUpload(j) \/ StoreObject(j) \/ StoreObjectFails(j) \/ UploadCrashes(j)
             \/ \E h \in Handlers : Compensate(j, h)
    BY <2>3 DEF BeginUpload, StoreObject, StoreObjectFails, UploadCrashes, Compensate
  <2> QED
    BY <2>1, <2>2, <2>3 DEF Upload
<1>2. CASE \E w \in Workers : Cleanup(w)
  <2>1. PICK w \in Workers : Cleanup(w)
    BY <1>2
  <2> QED
    BY <1>0, <2>1 DEF Cleanup, StartCleanup, ExpireAbandonedStaging, Expired, FetchPending
<1>3. CASE \E d \in Deleters : Proceed(d) \/ RunStops(d) \/ AttemptFails(d)
  BY <1>3 DEF Proceed, Claim, TakeFromQueue, RunEnds, CheckReference, DeleteObject,
     ForgetIntent, Defer, RunStops, AttemptFails
<1>4. CASE \E j \in Images : IntentFallsDue(j) \/ StagingAges(j)
  BY <1>4 DEF IntentFallsDue, StagingAges
<1> QED
  BY <1>1, <1>2, <1>3, <1>4 DEF Next

\* AttachedImagesOutliveCleanup: between reading which uploads are too old and deleting
\* them a save may attach some; no cleanup run, of any number, removes those.
THEOREM CleanupsSpareAttachedImages == Spec => AttachedImagesOutliveCleanup
<1>1. IInv /\ [Next]_vars =>
        [\A w \in Workers :
           job[w].pc = "expiring" /\ job'[w].pc = "fetching"
             => \A i \in Images : row[i] = "attached" => row'[i] = "attached"]_vars
  <2> SUFFICES ASSUME IInv, Next, NEW w \in Workers,
                      job[w].pc = "expiring", job'[w].pc = "fetching",
                      NEW i \in Images, row[i] = "attached"
               PROVE  row'[i] = "attached"
    OBVIOUS
  <2>1. ~\E h \in Handlers : Removal(h)
    BY RemovalsAreNotCleanups DEF IInv
  <2> QED
    BY <2>1, AttachedImagesAreLeft
<1> QED
  BY <1>1, ObjectsInvariant, PTL DEF Spec, AttachedImagesOutliveCleanup
=============================================================================
