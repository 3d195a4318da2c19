------------------------- MODULE ContainerHostProofs -------------------------
(***************************************************************************)
(* Proofs about the Azure container host, for every container of policy    *)
(* files, every set of messages and any number of edits, failing calls and *)
(* restarts.  The two halves of the invariant are about the two jobs: what *)
(* update_policies has loaded, and how often poll_queue has received and   *)
(* tried a message.                                                        *)
(***************************************************************************)
EXTENDS ContainerHost, FiniteSetTheorems, TLAPS

-----------------------------------------------------------------------------
(***************************************************************************)
(* The inductive invariant.                                                *)
(***************************************************************************)
\* A file of the container, or on disk, is a version of its own name; the work
\* of an update is one task for each file, and a file that is about to be
\* fetched has been unloaded.
FilesAreOwn ==
    \A f \in Names : /\ storage[f] \in Versions[f] \cup {Absent}
                     /\ disk[f] \in Versions[f] \cup {Absent, Unfilled}

OneTaskPerFile == \A t, u \in todo : t.file = u.file => t = u

FetchedAreUnloaded ==
    \A t \in todo : t.op = "fetch" => disk[t.file] = Absent /\ t.file \in begun

BegunByUpdate == ~updating => begun = {}

\* What is loaded of a file no update was cut short for, at every step of an
\* update: the copy and the cron jobs follow the file on disk, and the policies in
\* force do so until the update begins with that file.
Loaded == IF updating THEN copy ELSE policies

Follows(f) ==
    /\ OfFile(Loaded, f) = OnDisk(f)
    /\ OfFile(jobs, f) = Periodic(OnDisk(f))
    /\ f \notin begun => OfFile(policies, f) = OnDisk(f)

LoadedFollowsDisk == \A f \in Names \ cut : Follows(f)

\* A message is received once for every time it is tried, and the poll that
\* received a message either deletes it or fails.
OnePlaceInBatch == \A i, j \in 1..Len(batch) : batch[i] = batch[j] => i = j

Awaits(m) == InBatch(m) /\ ~(dispatched /\ m = Current)

BatchIsHidden == \A m \in Msgs : InBatch(m) => where[m] = "hidden"

TriesAreReceived ==
    \A m \in Msgs : tries[m] + (IF Awaits(m) THEN 1 ELSE 0) <= dequeue_count[m]

ReceivedAgainAfterFailure ==
    \A m \in Msgs : where[m] # "deleted" =>
        dequeue_count[m] <= failedPolls + (IF InBatch(m) THEN 1 ELSE 0)

QueueInv ==
    /\ OnePlaceInBatch /\ BatchIsHidden /\ TriesAreReceived /\ ReceivedAgainAfterFailure
    /\ RetriesBounded /\ GivenUpOnlyAfterFailures

IndInv ==
    /\ TypeOK /\ FilesAreOwn /\ OneTaskPerFile /\ FetchedAreUnloaded /\ BegunByUpdate
    /\ NamesAreOwned => LoadedFollowsDisk /\ WholeVersions
    /\ QueueInv

-----------------------------------------------------------------------------
(***************************************************************************)
(* Policies of a file.                                                     *)
(***************************************************************************)
\* load_policy loads policies of the file only, and those are policies.
LEMMA LoadableIsIn ==
    ASSUME NEW c
    PROVE  /\ Loadable(c) \subseteq In(c)
           /\ c \in Contents => In(c) \subseteq Policies
  BY DEF Loadable, In, Policies

\* A version of a file is a content, and not the mark for a missing file.
LEMMA VersionIsContent ==
    ASSUME NEW f \in Names, NEW c \in Versions[f]
    PROVE  c \in Contents /\ c # Absent
  BY HostAssumption DEF Contents

\* A page of messages is a sequence of visible ones, each at one place.
LEMMA PageIsBatch ==
    ASSUME NEW b \in Pages
    PROVE  /\ b \in Seq(Msgs)
           /\ \A i, j \in 1..Len(b) : b[i] = b[j] => i = j
           /\ \A i \in 1..Len(b) : b[i] \in Visible
  <1> DEFINE n == IF Cardinality(Visible) < queue_message_count
                    THEN Cardinality(Visible) ELSE queue_message_count
  <1>1. Visible \subseteq Msgs
    BY DEF Visible
  <1>2. Cardinality(Visible) \in Nat
    BY <1>1, HostAssumption, FS_Subset, FS_CardinalityType
  <1>3. n \in Nat
    BY <1>2, HostAssumption
  <1>4. b \in [1..n -> Visible] /\ \A i, j \in 1..n : b[i] = b[j] => i = j
    BY DEF Pages
  <1> HIDE DEF n
  <1>5. b \in Seq(Visible) /\ Len(b) = n
    BY <1>3, <1>4
  <1> QED BY <1>1, <1>4, <1>5

-----------------------------------------------------------------------------
(***************************************************************************)
(* The two sides of the host.                                              *)
(***************************************************************************)
\* A step of the queue, of poll_queue, or of a one-off job.
QueueSide ==
    /\ UNCHANGED <<blobVars, policies, jobs, fileVars>>
    /\ \/ \E m \in Msgs : SendEvent(m) \/ Reappear(m)
       \/ Poll \/ RunEventJob

\* A step of the container, or of update_policies.
FileSide ==
    /\ UNCHANGED <<eventJobs, queueVars>>
    /\ (\E f \in Names : Edit(f)) \/ Update

\* Every step is one of the queue, one of the files, or a restart.
LEMMA Sides ==
    ASSUME Next
    PROVE  QueueSide \/ FileSide \/ Restart
  <1> USE DEF QueueSide, FileSide, vars, blobVars, fileVars, queueVars
  <1>1. CASE \E f \in Names : Edit(f)
    BY <1>1 DEF Edit
  <1>2. CASE Update
    BY <1>2 DEF Update, UpdateLists, UpdateFindsUnhashed, UpdateEnds, RemoveFile,
                UnloadOld, FetchFile, FetchFails
  <1>3. CASE \E m \in Msgs : SendEvent(m) \/ Reappear(m)
    BY <1>3 DEF SendEvent, Reappear
  <1>4. CASE RunEventJob
    BY <1>4 DEF RunEventJob
  <1>5. CASE Poll
    BY <1>5 DEF Poll, PollIdle, PollStarts, Receive, PollEnds, DeleteExpired, Delete,
                Dispatch, DispatchClashes, DispatchMalformed, DeleteDispatched,
                QueueFails, PollRaises
  <1> QED BY <1>1, <1>2, <1>3, <1>4, <1>5 DEF Next, Environment

-----------------------------------------------------------------------------
(***************************************************************************)
(* Type correctness.                                                       *)
(***************************************************************************)
\* The types hold at first.
LEMMA TypeInit == Init => TypeOK
  <1> SUFFICES ASSUME Init PROVE TypeOK  OBVIOUS
  <1>1. budget \in [Kinds -> Nat]
    BY HostAssumption DEF Init
  <1>2. /\ storage \in [Names -> Contents \cup {Absent}]
        /\ uploaded \in [Names -> SUBSET Contents]
        /\ blob_cache \in [Names -> FileStates] /\ disk \in [Names -> FileStates]
    BY DEF Init, Nothing, FileStates
  <1>3. /\ where \in [Msgs -> {"unsent", "visible", "hidden", "deleted"}]
        /\ dequeue_count \in [Msgs -> Nat] /\ tries \in [Msgs -> Nat]
        /\ batch \in Seq(Msgs) /\ failedPolls \in Nat
    BY DEF Init
  <1>4. /\ reused \in BOOLEAN /\ updating \in BOOLEAN
        /\ polling \in BOOLEAN /\ dispatched \in BOOLEAN
    BY DEF Init
  <1>5. /\ policies \subseteq Policies /\ jobs \subseteq Policies /\ copy \subseteq Policies
        /\ eventJobs \subseteq [policy : Policies, event : {EventOf[m] : m \in Msgs}]
        /\ todo \subseteq Tasks /\ expired \subseteq Msgs
        /\ begun \subseteq Names /\ cut \subseteq Names
    BY DEF Init
  <1> QED BY <1>1, <1>2, <1>3, <1>4, <1>5 DEF TypeOK

\* The budget stays a budget.
LEMMA BudgetType ==
    ASSUME budget \in [Kinds -> Nat], NEW k \in Kinds, Spend(k)
    PROVE  budget' \in [Kinds -> Nat]
  <1>1. budget[k] - 1 \in Nat
    BY DEF Spend
  <1> QED BY <1>1 DEF Spend

\* Edits and the steps of update_policies keep the types.
LEMMA TypeStepFiles ==
    ASSUME TypeOK, FileSide
    PROVE  TypeOK'
  <1> USE DEF TypeOK, queueVars
  <1>q. UNCHANGED <<eventJobs, queueVars>>
    BY DEF FileSide
  <1>1. ASSUME NEW f \in Names, Edit(f)
        PROVE  TypeOK'
    <2>1. PICK c \in Versions[f] \cup {Absent} :
              /\ storage' = [storage EXCEPT ![f] = c]
              /\ uploaded' = [uploaded EXCEPT ![f] = @ \cup ({c} \ {Absent})]
              /\ reused' = (reused \/ c \in uploaded[f])
      BY <1>1 DEF Edit
    <2>2. c \in Contents \cup {Absent}
      BY VersionIsContent
    <2>3. uploaded[f] \cup ({c} \ {Absent}) \in SUBSET Contents
      BY <2>2
    <2>4. reused' \in BOOLEAN
      BY <2>1, Zenon
    <2>5. budget' \in [Kinds -> Nat]
      BY <1>1, BudgetType DEF Edit, Kinds
    <2>6. UNCHANGED <<policies, jobs, fileVars>>
      BY <1>1 DEF Edit
    <2> QED BY <1>q, <2>1, <2>2, <2>3, <2>4, <2>5, <2>6 DEF fileVars
  <1>2. CASE UpdateLists
    <2>1. todo' \subseteq Tasks
      BY <1>2 DEF UpdateLists, Tasks, RemovedFiles, NewBlobs, FileStates
    <2> QED BY <1>2, <1>q, <2>1 DEF UpdateLists, blobVars
  <1>3. CASE UpdateFindsUnhashed
    BY <1>3 DEF UpdateFindsUnhashed, vars, blobVars, fileVars
  <1>4. CASE UpdateEnds
    BY <1>4, <1>q DEF UpdateEnds, blobVars
  <1>5. ASSUME NEW t \in todo, RemoveFile(t) \/ UnloadOld(t)
        PROVE  TypeOK'
    <2>1. t.file \in Names /\ [t EXCEPT !.op = "fetch"] \in Tasks
      BY DEF Tasks
    <2>5. begun' \subseteq Names /\ UNCHANGED cut
      BY <1>5, <2>1 DEF RemoveFile, UnloadOld
    <2>2. copy' \subseteq copy /\ jobs' \subseteq jobs
      BY <1>5 DEF RemoveFile, UnloadOld, Unload, Without
    <2>3. disk' \in [Names -> FileStates]
      BY <1>5, <2>1 DEF RemoveFile, UnloadOld, Unload, FileStates
    <2>4. todo' \subseteq Tasks
      BY <1>5, <2>1 DEF RemoveFile, UnloadOld
    <2> QED BY <1>5, <1>q, <2>2, <2>3, <2>4, <2>5 DEF RemoveFile, UnloadOld, blobVars
  <1>6. ASSUME NEW t \in todo, FetchFile(t)
        PROVE  TypeOK'
    <2>1. t.file \in Names /\ t.md5 \in FileStates
      BY DEF Tasks
    <2>2. storage[t.file] \in Contents
      BY <1>6, <2>1 DEF FetchFile
    <2>3. Loadable(storage[t.file]) \subseteq Policies
      BY <2>2, LoadableIsIn
    <2>4. copy' \subseteq Policies /\ jobs' \subseteq Policies
      BY <1>6, <2>3 DEF FetchFile, Without, Periodic
    <2>5. disk' \in [Names -> FileStates] /\ blob_cache' \in [Names -> FileStates]
      BY <1>6, <2>1, <2>2 DEF FetchFile, FileStates
    <2>6. todo' \subseteq Tasks
      BY <1>6 DEF FetchFile
    <2> QED BY <1>6, <1>q, <2>4, <2>5, <2>6 DEF FetchFile, blobVars
  <1>7. ASSUME NEW t \in todo, FetchFails(t)
        PROVE  TypeOK'
    <2>1. t.file \in Names
      BY DEF Tasks
    <2>2. budget' \in [Kinds -> Nat]
      BY <1>7, BudgetType DEF FetchFails, Kinds
    <2>3. disk' \in [Names -> FileStates]
      BY <1>7, <2>1 DEF FetchFails, FileStates
    <2> QED BY <1>7, <1>q, <2>2, <2>3 DEF FetchFails, blobVars
  <1> QED BY <1>1, <1>2, <1>3, <1>4, <1>5, <1>6, <1>7 DEF FileSide, Update

\* A restart keeps the types.
LEMMA TypeStepRestart ==
    ASSUME TypeOK, Restart
    PROVE  TypeOK'
  <1>1. budget' \in [Kinds -> Nat]
    BY BudgetType DEF Restart, TypeOK, Kinds
  <1>2. failedPolls' \in Nat
    BY DEF Restart, TypeOK
  <1>3. blob_cache' \in [Names -> FileStates] /\ disk' \in [Names -> FileStates]
    BY DEF Restart, Nothing, FileStates
  <1>4. /\ updating' \in BOOLEAN
        /\ polling' \in BOOLEAN /\ dispatched' \in BOOLEAN
    BY DEF Restart
  <1>5. /\ policies' \subseteq Policies /\ jobs' \subseteq Policies /\ copy' \subseteq Policies
        /\ eventJobs' \subseteq [policy : Policies, event : {EventOf[m] : m \in Msgs}]
        /\ todo' \subseteq Tasks /\ batch' \in Seq(Msgs)
        /\ begun' \subseteq Names /\ cut' \subseteq Names
    BY DEF Restart
  <1>6. UNCHANGED <<storage, uploaded, reused, where, dequeue_count, tries, expired>>
    BY DEF Restart, blobVars
  <1> QED BY <1>1, <1>2, <1>3, <1>4, <1>5, <1>6 DEF TypeOK

\* A failed poll: the batch is dropped, and messages and tries keep their types.
LEMMA RaisesType ==
    ASSUME TypeOK, PollRaises
    PROVE  /\ UNCHANGED <<blobVars, policies, jobs, fileVars, where, dequeue_count, expired>>
           /\ polling' \in BOOLEAN /\ dispatched' \in BOOLEAN
           /\ batch' \in Seq(Msgs) /\ failedPolls' \in Nat
  <1>1. polling' \in BOOLEAN /\ dispatched' \in BOOLEAN
    BY DEF PollRaises
  <1> QED BY <1>1 DEF PollRaises, TypeOK

\* The message that is processed is one.
LEMMA CurrentIsMsg ==
    ASSUME batch \in Seq(Msgs), batch # << >>
    PROVE  /\ Current \in Msgs /\ Tail(batch) \in Seq(Msgs)
           /\ Current = batch[1] /\ 1 \in 1..Len(batch)
           /\ Len(Tail(batch)) = Len(batch) - 1
           /\ \A i \in 1..(Len(batch) - 1) : Tail(batch)[i] = batch[i + 1]
  BY DEF Current

\* The steps of the queue and of poll_queue keep the types.
LEMMA TypeStepQueue ==
    ASSUME TypeOK, QueueSide
    PROVE  TypeOK'
  <1>q. /\ UNCHANGED <<blobVars, policies, jobs, fileVars>>
        /\ UNCHANGED <<storage, uploaded, reused, blob_cache, disk, updating, todo, copy>>
        /\ UNCHANGED <<begun, cut>>
    BY DEF QueueSide, blobVars, fileVars
  <1>b. batch # << >> => Current \in Msgs /\ Tail(batch) \in Seq(Msgs)
    BY CurrentIsMsg DEF TypeOK
  <1>1. ASSUME NEW m \in Msgs, SendEvent(m) \/ Reappear(m)
        PROVE  TypeOK'
    <2>1. budget' \in [Kinds -> Nat]
      BY <1>1, BudgetType DEF SendEvent, Reappear, TypeOK, Kinds
    <2>2. where' \in [Msgs -> {"unsent", "visible", "hidden", "deleted"}]
      BY <1>1 DEF SendEvent, Reappear, TypeOK
    <2> QED BY <1>1, <1>q, <2>1, <2>2 DEF SendEvent, Reappear, TypeOK
  <1>2. CASE RunEventJob
    BY <1>2, <1>q DEF RunEventJob, queueVars, TypeOK
  <1>3. CASE PollIdle
    BY <1>3, <1>q DEF PollIdle, vars, queueVars, TypeOK
  <1>4. CASE PollStarts \/ PollEnds
    <2>1. polling' \in BOOLEAN
      BY <1>4 DEF PollStarts, PollEnds
    <2> QED BY <1>4, <1>q, <2>1 DEF PollStarts, PollEnds, TypeOK
  <1>5. CASE Receive
    <2>1. PICK b \in Pages :
              /\ batch' = b
              /\ LET taken == {b[i] : i \in 1..Len(b)}
                 IN  /\ where' = [m \in Msgs |-> IF m \in taken THEN "hidden" ELSE where[m]]
                     /\ dequeue_count' = [m \in Msgs |->
                          IF m \in taken THEN dequeue_count[m] + 1 ELSE dequeue_count[m]]
      BY <1>5 DEF Receive
    <2>2. where' \in [Msgs -> {"unsent", "visible", "hidden", "deleted"}]
      BY <2>1 DEF TypeOK
    <2>3. \A m \in Msgs : dequeue_count[m] + 1 \in Nat /\ dequeue_count[m] \in Nat
      BY DEF TypeOK
    <2>4. dequeue_count' \in [Msgs -> Nat]
      BY <2>1, <2>3
    <2>5. batch' \in Seq(Msgs)
      BY <2>1, PageIsBatch
    <2> QED BY <1>5, <1>q, <2>2, <2>4, <2>5 DEF Receive, TypeOK
  <1>6. CASE DeleteExpired \/ DeleteDispatched
    <2>1. batch # << >> /\ Delete
      BY <1>6 DEF DeleteExpired, DeleteDispatched
    <2>2. where' \in [Msgs -> {"unsent", "visible", "hidden", "deleted"}]
      BY <2>1, <1>b DEF Delete, TypeOK
    <2>3. dispatched' \in BOOLEAN
      BY <2>1 DEF Delete
    <2>4. expired' \subseteq Msgs
      BY <1>6, <1>b DEF DeleteExpired, DeleteDispatched, TypeOK
    <2> QED BY <2>1, <1>b, <1>q, <2>2, <2>3, <2>4 DEF Delete, TypeOK
  <1>t. ASSUME batch # << >>, tries' = [tries EXCEPT ![Current] = @ + 1]
        PROVE  tries' \in [Msgs -> Nat]
    <2>1. tries[Current] + 1 \in Nat
      BY <1>t, <1>b DEF TypeOK
    <2> QED BY <1>t, <2>1 DEF TypeOK
  <1>j. ASSUME batch # << >>, NEW ps \in SUBSET Matching
        PROVE  Jobs(ps) \subseteq [policy : Policies, event : {EventOf[m] : m \in Msgs}]
    BY <1>j, <1>b DEF Jobs, Matching, TypeOK
  <1>7. CASE Dispatch
    <2>1. dispatched' \in BOOLEAN
      BY <1>7 DEF Dispatch
    <2>2. eventJobs' \subseteq [policy : Policies, event : {EventOf[m] : m \in Msgs}]
      BY <1>7, <1>j DEF Dispatch, Processing, TypeOK
    <2>3. tries' \in [Msgs -> Nat]
      BY <1>7, <1>t DEF Dispatch, Processing
    <2> QED BY <1>7, <1>q, <2>1, <2>2, <2>3 DEF Dispatch, TypeOK
  <1>8. CASE DispatchClashes
    <2>1. PICK ps \in SUBSET {p \in Matching : ~Clash(p)} : eventJobs' = eventJobs \cup Jobs(ps)
      BY <1>8 DEF DispatchClashes
    <2>2. eventJobs' \subseteq [policy : Policies, event : {EventOf[m] : m \in Msgs}]
      BY <1>8, <1>j, <2>1 DEF DispatchClashes, Processing, TypeOK
    <2>3. tries' \in [Msgs -> Nat]
      BY <1>8, <1>t DEF DispatchClashes, Processing
    <2>4. PollRaises /\ UNCHANGED budget
      BY <1>8 DEF DispatchClashes
    <2> QED BY <1>q, <2>2, <2>3, <2>4, RaisesType DEF TypeOK
  <1>9. CASE DispatchMalformed
    <2>1. PollRaises /\ UNCHANGED <<eventJobs, tries, budget>>
      BY <1>9 DEF DispatchMalformed
    <2> QED BY <1>q, <2>1, RaisesType DEF TypeOK
  <1>10. CASE QueueFails
    <2>1. PollRaises /\ UNCHANGED <<eventJobs, tries>>
      BY <1>10 DEF QueueFails
    <2>2. budget' \in [Kinds -> Nat]
      BY <1>10, BudgetType DEF QueueFails, TypeOK, Kinds
    <2> QED BY <1>q, <2>1, <2>2, RaisesType DEF TypeOK
  <1> QED
    BY <1>1, <1>2, <1>3, <1>4, <1>5, <1>6, <1>7, <1>8, <1>9, <1>10 DEF QueueSide, Poll

\* Every step keeps the types.
LEMMA TypeStep ==
    ASSUME TypeOK, [Next]_vars
    PROVE  TypeOK'
  <1>1. CASE UNCHANGED vars
    BY <1>1 DEF vars, blobVars, fileVars, queueVars, TypeOK
  <1>2. CASE Next
    BY <1>2, Sides, TypeStepFiles, TypeStepQueue, TypeStepRestart
  <1> QED BY <1>1, <1>2

-----------------------------------------------------------------------------
(***************************************************************************)
(* update_policies: files and tasks.                                       *)
(***************************************************************************)
FileInv == FilesAreOwn /\ OneTaskPerFile /\ FetchedAreUnloaded /\ BegunByUpdate

\* The files stay versions of their own names, and the tasks one per file.
LEMMA FileStep ==
    ASSUME TypeOK, FileInv, FileSide
    PROVE  FileInv'
  <1> USE DEF FileInv
  <1>d. storage \in [Names -> Contents \cup {Absent}] /\ disk \in [Names -> FileStates]
    BY DEF TypeOK
  <1>t. \A t \in todo : t \in Tasks /\ t.file \in Names
    BY DEF TypeOK, Tasks
  <1>1. ASSUME NEW f \in Names, Edit(f)
        PROVE  FileInv'
    <2>1. UNCHANGED <<disk, todo, updating, begun>>
      BY <1>1 DEF Edit, fileVars
    <2>2. FilesAreOwn'
      BY <1>1, <1>d, <2>1 DEF Edit, FilesAreOwn
    <2> QED BY <2>1, <2>2 DEF OneTaskPerFile, FetchedAreUnloaded, BegunByUpdate
  <1>2. CASE UpdateLists
    <2>1. UNCHANGED <<storage, disk>>
      BY <1>2 DEF UpdateLists, blobVars
    <2>2. RemovedFiles \cap NewBlobs = {}
      BY DEF RemovedFiles, NewBlobs
    <2>3. OneTaskPerFile'
      BY <1>2, <2>2 DEF UpdateLists, OneTaskPerFile
    <2>4. FetchedAreUnloaded'
      BY <1>2 DEF UpdateLists, FetchedAreUnloaded
    <2>5. BegunByUpdate'
      BY <1>2 DEF UpdateLists, BegunByUpdate
    <2> QED BY <2>1, <2>3, <2>4, <2>5 DEF FilesAreOwn
  <1>3. CASE UpdateFindsUnhashed \/ UpdateEnds
    <2>1. UNCHANGED <<storage, disk, todo>> /\ BegunByUpdate'
      BY <1>3 DEF UpdateFindsUnhashed, UpdateEnds, BegunByUpdate, vars, blobVars, fileVars
    <2>2. todo' = {} \/ UNCHANGED begun
      BY <1>3 DEF UpdateFindsUnhashed, UpdateEnds, vars, fileVars
    <2> QED BY <2>1, <2>2 DEF FilesAreOwn, OneTaskPerFile, FetchedAreUnloaded
  <1>4. ASSUME NEW t \in todo, RemoveFile(t) \/ UnloadOld(t)
        PROVE  FileInv'
    <2>1. /\ UNCHANGED storage /\ disk' = [disk EXCEPT ![t.file] = Absent]
          /\ begun' = begun \cup {t.file} /\ updating /\ updating'
      BY <1>4 DEF RemoveFile, UnloadOld, Unload, Task, blobVars
    <2>2. FilesAreOwn'
      BY <1>d, <1>t, <2>1 DEF FilesAreOwn
    <2>3. \A u \in todo' : \/ u \in todo \ {t}
                           \/ u.file = t.file /\ u = [t EXCEPT !.op = "fetch"]
      BY <1>4, <1>t DEF RemoveFile, UnloadOld, Tasks
    <2>4. OneTaskPerFile'
      BY <2>3 DEF OneTaskPerFile
    <2>5. FetchedAreUnloaded'
      BY <1>d, <1>t, <2>1, <2>3 DEF FetchedAreUnloaded
    <2> QED BY <2>1, <2>2, <2>4, <2>5 DEF BegunByUpdate
  <1>5. ASSUME NEW t \in todo, FetchFile(t)
        PROVE  FileInv'
    <2>1. /\ UNCHANGED storage /\ disk' = [disk EXCEPT ![t.file] = storage[t.file]]
          /\ todo' = todo \ {t} /\ UNCHANGED <<updating, begun>>
      BY <1>5 DEF FetchFile, blobVars
    <2>2. FilesAreOwn'
      BY <1>d, <1>t, <2>1 DEF FilesAreOwn
    <2>3. OneTaskPerFile'
      BY <2>1 DEF OneTaskPerFile
    <2>4. \A u \in todo' : u.file # t.file
      BY <2>1 DEF OneTaskPerFile
    <2>5. FetchedAreUnloaded'
      BY <1>d, <1>t, <2>1, <2>4 DEF FetchedAreUnloaded
    <2> QED BY <2>1, <2>2, <2>3, <2>5 DEF BegunByUpdate
  <1>6. ASSUME NEW t \in todo, FetchFails(t)
        PROVE  FileInv'
    <2>1. /\ UNCHANGED storage /\ disk' = [disk EXCEPT ![t.file] = Unfilled]
          /\ todo' = {} /\ begun' = {}
      BY <1>6 DEF FetchFails, blobVars
    <2>2. FilesAreOwn'
      BY <1>d, <1>t, <2>1 DEF FilesAreOwn
    <2> QED BY <2>1, <2>2 DEF OneTaskPerFile, FetchedAreUnloaded, BegunByUpdate
  <1> QED BY <1>1, <1>2, <1>3, <1>4, <1>5, <1>6 DEF FileSide, Update

-----------------------------------------------------------------------------
(***************************************************************************)
(* update_policies: what is loaded.                                        *)
(***************************************************************************)
\* No policy that a version of one file defines has the name of one that a
\* version of another file defines.
LEMMA NamesOfOthers ==
    ASSUME NamesAreOwned, NEW f \in Names, NEW g \in Names, f # g,
           NEW c \in Versions[f], NEW d \in Versions[g],
           NEW p \in In(c), NEW q \in In(d)
    PROVE  p.name # q.name
  <1>1. p.name \in PolicyNames(In(c)) /\ q.name \in PolicyNames(In(d))
    BY DEF PolicyNames
  <1> QED BY <1>1 DEF NamesAreOwned

\* A file that was never filled has no policies.
LEMMA UnfilledIsEmpty == In(Unfilled) = {} /\ Loadable(Unfilled) = {}
  <1>1. Len(Unfilled) = 0
    BY DEF Unfilled
  <1>2. 1..0 = {}
    OBVIOUS
  <1> QED BY <1>1, <1>2 DEF In, Loadable

\* What is loaded of a file comes from a version of that file.
LEMMA PoliciesAreOfFile ==
    ASSUME FilesAreOwn, NEW f \in Names
    PROVE  /\ OfFile(OnDisk(f), f) = OnDisk(f)
           /\ \A p \in OnDisk(f) : disk[f] \in Versions[f] /\ p \in In(disk[f])
           /\ \E c \in Versions[f] \cup {Unfilled} : OnDisk(f) = Loadable(c)
  BY UnfilledIsEmpty, LoadableIsIn DEF FilesAreOwn, OnDisk, OfFile

\* Dropping the names of policies of one file from a set of policies takes nothing
\* of another file.
LEMMA OthersStay ==
    ASSUME NamesAreOwned, NEW f \in Names, NEW g \in Names, f # g,
           NEW d \in Versions[f], NEW qs \in SUBSET In(d), NEW ps
    PROVE  /\ OfFile(Without(ps, PolicyNames(qs)), g) = OfFile(ps, g)
           /\ OfFile(qs, g) = {}
  <1>1. ASSUME NEW c \in Versions[g], NEW p \in In(c)
        PROVE  p.name \notin PolicyNames(qs) /\ p \notin qs
    <2>1. ASSUME NEW q \in qs PROVE p.name # q.name
      BY <1>1, NamesOfOthers
    <2> QED BY <2>1 DEF PolicyNames
  <1> QED BY <1>1 DEF OfFile, Without

\* Unloading a file takes from the copy, and from the cron jobs, what that file
\* has brought, and nothing else.
LEMMA UnloadFollows ==
    ASSUME TypeOK, FilesAreOwn, NamesAreOwned, NEW f \in Names, Unload(f),
           NEW g \in Names,
           OfFile(copy, g) = OnDisk(g), OfFile(jobs, g) = Periodic(OnDisk(g))
    PROVE  /\ OfFile(copy', g) = OnDisk(g)' /\ OfFile(jobs', g) = Periodic(OnDisk(g)')
           /\ g # f => OnDisk(g)' = OnDisk(g)
  <1>d. disk \in [Names -> FileStates] /\ disk' = [disk EXCEPT ![f] = Absent]
    BY DEF TypeOK, Unload
  <1>1. OnDisk(f)' = {} /\ (g # f => OnDisk(g)' = OnDisk(g))
    BY <1>d DEF OnDisk
  <1>2. CASE disk[f] = Absent
    <2>1. OnDisk(f) = {}
      BY <1>2 DEF OnDisk
    <2>2. UNCHANGED <<copy, jobs>>
      BY <1>2 DEF Unload
    <2> QED BY <1>1, <2>1, <2>2
  <1>3. CASE disk[f] # Absent /\ g # f
    <2>1. CASE disk[f] = Unfilled
      <3>1. /\ copy' = Without(copy, PolicyNames({}))
            /\ jobs' = Without(jobs, PolicyNames({}))
        BY <1>3, <2>1, UnfilledIsEmpty DEF Unload, Scheduled
      <3>2. UNCHANGED <<copy, jobs>>
        BY <3>1 DEF Without, PolicyNames
      <3> QED BY <1>1, <1>3, <3>2
    <2>2. CASE disk[f] \in Versions[f]
      <3>1. /\ copy' = Without(copy, PolicyNames(In(disk[f])))
            /\ jobs' = Without(jobs, PolicyNames(Scheduled(In(disk[f]))))
        BY <1>3 DEF Unload
      <3>2. Scheduled(In(disk[f])) \in SUBSET In(disk[f])
        BY DEF Scheduled
      <3>3. OfFile(copy', g) = OfFile(copy, g)
        BY <1>3, <2>2, <3>1, OthersStay
      <3>4. OfFile(jobs', g) = OfFile(jobs, g)
        BY <1>3, <2>2, <3>1, <3>2, OthersStay
      <3> QED BY <1>1, <1>3, <3>3, <3>4
    <2> QED BY <1>3, <2>1, <2>2 DEF FilesAreOwn
  <1>4. CASE disk[f] # Absent /\ g = f
    <2>1. /\ copy' = Without(copy, PolicyNames(In(disk[f])))
          /\ jobs' = Without(jobs, PolicyNames(Scheduled(In(disk[f]))))
      BY <1>4 DEF Unload
    <2>2. \A p \in OnDisk(f) : p \in In(disk[f])
      BY PoliciesAreOfFile
    <2>3. \A p \in OnDisk(f) : p.name \in PolicyNames(In(disk[f]))
      BY <2>2 DEF PolicyNames
    <2>4. \A p \in Periodic(OnDisk(f)) : p.name \in PolicyNames(Scheduled(In(disk[f])))
      BY <2>2 DEF PolicyNames, Periodic, Scheduled
    <2>5. OfFile(copy', f) = {}
      <3>1. ASSUME NEW p \in OfFile(copy', f) PROVE FALSE
        <4>1. p \in OfFile(copy, f) /\ p.name \notin PolicyNames(In(disk[f]))
          BY <3>1, <2>1 DEF OfFile, Without
        <4> QED BY <4>1, <1>4, <2>3
      <3> QED BY <3>1
    <2>6. OfFile(jobs', f) = {}
      <3>1. ASSUME NEW p \in OfFile(jobs', f) PROVE FALSE
        <4>1. p \in OfFile(jobs, f) /\ p.name \notin PolicyNames(Scheduled(In(disk[f])))
          BY <3>1, <2>1 DEF OfFile, Without
        <4> QED BY <4>1, <1>4, <2>4
      <3> QED BY <3>1
    <2>7. Periodic(OnDisk(f)') = {}
      BY <1>1 DEF Periodic
    <2> QED BY <1>1, <1>4, <2>5, <2>6, <2>7
  <1> QED BY <1>2, <1>3, <1>4

\* Loading a file that has been unloaded adds what that file brings.
LEMMA FetchFollows ==
    ASSUME TypeOK, FileInv, NamesAreOwned, NEW t \in todo, FetchFile(t),
           NEW g \in Names,
           OfFile(copy, g) = OnDisk(g), OfFile(jobs, g) = Periodic(OnDisk(g))
    PROVE  /\ OfFile(copy', g) = OnDisk(g)' /\ OfFile(jobs', g) = Periodic(OnDisk(g)')
           /\ g # t.file => OnDisk(g)' = OnDisk(g)
  <1> DEFINE f == t.file
             new == Loadable(storage[f])
  <1>f. f \in Names
    BY DEF TypeOK, Tasks
  <1>s. storage[f] \in Versions[f] /\ storage[f] # Absent
    BY <1>f DEF FetchFile, FileInv, FilesAreOwn
  <1>d. /\ disk \in [Names -> FileStates] /\ disk' = [disk EXCEPT ![f] = storage[f]]
        /\ disk[f] = Absent
    BY DEF TypeOK, FetchFile, FileInv, FetchedAreUnloaded, Task
  <1>c. /\ copy' = Without(copy, PolicyNames(new)) \cup new
        /\ jobs' = Without(jobs, PolicyNames(Periodic(new))) \cup Periodic(new)
    BY DEF FetchFile
  <1>n. new \in SUBSET In(storage[f]) /\ Periodic(new) \in SUBSET In(storage[f])
    BY LoadableIsIn DEF Periodic
  <1>1. OnDisk(f) = {} /\ OnDisk(f)' = new /\ (g # f => OnDisk(g)' = OnDisk(g))
    BY <1>d, <1>f, <1>s DEF OnDisk
  <1> HIDE DEF f, new
  <1>u. /\ OfFile(copy', g) = OfFile(Without(copy, PolicyNames(new)), g) \cup OfFile(new, g)
        /\ OfFile(jobs', g) = OfFile(Without(jobs, PolicyNames(Periodic(new))), g)
                                \cup OfFile(Periodic(new), g)
    BY <1>c DEF OfFile
  <1>2. CASE g # f
    <2>1. /\ OfFile(Without(copy, PolicyNames(new)), g) = OfFile(copy, g)
          /\ OfFile(new, g) = {}
      BY <1>f, <1>s, <1>n, <1>2, OthersStay
    <2>2. /\ OfFile(Without(jobs, PolicyNames(Periodic(new))), g) = OfFile(jobs, g)
          /\ OfFile(Periodic(new), g) = {}
      BY <1>f, <1>s, <1>n, <1>2, OthersStay
    <2>3. OfFile(copy', g) = OfFile(copy, g) /\ OfFile(jobs', g) = OfFile(jobs, g)
      BY <1>u, <2>1, <2>2
    <2> QED BY <1>1, <1>2, <2>3 DEF f
  <1>3. CASE g = f
    <2>1. OfFile(copy, f) = {} /\ OfFile(jobs, f) = {}
      BY <1>1, <1>3 DEF Periodic
    <2>2. OfFile(Without(copy, PolicyNames(new)), f) = {}
      BY <2>1 DEF OfFile, Without
    <2>3. OfFile(Without(jobs, PolicyNames(Periodic(new))), f) = {}
      BY <2>1 DEF OfFile, Without
    <2>4. OfFile(new, f) = new /\ OfFile(Periodic(new), f) = Periodic(new)
      BY <1>s, <1>n DEF OfFile
    <2>5. OfFile(copy', f) = new /\ OfFile(jobs', f) = Periodic(new)
      BY <1>u, <1>3, <2>2, <2>3, <2>4
    <2> QED BY <1>1, <1>3, <2>5 DEF f
  <1> QED BY <1>2, <1>3

\* At every step of an update, the copy follows the files on disk; an update that
\* is cut short leaves the files it had not begun as they were.
LEMMA LoadedStep ==
    ASSUME TypeOK, FileInv, FileSide, NamesAreOwned, LoadedFollowsDisk
    PROVE  LoadedFollowsDisk'
  <1> SUFFICES ASSUME NEW f \in Names, f \notin cut'
               PROVE  Follows(f)'
    BY DEF LoadedFollowsDisk
  <1>0. f \notin cut
    BY DEF FileSide, Edit, Update, UpdateLists, UpdateFindsUnhashed, UpdateEnds,
           RemoveFile, UnloadOld, FetchFile, FetchFails, vars, fileVars
  <1>f. /\ OfFile(Loaded, f) = OnDisk(f)
        /\ OfFile(jobs, f) = Periodic(OnDisk(f))
        /\ f \notin begun => OfFile(policies, f) = OnDisk(f)
    BY <1>0 DEF LoadedFollowsDisk, Follows
  <1>1. ASSUME UNCHANGED <<policies, jobs, disk, begun>>, Loaded' = Loaded
        PROVE  Follows(f)'
    BY <1>1, <1>f DEF Follows, OnDisk, OfFile, Periodic
  <1>2. CASE (\E g \in Names : Edit(g)) \/ UpdateFindsUnhashed
    BY <1>1, <1>2 DEF Edit, UpdateFindsUnhashed, vars, fileVars, Loaded
  <1>3. CASE UpdateLists
    <2>1. Loaded' = Loaded
      BY <1>3 DEF UpdateLists, Loaded
    <2> QED BY <1>1, <1>3, <2>1 DEF UpdateLists
  <1>4. CASE UpdateEnds
    <2>1. /\ Loaded' = Loaded /\ policies' = Loaded /\ UNCHANGED <<jobs, disk>>
      BY <1>4 DEF UpdateEnds, Loaded
    <2> QED BY <1>f, <2>1 DEF Follows, OnDisk, OfFile, Periodic
  <1>5. ASSUME NEW t \in todo, RemoveFile(t) \/ UnloadOld(t) \/ FetchFile(t)
        PROVE  Follows(f)'
    <2>1. updating /\ updating' /\ UNCHANGED policies
      BY <1>5 DEF RemoveFile, UnloadOld, FetchFile, Task
    <2>2. OfFile(copy, f) = OnDisk(f)
      BY <1>f, <2>1 DEF Loaded
    <2>3. t.file \in Names
      BY DEF TypeOK, Tasks
    <2>4. /\ OfFile(copy', f) = OnDisk(f)' /\ OfFile(jobs', f) = Periodic(OnDisk(f)')
          /\ f # t.file => OnDisk(f)' = OnDisk(f)
      BY <1>5, <1>f, <2>2, <2>3, UnloadFollows, FetchFollows
         DEF RemoveFile, UnloadOld, FileInv
    <2>5. begun \subseteq begun' /\ t.file \in begun'
      BY <1>5 DEF RemoveFile, UnloadOld, FetchFile, Task, FileInv, FetchedAreUnloaded
    <2>6. f \notin begun' => OfFile(policies', f) = OnDisk(f)'
      BY <1>f, <2>1, <2>4, <2>5
    <2>7. OfFile(Loaded', f) = OnDisk(f)'
      BY <2>1, <2>4 DEF Loaded
    <2> QED BY <2>4, <2>6, <2>7 DEF Follows, OfFile, Periodic
  <1>6. ASSUME NEW t \in todo, FetchFails(t)
        PROVE  Follows(f)'
    <2>1. /\ cut' = cut \cup begun /\ ~updating' /\ UNCHANGED <<policies, jobs>>
          /\ disk' = [disk EXCEPT ![t.file] = Unfilled] /\ t.file \in begun
      BY <1>6 DEF FetchFails, Task, FileInv, FetchedAreUnloaded
    <2>2. f \notin begun /\ f # t.file
      BY <2>1
    <2>3. OnDisk(f)' = OnDisk(f)
      BY <2>1, <2>2 DEF OnDisk, TypeOK
    <2>4. OfFile(policies, f) = OnDisk(f)
      BY <1>f, <2>2
    <2>5. Loaded' = policies
      BY <2>1 DEF Loaded
    <2> QED BY <1>f, <2>1, <2>3, <2>4, <2>5 DEF Follows, OfFile, Periodic
  <1> QED BY <1>2, <1>3, <1>4, <1>5, <1>6 DEF FileSide, Update

\* The policies that events meet change as a whole.
LEMMA WholeStep ==
    ASSUME FileInv, FileSide, NamesAreOwned, LoadedFollowsDisk, WholeVersions
    PROVE  WholeVersions'
  <1>0. cut \subseteq cut'
    BY DEF FileSide, Edit, Update, UpdateLists, UpdateFindsUnhashed, UpdateEnds,
           RemoveFile, UnloadOld, FetchFile, FetchFails, vars, fileVars
  <1>1. CASE UNCHANGED policies
    BY <1>0, <1>1 DEF WholeVersions, OfFile
  <1>2. CASE UpdateEnds
    <2> SUFFICES ASSUME NEW f \in Names, f \notin cut'
                 PROVE  \E c \in Versions[f] \cup {Unfilled} :
                            OfFile(policies', f) = Loadable(c)
      BY DEF WholeVersions, OfFile
    <2>1. policies' = Loaded
      BY <1>2 DEF UpdateEnds, Loaded
    <2>2. OfFile(policies', f) = OnDisk(f)
      BY <1>0, <2>1 DEF LoadedFollowsDisk, Follows
    <2> QED BY <2>2, PoliciesAreOfFile DEF FileInv
  <1>3. UNCHANGED policies \/ UpdateEnds
    BY DEF FileSide, Edit, Update, UpdateLists, UpdateFindsUnhashed, RemoveFile, UnloadOld,
           FetchFile, FetchFails, vars
  <1> QED BY <1>1, <1>2, <1>3

-----------------------------------------------------------------------------
(***************************************************************************)
(* poll_queue: how often a message is received and tried.                  *)
(***************************************************************************)
\* The poll gives up its batch, by an exception or because the host goes.
Drops ==
    /\ batch' = << >> /\ dispatched' = FALSE
    /\ failedPolls' = failedPolls + 1 \/ (batch = << >> /\ UNCHANGED failedPolls)
    /\ UNCHANGED <<where, dequeue_count, expired>>
    /\ \/ UNCHANGED tries
       \/ Processing /\ tries' = [tries EXCEPT ![Current] = @ + 1]

\* An empty batch has no message.
LEMMA EmptyBatch ==
    ASSUME NEW m, batch = << >>
    PROVE  ~InBatch(m)
  BY DEF InBatch

\* The current message is in the batch and, while it is not dispatched, awaits it.
LEMMA CurrentInBatch ==
    ASSUME TypeOK, batch # << >>
    PROVE  InBatch(Current) /\ (~dispatched => Awaits(Current)) /\ Current \in Msgs
  BY CurrentIsMsg DEF TypeOK, InBatch, Awaits

\* A message that is tried has been received more often than it was tried, and
\* not too often.
LEMMA TryIsAllowed ==
    ASSUME TypeOK, QueueInv, Processing
    PROVE  /\ tries[Current] + 1 <= dequeue_count[Current]
           /\ tries[Current] + 1 <= max_dequeue_count
  <1>1. Awaits(Current) /\ Current \in Msgs
    BY CurrentInBatch DEF Processing
  <1>2. tries[Current] + 1 <= dequeue_count[Current]
    BY <1>1 DEF QueueInv, TriesAreReceived
  <1>3. /\ tries[Current] \in Nat /\ dequeue_count[Current] \in Nat
        /\ max_dequeue_count \in Nat
    BY <1>1, HostAssumption DEF TypeOK
  <1>4. ~(dequeue_count[Current] > max_dequeue_count)
    BY DEF Processing, Exhausted
  <1> QED BY <1>2, <1>3, <1>4

\* Giving up a batch keeps the counts.
LEMMA DropStep ==
    ASSUME TypeOK, QueueInv, Drops
    PROVE  QueueInv'
  <1>1. \A m : ~InBatch(m)' /\ ~Awaits(m)'
    BY DEF Drops, InBatch, Awaits
  <1>2. OnePlaceInBatch' /\ BatchIsHidden'
    BY <1>1 DEF Drops, OnePlaceInBatch, BatchIsHidden
  <1>t. /\ tries \in [Msgs -> Nat] /\ dequeue_count \in [Msgs -> Nat] /\ failedPolls \in Nat
        /\ max_dequeue_count \in Nat
    BY HostAssumption DEF TypeOK
  <1>3. ASSUME NEW m \in Msgs
        PROVE  tries'[m] <= dequeue_count[m] /\ tries'[m] <= max_dequeue_count
    <2>1. tries[m] <= dequeue_count[m] /\ tries[m] <= max_dequeue_count
      BY <1>t DEF QueueInv, TriesAreReceived, RetriesBounded
    <2>2. CASE UNCHANGED tries
      BY <2>1, <2>2
    <2>3. CASE Processing /\ tries' = [tries EXCEPT ![Current] = @ + 1]
      BY <1>t, <2>1, <2>3, TryIsAllowed
    <2> QED BY <2>2, <2>3 DEF Drops
  <1>4. TriesAreReceived'
    <2>1. \A m \in Msgs : tries'[m] \in Int
      BY <1>t, CurrentInBatch DEF Drops, Processing
    <2> QED BY <1>1, <1>3, <2>1 DEF Drops, TriesAreReceived
  <1>5. RetriesBounded'
    BY <1>3 DEF RetriesBounded
  <1>6. failedPolls' \in Nat /\ failedPolls' >= failedPolls
    BY <1>t DEF Drops
  <1>7. ReceivedAgainAfterFailure'
    <2> SUFFICES ASSUME NEW m \in Msgs, where[m] # "deleted"
                 PROVE  dequeue_count[m] <= failedPolls'
      BY <1>1, <1>6 DEF ReceivedAgainAfterFailure, Drops
    <2>1. dequeue_count[m] <= failedPolls + (IF InBatch(m) THEN 1 ELSE 0)
      BY DEF QueueInv, ReceivedAgainAfterFailure
    <2>2. CASE InBatch(m)
      <3>1. batch # << >>
        BY <2>2, EmptyBatch
      <3>2. failedPolls' = failedPolls + 1
        BY <3>1 DEF Drops
      <3> QED BY <2>1, <2>2, <3>2
    <2>3. CASE ~InBatch(m)
      BY <2>1, <2>3, <1>6, <1>t
    <2> QED BY <2>2, <2>3
  <1>8. GivenUpOnlyAfterFailures'
    BY <1>6, <1>t DEF Drops, QueueInv, GivenUpOnlyAfterFailures
  <1> QED BY <1>2, <1>4, <1>5, <1>7, <1>8 DEF QueueInv

\* Receiving a page counts each of its messages once.
LEMMA ReceiveStep ==
    ASSUME TypeOK, QueueInv, Receive
    PROVE  QueueInv'
  <1>1. PICK b \in Pages :
            /\ batch' = b
            /\ LET taken == {b[i] : i \in 1..Len(b)}
               IN  /\ where' = [m \in Msgs |-> IF m \in taken THEN "hidden" ELSE where[m]]
                   /\ dequeue_count' = [m \in Msgs |->
                        IF m \in taken THEN dequeue_count[m] + 1 ELSE dequeue_count[m]]
    BY DEF Receive
  <1>2. \A m : InBatch(m)' <=> m \in {b[i] : i \in 1..Len(b)}
    BY <1>1 DEF InBatch
  <1>3. \A m : ~InBatch(m) /\ ~Awaits(m)
    BY EmptyBatch DEF Receive, Awaits
  <1>4. ASSUME NEW m \in Msgs
        PROVE  /\ InBatch(m)' => /\ where'[m] = "hidden" /\ where[m] = "visible"
                                 /\ dequeue_count'[m] = dequeue_count[m] + 1
               /\ ~InBatch(m)' => /\ where'[m] = where[m]
                                  /\ dequeue_count'[m] = dequeue_count[m]
    BY <1>1, <1>2, PageIsBatch DEF Visible
  <1>t. /\ tries \in [Msgs -> Nat] /\ dequeue_count \in [Msgs -> Nat] /\ failedPolls \in Nat
        /\ UNCHANGED <<tries, failedPolls, expired>>
    BY DEF TypeOK, Receive
  <1>5. OnePlaceInBatch'
    BY <1>1, PageIsBatch DEF OnePlaceInBatch
  <1>6. BatchIsHidden'
    BY <1>4 DEF BatchIsHidden
  <1>7. TriesAreReceived'
    <2> SUFFICES ASSUME NEW m \in Msgs
                 PROVE  tries[m] + (IF Awaits(m)' THEN 1 ELSE 0) <= dequeue_count'[m]
      BY <1>t DEF TriesAreReceived
    <2>1. tries[m] <= dequeue_count[m]
      BY <1>3, <1>t DEF QueueInv, TriesAreReceived
    <2>2. Awaits(m)' => InBatch(m)'
      BY DEF Awaits
    <2> QED BY <1>4, <1>t, <2>1, <2>2
  <1>8. ReceivedAgainAfterFailure'
    <2> SUFFICES ASSUME NEW m \in Msgs, where'[m] # "deleted"
                 PROVE  dequeue_count'[m] <= failedPolls + (IF InBatch(m)' THEN 1 ELSE 0)
      BY <1>t DEF ReceivedAgainAfterFailure
    <2>1. where[m] # "deleted"
      BY <1>4
    <2>2. dequeue_count[m] <= failedPolls
      BY <2>1, <1>3, <1>t DEF QueueInv, ReceivedAgainAfterFailure
    <2> QED BY <1>4, <1>t, <2>2
  <1>9. RetriesBounded' /\ GivenUpOnlyAfterFailures'
    BY <1>t DEF QueueInv, RetriesBounded, GivenUpOnlyAfterFailures
  <1> QED BY <1>5, <1>6, <1>7, <1>8, <1>9 DEF QueueInv

\* Deleting the current message, dispatched or given up, keeps the counts.
LEMMA DeleteStep ==
    ASSUME TypeOK, QueueInv, DeleteExpired \/ DeleteDispatched
    PROVE  QueueInv'
  <1>1. /\ batch # << >> /\ batch \in Seq(Msgs) /\ batch' = Tail(batch)
        /\ where' = [where EXCEPT ![Current] = "deleted"] /\ ~dispatched'
        /\ UNCHANGED <<dequeue_count, tries, failedPolls>>
    BY DEF DeleteExpired, DeleteDispatched, Delete, TypeOK
  <1>c. /\ Current \in Msgs /\ Current = batch[1] /\ 1 \in 1..Len(batch)
        /\ Len(batch') = Len(batch) - 1 /\ Len(batch) \in Nat
        /\ \A i \in 1..(Len(batch) - 1) : batch'[i] = batch[i + 1]
    BY <1>1, CurrentIsMsg
  <1>t. /\ tries \in [Msgs -> Nat] /\ dequeue_count \in [Msgs -> Nat] /\ failedPolls \in Nat
        /\ where \in [Msgs -> {"unsent", "visible", "hidden", "deleted"}]
        /\ max_dequeue_count \in Nat
    BY HostAssumption DEF TypeOK
  <1>2. OnePlaceInBatch'
    <2> SUFFICES ASSUME NEW i \in 1..Len(batch'), NEW j \in 1..Len(batch'),
                        batch'[i] = batch'[j]
                 PROVE  i = j
      BY DEF OnePlaceInBatch
    <2>1. i + 1 \in 1..Len(batch) /\ j + 1 \in 1..Len(batch)
      BY <1>c
    <2>2. batch[i + 1] = batch[j + 1]
      BY <1>c
    <2>3. i + 1 = j + 1
      BY <2>1, <2>2 DEF QueueInv, OnePlaceInBatch
    <2> QED BY <2>3
  <1>3. ASSUME NEW m
        PROVE  InBatch(m)' <=> InBatch(m) /\ m # Current
    <2>1. ASSUME NEW i \in 1..Len(batch'), batch'[i] = m
          PROVE  InBatch(m) /\ m # Current
      <3>1. i + 1 \in 1..Len(batch) /\ batch[i + 1] = m /\ i + 1 # 1
        BY <1>c, <2>1
      <3>2. m # Current
        BY <1>c, <3>1 DEF QueueInv, OnePlaceInBatch
      <3> QED BY <3>1, <3>2 DEF InBatch
    <2>2. ASSUME NEW i \in 1..Len(batch), batch[i] = m, m # Current
          PROVE  InBatch(m)'
      <3>1. i - 1 \in 1..Len(batch') /\ (i - 1) + 1 = i /\ i - 1 \in 1..(Len(batch) - 1)
        BY <1>c, <2>2
      <3>2. batch'[i - 1] = m
        BY <1>c, <2>2, <3>1
      <3> QED BY <3>1, <3>2 DEF InBatch
    <2> QED BY <2>1, <2>2 DEF InBatch
  <1>4. BatchIsHidden'
    BY <1>1, <1>3, <1>t DEF QueueInv, BatchIsHidden
  <1>5. TriesAreReceived'
    <2> SUFFICES ASSUME NEW m \in Msgs
                 PROVE  tries[m] + (IF Awaits(m)' THEN 1 ELSE 0) <= dequeue_count[m]
      BY <1>1 DEF TriesAreReceived
    <2>1. Awaits(m)' => Awaits(m)
      BY <1>3 DEF Awaits
    <2>2. tries[m] + (IF Awaits(m) THEN 1 ELSE 0) <= dequeue_count[m]
      BY DEF QueueInv, TriesAreReceived
    <2> QED BY <1>t, <2>1, <2>2
  <1>6. ReceivedAgainAfterFailure'
    <2> SUFFICES ASSUME NEW m \in Msgs, where'[m] # "deleted"
                 PROVE  dequeue_count[m] <= failedPolls + (IF InBatch(m)' THEN 1 ELSE 0)
      BY <1>1 DEF ReceivedAgainAfterFailure
    <2>1. m # Current /\ where[m] # "deleted"
      BY <1>1, <1>c, <1>t
    <2> QED BY <1>3, <2>1 DEF QueueInv, ReceivedAgainAfterFailure
  <1>7. RetriesBounded'
    BY <1>1 DEF QueueInv, RetriesBounded
  <1>8. GivenUpOnlyAfterFailures'
    <2>1. CASE DeleteDispatched
      BY <1>1, <2>1 DEF DeleteDispatched, QueueInv, GivenUpOnlyAfterFailures
    <2>2. CASE DeleteExpired
      <3>1. InBatch(Current)
        BY <1>1, CurrentInBatch
      <3>2. where[Current] # "deleted"
        BY <1>c, <3>1 DEF QueueInv, BatchIsHidden
      <3>3. dequeue_count[Current] <= failedPolls + 1
        BY <1>c, <3>1, <3>2 DEF QueueInv, ReceivedAgainAfterFailure
      <3>4. dequeue_count[Current] > max_dequeue_count /\ dequeue_count[Current] \in Nat
        BY <2>2, <1>c, <1>t DEF DeleteExpired, Exhausted
      <3>5. failedPolls >= max_dequeue_count
        BY <1>t, <3>3, <3>4
      <3> QED BY <1>1, <3>5 DEF GivenUpOnlyAfterFailures
    <2> QED BY <2>1, <2>2
  <1> QED BY <1>2, <1>4, <1>5, <1>6, <1>7, <1>8 DEF QueueInv

\* Trying the current message uses up the receipt that it awaited.
LEMMA DispatchStep ==
    ASSUME TypeOK, QueueInv, Dispatch
    PROVE  QueueInv'
  <1>1. /\ Processing /\ tries' = [tries EXCEPT ![Current] = @ + 1] /\ dispatched'
        /\ UNCHANGED <<batch, where, dequeue_count, failedPolls, expired>>
    BY DEF Dispatch
  <1>2. \A m : InBatch(m)' <=> InBatch(m)
    BY <1>1 DEF InBatch
  <1>c. Current' = Current /\ Current \in Msgs /\ ~dispatched
    BY <1>1, CurrentInBatch DEF Current, Processing
  <1>t. /\ tries \in [Msgs -> Nat] /\ dequeue_count \in [Msgs -> Nat]
        /\ max_dequeue_count \in Nat
    BY HostAssumption DEF TypeOK
  <1>3. ASSUME NEW m \in Msgs, m # Current
        PROVE  tries'[m] = tries[m] /\ (Awaits(m)' <=> Awaits(m))
    BY <1>1, <1>2, <1>3, <1>c, <1>t DEF Awaits
  <1>4. tries'[Current] = tries[Current] + 1 /\ ~Awaits(Current)'
    BY <1>1, <1>c, <1>t DEF Awaits
  <1>5. TriesAreReceived' /\ RetriesBounded'
    <2> SUFFICES ASSUME NEW m \in Msgs
                 PROVE  /\ tries'[m] + (IF Awaits(m)' THEN 1 ELSE 0) <= dequeue_count[m]
                        /\ tries'[m] <= max_dequeue_count
      BY <1>1 DEF TriesAreReceived, RetriesBounded
    <2>1. CASE m = Current
      BY <1>1, <1>4, <1>c, <1>t, <2>1, TryIsAllowed
    <2>2. CASE m # Current
      BY <1>3, <2>2 DEF QueueInv, TriesAreReceived, RetriesBounded
    <2> QED BY <2>1, <2>2
  <1>6. OnePlaceInBatch' /\ BatchIsHidden'
    BY <1>1, <1>2 DEF QueueInv, OnePlaceInBatch, BatchIsHidden
  <1>7. ReceivedAgainAfterFailure' /\ GivenUpOnlyAfterFailures'
    BY <1>1, <1>2 DEF QueueInv, ReceivedAgainAfterFailure, GivenUpOnlyAfterFailures
  <1> QED BY <1>5, <1>6, <1>7 DEF QueueInv

\* The counts do not depend on anything else.
LEMMA QueueFrame ==
    ASSUME QueueInv,
           UNCHANGED <<where, dequeue_count, batch, dispatched, tries, expired, failedPolls>>
    PROVE  QueueInv'
  BY DEF QueueInv, OnePlaceInBatch, BatchIsHidden, TriesAreReceived,
         ReceivedAgainAfterFailure, RetriesBounded, GivenUpOnlyAfterFailures, InBatch,
         Awaits, Current

\* QueueInv is preserved by every step.
LEMMA QueueStep ==
    ASSUME TypeOK, QueueInv, [Next]_vars
    PROVE  QueueInv'
  <1>1. CASE UNCHANGED vars \/ FileSide
    BY <1>1, QueueFrame DEF vars, FileSide, queueVars
  <1>2. CASE Restart
    <2>1. Drops
      BY <1>2 DEF Restart, Drops
    <2> QED BY <2>1, DropStep
  <1>3. ASSUME NEW m \in Msgs, SendEvent(m) \/ Reappear(m)
        PROVE  QueueInv'
    <2>1. /\ where' = [where EXCEPT ![m] = "visible"]
          /\ UNCHANGED <<dequeue_count, batch, dispatched, tries, expired, failedPolls>>
      BY <1>3 DEF SendEvent, Reappear
    <2>2. ~InBatch(m) /\ where[m] # "deleted"
      BY <1>3 DEF SendEvent, Reappear, QueueInv, BatchIsHidden
    <2>3. \A n : (InBatch(n)' <=> InBatch(n)) /\ (Awaits(n)' <=> Awaits(n))
      BY <2>1 DEF InBatch, Awaits, Current
    <2>4. BatchIsHidden'
      BY <2>1, <2>2, <2>3 DEF QueueInv, BatchIsHidden, TypeOK
    <2>5. ReceivedAgainAfterFailure'
      BY <2>1, <2>2, <2>3 DEF QueueInv, ReceivedAgainAfterFailure, TypeOK
    <2>6. OnePlaceInBatch' /\ TriesAreReceived'
      BY <2>1, <2>3 DEF QueueInv, OnePlaceInBatch, TriesAreReceived
    <2>7. RetriesBounded' /\ GivenUpOnlyAfterFailures'
      BY <2>1 DEF QueueInv, RetriesBounded, GivenUpOnlyAfterFailures
    <2> QED BY <2>4, <2>5, <2>6, <2>7 DEF QueueInv
  <1>4. CASE RunEventJob \/ PollIdle \/ PollStarts \/ PollEnds
    BY <1>4, QueueFrame DEF RunEventJob, PollIdle, PollStarts, PollEnds, vars, queueVars
  <1>5. CASE DispatchClashes \/ DispatchMalformed \/ QueueFails
    <2>1. Drops
      BY <1>5 DEF DispatchClashes, DispatchMalformed, QueueFails, PollRaises, Drops
    <2> QED BY <2>1, DropStep
  <1> QED
    BY <1>1, <1>2, <1>3, <1>4, <1>5, ReceiveStep, DeleteStep, DispatchStep, Sides
       DEF QueueSide, Poll

-----------------------------------------------------------------------------
(***************************************************************************)
(* The theorems.                                                           *)
(***************************************************************************)
\* The inductive invariant holds at first.
LEMMA IndInit == Init => IndInv
  <1> SUFFICES ASSUME Init PROVE IndInv  OBVIOUS
  <1>1. TypeOK
    BY TypeInit
  <1>2. FilesAreOwn /\ OneTaskPerFile /\ FetchedAreUnloaded /\ BegunByUpdate
    BY DEF Init, Nothing, FilesAreOwn, OneTaskPerFile, FetchedAreUnloaded, BegunByUpdate
  <1>3. \A f \in Names : disk[f] = Absent
    BY DEF Init, Nothing
  <1>4. \A f \in Names : OnDisk(f) = {}
    BY <1>3 DEF OnDisk
  <1>5. LoadedFollowsDisk /\ WholeVersions
    BY <1>4, UnfilledIsEmpty
       DEF Init, LoadedFollowsDisk, Follows, Loaded, OfFile, Periodic, WholeVersions
  <1>6. \A m : ~InBatch(m) /\ ~Awaits(m)
    BY EmptyBatch DEF Init, Awaits
  <1>7. QueueInv
    <2>1. OnePlaceInBatch /\ BatchIsHidden /\ GivenUpOnlyAfterFailures
      BY <1>6 DEF Init, OnePlaceInBatch, BatchIsHidden, GivenUpOnlyAfterFailures
    <2>2. TriesAreReceived /\ ReceivedAgainAfterFailure /\ RetriesBounded
      BY <1>6, HostAssumption
         DEF Init, TriesAreReceived, ReceivedAgainAfterFailure, RetriesBounded
    <2> QED BY <2>1, <2>2 DEF QueueInv
  <1> QED BY <1>1, <1>2, <1>5, <1>7 DEF IndInv

\* Every step preserves it.
LEMMA IndStep == IndInv /\ [Next]_vars => IndInv'
  <1> SUFFICES ASSUME IndInv, [Next]_vars PROVE IndInv'  OBVIOUS
  <1>1. /\ TypeOK /\ FileInv /\ QueueInv
        /\ NamesAreOwned => LoadedFollowsDisk /\ WholeVersions
    BY DEF IndInv, FileInv
  <1>2. TypeOK' /\ QueueInv'
    BY <1>1, TypeStep, QueueStep
  <1>3. CASE UNCHANGED vars \/ QueueSide
    <2>1. UNCHANGED <<storage, disk, todo, updating, copy, policies, jobs, begun, cut>>
      BY <1>3 DEF vars, QueueSide, blobVars, fileVars
    <2>2. FileInv'
      BY <1>1, <2>1
         DEF FileInv, FilesAreOwn, OneTaskPerFile, FetchedAreUnloaded, BegunByUpdate
    <2>4. LoadedFollowsDisk => LoadedFollowsDisk'
      BY <2>1 DEF LoadedFollowsDisk, Follows, Loaded, OnDisk, OfFile, Periodic
    <2>5. WholeVersions => WholeVersions'
      BY <2>1 DEF WholeVersions, OfFile
    <2> QED BY <1>1, <1>2, <2>1, <2>2, <2>4, <2>5 DEF IndInv, FileInv
  <1>4. CASE FileSide
    <2>1. FileInv'
      BY <1>1, <1>4, FileStep
    <2>2. NamesAreOwned => LoadedFollowsDisk' /\ WholeVersions'
      BY <1>1, <1>4, LoadedStep, WholeStep
    <2> QED BY <1>2, <2>1, <2>2 DEF IndInv, FileInv
  <1>5. CASE Restart
    <2>1. /\ UNCHANGED storage /\ todo' = {} /\ ~updating' /\ policies' = {} /\ jobs' = {}
          /\ begun' = {} /\ \A f \in Names : disk'[f] = Absent
      BY <1>5 DEF Restart, Nothing, blobVars
    <2>2. FilesAreOwn' /\ OneTaskPerFile' /\ FetchedAreUnloaded' /\ BegunByUpdate'
      BY <1>1, <2>1
         DEF FileInv, FilesAreOwn, OneTaskPerFile, FetchedAreUnloaded, BegunByUpdate
    <2>3. \A f \in Names : OnDisk(f)' = {}
      BY <2>1 DEF OnDisk
    <2>4. LoadedFollowsDisk' /\ WholeVersions'
      BY <2>1, <2>3, UnfilledIsEmpty
         DEF LoadedFollowsDisk, Follows, Loaded, OfFile, Periodic, WholeVersions
    <2> QED BY <1>2, <2>2, <2>4 DEF IndInv
  <1> QED BY <1>3, <1>4, <1>5, Sides

\* The inductive invariant holds in every reachable state.
LEMMA Invariance == Spec => []IndInv
  BY IndInit, IndStep, PTL DEF Spec

\* Between updates, the loaded policies of a file are those of its copy on disk and
\* its cron jobs the periodic ones among them, for every container in which no two
\* files share a policy name, and every file but those that an update had begun
\* when a download failed (Host.update_policies, load_policy, unload_policy_file,
\* update_periodic).
THEOREM LoadedIsOnDisk == Spec => []LoadedMatchesDisk
  <1>1. IndInv => LoadedMatchesDisk
    BY DEF IndInv, LoadedMatchesDisk, LoadedFollowsDisk, Follows, Loaded
  <1> QED BY <1>1, Invariance, PTL

\* The policies that poll_queue reads in the middle of an update never mix two
\* versions of one file, but for the files that an update had begun when a
\* download failed (Host.update_policies, run_policies_for_event).
THEOREM EventsMeetWholeVersions == Spec => []WholeVersions
  <1>1. IndInv => WholeVersions
    BY DEF IndInv, WholeVersions
  <1> QED BY <1>1, Invariance, PTL

\* A message is tried at most max_dequeue_count times, and given up only after as
\* many polls have failed, for any number of messages, failing calls and restarts
\* (Host.poll_queue).
THEOREM RetriesAreCounted == Spec => []RetriesCounted
  <1>1. IndInv => RetriesCounted
    BY DEF IndInv, QueueInv, RetriesCounted
  <1> QED BY <1>1, Invariance, PTL
=============================================================================
