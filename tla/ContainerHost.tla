---------------------------- MODULE ContainerHost ----------------------------
(***************************************************************************)
(* The Azure container host (tools/c7n_azure container_host/host.py): one  *)
(* process whose scheduler runs two recurring jobs on threads of their own,*)
(* update_policies, which mirrors a blob container of policy files, and    *)
(* poll_queue, which hands the events of a storage queue to the loaded     *)
(* policies.  Neither job ever runs twice at a time (max_instances 1); they*)
(* share self.policies and the scheduler's job store.  Users edit the      *)
(* container while the host runs, calls to the storage services fail, the  *)
(* queue delivers at least once, and the container may be restarted.       *)
(*                                                                         *)
(* A policy file is the sequence of its policies; its md5 is its content.  *)
(* A file that is not YAML, or was never filled, is the empty sequence.    *)
(***************************************************************************)
EXTENDS Integers, Sequences, FiniteSets

CONSTANTS
    Names,             \* blob names
    Nested,            \* those with a "/" in their name
    Versions,          \* the contents users may upload under each name
    Unhashable,        \* contents whose client stores no md5 with the blob
    Msgs,              \* messages of the event queue
    EventOf,           \* the event each message carries, or Malformed
    Malformed,
    Absent,            \* no such file
    queue_message_count,
    max_dequeue_count,
    Budgets            \* how often each of the kinds below may happen

\* edit: users upload or remove a blob; event: a message is sent; download and
\* queue: a call to that service fails; restart: the container is restarted.
Kinds == {"edit", "event", "download", "queue", "restart"}
Contents == UNION {Versions[f] : f \in Names}
Policies == UNION {{c[i] : i \in 1..Len(c)} : c \in Contents}
Unfilled == << >>

ASSUME HostAssumption ==
    /\ Absent \notin Contents /\ IsFiniteSet(Msgs)
    /\ Nested \subseteq Names /\ Unhashable \subseteq Contents
    /\ \A c \in Contents : \A i, j \in 1..Len(c) : c[i].name = c[j].name => i = j
    /\ queue_message_count \in Nat \ {0} /\ max_dequeue_count \in Nat
    /\ Budgets \subseteq [Kinds -> Nat] /\ Budgets # {}

VARIABLES
    storage,       \* the blob container
    uploaded,      \* history: the contents each name has had
    reused,        \* history: a content came back under its name
    policies,      \* Host.policies: a set of policies, one per name
    jobs,          \* the job store's cron jobs: the policies they run
    eventJobs,     \* ... and its one-off jobs, [policy, event]
    blob_cache,    \* Host.blob_cache: the md5 of each file loaded
    disk,          \* the files under Host.policy_cache
    updating,      \* update_policies is past its listing
    todo,          \* what it has left to do, file by file
    copy,          \* its policies_copy
    begun,         \* history: the files it has begun to remove or replace
    cut,           \* history: the files begun by an update that was cut short
    where,         \* each message: not sent, visible, hidden, deleted
    dequeue_count, \* message.dequeue_count
    polling,       \* poll_queue is in its loop
    batch,         \* the messages it has yet to process
    dispatched,    \* the first of them has been scheduled, not yet deleted
    tries,         \* history: how often each message was scheduled
    expired,       \* history: messages deleted for their dequeue count
    failedPolls,   \* history: polls that ended with an exception
    budget         \* what is left of the budget

fileVars == <<blob_cache, disk, updating, todo, copy, begun, cut>>
queueVars == <<where, dequeue_count, polling, batch, dispatched, tries, expired,
               failedPolls>>
blobVars == <<storage, uploaded, reused>>
vars == <<blobVars, policies, jobs, eventJobs, fileVars, queueVars, budget>>

Spend(kind) == budget[kind] > 0 /\ budget' = [budget EXCEPT ![kind] = @ - 1]

Nothing == [f \in Names |-> Absent]

Init ==
    /\ storage = Nothing /\ uploaded = [f \in Names |-> {}] /\ reused = FALSE
    /\ policies = {} /\ jobs = {} /\ eventJobs = {}
    /\ blob_cache = Nothing /\ disk = Nothing
    /\ updating = FALSE /\ todo = {} /\ copy = {} /\ begun = {} /\ cut = {}
    /\ where = [m \in Msgs |-> "unsent"] /\ dequeue_count = [m \in Msgs |-> 0]
    /\ polling = FALSE /\ batch = << >> /\ dispatched = FALSE
    /\ tries = [m \in Msgs |-> 0] /\ expired = {} /\ failedPolls = 0
    /\ budget \in Budgets

-----------------------------------------------------------------------------
(***************************************************************************)
(* The environment.                                                        *)
(***************************************************************************)
Edit(f) ==
    /\ Spend("edit")
    /\ \E c \in Versions[f] \cup {Absent} :
           /\ c # storage[f]
           /\ storage' = [storage EXCEPT ![f] = c]
           /\ uploaded' = [uploaded EXCEPT ![f] = @ \cup ({c} \ {Absent})]
           /\ reused' = (reused \/ c \in uploaded[f])
    /\ UNCHANGED <<policies, jobs, eventJobs, fileVars, queueVars>>

SendEvent(m) ==
    /\ where[m] = "unsent" /\ Spend("event")
    /\ where' = [where EXCEPT ![m] = "visible"]
    /\ UNCHANGED <<blobVars, policies, jobs, eventJobs, fileVars,
                   dequeue_count, polling, batch, dispatched, tries, expired,
                   failedPolls>>

InBatch(m) == \E i \in 1..Len(batch) : batch[i] = m

\* The visibility timeout of five minutes ends.  Scheduling a batch takes far
\* less, so it never ends for a message that is still being processed.
Reappear(m) ==
    /\ where[m] = "hidden" /\ ~InBatch(m)
    /\ where' = [where EXCEPT ![m] = "visible"]
    /\ UNCHANGED <<blobVars, policies, jobs, eventJobs, fileVars,
                   dequeue_count, polling, batch, dispatched, tries, expired,
                   failedPolls, budget>>

\* The container is restarted: memory, job store and temporary directory go.
Restart ==
    /\ Spend("restart")
    /\ policies' = {} /\ jobs' = {} /\ eventJobs' = {}
    /\ blob_cache' = Nothing /\ disk' = Nothing
    /\ updating' = FALSE /\ todo' = {} /\ copy' = {} /\ begun' = {} /\ cut' = {}
    /\ polling' = FALSE /\ batch' = << >> /\ dispatched' = FALSE
    /\ failedPolls' = IF batch = << >> THEN failedPolls ELSE failedPolls + 1
    /\ UNCHANGED <<blobVars, where, dequeue_count, tries, expired>>

-----------------------------------------------------------------------------
(***************************************************************************)
(* update_policies.                                                        *)
(***************************************************************************)
PolicyNames(ps) == {p.name : p \in ps}
In(c) == {c[i] : i \in 1..Len(c)}
Periodic(ps) == {p \in ps : p.mode = "periodic"}
Scheduled(ps) == {p \in ps : p.mode # "event"}
Without(ps, names) == {p \in ps : p.name \notin names}

\* What load_policy makes of a file: a policy that does not validate ends it,
\* the ones before it stay.  So does one whose schedule is not a crontab, but
\* that one is loaded itself before update_periodic raises, without a cron job.
Loadable(c) ==
    {c[i] : i \in {k \in 1..Len(c) :
                      /\ c[k].mode # "invalid"
                      /\ \A j \in 1..(k - 1) : c[j].mode \notin {"invalid", "unscheduled"}}}

Unhashed(f) == storage[f] \in Unhashable

\* _get_new_blobs.
NewBlobs == {f \in Names : storage[f] \notin {Absent, blob_cache[f]}}

\* The files on disk that are no longer in the container; os.listdir does not
\* descend into subdirectories.
RemovedFiles == {f \in Names \ Nested : disk[f] # Absent /\ storage[f] = Absent}

\* The listing: the work is fixed, and the policies are copied.
UpdateLists ==
    /\ ~updating
    /\ ~ \E f \in Names : Unhashed(f)
    /\ NewBlobs \cup RemovedFiles # {}
    /\ updating' = TRUE
    /\ copy' = policies
    /\ todo' = {[op |-> "remove", file |-> f, md5 |-> Absent] : f \in RemovedFiles}
                \cup {[op |-> "unload", file |-> f, md5 |-> storage[f]] : f \in NewBlobs}
    /\ UNCHANGED <<blobVars, policies, jobs, eventJobs, blob_cache, disk,
                   begun, cut, queueVars, budget>>

\* A blob without md5: _try_create_md5_content_hash takes an attribute of the
\* downloaded bytes that they do not have, and that exception is not caught.
UpdateFindsUnhashed ==
    /\ ~updating
    /\ \E f \in Names : Unhashed(f)
    /\ UNCHANGED vars

\* The removed files come first, in the order of os.listdir; each new one is
\* unloaded and fetched before the next.
Task(t, op) ==
    /\ updating /\ t \in todo /\ t.op = op
    /\ op = "unload" => \A u \in todo : u.op = "unload"

\* Mutant: the cron jobs of an unloaded file stay scheduled.
UnloadKeepsJobs(f) ==
    /\ copy' = IF disk[f] = Absent THEN copy
               ELSE Without(copy, PolicyNames(In(disk[f])))
    /\ disk' = [disk EXCEPT ![f] = Absent]
    /\ UNCHANGED jobs

\* unload_policy_file, for a removed file or for the old copy of a new one.  The
\* jobs removed are those of the policies with a schedule, loaded or not.
Unload(f) ==
    /\ IF disk[f] = Absent
         THEN UNCHANGED <<copy, jobs>>
         ELSE /\ copy' = Without(copy, PolicyNames(In(disk[f])))
              /\ jobs' = Without(jobs, PolicyNames(Scheduled(In(disk[f]))))
    /\ disk' = [disk EXCEPT ![f] = Absent]

RemoveFile(t) ==
    /\ Task(t, "remove")
    /\ Unload(t.file)
    /\ todo' = todo \ {t}
    /\ begun' = begun \cup {t.file}
    /\ UNCHANGED <<blobVars, policies, eventJobs, blob_cache, updating, cut,
                   queueVars, budget>>

UnloadOld(t) ==
    /\ Task(t, "unload")
    /\ Unload(t.file)
    /\ todo' = (todo \ {t}) \cup {[t EXCEPT !.op = "fetch"]}
    /\ begun' = begun \cup {t.file}
    /\ UNCHANGED <<blobVars, policies, eventJobs, blob_cache, updating, cut,
                   queueVars, budget>>

\* Mutant: the policies are updated in place.
FetchInPlace(t) ==
    /\ Task(t, "fetch") /\ storage[t.file] # Absent
    /\ \E p \in Loadable(storage[t.file]) :
           policies' = Without(policies, {p.name}) \cup {p}
    /\ LET new == Loadable(storage[t.file])
       IN  /\ copy' = Without(copy, PolicyNames(new)) \cup new
           /\ jobs' = Without(jobs, PolicyNames(Periodic(new))) \cup Periodic(new)
    /\ disk' = [disk EXCEPT ![t.file] = storage[t.file]]
    /\ blob_cache' = [blob_cache EXCEPT ![t.file] = t.md5]
    /\ todo' = todo \ {t}
    /\ UNCHANGED <<blobVars, eventJobs, updating, begun, cut, queueVars, budget>>

\* The blob is downloaded as it is now and loaded; the md5 kept is the one of
\* the listing.
FetchFile(t) ==
    /\ Task(t, "fetch") /\ storage[t.file] # Absent
    /\ LET new == Loadable(storage[t.file])
       IN  /\ copy' = Without(copy, PolicyNames(new)) \cup new
           /\ jobs' = Without(jobs, PolicyNames(Periodic(new))) \cup Periodic(new)
    /\ disk' = [disk EXCEPT ![t.file] = storage[t.file]]
    /\ blob_cache' = [blob_cache EXCEPT ![t.file] = t.md5]
    /\ todo' = todo \ {t}
    /\ UNCHANGED <<blobVars, policies, eventJobs, updating, begun, cut,
                   queueVars, budget>>

\* Mutant: the md5 is remembered before the download.
FetchFailsRemembered(t) ==
    /\ Task(t, "fetch")
    /\ \/ storage[t.file] = Absent /\ UNCHANGED budget
       \/ Spend("download")
    /\ disk' = [disk EXCEPT ![t.file] = Unfilled]
    /\ blob_cache' = [blob_cache EXCEPT ![t.file] = t.md5]
    /\ updating' = FALSE /\ todo' = {} /\ copy' = {}
    /\ begun' = {} /\ cut' = cut \cup begun
    /\ UNCHANGED <<blobVars, policies, jobs, eventJobs, queueVars>>

\* The download fails, or the blob is gone: the file was already opened for
\* writing, and the exception drops the copy; what the update has done to its
\* files, their md5s and their cron jobs stays done.
FetchFails(t) ==
    /\ Task(t, "fetch")
    /\ \/ storage[t.file] = Absent /\ UNCHANGED budget
       \/ Spend("download")
    /\ disk' = [disk EXCEPT ![t.file] = Unfilled]
    /\ updating' = FALSE /\ todo' = {} /\ copy' = {}
    /\ begun' = {} /\ cut' = cut \cup begun
    /\ UNCHANGED <<blobVars, policies, jobs, eventJobs, blob_cache, queueVars>>

UpdateEnds ==
    /\ updating /\ todo = {}
    /\ policies' = copy
    /\ updating' = FALSE /\ copy' = {} /\ begun' = {}
    /\ UNCHANGED <<blobVars, jobs, eventJobs, blob_cache, disk, todo, cut,
                   queueVars, budget>>

-----------------------------------------------------------------------------
(***************************************************************************)
(* poll_queue.                                                             *)
(***************************************************************************)
\* Without policies the queue is not polled.
PollIdle ==
    /\ ~polling /\ policies = {}
    /\ UNCHANGED vars

PollStarts ==
    /\ ~polling /\ policies # {}
    /\ polling' = TRUE
    /\ UNCHANGED <<blobVars, policies, jobs, eventJobs, fileVars, where,
                   dequeue_count, batch, dispatched, tries, expired, failedPolls,
                   budget>>

Visible == {m \in Msgs : where[m] = "visible"}

\* A page of at most queue_message_count visible messages, in any order.
Pages ==
    LET n == IF Cardinality(Visible) < queue_message_count
               THEN Cardinality(Visible) ELSE queue_message_count
    IN  {b \in [1..n -> Visible] : \A i, j \in 1..n : b[i] = b[j] => i = j}

Receive ==
    /\ polling /\ batch = << >> /\ Visible # {}
    /\ \E b \in Pages :
           /\ batch' = b
           /\ LET taken == {b[i] : i \in 1..Len(b)}
              IN  /\ where' = [m \in Msgs |-> IF m \in taken THEN "hidden" ELSE where[m]]
                  /\ dequeue_count' = [m \in Msgs |->
                         IF m \in taken THEN dequeue_count[m] + 1 ELSE dequeue_count[m]]
    /\ UNCHANGED <<blobVars, policies, jobs, eventJobs, fileVars, polling,
                   dispatched, tries, expired, failedPolls, budget>>

PollEnds ==
    /\ polling /\ batch = << >> /\ Visible = {}
    /\ polling' = FALSE
    /\ UNCHANGED <<blobVars, policies, jobs, eventJobs, fileVars, where,
                   dequeue_count, batch, dispatched, tries, expired, failedPolls,
                   budget>>

\* An exception ends the poll; what is left of the batch stays hidden.
PollRaises ==
    /\ polling' = FALSE /\ batch' = << >> /\ dispatched' = FALSE
    /\ failedPolls' = failedPolls + 1
    /\ UNCHANGED <<blobVars, policies, jobs, fileVars, where, dequeue_count,
                   expired>>

Current == Head(batch)

\* Mutant: a message is retried once more.
ExhaustedLate(m) == dequeue_count[m] > max_dequeue_count + 1

Exhausted(m) == dequeue_count[m] > max_dequeue_count

Delete ==
    /\ where' = [where EXCEPT ![Current] = "deleted"]
    /\ batch' = Tail(batch)
    /\ dispatched' = FALSE
    /\ UNCHANGED <<blobVars, policies, jobs, eventJobs, fileVars,
                   dequeue_count, polling, tries, failedPolls, budget>>

DeleteExpired ==
    /\ batch # << >> /\ ~dispatched /\ Exhausted(Current)
    /\ expired' = expired \cup {Current}
    /\ Delete

\* run_policies_for_event: a one-off job for every policy that subscribes to
\* the event.  The job store refuses an id, policy and event, that it holds.
Matching == {p \in policies : p.mode = "event"}
Clash(p) == \E j \in eventJobs : j.policy.name = p.name /\ j.event = EventOf[Current]

Jobs(ps) == {[policy |-> p, event |-> EventOf[Current]] : p \in ps}

Processing == batch # << >> /\ ~dispatched /\ ~Exhausted(Current)

Dispatch ==
    /\ Processing /\ EventOf[Current] # Malformed
    /\ \A p \in Matching : ~Clash(p)
    /\ eventJobs' = eventJobs \cup Jobs(Matching)
    /\ tries' = [tries EXCEPT ![Current] = @ + 1]
    /\ dispatched' = TRUE
    /\ UNCHANGED <<blobVars, policies, jobs, fileVars, where, dequeue_count,
                   polling, batch, expired, failedPolls, budget>>

\* A clash raises, after some of the other policies were scheduled.
DispatchClashes ==
    /\ Processing /\ EventOf[Current] # Malformed
    /\ \E p \in Matching : Clash(p)
    /\ \E ps \in SUBSET {p \in Matching : ~Clash(p)} :
           eventJobs' = eventJobs \cup Jobs(ps)
    /\ tries' = [tries EXCEPT ![Current] = @ + 1]
    /\ PollRaises
    /\ UNCHANGED budget

DispatchMalformed ==
    /\ Processing /\ EventOf[Current] = Malformed
    /\ PollRaises
    /\ UNCHANGED <<eventJobs, tries, budget>>

\* "We delete events regardless of policy result".
DeleteDispatched ==
    /\ batch # << >> /\ dispatched
    /\ Delete
    /\ UNCHANGED expired

\* Receiving or deleting a message fails.
QueueFails ==
    /\ polling
    /\ batch # << >> => dispatched \/ Exhausted(Current)
    /\ Spend("queue")
    /\ PollRaises
    /\ UNCHANGED <<eventJobs, tries>>

\* The scheduler submits a one-off job and drops it from its store; run_policy
\* logs the exceptions of the policy and returns.
RunEventJob ==
    /\ \E j \in eventJobs : eventJobs' = eventJobs \ {j}
    /\ UNCHANGED <<blobVars, policies, jobs, fileVars, queueVars, budget>>

-----------------------------------------------------------------------------
Environment ==
    \/ \E f \in Names : Edit(f)
    \/ \E m \in Msgs : SendEvent(m)
    \/ Restart

Update ==
    \/ UpdateLists \/ UpdateFindsUnhashed \/ UpdateEnds
    \/ \E t \in todo : RemoveFile(t) \/ UnloadOld(t) \/ FetchFile(t) \/ FetchFails(t)

Poll ==
    \/ PollIdle \/ PollStarts \/ Receive \/ PollEnds \/ DeleteExpired
    \/ Dispatch \/ DispatchClashes \/ DispatchMalformed \/ DeleteDispatched
    \/ QueueFails

Next ==
    \/ Environment \/ Update \/ Poll \/ RunEventJob
    \/ \E m \in Msgs : Reappear(m)

Spec == Init /\ [][Next]_vars

(***************************************************************************)
(* The scheduler runs both jobs again and again, every minute and every 15 *)
(* seconds, and submits one-off jobs at once; a hidden message reappears.  *)
(***************************************************************************)
Fairness ==
    /\ WF_vars(Update) /\ WF_vars(Poll) /\ WF_vars(RunEventJob)
    /\ \A m \in Msgs : WF_vars(Reappear(m))

FairSpec == Spec /\ Fairness

-----------------------------------------------------------------------------
FileStates == Contents \cup {Absent, Unfilled}
Tasks == [op : {"remove", "unload", "fetch"}, file : Names, md5 : FileStates]

\* The stores of the host and the queue are well typed, and a counter is never
\* beyond what the bounds allow.
TypeOK ==
    /\ storage \in [Names -> Contents \cup {Absent}]
    /\ uploaded \in [Names -> SUBSET Contents] /\ reused \in BOOLEAN
    /\ policies \subseteq Policies /\ jobs \subseteq Policies /\ copy \subseteq Policies
    /\ eventJobs \subseteq [policy : Policies, event : {EventOf[m] : m \in Msgs}]
    /\ blob_cache \in [Names -> FileStates] /\ disk \in [Names -> FileStates]
    /\ updating \in BOOLEAN /\ todo \subseteq Tasks
    /\ begun \subseteq Names /\ cut \subseteq Names
    /\ where \in [Msgs -> {"unsent", "visible", "hidden", "deleted"}]
    /\ dequeue_count \in [Msgs -> Nat] /\ tries \in [Msgs -> Nat]
    /\ polling \in BOOLEAN /\ batch \in Seq(Msgs) /\ dispatched \in BOOLEAN
    /\ expired \subseteq Msgs /\ failedPolls \in Nat
    /\ budget \in [Kinds -> Nat]

\* The policies among ps that a version of file f defines, and those that its
\* copy on disk brings.
OfFile(ps, f) == {p \in ps : \E c \in Versions[f] : p \in In(c)}
OnDisk(f) == IF disk[f] = Absent THEN {} ELSE Loadable(disk[f])

\* No two files define a policy of the same name.
NamesAreOwned ==
    \A f, g \in Names : \A c \in Versions[f], d \in Versions[g] :
        f # g => PolicyNames(In(c)) \cap PolicyNames(In(d)) = {}

\* The state is well typed and, between updates, the loaded policies of a file are
\* the ones load_policy takes from its copy on disk, and its cron jobs exactly the
\* periodic ones among them: a changed or removed file leaves no policy and no job
\* of its old version behind (unload_policy_file, load_policy, update_periodic).
\* Only the files that an update had begun when a download failed are excepted: a
\* failed download leaves every other file in order, then and later.
LoadedMatchesDisk ==
    /\ TypeOK
    /\ NamesAreOwned /\ ~updating =>
          \A f \in Names \ cut :
              /\ OfFile(policies, f) = OnDisk(f)
              /\ OfFile(jobs, f) = Periodic(OnDisk(f))

\* "Update a copy so we don't interfere with iterations on other threads": the
\* policies an event meets never mix two versions of one file, whenever the poll
\* looks, in the middle of an update too, except for the files that an update had
\* begun when a download failed.  Of those, an event may meet two versions at once
\* until the container is restarted: the copy was dropped, and the next update
\* finds an unfilled file in place of the version whose policies it should unload.
WholeVersions ==
    NamesAreOwned =>
        \A f \in Names \ cut :
            \E c \in Versions[f] \cup {Unfilled} : OfFile(policies, f) = Loadable(c)

\* A message is scheduled at most max_dequeue_count times, although its delete
\* may fail, its job may clash and the host may be restarted every time.
RetriesBounded == \A m \in Msgs : tries[m] <= max_dequeue_count

\* A message is given up only after max_dequeue_count polls have ended with an
\* exception: one that is merely slow, or seen by several polls, is not lost.
GivenUpOnlyAfterFailures == expired # {} => failedPolls >= max_dequeue_count

\* poll_queue keeps its promise about retries from both sides, although receiving
\* counts messages that a poll never reached: no message is tried more often than
\* max_dequeue_count, none is given up before that many polls have failed.
RetriesCounted == RetriesBounded /\ GivenUpOnlyAfterFailures

\* Once users stop editing, the files on disk are those of the container, failed
\* downloads and restarts included, but for a removed file in a subdirectory, as
\* long as every blob has an md5 and no content came back under an old name.
DiskFollowsStorage ==
    <>[](\/ reused \/ \E f \in Names : Unhashed(f)
         \/ \A f \in Names :
                disk[f] = storage[f] \/ (f \in Nested /\ storage[f] = Absent))

\* Every message leaves the queue, also a malformed one, unless the host has no
\* policies: a poll that raises leaves the rest to later polls.
QueueDrains ==
    \A m \in Msgs : where[m] = "visible" ~> (where[m] = "deleted" \/ policies = {})

\* Both recurring jobs catch up, whatever one of their executions meets:
\* update_policies with the container, poll_queue with the queue.
CatchesUp == DiskFollowsStorage /\ QueueDrains
=============================================================================
