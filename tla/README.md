# Cloud Custodian: a TLA+ verification project

This directory models the parts of Cloud Custodian (`src/c7n` and `src/tools`)
whose correctness depends on order: two threads on one queue, several processes on
one file, a process that serves one event or one account after the other, a
sequence of API calls that may stop half way, messages that are delivered again,
and a policy that fails at any of its steps; and the one pure algorithm whose
result all of them depend on, the evaluation of filters.  The modules are
model-checked with TLC on small instances.  For ten of the eleven components every
safety property that a run checks is also proved with TLAPS, for every value of the
parameters, and so is the refinement of the log delivery's abstract specification.

Contents: 1 inventory, 2 plan, 3 modules and how they correspond to the code,
4 runs and bounds, 5 fairness, 6 proofs, 7 findings, 8 what is not modelled.

## 1. Inventory

| Component | State it keeps | Operations | How it interacts | What is hard |
|---|---|---|---|---|
| CloudWatch log delivery: `c7n/log.py` | handler buffer and `shutdown` flag; queue with its count of unfinished tasks; the transport's buffers, sequence tokens and error | `emit`, `flush`, `close`; `Transport.loop`, `send`, `send_group`, `create_stream` | attached to the `custodian` logger by `LogOutput`; a daemon thread per handler; CloudWatch Logs | `queue.join()` without a timeout, lost replies, errors that surface in somebody else's log call |
| Policy execution: `c7n/commands.py`, `c7n/policy.py`, `c7n/ctx.py`, `c7n/output.py` | the policies of a run and which have errored; what a context has set up; metrics buffer; attached handlers | `run`, `Policy.__call__`, `PullMode.run`, `ExecutionContext.__enter__` and `__exit__`, `put_metric`, `flush`, `check_resource_limits` | the context drives logs, metrics, stats and outputs; policies share the logger and the process | failure at every step, order of teardown, what one policy leaves to the next |
| Resource cache: `c7n/cache.py`, used by `c7n/query.py` | a SQLite file, its rows with their dates; a connection per manager | `init`, `get`, `save`, `close`; `resources`, `get_resources` | shared by all processes that use the path | check-then-act on the file, stale rows, slow queries that overtake each other |
| Lambda entry point and event modes: `c7n/handler.py`, `LambdaMode`, `GuardDutyMode`, `SecurityHub` | process-wide options, session factory, sessions cached by region | `dispatch_event`, `assume_member`, `resolve_resources`, `run`, `run_resource_set` | the Lambda service calls it with one event after the other | state of one event seen by the next, also after a failure |
| Serverless provisioning: `c7n/mu.py` | none of its own: a function, permission, rule, config rule, schedules in the account | `publish`, `remove`; `add` and `remove` of the event sources | called by `LambdaMode.provision`; AWS APIs | a run that stops between two calls, repeated runs, policies that are edited |
| Azure container host: `tools/c7n_azure/c7n_azure/container_host/host.py` | loaded policies, a job store, a cache of md5s, a directory of policy files | `update_policies`, `load_policy`, `unload_policy_file`, `update_periodic`; `poll_queue`, `run_policies_for_event` | a scheduler with two recurring jobs on threads of their own; a blob container; a storage queue | an update half done when an event comes or a download fails, messages delivered again, files edited meanwhile |
| Multi-account runner: `tools/c7n_org/c7n_org/cli.py`, `utils.py` | a pool of processes, each with its environment and its cached sessions; futures; counts | `run`, `run_account`, `resolve_regions` | one task per account and region; `c7n.utils.local_session` | what one account leaves in a process to the next, one failing task or process among many |
| Mailer: `tools/c7n_mailer` | the batch received; the queue is the service's | the `run` of the SQS, Azure and GCP processors, `MessageTargetMixin.handle_targets` | the queue that `notify` fills; mail, chat and log services | at-least-once delivery, acknowledging last, messages that always fail |
| Tag actions: `c7n/tags.py` | none: tags of the resources | `Tag`, `RemoveTag`, conditional defaults, `UniversalTag`, `UniversalUntag`, `RenameTag` | batches on a thread pool; the ec2 and the tagging API | resources that go or change after enumeration, batches that fail in part, throttling |
| Filters: `c7n/filters/core.py`, `c7n/manager.py` | the tree of filters; annotations on resources | `Or`, `And`, `Not`, value, credential and event filters; `trim_runtime_filters`; `annotation` and `merge_annotation` | resource dictionaries are shared with the in-memory cache, and so with later policies | blocks that restore annotations, a tree that is changed while it is traversed |
| Mark for operation: `c7n/tags.py` | a tag with a date and an operation | `mark-for-op`, the `marked-for-op` filter, the removal of the mark | separate executions, hours apart | dates, days and time zones at the boundary, stale enumerations |
| Distributed executor: `c7n/sqsexec.py` | futures by sequence number | `submit`, `gather` | two SQS queues and workers | only used by the prototypes under `tools/sandbox` |
| Query managers, schema, loader, resource definitions: `c7n/query.py`, `c7n/schema.py`, `c7n/loader.py`, `c7n/resources` | none | pagination, validation; one API call per filter or action | | volume, not order |

What makes the modelled components correct:

* logs: what `emit` accepted is stored or given up with an error by the time
  `flush` returns; `flush` and `close` return; records are not duplicated
  without cause; an error is reported to somebody;
* execution: no action on a selection over the limit, none in a dry run; a
  failing policy is released, metered and listed, and the next one still runs;
* cache: what is served is not older than the period allows; raw results are
  never served as augmented ones; processes do not destroy each other's file;
* lambda: resources are looked up and acted on with the credentials and the
  options of the account and region that the event is about;
* provisioning: a run that succeeds has repaired what failed ones left; repeated
  runs converge; nothing is invoked that is not there or twice; a removal takes
  the function and its event source away;
* container host: loaded policies and cron jobs are those of the files, the files
  those of the container; an event meets whole versions of a file; messages
  are retried as often as promised and leave the queue;
* multi-account runner: no account is served with another one's session or
  environment; counts and exit code tell what happened; a failure costs nobody else;
* mailer: nothing is acknowledged that was not offered to its targets; what is
  repeated has a reason; queues drain and executions end;
* tag actions: what is reported as done is done, and a failure fails the policy; no
  value is lost between two calls; a retry does not overwrite what others wrote since;
  the retries end;
* filters: the resources kept are the ones for which the filters hold as a Boolean
  condition; annotations are exactly those of the blocks that matched; trimming
  takes exactly the runtime filters out;
* mark for operation: an owner has the time that the policy announces; what stays
  non-compliant is operated on.

## 2. Plan

The order is by how much depends on the part and how little of it a test reaches.

1. `LogTransport` (done, with proofs): threads, a queue, an unreliable service.
2. `PolicyRun` (done, with proofs): the frame in which every policy executes.
3. `ResourceCache` (done, with proofs): several processes.
4. `HotLambda` (done, with proofs): state that outlives an event.
5. `Provision` (done, with proofs): crash recovery of deployments.
6. `LogOutbox` and `LogRefinement` (done, with proof): what log delivery promises its
   user, and the mapping under which `LogTransport` implements it.
7. `ContainerHost`, `OrgRun`, `Mailer` (done, with proofs): the tools that run
   policies and deliver their notifications for ever, with faults and restarts.
8. `TagActions`, `MarkForOp` (done, with proofs): actions on resources that live on.
9. `FilterBlocks` (done): the algorithm, against Boolean conditions.
10. `AbstractLambda`, planned: one step per event that acts at a place of the
    event; `HotLambda` under `Regional` implements it.
11. A composition of `PolicyRun` and `LogTransport`, planned: today `PolicyRun`
    has the transport's error as an event of its own (`TransportFails`).
12. Theorems: everything that the prover can reach is proved (section 6).

## 3. Modules

Each component has a module, an `MC` module with its instances, and one `.cfg`
per run.  A property that a run lists may be the conjunction of several named parts
which belong together (`ReportIsTrue`, `CatchesUp`, ...); in most modules the type
invariant is such a part.  The theorems, and the inductive invariants they rest on,
are in modules of their own, named `...Proofs`.  Two of these are about two components
each: `SessionProofs` about `HotLambda` and `OrgRun`, whose processes serve one account
after the other from the same session cache, and `TagProofs` about `TagActions` and
`MarkForOp`, the two components of `tags.py`.  The names of `OrgInit`, `OrgSpec`,
`MarkInit`, `MarkSpec` and the like keep the components of a pair apart.
`PROJECT.json` maps every definition to the lines it models.  A definition with
*Mutant* in its comment is a plausible mistake in the code; it is not part of the
specification, and replaces the definition after it to show that a property can
fail.

### LogTransport

The main thread (`pc`): `run` while the policy logs, then `LeaveFlush` (detach,
hand the buffer over), `PutFlushMarker`, waiting in `queue.join()` (`flush`),
`Close` (put the shutdown marker), `close`, `reap` (join the thread), `left`;
`JoinLog` starts the next policy's handler.  `emit` is one step because logging
holds the handler's lock.  The transport thread takes an item or times out
(`GetBatch`, `GetFlush`, `GetShutdown`, `GetTimeout`) and is then inside `send`
(`sending`), where it creates the stream, puts with a sequence token, and gets
any of the service's answers.  `unfinished` is the queue's own counter, kept
separately from its length: what `join` waits for is the subject of two
properties.  A batch is a set of records, since the service receives them sorted.

Faults are a budget of each kind: `client` (a ClientError, which the code
catches), `conn` (any other exception, which it does not), `lost` (a reply lost
after the service took the batch), `foreign` (another process puts to the
stream).

### LogOutbox and LogRefinement

The abstract specification has no thread, buffer or queue: an outbox takes or
refuses a record, delivers pending records in any batches, with or without a
confirmation, gives some up, and closes only when nothing is pending.
`LogRefinement` maps `pending` to the records in the handler's buffer, in the queue
and in the transport, and `open` to the time until `flush` has returned.
`ImplementsOutbox` is the abstract specification under this mapping.

### PolicyRun

One process and its list of policies.  `Call`, `CallFails` and `NotRunnable` are
`Policy.__call__` and its conditions; `EnterStep` is one of the set ups of
`__enter__` and `EnterFails` its failure, after which Python does not call
`__exit__`, and what the failing step has set up already (`LeftOf`) stays; `Fetch`, `FetchFails`, `FetchOverLimit`, `Act`, `ActionsDone` and
`Provision` are the body; `ExitException` to `ExitSession` are the statements of
`__exit__` in order (`Teardown`), each of which may raise and so skip the rest;
`Caught` and `End` are the exception handler and the end of `commands.run`.
`buf` and `sent` follow each metric from `put_metric` to the service.  `held` is
what each context has set up and not torn down: it is what a later policy can be
disturbed by.  `broken` names the CloudWatch handlers whose transport has an
error: every log call then raises, whoever makes it.  `LimitExceeded` is
`check_resource_limits` with its tests for truth; `OverLimit`, in the property, is
what the documentation says.

### ResourceCache

The file system is modelled by inodes, so that a path can be removed or replaced
under an open connection.  `Probe` to `Purge` are the statements of
`SqlKvCache.init` that other processes can interleave with; `GetHit`, `GetMiss`,
`Fetch`, `Augment` and `Save` are `resources` and `get_resources`.  A value is
represented by the time at which the cloud was asked, so that its age can be
compared with the period of the process that reads it.

### HotLambda

`Receive` is `dispatch_event`: a cold process loads its configuration, every event
builds its session factory from the options as they are.  `Evaluate` is
`is_runnable`, `AssumeMember` is `assume_member` with everything it overwrites,
`Query`, `FilterResources` and `Act` are `resolve_resources`, `filter_resources` and
`run_resource_set`; `ResourceSets` is `SecurityHub.get_resource_sets`, after which
`SecurityHub.run` goes through the places (`todo`).  `Fails` is an exception at any
step: the process and its state stay.  `Expire` is a session that has become 45
minutes old and `Recycle` is a new execution environment.  `effect` records with
what credentials and options the last use of the cloud was made.  Which events a
deployment receives depends on its mode and on whether it has a member-role
(`Delivered`): a bus that serves one account delivers that account's events.

### Provision

The calls of `publish` and `remove` in order, one action per call.  `existing` is
the answer of `get_function` that the rest of the run compares with; `fn.busy` is
an update that Lambda has not completed, during which it refuses others (the code
waits after its code update, not after the one for the architecture).  The archive
contains the policy, so `Code` changes with every edit.  A permission is
identified by a statement name that all modes of a policy share.  `Fault` ends the
run before a call; a process that dies after a call is the same state.  `Edit`
chooses another version of the policy file between runs.

Abstractions to know of: `conf` stands for the settings that `get_config` names.
A layer or an environment that a version of the policy no longer has is not named
and so not compared (`mu.py` 745-749): the function keeps it.  `start-date` and
`end-date` of schedule mode are accepted by the schema and used by no call.  The
model does not cover a function that somebody deletes outside of custodian, after
which `ConfigRule.add` would not renew the permission of an existing rule.

### ContainerHost

The state of the `Host` object (`policies`, `blob_cache`, the files on `disk`), the
job store (`jobs`, `eventJobs`), and the two recurring jobs, each of which the
scheduler runs once at a time.  `UpdateLists` is the listing and the comparison of
md5s; what follows from it is a set of tasks (`todo`), one for each file, which are
done one after the other with a storage call or a file operation in each: `RemoveFile`
for the removed files first, in the order in which `os.listdir` names them, then
`UnloadOld` and `FetchFile` or `FetchFails` for each new one, and `UpdateEnds`, which
puts the copy in force.  `Receive` takes a page of the queue;
`DeleteExpired`, `Dispatch`, `DispatchClashes`, `DispatchMalformed`,
`DeleteDispatched` and `QueueFails` are the loop of `poll_queue`.  `Edit` is a user of
the container, between any two of these steps.  A policy file is the sequence of its
policies, one of which may not validate, or have a schedule that is no crontab, on
which `update_periodic` raises after the policy was loaded; either ends the loading
of the file.  Its md5 is its content.  `begun` and `cut` are history: the files that
the update under way has begun, and those that one had begun when it was cut short.

### OrgRun

The main process (`Submit`, `Collect`, `Exit`, with the lookups and the exceptions
of each) and the workers of the pool.  `Start` is `run_account` up to its loop, with
`environ` replaced for a chain of roles; `RunPolicy`, `RunPolicyFails`,
`RunPolicyDenied` and `PolicyInvalid` are the loop; `Leave` is what the context
managers undo, also after an exception.  `conn_cache` is the `CONN_CACHE` of each
process, by region: `acted` records for whom each policy ran, with whose session,
and in whose environment that session was assumed.  `WorkerDies` breaks the pool.

### Mailer

One module for the three processors, chosen by `setup`: they share the delivery and
differ in what a failure does to the message (`Raise`) and to the execution.  `Begin`
to `Handled` are one message: decoded, offered to its targets (`left` are those to
come) in the order of `Order`, acknowledged or kept.  A target is offered a message, and gets it or not
(`Deliver`, `DeliverFails`, `DeliverRaises`, `MailRefused`); the code swallows some
failures and raises others, which is what tells the three `Deliver...` actions
apart.  The clients of mail and, on AWS, SNS are made for every message, so that
`DeliverRaises` can happen at a target that the message does not name (`Connects`).
`BeginParallel` is the pool of the SQS processor.

### TagActions

`seen` is what the policy enumerated and `tags` what there is, since `Terminate` and
`Edit` go on meanwhile.  `Batches` is how each action divides its resources: `Chunks`
is `utils.chunks`, which puts a resource into a chunk by the number of those before
it, and `Groups` are the sets of `rename-tag`, one for each value of the old key.
That every resource which the action is about (`Considered`) is in exactly one batch
is part of `TypeOK`.
`Start`, `Call`, `SkipBadIds`, `CallRaises` are a batch of `tag`, `remove-tag` and the
conditional default, where the API refuses a batch as a whole and names the
resources it does not know; `UniversalCall` is `universal_retry` over the tagging
API, which answers for each resource; `Create`, `Delete` and `Recreate` are the calls
of `rename-tag`.  `Finish` is the pool's `as_completed` loop.  `touched` and `written`
are history: the resources that others changed, and those whose key the action wrote.

### FilterBlocks

A policy is a tree of nodes.  `Process` evaluates a filter on a whole list and
returns the list and the annotations, as the code does, with `ProcessOr`,
`ProcessAnd` and `ProcessNot` restoring what their filters noted; `Search` and
`TrimFrom` are the traversals of `iter_filters`, with the markers of block ends.
Credential filters are of two types: on a property of the access keys, which notes
the keys that match, and on one of the report's entry ("report"), which notes
nothing; a user without an entry (not in `Reported`) matches neither and is not noted.
`Start` is the query, which returns fresh dictionaries or, with the in-memory cache,
the annotated ones, `Filter` applies one top level filter, and `NextPolicy` goes on
to the second policy.  The references
`Holds`, `Earned`, `Runtime` and `KeyHolds` are definitions on one resource, filter or
key, with nothing of the lists, identities and traversals of the code.  These are
`RECURSIVE` operators, so that this module is only model-checked.

### MarkForOp

Three policies that `Enumerate` and later act (`Mark`, `Operate`, `Unmark`).  Time
advances by hours, also between the two, and a date is kept as the number of hours
until it, so that behaviours need no horizon; ages and dates beyond `Cap` are not
told apart (`CapAssumption`: it is beyond every date that the policies can write, so
that it limits what is told apart and nothing else).  `UntilDate` is `generate_timestamp` and `AsRead` what the filter makes of
the text: with hours the zone's name is part of it and is understood only if it is
UTC, otherwise the text is read with the host's clock.  `Spoil` leaves a tag that the
filter passes over (`Unread`): one that is malformed, names another operation or has
no date.  `remarked` is history: the resources whose tag changed after the operating
execution had listed them.

## 4. Runs and bounds

Passing runs:

| Run | Instance | Shows |
|---|---|---|
| `log_delivery` | 3 records, batches of 2, 2 handlers, one fault of each kind | `QueueAccounting`, `FlushDelivers`, `ShutdownStrandsNothing`, `DuplicatesNeedLostReply`; as long as the transport thread lives, `LeaveReturnsWithThread` and `QueuedIsSent`; and `ImplementsOutbox` |
| `policy_faults` | a pull policy with both limits and two actions, then a serverless one; buffer of 3 metrics, up to 2 resources, every fault | limits and dry runs (`ActsAsAllowed`), release of the context, metering, `ErrorsAreAccounted`, `OnlyLogsAbort` |
| `cache_safety` | 2 processes with periods 1 and 2, one key, 2 lookups each, clock to 3, 3 inodes; the file missing, without its directory, old or warm at the start | `HitAgeBounded`, `SharedIsUsable` (augmentation, connections), `WarmCacheIsSafe` |
| `lambda_events` | the lambda's account and two members, 2 regions, 3 events, with and without member-role; security hub findings name any of four regional places in three accounts | `ActsAtEventPlace` |
| `provision_repair` | for each kind of event source, a file with three versions that differ in event, settings, architecture and concurrency; a schedule in one of three groups; changes between periodic and schedule mode; 2 edits, 2 faults, 1 removal | `SuccessIsComplete` (`PublishedAsWanted`, `RemovedIsGone`, `NoOtherSource`, `OneScheduleUndisturbed`), `TargetsCanInvoke`, `KeepsSchedule`, `Converges` |
| `host_updates` | 2 files, one in a subdirectory, with 2 versions each (a periodic policy becomes an event policy, an invalid policy, one that cannot be scheduled, a blob without md5); 3 messages, one malformed, pages of 2, 2 retries; 4 edits with a failing download, or 3 messages with a failing call, or 2 edits and a message with a restart | `LoadedMatchesDisk`, `WholeVersions`, `RetriesCounted`, `CatchesUp` |
| `org_accounts` | 2 accounts that share a region, one with a chain of roles, one with 2 regions that are looked up; 2 processes, 2 policies, any two of six kinds of fault | `OwnCredentials`, `ReportIsTrue` (counts, exit code, containment), `RunEnds` |
| `mailer_queues` | each processor with 2 messages, one for mail and slack, one for SNS and datadog, one possibly malformed, pages of 2, one retry, any two of four kinds of fault; the pool of SQS | `SequentialLosesNothing`, `RepeatsHaveReason`, `CatchesUp` |
| `tag_batches` | each of six actions on 3 resources in batches of 2, with room for 2 tags each, 2 attempts; any two of a failing call, a deletion and an edit | `OutcomeIsTrue` (`DoneIsApplied`, `FailuresAreRaised`, `AttemptsBounded`), `RenameKeepsValue`, `EditsStand`, `ActionEnds` |
| `filter_trees` | all nestings of 2 blocks and 3 filters of every type, 8 resources and 8 access keys, one for every combination of filters that match, one user without a report entry; then one of two further policies, on the same dictionaries or on fresh ones; with and without an event | `MatchIsBoolean`, `NotesAreEarned`, `TreeIsKept`, `FlatKeysRespectBlock` |
| `mark_lifecycle` | days of 3 hours; days, hours, both or neither; zones on both sides of UTC; hosts in and ahead of UTC; skew of 0 and 1; tags that are written over at any time | `GraceKept`, `BadIsOperated` |

Why the bounds are enough for the cases of interest.  Logs: two records fill a
batch and a third is left over for `flush` or the timeout; the second handler meets
what the first has left on the service; one fault of each kind gives every
combination of kinds.  Execution: two policies are what it takes for one to
disturb the next, and a buffer of 3 is filled by the metrics of one policy, so that
a flush happens inside `put_metric` at every place where the code's 20 could be
reached.  Cache: two processes with different periods, and a clock that passes both
periods and the slowest query; each process creates at most one file more than it
finds.  Lambda: two events of different accounts leave and find state, the third
follows a failure or an expiry; two accounts share a region and one account has two
regions.  Provisioning: an edit, a fault and a repeated run give a partial
deployment; the second edit returns to an earlier version, the third group tells
the previous group from any other.

Container host: a file needs two versions to leave something of the first behind,
and a second file to be cut off when the first one fails; a malformed message needs
one before and one behind it in a page.  Multi-account runner: a process that serves
two accounts in one region is what it takes to share a session, and the second
region lets the processes overtake each other.  Mailer: a page of two lets a message
wait behind one that fails; two faults are an interruption and another one in the
retry.  Tags: a batch of two can lose one or both of its resources, one after the
other, beside a batch that is not disturbed.  Filters: a block in a block beside a
filter is the smallest tree in which restoring, merging and trimming differ between
the levels.  Marks: a day of three hours has a first, a middle and a last hour, and
two days pass within `Cap`.

The largest runs are `org_accounts` (some 670,000 states) and `host_updates` (some
300,000 states, with liveness); each takes about two minutes, the others less.

One run expects a violation: `filter_matched` checks what a comment of the
repository states and the code does not keep; section 7 explains it.

Some properties are the part of a stronger one that the code does keep:
`LeaveReturnsWithThread` and `QueuedIsSent` suppose that the transport thread lives,
`OnlyLogsAbort` excludes an attached log handler that raises,
`OneScheduleUndisturbed` failing calls, `NoOtherSource` changes of the mode,
`WarmCacheIsSafe` the first start, `ActsAtEventPlace` is checked with findings about
regional resources, `LoadedMatchesDisk` and `WholeVersions` except the files that an
update had begun when a download failed, `GraceKept` the policies that give no time and
the resources whose tag changed after the operating execution had listed them,
`RenameKeepsValue` resources without room for both keys, `ActsAsAllowed` the limits that
are never tested,
`DiskFollowsStorage` blobs without md5 and contents that come back,
`SequentialLosesNothing` the pool, `CatchesUp` of the mailer malformed messages.
What happens in the cases left out is in section 7.

Deadlock is not checked in `log_delivery`, since a thread killed by a `conn` fault
really leaves the main thread waiting, nor in `cache_safety`, which ends when the
lookups are used up.

## 5. Fairness

* `LogTransport`: weak fairness of the main thread once it is leaving the log, and
  of the transport thread.  Both are threads of one interpreter, and `queue.get`
  returns within `batch_interval`.  Nothing is assumed of emitting, of when the
  policy ends, or of the service beyond an answer, possibly an error, to a call.
* `Provision`: weak fairness of custodian, i.e. a run that failed is repeated (a
  deployment job or the operator runs the same file again), and of Lambda
  completing an update, which the code's waiters rely on.  Edits, removals and
  faults are bounded: `Converges` is about what happens after the last one.

* `ContainerHost`: weak fairness of each of the two jobs, which the scheduler starts
  again every minute and every 15 seconds and whose calls return or raise; of the
  one-off jobs; and of a hidden message reappearing.  Users, restarts and faults are
  bounded by a budget.
* `OrgRun`: weak fairness of the main process and of each worker: they are processes
  of one machine, and a policy's run ends, with an exception if its calls keep
  failing.
* `Mailer`: the mailer is started again and again (a schedule, or a loop in a
  container), an execution that is not cut short goes on, and hidden messages
  reappear, as the queue services promise.
* `TagActions`: the threads of the pool run and calls return.  The services, others
  who edit, and throttling are not fair; that the loops end is due to their bounds.
* `MarkForOp`: time passes, and each policy is scheduled again and finishes.  Nothing
  is assumed of the owners.

`PolicyRun`, `ResourceCache`, `HotLambda` and `FilterBlocks` state safety only.

## 6. Proofs

Eight modules hold theorems about ten components.  All follow the same argument: an
inductive invariant (`IndInv`, or `OrgInv`, `MarkInv`, `TagInv`), a conjunction of named
parts, holds initially, is preserved by every action, and implies the properties.  It
was checked with TLC on the run's instance before it was proved.  The constants are
restricted only by the named assumption of each module; budgets of faults, edits and
events are arbitrary numbers, so that a proof covers any number of them.  Where a
module has many actions, these are first shown to be of a few kinds, told apart by
what they do to the parts of the invariant, and the parts are shown to survive each
kind.

| Module | Theorem | States |
|---|---|---|
| `LogTransportProofs` | `TypeCorrect` | `TypeOK` |
| | `JoinCountsTasks` | `QueueAccounting` |
| | `FlushDeliversAll` | `FlushDelivers` |
| | `ShutdownIsClean` | `ShutdownStrandsNothing` |
| | `DuplicatesAreLostReplies` | `DuplicatesNeedLostReply` |
| | `HandlerImplementsOutbox` | `ImplementsOutbox` |
| `PolicyRunProofs` | `PoliciesActAsAllowed` | `ActsAsAllowed`, for limits that are tested |
| | `FailedBodiesRelease` | `FailedBodyReleasesContext` |
| | `FailuresReachMetrics` | `FailuresAreMetered` |
| | `EveryErrorIsAccounted` | `ErrorsAreAccounted` |
| | `OnlyLogHandlersAbort` | `OnlyLogsAbort` |
| `ResourceCacheProofs` | `HitsAreFresh` | `HitAgeBounded` |
| | `CacheIsUsable` | `SharedIsUsable` |
| | `WarmStartsAreSafe` | `WarmCacheIsSafe` |
| `SessionProofs` | `LambdaTypeCorrect` | `TypeOK` |
| | `ActsOnlyAtEventPlace` | `ActsAtEventPlace`, under `Regional` |
| | `CredentialsAreOwn` | `OwnCredentials` |
| | `ReportsAreTrue` | `ReportIsTrue` |
| `ProvisionProofs` | `SuccessfulRunsAreComplete` | `SuccessIsComplete`, under `Orderly` |
| | `TargetsAreInvocable` | `TargetsCanInvoke` |
| | `SchedulesAreKept` | `KeepsSchedule`, an action property |
| `ContainerHostProofs` | `LoadedIsOnDisk` | `LoadedMatchesDisk` |
| | `EventsMeetWholeVersions` | `WholeVersions` |
| | `RetriesAreCounted` | `RetriesCounted` |
| `MailerProofs` | `NothingIsLost` | `SequentialLosesNothing` |
| | `RepeatsAreAccountedFor` | `RepeatsHaveReason` |
| `TagProofs` | `TagOutcome` | `OutcomeIsTrue` |
| | `RenamedValuesKept` | `RenameKeepsValue` |
| | `LaterEditsStand` | `EditsStand`, an action property |
| | `OwnersHaveTheirGrace` | `GraceKept` |

**Log delivery** (`LogAssumption`: finitely many records, batches of at least one,
any number of handlers, any budget of faults).  `FlushDelivers` and
`ShutdownStrandsNothing` are not inductive: that flush may return follows from a
count of zero only if the count is right (`QueueAccounting`), if an empty queue means
that nothing is left in the transport (`Shape`: in each phase, where the markers are
and what the thread may hold), and if every accepted record is in a buffer, in the
queue, stored or dropped (`Covered`).  For the duplicates and the refinement this is
not enough: `RefInv` adds that each record on its way is in one place only
(`OnePlace`), that only emitted ones are on their way (`OnlyEmitted`), and that a
record has been stored at most once for each lost reply while it is pending, and once
more after that (`StoresCounted`).  Every step is then of one of seven `Kinds` (it moves
records, takes or refuses one, has a batch confirmed, repeated or given up, or
switches between open and closed), and each kind is a step of `LogOutbox` or a stutter.

**Policy execution** (`PolicyAssumption`: any list of policies, any size of the
metrics buffer, any set of faults).  The policies after the current one have done
nothing (`Untouched`) and those before it are over: recorded, and torn down and
metered if only their body failed (`Settled`, `TornDown`).  For the current one,
`Outside`, `Entering`, `Inside`, `Leaving` and `Failed` say for each step what the context
holds and which metrics have been recorded; the teardown of a step is what remains
of `Holdings` after the steps before it.  `TestedSelections` says that actions run on a
selection that passed `check_resource_limits`, `EndsInOrder` how a process ends, and
`LogsBlamed` that a policy in which a log handler raised has a handler to blame, its own
or an earlier one's, and is the last one attempted.
`PoliciesActAsAllowed` supposes `LimitIsTested` of every policy, i.e. excludes the two
forms of `max-resources` that the code does not test (section 7); the policies of the
run satisfy it.

**Resource cache** (`CacheAssumption`: any processes and keys, positive periods).
The age of a hit is bounded since a row is dated when it is saved, at most `MaxFetch`
after its query (`RowFresh`), for which a result on its way must not be older than that
(`DataFresh`); purge and the test of `get` then compare the date.  `Connected` follows a
connection through the steps of `init`.  `WarmStays`: with a database at the path from the
start, no process is on the way to remove it, since each of them has found it there.

**Policy lambda** (`LambdaAssumption`: any accounts, regions, events and modes).
Between events anything may be cached; what makes `ActsAtEventPlace` inductive is
`Assumed`: from `assume_member` on, the options, the session factory and every session
still cached agree on one place of the event.  `StaysHome` is its counterpart for
deployments without a member-role, and `Expected` says what events there are;
`PlacesAgree` is their conjunction.  `Regional` concerns security hub mode only: the
findings name resources that have a region and, without a member-role, those of the
lambda's own account are in its own region.  Both are needed: a finding about a
global resource is served at the place of the event before it (section 7), and
without a role no other region is reached.  `LambdaTypeCorrect` contains that no event is served cold.

**Provisioning** (`ProvisionAssumption`: any versions and groups; only schedules have
a group).  `FunctionSteps`: at each call the parts of the function that earlier calls
looked at are as wanted, the others as `get_function` showed them, so that a comparison
with `existing` is a comparison with the function.  `EventSteps` is the same for the
event source, and `Results` ties the end of a run to the state.  The other parts hold
for the edits that they suppose: `PrincipalIsWanted` and `RulesCanInvoke` relate the
permission to the rules that need it, and `OneSchedule` says in which groups there are
schedules at each step: that of the function's tag, and while the group changes the
previous one.  `NoOtherSource` needs no invariant of its own: in a policy that keeps
its mode, these parts leave no room for a source of another kind.  `Orderly` is the hypothesis of `SuccessfulRunsAreComplete`: the edits keep
the principal that invokes the function, and either the group of the schedules or the
mode and the architecture.  The families of the run satisfy it; the proof attempt
without it failed, and TLC found the behaviours that section 7 lists.
`TargetsAreInvocable` and `SchedulesAreKept` hold for all edits.

**Container host** (`HostAssumption`: any files, contents, messages and budgets; the
policies of one file have different names).  `FilesAreOwn`, `OneTaskPerFile` and
`FetchedAreUnloaded` give the state of each file during an update.  `Follows`, for each
file that no update was cut short for: at every step the copy (or between updates the
policies) has of it what its copy on disk brings, the cron jobs are its periodic ones,
and the policies in force have the same until the update begins with the file
(`begun`): an update that fails therefore leaves every file in order that it had not
begun.  Loading a file adds exactly its policies because it was unloaded before, and
unloading by name removes no others because names belong to one file (`NamesAreOwned`,
a hypothesis inside the properties).  For the queue: a message is in one place of the batch (`OnePlaceInBatch`)
and hidden (`BatchIsHidden`), was received once more than it was tried while it waits
(`TriesAreReceived`), and is received again only after a poll failed
(`ReceivedAgainAfterFailure`).

**Multi-account runner** (`OrgAssumption`: any accounts, regions, policies, workers
and budgets).  `Clean`: between two tasks a worker has neither sessions nor credentials
of an account, and in a task only those of its account.  A worker has one task and a
task one worker (`OneWorkerPerTask`), so that what it returns is counted once; futures
that the main process has seen do not change any more (`SeenIsFinal`), and accounts to
come have none (`NotYetSubmitted`), so that the counts stay sums over the collected ones.

**Mailer** (`MailerAssumption`: any messages, targets, configurations and budgets).
`OffersAddUp`: what a message was offered to and what is left are its targets, so that
acknowledging after the last one loses nothing.  `TriesHaveReason` pays for each try
with an interruption or with a dequeue that the azure processor still retries, and
`OneCopyPerTry` for each copy with a try; `BatchShape` makes sure that a message is not
twice in the batch.

**Tag actions** (`TagAssumption`: any list of different resources, any tags, size of
a batch, room for tags, number of attempts and budget).  That no resource is left out
or handled twice is a fact about the operators: `ChunksPartition` shows that the chunks
of any set of resources are a partition of it, and `BatchesPartition` that the batches
of each action are one of `Considered`.  Threads then touch tags of their own batch only,
so that every step of a thread is an `OwnStep`, which keeps what the other batches have
reached (`OwnStepKeeps`).  For the thread's own batch: `BatchShape` says which phases
the action has, what the batch goes on with and how many calls are left; `Applied` that
every resource it does not go on with, of those that exist and that nobody else
changed, has the wanted tag, so that nothing is missing when it goes on with nothing;
and `Renamed` under which key the value of a resource is before each call of a rename,
and after one that failed.  `Fresh` says that what a batch may still write it has not
written, which is what `EditsStand` needs.  `EndedBeforeOutcome` ties the outcome to the batches.  The
proof of the universal retry needs its decisions in the order of the code: an error
raises also when nothing was throttled.

**Mark for operation** (`MarkAssumption`: a day of any length, any offsets and hosts;
`CapAssumption`: section 3).  `DateAfterGrace` is the arithmetic: the date, as the filter
will read it, is not before the announced time less the losses in `Grace`.  `GraceKept`
looks at the age of a mark when its resource is operated on, which no step relates to the
date: `DatesAreKept` says that the age of a mark and the hours until its date add up to the
grace period and the skew at least, which an hour that passes leaves as it is.  A mark
that is due is therefore old enough when it is enumerated, and, unless it is changed, grows
older until its resource is operated on (`ListedAreDue`, `OperatedWereDue`).

Only model-checked:

* liveness (`LeaveReturnsWithThread`, `QueuedIsSent`, `Converges`, `CatchesUp` of the
  container host and of the mailer, `RunEnds`, `ActionEnds`, `BadIsOperated`), which is out
  of the prover's reach;
* everything about `FilterBlocks` (`MatchIsBoolean`, `NotesAreEarned`, `TreeIsKept`,
  `FlatKeysRespectBlock`): its definitions are recursive over a tree of filters of any
  depth, and what they compute needs an induction over that tree.

## 7. Findings

* `filter_matched`: a credential filter followed by an `or` block of credential
  filters leaves access keys noted that satisfy none of the block's filters:
  `merge_annotation` joins them with the keys noted before the block instead of
  narrowing those (`filters/core.py` 237-246; "respecting block operators",
  `resources/iam.py` 1958).  `remove-keys` with `matched: true` acts on them.

Further observations made while modelling.  The models behave as described unless
an item says otherwise; the properties of the passing runs are stated so as to
leave them out.

Log delivery and policy execution:

* An exception other than ClientError in the transport thread, or in starting it,
  leaves `flush` in `queue.join()` for ever (`log.py` 117).
* `max-resources` with op `and` and one threshold, or with 0 percent, never stops a
  policy, although the documentation says that the limit does (`query.py` 686).
* The transport's error is raised by log calls outside of the `try` of
  `commands.run`, which ends the run before the remaining policies
  (`commands.py` 317: "continuing").
* An error that the last flush meets is stored in the transport and raised to
  nobody: `emit` raises it only to a later record (`log.py` 89-94, 200).
* A context that fails half way through `__enter__` leaves its log handler attached
  for the following policies (`ctx.py` 78): its error then fails one of them and ends
  the run (`ErrorsAreAccounted`).  An API stats object or a tracer that raises in its
  `__exit__` leaves what follows it in the context undone (`ctx.py` 96, 105).

Cache and lambda:

* A process that starts on a missing or old cache file can remove the database that
  another one has just created (`cache.py` 123).
* Conditions see the account and region of the lambda or of the previous event
  (`policy.py` 500); findings about global resources assume no role (`policy.py` 457).
* The security hub modes never apply the policy's filters
  (`resources/securityhub.py` 229-232), and ask each place of a finding for the
  resources of all of them.
* A finding about a global resource is not among the events of the run: `HubPlaces` are
  regional, as `Regional` supposes.

Provisioning:

* A call that fails between the update of the tags and the deletion of the old
  schedule leaves two schedules for ever (`mu.py` 1343): the group of the old one was
  known from the tag only.  `OneScheduleUndisturbed` supposes that no call failed.
* `publish` and `remove` look at the event source of the mode in the file only.  After a
  change from periodic to schedule mode the old rule and its target stay and go on
  invoking the function, beside the schedule, and removing the policy in schedule mode
  leaves the rule behind.  `NoOtherSource` supposes that the mode is kept.
* Removing a policy leaves its schedule if that is in a group other than `default`:
  `remove` looks for it in the default group only (`mu.py` 1291, 1395).
* A policy that changes from a config rule to an event rule keeps the permission of
  AWS Config, which has the same statement name: publish succeeds and the rule may
  not invoke the function (`mu.py` 1226, 1929).
* Removing the policy while it is in event rule mode leaves its earlier config rule.
  When it is published in config mode again, the rule is found, its permission, which
  went with the function, is not renewed, and publish succeeds (`mu.py` 1929).
* A version that changes the group, the architecture and the settings of a scheduled
  policy at once leaves two schedules although no call of the services fails on its
  own: the code does not wait after the update of the architecture, so that the one
  of the settings is refused, and the next publish finds the new group in the tags
  (`mu.py` 1343).  `Orderly` excludes these three.
* A `hub-action` policy cannot be deployed: `SecurityHubAction.add` omits an argument
  of `CloudWatchEventSource.add` (`mu.py` 1195, 1440; `AddHubAction`).

Container host (`host.py`):

* A blob that is removed and uploaded again with the same content is never loaded
  again: the md5 of the removed file is kept (175).  `reused` excludes it.
* A blob without an md5 makes every update raise (190); a removed file in a
  subdirectory is never unloaded (138); a policy that moves to another file under
  its name is unloaded with the old one.
* A well formed message behind a malformed one in a page is received, and counted,
  without being tried, and can be given up untried (347).  `GivenUpOnlyAfterFailures`
  says what is kept: it takes as many failing polls as there are retries.
* A failing download (162) drops the copy of the policies but not what the update has
  done to files, md5s and cron jobs.  Of the files that it had begun (`cut`), policies
  that were removed or replaced stay in force, without their cron jobs; the empty file
  that the download leaves takes the place of the version whose policies the next update
  should unload, so that it adds the new version beside the old one.  An event can then
  meet policies of both versions, until the container is restarted.  `LoadedMatchesDisk`
  and `WholeVersions` except these files.
* A periodic policy whose schedule is not a crontab is loaded and has no job: the
  exception of `update_periodic` (224) also ends the loading of the file.

Multi-account runner (`cli.py`):

* The exit code is 0 although the run of an account raised or the pool broke
  (1374-1380): `ZeroMeansNoFailure` is about tasks that returned.
* AccessDenied in the lookup of regions skips the account silently (238-245).

Mailer:

* SendGrid errors other than the two that are named are swallowed, and the message
  is deleted without the retry that the documentation describes
  (`tools/c7n_mailer/README.md` 580).
* With `--max-num-processes` every message is lost: the call of the pool is given the
  fields of the message as its arguments, fails in the worker, and the message is
  acknowledged (`sqs_queue_processor.py` 113; `BeginParallel`).
* A malformed message ends each SQS execution, stays in the Azure queue, and is
  received for ever within one GCP execution.
* A visibility timeout that ends while an execution still holds the message is not
  modelled; it would add copies.

Tags and marks (`tags.py`):

* `tag-trim` never trims: `process_resource` calls `process_tag_removal` without the
  client that it takes (379, 381), and the TypeError is swallowed with the future.
  The action is not modelled.
* `rename-tag` of a resource without room for both keys loses the value if the second
  create fails (`RenameKeepsValue` excludes it), and errors of its batches are only
  logged.
* A conditional default goes by the tags enumerated (172): a tag that somebody writes
  between the enumeration and the call is replaced, although a conditional default is
  described as "write only when the tag is absent" (92).  `EditsStand` is about what
  others write after the action's own write.
* `mark-for-op` without days and hours is due at once; its documentation says after 4
  days (760-761, 815, 832-833).  `GraceKept` says nothing about such a policy
  (`TimeIsGiven`).
* A date in a zone other than UTC is read with the clock of the host, and days without
  hours are up to a day short; `Grace` states both.
* Operating acts on the enumeration: a resource whose mark was removed, or removed and
  written anew, after it is operated on at once (`remarked`).

## 8. Not modelled

* Formatting, serialisation, compression, upload paths, schema validation,
  templating: data without order.
* The filters and actions of single services, which are one API call each; in
  `PolicyRun` an action is a step that succeeds or fails.
* Parallel processing of resources inside an action (`executor.py`): it is joined
  before the action returns.
* SQLite's locking, which makes each statement of the cache atomic, and `NullCache`.
* The config-rule, health, periodic and schedule modes at run time: they run in the
  lambda's own account, the last two as `PullMode`.
* Events whose envelope has no account or region, and event buses that deliver
  events of other accounts to a policy without a member-role.
* Pause and resume of event sources, aliases (policies have none), and the event
  sources that no policy mode uses.
* Container host: the command line, the event grid subscription, the preparation of
  storage.  Multi-account runner: the report and run-script commands, which use the
  same pool, and the other providers' accounts.  Mailer: rendering, address lookup,
  its own deployment.
* Tags: `tag-trim`, `normalize-tag`, `copy-related-tag`.  Filters: the comparison
  operators and value types, `reduce`, list-item and `resource_count`; resources are
  assumed to have distinct ids.
* The distributed executor (`sqsexec.py`), which only the prototypes under
  `tools/sandbox` use.
* The provisioning and the event modes of the other cloud providers under `tools/`.
