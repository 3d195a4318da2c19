------------------------------ MODULE PolicyRun ------------------------------
(***************************************************************************)
(* One `custodian run` process (c7n/commands.py run) executing a list of   *)
(* policies one after the other: Policy.__call__, the pull mode and the    *)
(* provisioning shell of the serverless modes (c7n/policy.py), the         *)
(* execution context they run in (c7n/ctx.py), what the context sets up    *)
(* and tears down (c7n/output.py, c7n/resources/aws.py) and the resource   *)
(* limit that stops a policy (c7n/query.py).                               *)
(*                                                                         *)
(* Logs go to CloudWatch (--log-group), so that the context attaches both  *)
(* a CloudWatch handler and a file handler.  A CloudWatch handler whose    *)
(* transport met an error raises it from every later log call, of whatever *)
(* policy, for as long as the handler is attached to the `custodian`       *)
(* logger.  Calls below INFO are not emitted (the default level).          *)
(***************************************************************************)
EXTENDS Integers, Sequences, FiniteSets

CONSTANTS
    PolicyData,    \* the policies of the run, in order: see DataType
    MaxPop,        \* bound: most resources a query returns
    BufferSize,    \* Metrics.BUFFER_SIZE (20 in the code)
    Custom,        \* metrics an action may record by itself
    Faults         \* the kinds of faults that may happen: see FaultKinds

Unset == -1        \* a key that the policy does not have

\* call: the policy's conditions cannot be evaluated; enter, exit: setting up or
\* tearing down the context fails; body: a query, a filter, an action or a
\* provisioning fails; metrics: put_metric_data fails; log: the transport of a
\* CloudWatch handler meets an error.
FaultKinds == {"call", "enter", "body", "exit", "metrics", "log"}

DataType == [mode : {"pull", "serverless"},
             actions : Nat,
             amount : {Unset} \cup (Nat \ {0}),      \* max-resources
             percent : {Unset} \cup 0..100,          \* max-resources-percent
             op : {"or", "and"}]

ASSUME PolicyAssumption ==
    /\ PolicyData \in Seq(DataType)
    /\ MaxPop \in Nat
    /\ IsFiniteSet(Custom)
    /\ BufferSize \in Nat \ {0}
    /\ Faults \subseteq FaultKinds

VARIABLES
    options,       \* the command line: dryrun and debug
    p,             \* index of the current policy
    pc,            \* where its execution is: see Phases
    step,          \* index of the next set up, tear down or action
    exc,           \* an exception is propagating out of the context's body
    held,          \* what each policy's context has set up and not torn down
    broken,        \* policies whose CloudWatch handler raises on every record
    buf,           \* Metrics.buf of each policy's context
    sent,          \* metrics the service has taken, by policy
    selected,      \* resources each policy matched, and queried
    applied,       \* how many of its actions each policy has started
    deployed,      \* policies that were provisioned
    outcome,       \* what run() has recorded of each policy
    causes,        \* history: the faults each policy ran into
    status         \* running, or how the process ended: done or aborted

vars == <<options, p, pc, step, exc, held, broken, buf, sent, selected,
          applied, deployed, outcome, causes, status>>

Ids == 1..Len(PolicyData)
Phases == {"call", "enter", "fetch", "actions", "provision", "exit", "caught"}

\* What ExecutionContext.__enter__ sets up, in this order; the first step also
\* starts the system stats, the last one updates the cached session.
Setup == <<{"output", "session"}, {"logs"}, {"outlog"}, {"recorder"}, {"tracer"}>>

\* Mutant: the metrics are flushed before the recorder adds its own.
TeardownSwapped == <<"exception", "metadata", "metrics", "recorder",
                     "logs", "outlog", "output", "tracer", "session">>

\* What ExecutionContext.__exit__ does, in this order.
Teardown == <<"exception", "metadata", "recorder", "metrics",
              "logs", "outlog", "output", "tracer", "session">>

Holdings == {"output", "session", "logs", "outlog", "recorder", "tracer"}

MetricNames == {"ResourceCount", "ResourceTime", "ActionTime",
                "ResourceLimitExceeded", "PolicyException",
                "ApiCalls", "ApiTime"} \cup Custom

Init ==
    /\ options \in [dryrun : BOOLEAN, debug : BOOLEAN]
    /\ p = 1
    /\ pc = "call"
    /\ step = 1
    /\ exc = FALSE
    /\ held = [q \in Ids |-> {}]
    /\ broken = {}
    /\ buf = [q \in Ids |-> {}]
    /\ sent = [q \in Ids |-> {}]
    /\ selected = [q \in Ids |-> [count |-> 0, of |-> 0]]
    /\ applied = [q \in Ids |-> 0]
    /\ deployed = {}
    /\ outcome = [q \in Ids |-> "pending"]
    /\ causes = [q \in Ids |-> {}]
    /\ status = "running"

-----------------------------------------------------------------------------
(***************************************************************************)
(* Helpers.                                                                *)
(***************************************************************************)
Data == PolicyData[p]
At(phase) == status = "running" /\ p \in Ids /\ pc = phase

\* A record at INFO or above raises: it reaches every attached handler.
LogRaises == \E q \in broken : "logs" \in held[q]

\* Python truth of a number that may be absent.
Truthy(n) == n # Unset /\ n # 0

\* Mutant: the two thresholds are never taken together.
LimitExceededApart(d, count, of) ==
    /\ d.op # "and"
    /\ \/ Truthy(d.amount) /\ count > d.amount
       \/ Truthy(d.percent) /\ of # 0 /\ count * 100 > of * d.percent

\* MaxResourceLimit.check_resource_limits; percentage_amount is a float, so it
\* is compared without rounding, and is falsy when nothing was queried.
LimitExceeded(d, count, of) ==
    LET percentAmount == Truthy(d.percent) /\ of # 0
        overAmount == count > d.amount
        overPercent == count * 100 > of * d.percent
    IN  \/ /\ percentAmount /\ Truthy(d.amount)
           /\ overAmount /\ overPercent /\ d.op = "and"
        \/ Truthy(d.amount) /\ overAmount /\ d.op # "and"
        \/ percentAmount /\ overPercent /\ d.op # "and"

\* Metrics.put_metric: the buffer is put when it is full, and kept when that
\* fails.  r is the state of the metrics, and whether a put has raised.
PutOne(r, name) ==
    LET b == r.buf \cup {name}
    IN  IF ~r.ok THEN {r}
        ELSE IF Cardinality(b) < BufferSize
             THEN {[r EXCEPT !.buf = b]}
        ELSE {[buf |-> {}, sent |-> r.sent \cup b, ok |-> TRUE]} \cup
             (IF "metrics" \in Faults THEN {[r EXCEPT !.buf = b, !.ok = FALSE]}
                                      ELSE {})

NoPut == [buf |-> buf[p], sent |-> sent[p], ok |-> TRUE]
Put1(name) == PutOne(NoPut, name)
Put2(name1, name2) == UNION {PutOne(r, name2) : r \in Put1(name1)}

Metered(r) ==
    /\ buf' = [buf EXCEPT ![p] = r.buf]
    /\ sent' = [sent EXCEPT ![p] = r.sent]

Blame(kinds) == causes' = [causes EXCEPT ![p] = @ \cup kinds]

\* Leave the context's body, normally or by an exception with these causes.
Return ==
    /\ pc' = "exit" /\ step' = 1 /\ exc' = FALSE
    /\ UNCHANGED causes

Raise(kinds) ==
    /\ pc' = "exit" /\ step' = 1 /\ exc' = TRUE
    /\ Blame(kinds)

Finish(result) ==
    /\ outcome' = [outcome EXCEPT ![p] = result]
    /\ p' = p + 1
    /\ pc' = "call"
    /\ step' = 1
    /\ exc' = FALSE

-----------------------------------------------------------------------------
(***************************************************************************)
(* Policy.__call__.                                                        *)
(***************************************************************************)
NotRunnable ==
    /\ At("call")
    /\ Finish("ok")
    /\ UNCHANGED <<options, held, broken, buf, sent, selected, applied,
                   deployed, causes, status>>

\* Evaluating the conditions raises, outside any context.
CallFails ==
    /\ At("call")
    /\ "call" \in Faults
    /\ pc' = "caught"
    /\ Blame({"call"})
    /\ UNCHANGED <<options, p, step, exc, held, broken, buf, sent, selected,
                   applied, deployed, outcome, status>>

Call ==
    /\ At("call")
    /\ pc' = "enter"
    /\ UNCHANGED <<options, p, step, exc, held, broken, buf, sent, selected,
                   applied, deployed, outcome, causes, status>>

\* Serverless policies are provisioned, unless this is a dry run.
Provisions == Data.mode = "serverless" /\ ~options.dryrun

\* One set up of ExecutionContext.__enter__; after the last one the body runs.
EnterStep ==
    /\ At("enter")
    /\ held' = [held EXCEPT ![p] = @ \cup Setup[step]]
    /\ IF step < Len(Setup)
         THEN step' = step + 1 /\ pc' = pc
         ELSE step' = 1 /\ pc' = IF Provisions THEN "provision" ELSE "fetch"
    /\ UNCHANGED <<options, p, exc, broken, buf, sent, selected, applied,
                   deployed, outcome, causes, status>>

\* What a failing set up leaves of its own: initialize may already have made the
\* output's temporary directory, and the system stats start after the session
\* has the policy's name; the session's update follows the tracer.
LeftOf(s) ==
    CASE s = 1 -> {{}, {"output"}, {"output", "session"}}
      [] s = Len(Setup) -> {{}, {"tracer"}}
      [] OTHER -> {{}}

\* It raises: __exit__ is not called, what was set up before stays.
EnterFails ==
    /\ At("enter")
    /\ "enter" \in Faults
    /\ pc' = "caught"
    /\ \E left \in LeftOf(step) :
         held' = [held EXCEPT ![p] = @ \cup left]
    /\ Blame({"enter"})
    /\ UNCHANGED <<options, p, step, exc, broken, buf, sent, selected,
                   applied, deployed, outcome, status>>

-----------------------------------------------------------------------------
(***************************************************************************)
(* PullMode.run and LambdaMode.provision inside the context.               *)
(***************************************************************************)
BodyFault == IF "body" \in Faults THEN {TRUE, FALSE} ELSE {FALSE}

FetchFails ==
    /\ At("fetch")
    /\ "body" \in Faults
    /\ Raise({"body"})
    /\ UNCHANGED <<options, p, held, broken, buf, sent, selected, applied,
                   deployed, outcome, status>>

\* resources() raised ResourceLimitExceeded.
FetchOverLimit ==
    /\ At("fetch")
    /\ \E of \in 0..MaxPop : \E count \in 0..of :
         /\ LimitExceeded(Data, count, of)
         /\ selected' = [selected EXCEPT ![p] = [count |-> count, of |-> of]]
    /\ IF LogRaises
         THEN Raise({"log"}) /\ UNCHANGED <<buf, sent>>
         ELSE \E r \in Put1("ResourceLimitExceeded") :
                /\ Metered(r)
                /\ Raise({"limit"} \cup (IF r.ok THEN {} ELSE {"metrics"}))
    /\ UNCHANGED <<options, p, held, broken, applied, deployed, outcome, status>>

\* resources() returned; metrics and resources.json are written, and the
\* actions follow unless nothing matched or this is a dry run.
Fetch ==
    /\ At("fetch")
    /\ \E of \in 0..MaxPop : \E count \in 0..of :
         /\ ~LimitExceeded(Data, count, of)
         /\ selected' = [selected EXCEPT ![p] = [count |-> count, of |-> of]]
         /\ IF LogRaises
              THEN Raise({"log"}) /\ UNCHANGED <<buf, sent>>
              ELSE \E r \in Put2("ResourceCount", "ResourceTime"),
                      fault \in BodyFault :
                     /\ Metered(r)
                     /\ CASE ~r.ok -> Raise({"metrics"})
                          [] r.ok /\ fault -> Raise({"body"})
                          [] r.ok /\ ~fault /\ (count = 0 \/ options.dryrun) ->
                               Return
                          [] OTHER ->
                               /\ pc' = "actions" /\ step' = 1
                               /\ UNCHANGED <<exc, causes>>
    /\ UNCHANGED <<options, p, held, broken, applied, deployed, outcome, status>>

\* The process() of the next action has run: completely, or up to an error.
\* It may have recorded a metric of its own.
Act ==
    /\ At("actions") /\ step <= Data.actions
    /\ applied' = [applied EXCEPT ![p] = @ + 1]
    /\ \E fault \in BodyFault, r \in {NoPut} \cup UNION {Put1(m) : m \in Custom} :
         /\ Metered(r)
         /\ IF ~r.ok \/ fault \/ LogRaises
              THEN Raise(IF ~r.ok THEN {"metrics"}
                         ELSE IF fault THEN {"body"} ELSE {"log"})
              ELSE step' = step + 1 /\ UNCHANGED <<pc, exc, causes>>
    /\ UNCHANGED <<options, p, held, broken, selected, deployed, outcome, status>>

ActionsDone ==
    /\ At("actions") /\ step > Data.actions
    /\ \E r \in Put1("ActionTime") :
         /\ Metered(r)
         /\ IF r.ok THEN Return ELSE Raise({"metrics"})
    /\ UNCHANGED <<options, p, held, broken, selected, applied, deployed,
                   outcome, status>>

\* LambdaManager.publish, after a log record; module Provision has its steps.
Provision ==
    /\ At("provision")
    /\ \/ LogRaises /\ Raise({"log"}) /\ UNCHANGED deployed
       \/ ~LogRaises /\ Return /\ deployed' = deployed \cup {p}
       \/ ~LogRaises /\ "body" \in Faults /\ Raise({"body"}) /\ UNCHANGED deployed
    /\ UNCHANGED <<options, p, held, broken, buf, sent, selected, applied,
                   outcome, status>>

-----------------------------------------------------------------------------
(***************************************************************************)
(* ExecutionContext.__exit__: each step either proceeds to the next one or *)
(* raises out of __exit__, in which case the remaining steps do not run.   *)
(***************************************************************************)
AtExit(name) == At("exit") /\ Teardown[step] = name

Proceed == step' = step + 1 /\ UNCHANGED <<pc, causes>>

ExitRaises(kind) == pc' = "caught" /\ Blame({kind}) /\ UNCHANGED step

Release(what) == held' = [held EXCEPT ![p] = @ \ {what}]

ExitException ==
    /\ AtExit("exception")
    /\ \E r \in IF exc THEN Put1("PolicyException") ELSE {NoPut} :
         /\ Metered(r)
         /\ IF r.ok THEN Proceed ELSE ExitRaises("metrics")
    /\ UNCHANGED <<options, p, exc, held, broken, selected, applied, deployed,
                   outcome, status>>

ExitMetadata ==
    /\ AtExit("metadata")
    /\ Proceed \/ ("exit" \in Faults /\ ExitRaises("exit"))
    /\ UNCHANGED <<options, p, exc, held, broken, buf, sent, selected, applied,
                   deployed, outcome, status>>

\* ApiStats.__exit__ needs a session to unregister from, which may fail;
\* APICallStats.__exit__ then records its metrics.
ExitRecorder ==
    /\ AtExit("recorder")
    /\ \/ /\ Release("recorder")
          /\ \E r \in Put2("ApiCalls", "ApiTime") :
               /\ Metered(r)
               /\ IF r.ok THEN Proceed ELSE ExitRaises("metrics")
       \/ "exit" \in Faults /\ ExitRaises("exit") /\ UNCHANGED <<held, buf, sent>>
    /\ UNCHANGED <<options, p, exc, broken, selected, applied, deployed,
                   outcome, status>>

ExitMetrics ==
    /\ AtExit("metrics")
    /\ \/ /\ sent' = [sent EXCEPT ![p] = @ \cup buf[p]]
          /\ buf' = [buf EXCEPT ![p] = {}]
          /\ Proceed
       \/ /\ "metrics" \in Faults /\ buf[p] # {}
          /\ ExitRaises("metrics")
          /\ UNCHANGED <<buf, sent>>
    /\ UNCHANGED <<options, p, exc, held, broken, selected, applied, deployed,
                   outcome, status>>

\* Mutant: after an exception the handler stays attached.
ExitLogsKept ==
    /\ AtExit("logs")
    /\ Proceed
    /\ IF exc THEN UNCHANGED held ELSE Release("logs")
    /\ UNCHANGED <<options, p, exc, broken, buf, sent, selected, applied,
                   deployed, outcome, status>>

\* LogOutput.__exit__ logs the exception before it leaves the log.
ExitLogs ==
    /\ AtExit("logs")
    /\ IF exc /\ LogRaises
         THEN ExitRaises("log") /\ UNCHANGED held
         ELSE Proceed /\ Release("logs")
    /\ UNCHANGED <<options, p, exc, broken, buf, sent, selected, applied,
                   deployed, outcome, status>>

ExitOutputLogs ==
    /\ AtExit("outlog")
    /\ IF exc /\ LogRaises
         THEN ExitRaises("log") /\ UNCHANGED held
         ELSE Proceed /\ Release("outlog")
    /\ UNCHANGED <<options, p, exc, broken, buf, sent, selected, applied,
                   deployed, outcome, status>>

\* BlobOutput.__exit__ compresses, uploads and removes the directory.
ExitOutput ==
    /\ AtExit("output")
    /\ \/ Proceed /\ Release("output")
       \/ "exit" \in Faults /\ ExitRaises("exit") /\ UNCHANGED held
    /\ UNCHANGED <<options, p, exc, broken, buf, sent, selected, applied,
                   deployed, outcome, status>>

\* XrayTracer.__exit__ ends the segment, sends what was traced and logs where to
\* find it; the default tracer does nothing.
ExitTracer ==
    /\ AtExit("tracer")
    /\ \/ Proceed /\ Release("tracer")
       \/ "exit" \in Faults /\ ExitRaises("exit")
          /\ (UNCHANGED held \/ Release("tracer"))
       \/ LogRaises /\ ExitRaises("log") /\ Release("tracer")
    /\ UNCHANGED <<options, p, exc, broken, buf, sent, selected, applied,
                   deployed, outcome, status>>

\* session_factory.policy_name is reset; the body's exception goes on.
ExitSession ==
    /\ AtExit("session")
    /\ Release("session")
    /\ IF exc THEN pc' = "caught" /\ UNCHANGED <<p, step, exc, outcome>>
              ELSE Finish("ok")
    /\ UNCHANGED <<options, broken, buf, sent, selected, applied, deployed,
                   causes, status>>

-----------------------------------------------------------------------------
(***************************************************************************)
(* commands.run.                                                           *)
(***************************************************************************)
\* Mutant: every failure ends the process.
CaughtStops ==
    /\ At("caught")
    /\ Finish("error")
    /\ status' = "aborted"
    /\ UNCHANGED <<options, held, broken, buf, sent, selected, applied,
                   deployed, causes>>

\* Mutant: a log handler that raises does not end the process.
CaughtGoesOn ==
    /\ At("caught")
    /\ Finish("error")
    /\ status' = IF options.debug THEN "aborted" ELSE status
    /\ UNCHANGED <<options, held, broken, buf, sent, selected, applied,
                   deployed, causes>>

\* The policy is recorded as errored; with --debug the exception is raised
\* again, and logging "continuing" may raise too: both end the process.
Caught ==
    /\ At("caught")
    /\ Finish("error")
    /\ status' = IF options.debug \/ LogRaises THEN "aborted" ELSE status
    /\ UNCHANGED <<options, held, broken, buf, sent, selected, applied,
                   deployed, causes>>

\* After the last policy, errors are listed and turned into an exit code.
End ==
    /\ status = "running" /\ p > Len(PolicyData)
    /\ status' = IF LogRaises /\ (\E q \in Ids : outcome[q] = "error")
                   THEN "aborted" ELSE "done"
    /\ UNCHANGED <<options, p, pc, step, exc, held, broken, buf, sent, selected,
                   applied, deployed, outcome, causes>>

\* The transport thread of an attached CloudWatch handler meets an error.
TransportFails(q) ==
    /\ status = "running"
    /\ "log" \in Faults
    /\ "logs" \in held[q] /\ q \notin broken
    /\ broken' = broken \cup {q}
    /\ UNCHANGED <<options, p, pc, step, exc, held, buf, sent, selected, applied,
                   deployed, outcome, causes, status>>

Body == FetchFails \/ FetchOverLimit \/ Fetch \/ Act \/ ActionsDone \/ Provision

Exit ==
    \/ ExitException \/ ExitMetadata \/ ExitRecorder \/ ExitMetrics
    \/ ExitLogs \/ ExitOutputLogs \/ ExitOutput \/ ExitTracer \/ ExitSession

Process ==
    \/ NotRunnable \/ CallFails \/ Call \/ EnterStep \/ EnterFails
    \/ Body \/ Exit \/ Caught \/ End

Ended == status # "running" /\ UNCHANGED vars

Next == Process \/ (\E q \in Ids : TransportFails(q)) \/ Ended

Spec == Init /\ [][Next]_vars

-----------------------------------------------------------------------------
(***************************************************************************)
(* Properties.                                                             *)
(***************************************************************************)
\* The process is well typed, and it has never more policies done than it has.
TypeOK ==
    /\ options \in [dryrun : BOOLEAN, debug : BOOLEAN]
    /\ p \in 1..(Len(PolicyData) + 1)
    /\ pc \in Phases
    /\ step \in Nat \ {0}
    /\ exc \in BOOLEAN
    /\ held \in [Ids -> SUBSET Holdings]
    /\ broken \in SUBSET Ids
    /\ buf \in [Ids -> SUBSET MetricNames]
    /\ sent \in [Ids -> SUBSET MetricNames]
    /\ selected \in [Ids -> [count : Nat, of : Nat]]
    /\ applied \in [Ids -> Nat]
    /\ deployed \in SUBSET Ids
    /\ outcome \in [Ids -> {"pending", "ok", "error"}]
    /\ causes \in [Ids -> SUBSET (FaultKinds \cup {"limit"})]
    /\ status \in {"running", "done", "aborted"}

Decided(q) == outcome[q] # "pending"

\* What a policy's limit asks for: every threshold it names counts, and "or"
\* or "and" says whether one or all of them must be exceeded.
OverAmount(d, s) == d.amount # Unset /\ s.count > d.amount
OverPercent(d, s) == d.percent # Unset /\ s.count * 100 > s.of * d.percent
OverLimit(d, s) ==
    IF d.op = "or"
      THEN OverAmount(d, s) \/ OverPercent(d, s)
      ELSE /\ d.amount # Unset \/ d.percent # Unset
           /\ d.amount # Unset => OverAmount(d, s)
           /\ d.percent # Unset => OverPercent(d, s)

\* "When executing if the limit is exceeded, policy execution is stopped before
\* taking any actions" (docs/source/quickstart/advanced.rst): no action starts
\* on a selection over the policy's limit.
ActionsWithinLimit ==
    \A q \in Ids : applied[q] > 0 => ~OverLimit(PolicyData[q], selected[q])

\* A dry run neither starts an action nor provisions a policy, whatever the
\* policies' modes and whatever fails.
DryrunChangesNothing ==
    options.dryrun => deployed = {} /\ \A q \in Ids : applied[q] = 0

\* Nothing is changed that the policy's limit or the dry run forbids, in any mode
\* and whatever failed before (check_resource_limits, PullMode.run,
\* Policy.__call__).
ActsAsAllowed == ActionsWithinLimit /\ DryrunChangesNothing

\* A policy whose query, filters, actions or provisioning raise, or that runs
\* over its limit, leaves nothing of its context behind: its handlers are
\* detached, its recorder unregistered, its output uploaded.
FailedBodyReleasesContext ==
    \A q \in Ids :
        Decided(q) /\ causes[q] \subseteq {"body", "limit"} => held[q] = {}

\* Such a policy is reported: PolicyException, and ResourceLimitExceeded for a
\* limit, have reached the metrics service, and no metric is left in a buffer.
FailuresAreMetered ==
    \A q \in Ids :
        Decided(q) /\ causes[q] \subseteq {"body", "limit"} =>
            /\ buf[q] = {}
            /\ outcome[q] = "error" => "PolicyException" \in sent[q]
            /\ "limit" \in causes[q] => "ResourceLimitExceeded" \in sent[q]

\* The state is well typed.  A policy is recorded as errored exactly when
\* something failed while it ran; where that was a log handler raising, it is the
\* handler of this policy or one that an earlier policy, recorded as errored too,
\* left attached, and no later policy is attempted: a stale handler fails at most
\* one policy other than its own (commands.run, LogOutput.__exit__).
ErrorsAreAccounted ==
    /\ TypeOK
    /\ \A q \in Ids : Decided(q) => (outcome[q] = "error" <=> causes[q] # {})
    /\ \A q \in Ids : Decided(q) /\ "log" \in causes[q] =>
           /\ \E r \in broken : r <= q /\ outcome[r] = "error" /\ "logs" \in held[r]
           /\ \A later \in Ids : later > q => ~Decided(later)

\* "Error while executing policy %s, continuing" (commands.run): without
\* --debug the process ends only after every policy was attempted, unless a log
\* handler raises and is still attached.
OnlyLogsAbort ==
    status # "running" /\ ~options.debug /\ ~LogRaises => \A q \in Ids : Decided(q)
=============================================================================
