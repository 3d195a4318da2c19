------------------------------- MODULE OrgRun -------------------------------
(***************************************************************************)
(* c7n-org run (tools/c7n_org/c7n_org/cli.py): a set of policies over many *)
(* accounts and regions.  The main process submits one run_account call per*)
(* account and region to a pool of worker processes and collects the       *)
(* results as they complete.  A worker process lives on between its calls, *)
(* with its environment variables and its cache of sessions by region      *)
(* (c7n/utils.py local_session), which is what may leak from one account   *)
(* to the next.                                                            *)
(***************************************************************************)
EXTENDS Integers, Sequences, FiniteSets

CONSTANTS
    accounts,      \* the accounts of the configuration, in order
    RegionsOf,     \* the regions configured for each
    AsksAll,       \* accounts with region "all": their regions are looked up
    Chained,       \* accounts whose role is a list of roles
    Policies,      \* the policies, in order
    MaxResources,  \* the largest number of resources a policy matches
    Workers,       \* the processes of the pool
    None,
    Budgets        \* how many faults of each kind there may be

\* setup: no credentials, or the policies do not load; policy: run raises;
\* denied: it raises AccessDenied; invalid: a policy does not validate with the
\* account's variables; lookup: listing the regions fails; kill: a worker dies.
FaultKinds == {"setup", "policy", "denied", "invalid", "lookup", "kill"}

Named == {accounts[i] : i \in 1..Len(accounts)}
RegionNames == UNION {RegionsOf[a] : a \in Named}
Tasks == {t \in Named \X RegionNames : t[2] \in RegionsOf[t[1]]}
PolicyNames == {Policies[i] : i \in 1..Len(Policies)}

\* Accounts and Policies are lists; an account stands for an entry of the
\* configuration, so that no two entries are the same.
ASSUME OrgAssumption ==
    /\ accounts \in Seq(Named) /\ Policies \in Seq(PolicyNames)
    /\ \A i, j \in 1..Len(accounts) : accounts[i] = accounts[j] => i = j
    /\ AsksAll \subseteq Named /\ Chained \subseteq Named
    /\ IsFiniteSet(RegionNames) /\ IsFiniteSet(Workers) /\ Workers # {}
    /\ None \notin Named /\ None \notin Tasks
    /\ MaxResources \in Nat
    /\ Budgets \subseteq [FaultKinds -> Nat] /\ Budgets # {}

VARIABLES
    next,          \* the main process submits the tasks of Accounts[next]
    main,          \* "submit", "collect", or the exit code
    future,        \* the future of each task: see FutureStates
    broken,        \* the pool has lost a worker
    collected,     \* tasks whose future the main process has seen
    policy_counts, \* the main process's Counter
    success,       \* its success
    runs,          \* the task each worker is in, or None
    at,            \* the index of the policy that task runs next
    counts,        \* run_account's policy_counts
    fine,          \* run_account's success
    conn_cache,      \* each worker's CONN_CACHE: the identity per region
    environ,       \* the account whose credentials are in its environment
    denied,        \* history: tasks that ended with AccessDenied
    acted,         \* history: for whom a policy ran, as whom, assumed by whom
    faults         \* what is left of the budget

mainVars == <<next, main, collected, policy_counts, success>>
taskVars == <<at, counts, fine>>
workerVars == <<runs, conn_cache, environ>>
orgVars == <<mainVars, future, broken, taskVars, workerVars, denied, acted, faults>>

FutureStates == {"none", "pending", "running", "done", "raised"}

Spend(kind) == faults[kind] > 0 /\ faults' = [faults EXCEPT ![kind] = @ - 1]

OrgInit ==
    /\ next = 1 /\ main = "submit" /\ collected = {}
    /\ policy_counts = [p \in PolicyNames |-> 0] /\ success = TRUE
    /\ future = [t \in Tasks |-> "none"] /\ broken = FALSE
    /\ at = [t \in Tasks |-> 1]
    /\ counts = [t \in Tasks |-> [p \in PolicyNames |-> 0]]
    /\ fine = [t \in Tasks |-> TRUE]
    /\ runs = [w \in Workers |-> None]
    /\ conn_cache = [w \in Workers |-> [r \in RegionNames |-> None]]
    /\ environ = [w \in Workers |-> None]
    /\ denied = {} /\ acted = {} /\ faults \in Budgets

-----------------------------------------------------------------------------
(***************************************************************************)
(* The main process.                                                       *)
(***************************************************************************)
Submitting == main = "submit" /\ next <= Len(accounts)

Submit ==
    /\ Submitting /\ ~broken
    /\ future' = [t \in Tasks |-> IF t[1] = accounts[next] THEN "pending" ELSE future[t]]
    /\ next' = next + 1
    /\ UNCHANGED <<main, collected, policy_counts, success, broken, taskVars,
                   workerVars, denied, acted, faults>>

\* resolve_regions: access denied, the account is left out with a warning.
SubmitDenied ==
    /\ Submitting /\ accounts[next] \in AsksAll
    /\ Spend("lookup")
    /\ next' = next + 1
    /\ UNCHANGED <<main, collected, policy_counts, success, future, broken,
                   taskVars, workerVars, denied, acted>>

\* Any other error of resolve_regions, or a broken pool that takes no task,
\* leaves the with block: the executor waits for what it has, and run raises.
SubmitRaises ==
    /\ Submitting
    /\ \/ broken /\ UNCHANGED faults
       \/ accounts[next] \in AsksAll /\ Spend("lookup")
    /\ main' = "raise"
    /\ UNCHANGED <<next, collected, policy_counts, success, future, broken,
                   taskVars, workerVars, denied, acted>>

Submitted ==
    /\ main = "submit" /\ next > Len(accounts)
    /\ main' = "collect"
    /\ UNCHANGED <<next, collected, policy_counts, success, future, broken,
                   taskVars, workerVars, denied, acted, faults>>

\* Mutant: success is that of the last account.
CollectLast(t) ==
    /\ main = "collect" /\ future[t] = "done" /\ t \notin collected
    /\ collected' = collected \cup {t}
    /\ policy_counts' = [p \in PolicyNames |-> policy_counts[p] + counts[t][p]]
    /\ success' = fine[t]
    /\ UNCHANGED <<next, main, future, broken, taskVars, workerVars, denied,
                   acted, faults>>

Collect(t) ==
    /\ main = "collect" /\ future[t] = "done" /\ t \notin collected
    /\ collected' = collected \cup {t}
    /\ policy_counts' = [p \in PolicyNames |-> policy_counts[p] + counts[t][p]]
    /\ success' = (success /\ fine[t])
    /\ UNCHANGED <<next, main, future, broken, taskVars, workerVars, denied,
                   acted, faults>>

\* Mutant: the future is waited for again.
CollectRaisedAgain(t) ==
    /\ main = "collect" /\ future[t] = "raised" /\ t \notin collected
    /\ UNCHANGED orgVars

\* f.exception(): a warning, and on to the next future.
CollectRaised(t) ==
    /\ main = "collect" /\ future[t] = "raised" /\ t \notin collected
    /\ collected' = collected \cup {t}
    /\ UNCHANGED <<next, main, policy_counts, success, future, broken, taskVars,
                   workerVars, denied, acted, faults>>

Idle == \A t \in Tasks : future[t] \notin {"pending", "running"}

Exit ==
    /\ \/ main = "collect" /\ \A t \in Tasks : future[t] # "none" => t \in collected
       \/ main = "raise" /\ Idle
    /\ main' = IF main = "collect" /\ success THEN "exit0" ELSE "exit1"
    /\ UNCHANGED <<next, collected, policy_counts, success, future, broken,
                   taskVars, workerVars, denied, acted, faults>>

Done ==
    /\ main \in {"exit0", "exit1"}
    /\ UNCHANGED orgVars

-----------------------------------------------------------------------------
(***************************************************************************)
(* A worker in run_account.                                                *)
(***************************************************************************)
Account(w) == runs[w][1]
Region(w) == runs[w][2]
Busy(w) == runs[w] # None

\* A worker takes a pending task and enters environ: the credentials of a
\* chain of roles go into its environment.
Start(w, t) ==
    /\ ~Busy(w) /\ ~broken /\ future[t] = "pending"
    /\ future' = [future EXCEPT ![t] = "running"]
    /\ runs' = [runs EXCEPT ![w] = t]
    /\ environ' = [environ EXCEPT ![w] = IF t[1] \in Chained THEN t[1] ELSE @]
    /\ UNCHANGED <<mainVars, broken, taskVars, conn_cache, denied, acted, faults>>

\* get_session for a chain of roles, or from_data, raises before environ.
StartRaises(w, t) ==
    /\ ~Busy(w) /\ ~broken /\ future[t] = "pending"
    /\ Spend("setup")
    /\ future' = [future EXCEPT ![t] = "raised"]
    /\ UNCHANGED <<mainVars, broken, taskVars, workerVars, denied, acted>>

\* Mutant: leaving environ does not reset the session cache.
LeaveKeepsSessions(w) ==
    /\ runs' = [runs EXCEPT ![w] = None]
    /\ environ' = [environ EXCEPT ![w] = None]
    /\ UNCHANGED conn_cache

\* environ's finally: the variables are restored, the session cache is reset.
Leave(w) ==
    /\ runs' = [runs EXCEPT ![w] = None]
    /\ environ' = [environ EXCEPT ![w] = None]
    /\ conn_cache' = [conn_cache EXCEPT ![w] = [r \in RegionNames |-> None]]

\* local_session: the cached session of the region, or a new one, which takes
\* the credentials of the environment, or assumes the account's role with them.
Session(w) ==
    IF conn_cache[w][Region(w)] # None THEN conn_cache[w][Region(w)]
    ELSE IF Account(w) \in Chained THEN environ[w] ELSE Account(w)

\* One policy is run with the session of its region.
Runs(w) ==
    /\ conn_cache' = [conn_cache EXCEPT ![w][Region(w)] = Session(w)]
    /\ acted' = acted \cup {[for |-> Account(w), as |-> Session(w),
                             env |-> environ[w]]}

Running(w) == Busy(w) /\ at[runs[w]] <= Len(Policies)
Policy(w) == Policies[at[runs[w]]]

Advance(w) == at' = [at EXCEPT ![runs[w]] = @ + 1]

RunPolicy(w, n) ==
    /\ Running(w)
    /\ Runs(w)
    /\ counts' = [counts EXCEPT ![runs[w]][Policy(w)] = n]
    /\ Advance(w)
    /\ UNCHANGED <<mainVars, future, broken, fine, runs, environ, denied, faults>>

\* An exception of the policy is logged; the next one is run.
RunPolicyFails(w) ==
    /\ Running(w)
    /\ Spend("policy")
    /\ Runs(w)
    /\ fine' = [fine EXCEPT ![runs[w]] = FALSE]
    /\ Advance(w)
    /\ UNCHANGED <<mainVars, future, broken, counts, runs, environ, denied>>

\* AccessDenied ends the account's run with what it has.
RunPolicyDenied(w) ==
    /\ Running(w)
    /\ Spend("denied")
    /\ fine' = [fine EXCEPT ![runs[w]] = FALSE]
    /\ future' = [future EXCEPT ![runs[w]] = "done"]
    /\ denied' = denied \cup {runs[w]}
    /\ acted' = acted \cup {[for |-> Account(w), as |-> Session(w), env |-> environ[w]]}
    /\ Leave(w)
    /\ UNCHANGED <<mainVars, broken, at, counts>>

\* expand_variables and validate are outside the try: the call raises, and the
\* counts it had are lost.
PolicyInvalid(w) ==
    /\ Running(w)
    /\ Spend("invalid")
    /\ future' = [future EXCEPT ![runs[w]] = "raised"]
    /\ Leave(w)
    /\ UNCHANGED <<mainVars, broken, taskVars, denied, acted>>

Finish(w) ==
    /\ Busy(w) /\ at[runs[w]] > Len(Policies)
    /\ future' = [future EXCEPT ![runs[w]] = "done"]
    /\ Leave(w)
    /\ UNCHANGED <<mainVars, broken, taskVars, denied, acted, faults>>

\* A worker is killed: the pool is broken, its other processes are terminated
\* and every future that is not done raises BrokenProcessPool.
WorkerDies(w) ==
    /\ Busy(w)
    /\ Spend("kill")
    /\ broken' = TRUE
    /\ future' = [t \in Tasks |-> IF future[t] \in {"pending", "running"}
                                    THEN "raised" ELSE future[t]]
    /\ runs' = [v \in Workers |-> None]
    /\ UNCHANGED <<mainVars, taskVars, conn_cache, environ, denied, acted>>

-----------------------------------------------------------------------------
Main ==
    \/ Submit \/ SubmitDenied \/ SubmitRaises \/ Submitted \/ Exit
    \/ \E t \in Tasks : Collect(t) \/ CollectRaised(t)

Worker(w) ==
    \/ \E t \in Tasks : Start(w, t) \/ StartRaises(w, t)
    \/ \E n \in 0..MaxResources : RunPolicy(w, n)
    \/ RunPolicyFails(w) \/ RunPolicyDenied(w) \/ PolicyInvalid(w)
    \/ Finish(w) \/ WorkerDies(w)

OrgNext == Main \/ Done \/ \E w \in Workers : Worker(w)

OrgSpec == OrgInit /\ [][OrgNext]_orgVars

\* The main process and the workers are operating system processes; a policy's
\* run ends, with an exception if its calls keep failing.
Fairness == WF_orgVars(Main) /\ \A w \in Workers : WF_orgVars(Worker(w))

FairSpec == OrgSpec /\ Fairness

-----------------------------------------------------------------------------
\* The main process, the futures and the workers are well typed.
OrgTypeOK ==
    /\ next \in 1..(Len(accounts) + 1)
    /\ main \in {"submit", "collect", "raise", "exit0", "exit1"}
    /\ future \in [Tasks -> FutureStates] /\ broken \in BOOLEAN
    /\ collected \subseteq Tasks /\ success \in BOOLEAN
    /\ policy_counts \in [PolicyNames -> Nat]
    /\ runs \in [Workers -> Tasks \cup {None}]
    /\ at \in [Tasks -> 1..(Len(Policies) + 1)]
    /\ counts \in [Tasks -> [PolicyNames -> 0..MaxResources]]
    /\ fine \in [Tasks -> BOOLEAN]
    /\ conn_cache \in [Workers -> [RegionNames -> Named \cup {None}]]
    /\ environ \in [Workers -> Named \cup {None}]
    /\ denied \subseteq Tasks
    /\ acted \subseteq [for : Named, as : Named, env : Named \cup {None}]
    /\ faults \in [FaultKinds -> Nat]

\* A policy run for an account uses that account's credentials, and assumes its
\* role from c7n-org's own, whatever the worker process did before: accounts run
\* one after the other in one process and in one region ("multi-account
\* execution (c7n-org and others) need to manually reset this", c7n/ctx.py).
OwnCredentials ==
    \A x \in acted :
        /\ x.as = x.for
        /\ x.env = (IF x.for \in Chained THEN x.for ELSE None)

\* At all times the resource counts are the sums over the collected accounts
\* that did not raise, in whatever order they completed.
CountsAreSums ==
    \A p \in PolicyNames :
        policy_counts[p] = Cardinality({x \in collected \X (1..MaxResources) :
            future[x[1]] = "done" /\ x[2] <= counts[x[1]][p]})

\* Exit code 0 means that every submitted task was waited for and none of those
\* that returned reported a failed policy.
ZeroMeansNoFailure ==
    main = "exit0" =>
        \A t \in Tasks : future[t] # "none" =>
            t \in collected /\ (future[t] = "done" => fine[t])

\* A failing policy costs neither the account's other policies nor the other
\* accounts: a task that returned has run them all, unless access was denied.
FailuresAreContained ==
    \A t \in Tasks : future[t] = "done" => t \in denied \/ at[t] = Len(Policies) + 1

\* What c7n-org reports is what its processes did, in whatever order they end and
\* fail: the state is well typed, the counts and the exit code add up over the
\* accounts, and a task that counts as done has left no policy out.
ReportIsTrue == OrgTypeOK /\ CountsAreSums /\ ZeroMeansNoFailure /\ FailuresAreContained

\* c7n-org ends, also when a worker is killed.
RunEnds == <>(main \in {"exit0", "exit1"})
=============================================================================
