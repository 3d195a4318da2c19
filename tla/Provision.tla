------------------------------ MODULE Provision ------------------------------
(***************************************************************************)
(* Deploying a policy as a lambda (c7n/mu.py): LambdaManager.publish and   *)
(* remove, with the event sources CloudWatchEventSource, ConfigRule,       *)
(* EventBridgeScheduleSource and SecurityHubAction.  publish makes one API *)
(* call after the other and keeps no record of its own: what a run that    *)
(* failed half way has left behind is seen only by the next one.           *)
(*                                                                         *)
(* The policy file is edited between runs, runs are repeated, and any call *)
(* may fail.  A failed call has no effect; that the process dies after a   *)
(* call is a fault of the next one.                                        *)
(***************************************************************************)
EXTENDS Naturals

CONSTANTS
    Families,      \* sets of versions that a policy file may go through
    Default,       \* the schedule group "default"
    NoGroup,       \* no custodian-schedule tag
    Absent,        \* not there: a function, a rule, a schedule, a permission
    MaxFaults,     \* bound: failed calls
    MaxEdits,      \* bound: edits of the policy file
    MaxRemoves     \* bound: removals

\* rule: the modes with a CloudWatchEventSource; config: config-rule and
\* config-poll-rule; schedule; hub: hub-action.
Kinds == {"rule", "config", "schedule", "hub"}

\* A version of the policy: kind and group of its mode; spec, its schedule or
\* event pattern; conf, the settings that delta_function compares, which are
\* those that get_config names (a layer or an environment that a version drops
\* is not named, and stays); concurrency, 0 for none; arch, the architecture of
\* the machine that runs custodian.
Versions == UNION Families
Groups == {w.group : w \in Versions} \cup {Default}
Specs == {w.spec : w \in Versions}
Confs == {w.conf : w \in Versions}
Archs == {w.arch : w \in Versions}
Concurrencies == {w.concurrency : w \in Versions} \cup {0}

\* get_archive: the archive holds the whole policy.
Code(w) == [kind |-> w.kind, group |-> w.group, spec |-> w.spec, conf |-> w.conf,
            concurrency |-> w.concurrency]

\* A function in the account; busy while an update is in progress.
Functions == [code : {Code(w) : w \in Versions}, tag : Groups \cup {NoGroup},
              conf : Confs, arch : Archs, concurrency : Concurrencies, busy : BOOLEAN]

Rules == [spec : Specs, target : BOOLEAN]

ASSUME ProvisionAssumption ==
    /\ \A w \in Versions :
          /\ DOMAIN w = {"kind", "group", "spec", "conf", "concurrency", "arch"}
          /\ w.kind \in Kinds
          /\ w.kind # "schedule" => w.group = Default
          /\ w.concurrency \in Nat
    /\ NoGroup \notin Groups
    /\ Absent \notin Specs \cup {"events", "config"}
    /\ Absent \notin Functions /\ Absent \notin Rules
    /\ MaxFaults \in Nat /\ MaxEdits \in Nat /\ MaxRemoves \in Nat

VARIABLES
    family,        \* the versions this policy goes through
    want,          \* the version in the policy file
    fn,            \* the function in the account
    permission,    \* the principal of the function's statement event_name
    rule,          \* the EventBridge rule
    configRule,    \* the AWS Config rule
    schedules,     \* the schedule event_name of each group
    pc,            \* the call that custodian does next: see Calls
    existing,      \* the function as get_function showed it
    last,          \* how the last publish or remove ended
    faults, edits, removes

eventVars == <<permission, rule, configRule, schedules>>
cloudVars == <<fn, eventVars>>
planVars == <<family, want, faults, edits, removes>>
vars == <<planVars, cloudVars, pc, existing, last>>

Calls == {"idle", "get", "create", "code", "updated", "tags", "arch", "config",
          "concurrency", "active", "event", "permission", "target", "configrule",
          "oldgroup", "remove", "deleterule", "delete"}

\* LambdaMode.provision: only schedule mode has the custodian-schedule tag.
Tag(w) == IF w.kind = "schedule" THEN w.group ELSE NoGroup

Principal(w) == IF w.kind = "config" THEN "config" ELSE "events"

Init ==
    /\ family \in Families
    /\ want \in family
    /\ fn = Absent /\ permission = Absent /\ rule = Absent /\ configRule = Absent
    /\ schedules = [g \in Groups |-> Absent]
    /\ pc = "idle" /\ existing = Absent /\ last = "none"
    /\ faults = 0 /\ edits = 0 /\ removes = 0

-----------------------------------------------------------------------------
Ends(how) == pc' = "idle" /\ last' = how

Skip(next) == pc' = next /\ UNCHANGED <<fn, last>>

\* Lambda refuses an update while an earlier one is in progress.
Update(f, next) ==
    IF fn.busy THEN Ends("failed") /\ UNCHANGED fn
               ELSE fn' = [f EXCEPT !.busy = TRUE] /\ pc' = next /\ UNCHANGED last

\* custodian run on a lambda policy, again and again.
Publish ==
    /\ pc = "idle"
    /\ pc' = "get"
    /\ last' = "none"
    /\ UNCHANGED <<planVars, cloudVars, existing>>

Get ==
    /\ pc = "get"
    /\ existing' = fn
    /\ pc' = IF fn = Absent THEN "create" ELSE "code"
    /\ UNCHANGED <<planVars, cloudVars, last>>

Create ==
    /\ pc = "create"
    /\ fn' = [code |-> Code(want), tag |-> Tag(want), conf |-> want.conf,
              arch |-> want.arch, concurrency |-> 0, busy |-> TRUE]
    /\ pc' = "concurrency"
    /\ UNCHANGED <<planVars, eventVars, existing, last>>

UpdateCode ==
    /\ pc = "code"
    /\ IF existing.code = Code(want)
         THEN Skip("tags")
         ELSE Update([fn EXCEPT !.code = Code(want)], "updated")
    /\ UNCHANGED <<planVars, eventVars, existing>>

\* The waiters function_updated and function_active.
Wait ==
    /\ pc \in {"updated", "active"} /\ ~fn.busy
    /\ pc' = IF pc = "updated" THEN "tags" ELSE "event"
    /\ UNCHANGED <<planVars, cloudVars, existing, last>>

UpdateTags ==
    /\ pc = "tags"
    /\ fn' = [fn EXCEPT !.tag = Tag(want)]
    /\ pc' = "arch"
    /\ UNCHANGED <<planVars, eventVars, existing, last>>

\* _update_architecture sends the code again and does not wait for it.
UpdateArchitecture ==
    /\ pc = "arch"
    /\ IF existing.arch = want.arch
         THEN Skip("config")
         ELSE Update([fn EXCEPT !.arch = want.arch, !.code = Code(want)], "config")
    /\ UNCHANGED <<planVars, eventVars, existing>>

\* Mutant: settings are looked at only when the code has changed.
UpdateConfigWithCode ==
    /\ pc = "config"
    /\ IF existing.conf = want.conf \/ existing.code = Code(want)
         THEN Skip("concurrency")
         ELSE Update([fn EXCEPT !.conf = want.conf], "concurrency")
    /\ UNCHANGED <<planVars, eventVars, existing>>

UpdateConfig ==
    /\ pc = "config"
    /\ IF existing.conf = want.conf
         THEN Skip("concurrency")
         ELSE Update([fn EXCEPT !.conf = want.conf], "concurrency")
    /\ UNCHANGED <<planVars, eventVars, existing>>

UpdateConcurrency ==
    /\ pc = "concurrency"
    /\ fn' = [fn EXCEPT !.concurrency = want.concurrency]
    /\ pc' = IF existing = Absent THEN "active" ELSE "event"
    /\ UNCHANGED <<planVars, eventVars, existing, last>>

-----------------------------------------------------------------------------
(***************************************************************************)
(* Event sources: add.                                                     *)
(***************************************************************************)
\* Mutant: the target is put together with the rule.
PutRuleAndTarget ==
    /\ pc = "event" /\ want.kind = "rule"
    /\ rule' = [spec |-> want.spec, target |-> TRUE]
    /\ pc' = "permission"
    /\ UNCHANGED <<planVars, fn, permission, configRule, schedules, existing, last>>

\* CloudWatchEventSource.add: the rule keeps the targets it has.
PutRule ==
    /\ pc = "event" /\ want.kind = "rule"
    /\ rule' = [spec |-> want.spec, target |-> rule # Absent /\ rule.target]
    /\ pc' = "permission"
    /\ UNCHANGED <<planVars, fn, permission, configRule, schedules, existing, last>>

\* Mutant: a statement that exists already is an error.
AddPermissionOnce ==
    /\ pc = "permission"
    /\ IF permission = Absent
         THEN /\ permission' = Principal(want)
              /\ pc' = IF want.kind = "config" THEN "configrule" ELSE "target"
              /\ UNCHANGED last
         ELSE Ends("failed") /\ UNCHANGED permission
    /\ UNCHANGED <<planVars, fn, rule, configRule, schedules, existing>>

\* A statement of this name that exists already stays as it is.
AddPermission ==
    /\ pc = "permission"
    /\ permission' = IF permission = Absent THEN Principal(want) ELSE permission
    /\ pc' = IF want.kind = "config" THEN "configrule" ELSE "target"
    /\ UNCHANGED <<planVars, fn, rule, configRule, schedules, existing, last>>

PutTarget ==
    /\ pc = "target"
    /\ rule' = [rule EXCEPT !.target = TRUE]
    /\ Ends("published")
    /\ UNCHANGED <<planVars, fn, permission, configRule, schedules, existing>>

\* AWS Config refuses a function that it may not invoke.
PutConfigRule ==
    IF permission = "config"
      THEN configRule' = want.spec /\ Ends("published")
      ELSE Ends("failed") /\ UNCHANGED configRule

\* ConfigRule.add: the permission is added only for a new rule.
AddConfigRule ==
    /\ \/ /\ pc = "event" /\ want.kind = "config"
          /\ IF configRule = Absent
               THEN pc' = "permission" /\ UNCHANGED <<configRule, last>>
               ELSE IF configRule = want.spec
                 THEN Ends("published") /\ UNCHANGED configRule
                 ELSE PutConfigRule
       \/ pc = "configrule" /\ PutConfigRule
    /\ UNCHANGED <<planVars, fn, permission, rule, schedules, existing>>

\* Mutant: the schedule of the old group is deleted first.
PutScheduleAfterDelete ==
    /\ pc = "event" /\ want.kind = "schedule"
    /\ IF existing # Absent /\ existing.tag \notin {NoGroup, want.group}
            /\ schedules[existing.tag] # Absent
         THEN /\ schedules' = [schedules EXCEPT ![existing.tag] = Absent]
              /\ pc' = "event"
         ELSE /\ schedules' = [schedules EXCEPT ![want.group] = want.spec]
              /\ pc' = "oldgroup"
    /\ UNCHANGED <<planVars, fn, permission, rule, configRule, existing, last>>

\* EventBridgeScheduleSource.add: create_schedule or update_schedule.
PutSchedule ==
    /\ pc = "event" /\ want.kind = "schedule"
    /\ schedules' = [schedules EXCEPT ![want.group] = want.spec]
    /\ pc' = "oldgroup"
    /\ UNCHANGED <<planVars, fn, permission, rule, configRule, existing, last>>

\* _get_previous_group: from the tag the function had before this run.
PreviousGroup == IF existing = Absent THEN NoGroup ELSE existing.tag

\* A schedule that is not there cannot be deleted.
LeaveOldGroup ==
    /\ pc = "oldgroup"
    /\ IF PreviousGroup \in {NoGroup, want.group}
         THEN Ends("published") /\ UNCHANGED schedules
         ELSE IF schedules[PreviousGroup] = Absent
           THEN Ends("failed") /\ UNCHANGED schedules
           ELSE /\ schedules' = [schedules EXCEPT ![PreviousGroup] = Absent]
                /\ Ends("published")
    /\ UNCHANGED <<planVars, fn, permission, rule, configRule, existing>>

\* SecurityHubAction.add calls CloudWatchEventSource.add without an argument
\* that it requires.
AddHubAction ==
    /\ pc = "event" /\ want.kind = "hub"
    /\ Ends("failed")
    /\ UNCHANGED <<planVars, cloudVars, existing>>

-----------------------------------------------------------------------------
(***************************************************************************)
(* LambdaManager.remove: the event source, then the function.              *)
(***************************************************************************)
Remove ==
    /\ pc = "idle" /\ removes < MaxRemoves
    /\ removes' = removes + 1
    /\ pc' = "remove"
    /\ last' = "none"
    /\ UNCHANGED <<family, want, faults, edits, cloudVars, existing>>

\* SecurityHubAction.remove also deletes the action, which is not there.
RuleIsGone ==
    IF want.kind = "hub" THEN Ends("failed") ELSE pc' = "delete" /\ UNCHANGED last

\* CloudWatchEventSource.remove: that targets stay is only warned about.
RemoveTargets ==
    /\ pc = "remove" /\ want.kind \in {"rule", "hub"}
    /\ IF rule = Absent
         THEN RuleIsGone /\ UNCHANGED rule
         ELSE /\ rule' \in {rule, [rule EXCEPT !.target = FALSE]}
              /\ pc' = "deleterule" /\ UNCHANGED last
    /\ UNCHANGED <<planVars, fn, permission, configRule, schedules, existing>>

\* A rule that has targets cannot be deleted.
DeleteRule ==
    /\ pc = "deleterule"
    /\ IF rule.target
         THEN Ends("failed") /\ UNCHANGED rule
         ELSE rule' = Absent /\ RuleIsGone
    /\ UNCHANGED <<planVars, fn, permission, configRule, schedules, existing>>

RemoveConfigRule ==
    /\ pc = "remove" /\ want.kind = "config"
    /\ configRule' = Absent
    /\ pc' = "delete"
    /\ UNCHANGED <<planVars, fn, permission, rule, schedules, existing, last>>

\* EventBridgeScheduleSource.remove: looked for in the default group, deleted
\* from the policy's.
RemoveSchedule ==
    /\ pc = "remove" /\ want.kind = "schedule"
    /\ IF schedules[Default] = Absent
         THEN pc' = "delete" /\ UNCHANGED <<schedules, last>>
         ELSE IF schedules[want.group] = Absent
           THEN Ends("failed") /\ UNCHANGED schedules
           ELSE /\ schedules' = [schedules EXCEPT ![want.group] = Absent]
                /\ pc' = "delete" /\ UNCHANGED last
    /\ UNCHANGED <<planVars, fn, permission, rule, configRule, existing>>

\* The permission goes with the function.
DeleteFunction ==
    /\ pc = "delete"
    /\ fn' = Absent /\ permission' = Absent
    /\ Ends("removed")
    /\ UNCHANGED <<planVars, rule, configRule, schedules, existing>>

-----------------------------------------------------------------------------
Edit(w) ==
    /\ pc = "idle" /\ edits < MaxEdits
    /\ w \in family \ {want}
    /\ want' = w
    /\ edits' = edits + 1
    /\ last' = "none"
    /\ UNCHANGED <<family, faults, removes, cloudVars, pc, existing>>

Fault ==
    /\ pc # "idle" /\ faults < MaxFaults
    /\ faults' = faults + 1
    /\ Ends("failed")
    /\ UNCHANGED <<family, want, edits, removes, cloudVars, existing>>

\* Lambda completes an update.
Settle ==
    /\ fn # Absent /\ fn.busy
    /\ fn' = [fn EXCEPT !.busy = FALSE]
    /\ UNCHANGED <<planVars, eventVars, pc, existing, last>>

Custodian ==
    \/ Publish \/ Get \/ Create \/ UpdateCode \/ Wait \/ UpdateTags
    \/ UpdateArchitecture \/ UpdateConfig \/ UpdateConcurrency
    \/ PutRule \/ AddPermission \/ PutTarget \/ AddConfigRule
    \/ PutSchedule \/ LeaveOldGroup \/ AddHubAction
    \/ RemoveTargets \/ DeleteRule \/ RemoveConfigRule \/ RemoveSchedule
    \/ DeleteFunction

Next == Custodian \/ Remove \/ (\E w \in Versions : Edit(w)) \/ Fault \/ Settle

\* custodian run is repeated after a failure, and Lambda completes updates.
Fairness == WF_vars(Custodian) /\ WF_vars(Settle)

Spec == Init /\ [][Next]_vars
FairSpec == Spec /\ Fairness

-----------------------------------------------------------------------------
(***************************************************************************)
(* Properties.                                                             *)
(***************************************************************************)
\* The cloud's and the run's state is well typed, and a function is there
\* whenever a call is about to be made that is about it.
TypeOK ==
    /\ family \in Families /\ want \in family
    /\ fn \in Functions \cup {Absent}
    /\ permission \in {"events", "config", Absent}
    /\ rule \in Rules \cup {Absent}
    /\ configRule \in Specs \cup {Absent}
    /\ schedules \in [Groups -> Specs \cup {Absent}]
    /\ pc \in Calls
    /\ existing \in Functions \cup {Absent}
    /\ last \in {"none", "published", "failed", "removed"}
    /\ faults \in 0..MaxFaults /\ edits \in 0..MaxEdits /\ removes \in 0..MaxRemoves
    /\ pc \notin {"idle", "get", "create", "remove", "deleterule", "delete"} => fn # Absent
    /\ fn = Absent => permission = Absent

FunctionAsWanted ==
    /\ fn # Absent
    /\ fn.code = Code(want) /\ fn.tag = Tag(want) /\ fn.conf = want.conf
    /\ fn.arch = want.arch /\ fn.concurrency = want.concurrency

EventAsWanted ==
    CASE want.kind \in {"rule", "hub"} ->
           rule = [spec |-> want.spec, target |-> TRUE] /\ permission = "events"
      [] want.kind = "config" -> configRule = want.spec /\ permission = "config"
      [] want.kind = "schedule" -> schedules[want.group] = want.spec

\* A publish that succeeds has repaired whatever failed runs and earlier
\* versions have left: the function is the wanted one, and the wanted event
\* source ("Subscribe a lambda to cloud watch events", CloudWatchEventSource)
\* invokes it and is allowed to.
PublishedAsWanted == last = "published" => FunctionAsWanted /\ EventAsWanted

KeepsMode == \A v, w \in family : v.kind = w.kind

\* The state is well typed and, as long as a policy keeps its mode, a rule that
\* has its target can invoke it, also half way through a publish or a remove: no
\* event is delivered to a function that is not there or that refuses it
\* (CloudWatchEventSource.add).
TargetsCanInvoke ==
    /\ TypeOK
    /\ KeepsMode /\ rule # Absent /\ rule.target => fn # Absent /\ permission = "events"

\* A remove that succeeds leaves neither the function nor the event source of the
\* version in the file (LambdaManager.remove).  EventBridgeScheduleSource.remove
\* looks for schedules in the default group only, and misses those of other groups.
RemovedIsGone ==
    last = "removed" =>
        /\ fn = Absent
        /\ want.kind = "rule" => rule = Absent
        /\ want.kind = "config" => configRule = Absent
        /\ want.kind = "schedule" => schedules[Default] = Absent \/ want.group # Default

\* While the file keeps its mode, nothing else invokes the function after a run
\* that succeeded: no source of another kind is there and, after a removal, none
\* at all but schedules that RemovedIsGone misses.  publish and remove look only
\* at the source of the mode in the file: a rule, Config rule or schedule of an
\* earlier mode stays, and goes on invoking the function.
NoOtherSource ==
    KeepsMode /\ last \in {"published", "removed"} =>
        /\ rule # Absent => want.kind = "rule" /\ last = "published"
        /\ configRule # Absent => want.kind = "config" /\ last = "published"
        /\ \A g \in Groups : schedules[g] # Absent =>
               want.kind = "schedule" /\ (last = "removed" => {g, want.group} # {Default})

\* A policy whose schedule moves from group to group always has a schedule
\* once it had one, whatever call fails, until it is removed
\* (EventBridgeScheduleSource.add).
Scheduled == \E g \in Groups : schedules[g] # Absent
KeepsSchedule == [][Scheduled => Scheduled' \/ pc = "remove"]_vars

\* "if true, remove the old schedule from the old group"
\* (EventBridgeScheduleSource.add): after a publish the function is invoked by
\* one schedule only, however often the group changes, while no call fails and
\* nothing is removed.
OneScheduleUndisturbed ==
    faults = 0 /\ removes = 0 /\ last = "published" /\ want.kind = "schedule" =>
        \A g \in Groups : schedules[g] # Absent => g = want.group

\* A run of publish or remove that succeeds is complete, whatever the runs before
\* it left: the function and the source that the file's version asks for are there
\* or, after a removal, gone; in a policy that keeps its mode there is no other
\* kind of source; and where nothing failed there is one schedule only.
SuccessIsComplete ==
    PublishedAsWanted /\ RemovedIsGone /\ NoOtherSource /\ OneScheduleUndisturbed

\* Once the file is not edited and no call fails any more, repeated runs reach
\* the wanted deployment and leave it alone (LambdaManager.publish).  Policies
\* in hub-action mode never get there: see AddHubAction.
Converges == <>[](want.kind # "hub" => FunctionAsWanted /\ EventAsWanted)
=============================================================================
