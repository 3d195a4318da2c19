--------------------------- MODULE ProvisionProofs ---------------------------
(***************************************************************************)
(* Proofs about publishing and removing a policy lambda, for every set of  *)
(* versions that its file may go through and any number of failed calls.   *)
(* The inductive invariant is shown to hold part by part, and each part    *)
(* action by action.                                                       *)
(***************************************************************************)
EXTENDS Provision, TLAPS

-----------------------------------------------------------------------------
(***************************************************************************)
(* The inductive invariant: what each call finds done by the calls before it. *)
(***************************************************************************)
EventCalls == {"event", "permission", "target", "configrule", "oldgroup"}
FromConcurrency == {"concurrency", "active"} \cup EventCalls

\* The parts of the function are brought to the wanted version one by one; those
\* that a call has yet to look at are as get_function showed them.
FunctionSteps ==
    /\ pc = "create" => existing = Absent /\ fn = Absent
    /\ pc \in {"code", "updated", "tags", "arch", "config"} => existing # Absent
    /\ pc = "active" => existing = Absent
    /\ pc = "code" => fn.code = existing.code
    /\ pc \in {"updated", "tags", "arch", "config"} \cup FromConcurrency =>
           fn.code = Code(want)
    /\ pc \in {"code", "updated", "tags"} => fn.tag = existing.tag
    /\ pc \in {"arch", "config"} \cup FromConcurrency => fn.tag = Tag(want)
    /\ pc \in {"code", "updated", "tags", "arch"} => fn.arch = existing.arch
    /\ pc \in {"config"} \cup FromConcurrency => fn.arch = want.arch
    /\ pc \in {"code", "updated", "tags", "arch", "config"} => fn.conf = existing.conf
    /\ pc \in FromConcurrency => fn.conf = want.conf
    /\ pc \in {"active"} \cup EventCalls => fn.concurrency = want.concurrency

SourceGone ==
    /\ want.kind = "rule" => rule = Absent
    /\ want.kind = "config" => configRule = Absent
    /\ want.kind = "schedule" => schedules[Default] = Absent \/ want.group # Default

EventSteps ==
    /\ pc = "permission" => \/ want.kind = "config"
                            \/ want.kind = "rule" /\ rule # Absent /\ rule.spec = want.spec
    /\ pc = "target" => /\ want.kind = "rule" /\ rule # Absent /\ rule.spec = want.spec
                        /\ permission # Absent
    /\ pc = "configrule" => want.kind = "config"
    /\ pc = "oldgroup" => want.kind = "schedule" /\ schedules[want.group] = want.spec
    /\ pc = "deleterule" => rule # Absent /\ want.kind \in {"rule", "hub"}
    /\ pc = "delete" => SourceGone
    /\ \A g \in Groups : schedules[g] # Absent =>
           \E w \in family : w.kind = "schedule" /\ w.group = g

\* How a run ended describes the state until something happens.
Results ==
    /\ last # "none" => pc = "idle"
    /\ last = "published" => FunctionAsWanted
    /\ last = "removed" => fn = Absent /\ SourceGone

\* While the function's statement names one principal, it is the wanted one.
KeepsPrincipal == \A v, w \in family : Principal(v) = Principal(w)
PrincipalIsWanted ==
    /\ permission \in {Absent, Principal(want)}
    /\ want.kind # "config" => configRule = Absent
    /\ configRule # Absent => permission = "config"
    /\ last = "published" => EventAsWanted

\* While the mode stays, only rules that can invoke the function have a target.
RulesCanInvoke ==
    /\ want.kind # "rule" => rule = Absent
    /\ rule # Absent /\ rule.target => permission = "events"

\* While the mode and the architecture stay, and neither a fault nor a removal
\* has happened, there is a schedule in the group of the function's tag only.
KeepsArch == \A v, w \in family : v.arch = w.arch
OneGroup ==
    \A v, w \in family : v.kind = "schedule" /\ w.kind = "schedule" => v.group = w.group
Undisturbed ==
    KeepsMode /\ KeepsArch /\ want.kind = "schedule" /\ faults = 0 /\ removes = 0

SchedulesAre(gs) == \A g \in Groups : schedules[g] # Absent <=> g \in gs
Consistent(f) == f.code.conf = f.conf /\ f.tag # NoGroup

OneSchedule ==
    /\ pc \notin {"remove", "deleterule", "delete"}
    /\ fn # Absent => fn.arch = want.arch
    /\ pc \in {"idle", "get"} => SchedulesAre(IF fn = Absent THEN {} ELSE {fn.tag})
    /\ pc \in {"idle", "get"} /\ fn # Absent => Consistent(fn)
    /\ pc \notin {"idle", "get"} /\ existing # Absent => Consistent(existing)
    /\ pc \in {"create", "code", "updated", "tags", "arch", "config", "concurrency",
               "active", "event"} => SchedulesAre({PreviousGroup})
    /\ pc = "oldgroup" => SchedulesAre({PreviousGroup, want.group})
    /\ pc \in {"tags", "arch", "config"} => ~fn.busy \/ existing.code = Code(want)

IndInv ==
    /\ TypeOK /\ FunctionSteps /\ EventSteps /\ Results
    /\ KeepsPrincipal => PrincipalIsWanted
    /\ KeepsMode => RulesCanInvoke
    /\ Undisturbed => OneSchedule

\* The edits for which a successful run is complete: they keep the principal
\* that invokes the function, and either the group of the schedules, or the mode
\* and the architecture.
Orderly == KeepsPrincipal /\ (OneGroup \/ (KeepsMode /\ KeepsArch))

-----------------------------------------------------------------------------
\* The fields of a version of the policy are values of the model.
LEMMA VersionFields ==
    ASSUME NEW w \in Versions
    PROVE  /\ w.kind \in Kinds /\ w.group \in Groups /\ w.spec \in Specs
           /\ w.conf \in Confs /\ w.arch \in Archs /\ w.concurrency \in Concurrencies
           /\ Code(w) \in {Code(v) : v \in Versions}
           /\ Tag(w) \in Groups \cup {NoGroup}
           /\ w.spec # Absent
           /\ Principal(w) \in {"events", "config"}
           /\ Principal(w) # Absent
  BY ProvisionAssumption
     DEF Groups, Specs, Confs, Archs, Concurrencies, Tag, Principal

\* An update of a function, which is then busy or not, is a function.
LEMMA FunctionUpdates ==
    ASSUME NEW f \in Functions, NEW w \in Versions
    PROVE  /\ [f EXCEPT !.busy = FALSE] \in Functions
           /\ [[f EXCEPT !.code = Code(w)] EXCEPT !.busy = TRUE] \in Functions
           /\ [f EXCEPT !.tag = Tag(w)] \in Functions
           /\ [[f EXCEPT !.arch = w.arch, !.code = Code(w)] EXCEPT !.busy = TRUE] \in Functions
           /\ [[f EXCEPT !.conf = w.conf] EXCEPT !.busy = TRUE] \in Functions
           /\ [f EXCEPT !.concurrency = w.concurrency] \in Functions
  <1>1. /\ Code(w) \in {Code(v) : v \in Versions} /\ Tag(w) \in Groups \cup {NoGroup}
        /\ w.conf \in Confs /\ w.arch \in Archs /\ w.concurrency \in Concurrencies
    BY VersionFields
  <1> QED BY <1>1 DEF Functions

\* A function that is created is a function.
LEMMA NewFunction ==
    ASSUME NEW w \in Versions
    PROVE  [code |-> Code(w), tag |-> Tag(w), conf |-> w.conf, arch |-> w.arch,
            concurrency |-> 0, busy |-> TRUE] \in Functions
  <1>1. /\ Code(w) \in {Code(v) : v \in Versions} /\ Tag(w) \in Groups \cup {NoGroup}
        /\ w.conf \in Confs /\ w.arch \in Archs /\ 0 \in Concurrencies
    BY VersionFields DEF Concurrencies
  <1> QED BY <1>1 DEF Functions

-----------------------------------------------------------------------------
(***************************************************************************)
(* Type correctness.                                                       *)
(***************************************************************************)
\* The file has a version of the policy.
LEMMA WantIsVersion ==
    ASSUME TypeOK
    PROVE  want \in Versions
  BY DEF TypeOK, Versions

\* The types hold at first.
LEMMA TypeInit == Init => TypeOK
  <1> SUFFICES ASSUME Init PROVE TypeOK  OBVIOUS
  <1>1. 0 \in 0..MaxFaults /\ 0 \in 0..MaxEdits /\ 0 \in 0..MaxRemoves
    BY ProvisionAssumption
  <1> QED BY <1>1 DEF Init, TypeOK, Calls

\* Every step keeps the types.
LEMMA TypeStep ==
    ASSUME TypeOK, EventSteps, FunctionSteps, [Next]_vars
    PROVE  TypeOK'
  <1> USE DEF TypeOK, planVars, cloudVars, eventVars
  <1>v. want \in Versions
    BY WantIsVersion
  <1>w. /\ want.group \in Groups /\ want.spec \in Specs /\ want.kind \in Kinds
        /\ Principal(want) \in {"events", "config"}
    BY <1>v, VersionFields
  <1>f. fn # Absent => fn \in Functions
    OBVIOUS
  <1>u. ASSUME fn # Absent
        PROVE  /\ [fn EXCEPT !.busy = FALSE] \in Functions
               /\ [[fn EXCEPT !.code = Code(want)] EXCEPT !.busy = TRUE] \in Functions
               /\ [fn EXCEPT !.tag = Tag(want)] \in Functions
               /\ [[fn EXCEPT !.arch = want.arch, !.code = Code(want)]
                      EXCEPT !.busy = TRUE] \in Functions
               /\ [[fn EXCEPT !.conf = want.conf] EXCEPT !.busy = TRUE] \in Functions
               /\ [fn EXCEPT !.concurrency = want.concurrency] \in Functions
    BY <1>u, <1>v, <1>f, FunctionUpdates
  <1>n. Absent \notin Functions
    BY ProvisionAssumption
  <1>1. CASE UNCHANGED vars
    BY <1>1 DEF vars
  <1>2. CASE Publish \/ Get
    BY <1>2 DEF Publish, Get, Calls
  <1>3. CASE Create
    BY <1>3, <1>v, <1>n, NewFunction DEF Create, Calls
  <1>4. CASE UpdateCode
    BY <1>4, <1>u, <1>n DEF UpdateCode, Skip, Update, Ends, Calls
  <1>5. CASE Wait
    BY <1>5 DEF Wait, Calls
  <1>6. CASE UpdateTags
    BY <1>6, <1>u, <1>n DEF UpdateTags, Calls
  <1>7. CASE UpdateArchitecture
    BY <1>7, <1>u, <1>n DEF UpdateArchitecture, Skip, Update, Ends, Calls
  <1>8. CASE UpdateConfig
    BY <1>8, <1>u, <1>n DEF UpdateConfig, Skip, Update, Ends, Calls
  <1>9. CASE UpdateConcurrency
    BY <1>9, <1>u, <1>n DEF UpdateConcurrency, Calls
  <1>10. CASE PutRule
    BY <1>10, <1>w DEF PutRule, Calls, Rules
  <1>11. CASE AddPermission
    BY <1>11, <1>w DEF AddPermission, Calls
  <1>12. CASE PutTarget
    BY <1>12 DEF PutTarget, Calls, Ends, EventSteps, Rules
  <1>13. CASE AddConfigRule
    BY <1>13, <1>w DEF AddConfigRule, PutConfigRule, Ends, Calls
  <1>14. CASE PutSchedule
    BY <1>14, <1>w DEF PutSchedule, Calls
  <1>15. CASE LeaveOldGroup
    <2>1. schedules' \in [Groups -> Specs \cup {Absent}]
      BY <1>15 DEF LeaveOldGroup, Ends
    <2> QED BY <1>15, <2>1 DEF LeaveOldGroup, Ends, Calls
  <1>16. CASE AddHubAction
    BY <1>16 DEF AddHubAction, Ends, Calls
  <1>17. CASE RemoveTargets
    BY <1>17 DEF RemoveTargets, RuleIsGone, Ends, Calls, Rules
  <1>18. CASE DeleteRule
    BY <1>18 DEF DeleteRule, RuleIsGone, Ends, Calls
  <1>19. CASE RemoveConfigRule
    BY <1>19 DEF RemoveConfigRule, Calls
  <1>20. CASE RemoveSchedule
    BY <1>20, <1>w DEF RemoveSchedule, Ends, Calls
  <1>21. CASE DeleteFunction
    BY <1>21 DEF DeleteFunction, Ends, Calls
  <1>22. CASE Remove
    <2>1. removes' \in 0..MaxRemoves
      BY <1>22, ProvisionAssumption DEF Remove
    <2> QED BY <1>22, <2>1 DEF Remove, Calls
  <1>23. CASE \E w \in Versions : Edit(w)
    <2>1. edits' \in 0..MaxEdits
      BY <1>23, ProvisionAssumption DEF Edit
    <2> QED BY <1>23, <2>1 DEF Edit
  <1>24. CASE Fault
    <2>1. faults' \in 0..MaxFaults
      BY <1>24, ProvisionAssumption DEF Fault
    <2> QED BY <1>24, <2>1 DEF Fault, Ends, Calls
  <1>25. CASE Settle
    BY <1>25, <1>u, <1>n DEF Settle
  <1> QED
    BY <1>1, <1>2, <1>3, <1>4, <1>5, <1>6, <1>7, <1>8, <1>9, <1>10, <1>11, <1>12,
       <1>13, <1>14, <1>15, <1>16, <1>17, <1>18, <1>19, <1>20, <1>21, <1>22, <1>23,
       <1>24, <1>25 DEF Next, Custodian

-----------------------------------------------------------------------------
(***************************************************************************)
(* The kinds of step.  A call outside the function's part of publish leaves *)
(* the function alone, or deletes it.                                      *)
(***************************************************************************)
\* The run ends, or goes on to a call that does not rely on the function.
AwayFromFunction == pc' \in {"idle", "get", "remove", "deleterule", "delete"}

\* The run goes from one call of the event source to the next one.
WithinEvent ==
    /\ pc \in EventCalls /\ pc' \in EventCalls
    /\ UNCHANGED <<family, want, fn, existing, last>>

\* A call of the function's part of publish.
FunctionCall ==
    Get \/ Create \/ UpdateCode \/ Wait \/ UpdateTags \/ UpdateArchitecture
        \/ UpdateConfig \/ UpdateConcurrency \/ Settle

\* Every step is of one of these kinds.
LEMMA StepKinds ==
    ASSUME Next
    PROVE  AwayFromFunction \/ WithinEvent \/ FunctionCall
  <1> USE DEF AwayFromFunction, WithinEvent, FunctionCall, planVars, cloudVars,
              eventVars, EventCalls
  <1>1. CASE Publish \/ AddHubAction \/ Remove \/ Fault \/ PutTarget \/ DeleteFunction
    BY <1>1 DEF Publish, AddHubAction, Remove, Fault, PutTarget, DeleteFunction, Ends
  <1>2. CASE RemoveTargets \/ DeleteRule \/ RemoveConfigRule \/ RemoveSchedule
    BY <1>2 DEF RemoveTargets, DeleteRule, RemoveConfigRule, RemoveSchedule, RuleIsGone, Ends
  <1>3. CASE PutRule \/ AddPermission \/ PutSchedule
    BY <1>3 DEF PutRule, AddPermission, PutSchedule
  <1>4. CASE AddConfigRule \/ LeaveOldGroup
    BY <1>4 DEF AddConfigRule, PutConfigRule, LeaveOldGroup, Ends
  <1>5. CASE \E w \in Versions : Edit(w)
    BY <1>5 DEF Edit
  <1> QED BY <1>1, <1>2, <1>3, <1>4, <1>5 DEF Next, Custodian

-----------------------------------------------------------------------------
(***************************************************************************)
(* The function is brought to the wanted version part by part.             *)
(***************************************************************************)
\* FunctionSteps is preserved by every step.
LEMMA FunctionStepsStep ==
    ASSUME TypeOK, FunctionSteps, [Next]_vars
    PROVE  FunctionSteps'
  <1> USE DEF FunctionSteps, FromConcurrency, EventCalls, planVars, cloudVars, eventVars
  <1>f. pc \notin {"idle", "get", "create", "remove", "deleterule", "delete"} =>
            fn \in Functions
    BY DEF TypeOK
  <1>1. CASE UNCHANGED vars
    BY <1>1 DEF vars, Code, Tag
  <1>2. CASE AwayFromFunction
    BY <1>2 DEF AwayFromFunction
  <1>3. CASE WithinEvent
    BY <1>3 DEF WithinEvent, Code, Tag
  <1>4. CASE Get
    BY <1>4 DEF Get
  <1>5. CASE Create
    BY <1>5 DEF Create, Code, Tag
  <1>6. CASE UpdateCode
    BY <1>6, <1>f DEF UpdateCode, Skip, Update, Ends, Functions, Code
  <1>7. CASE Wait
    BY <1>7 DEF Wait, Code, Tag
  <1>8. CASE UpdateTags
    BY <1>8, <1>f DEF UpdateTags, Functions, Code, Tag
  <1>9. CASE UpdateArchitecture
    BY <1>9, <1>f DEF UpdateArchitecture, Skip, Update, Ends, Functions, Code, Tag
  <1>10. CASE UpdateConfig
    BY <1>10, <1>f DEF UpdateConfig, Skip, Update, Ends, Functions, Code, Tag
  <1>11. CASE UpdateConcurrency
    BY <1>11, <1>f DEF UpdateConcurrency, Functions, Code, Tag
  <1>12. CASE Settle
    <2>1. fn \in Functions
      BY <1>12 DEF Settle, TypeOK
    <2> QED BY <1>12, <2>1 DEF Settle, Functions, Code, Tag
  <1> QED
    BY <1>1, <1>2, <1>3, <1>4, <1>5, <1>6, <1>7, <1>8, <1>9, <1>10, <1>11, <1>12,
       StepKinds DEF FunctionCall

-----------------------------------------------------------------------------
(***************************************************************************)
(* What the calls of an event source, and of a remove, rely on.            *)
(***************************************************************************)
\* A call of the function's part changes no event source.
LEMMA FunctionCallFrame ==
    ASSUME FunctionCall
    PROVE  /\ UNCHANGED <<planVars, eventVars>>
           /\ pc' = pc \/ pc' \in {"create", "code", "updated", "tags", "arch", "config",
                                   "concurrency", "active", "event", "idle"}
           /\ UNCHANGED last \/ (last' = "failed" /\ pc' = "idle")
  BY DEF FunctionCall, Get, Create, UpdateCode, Wait, UpdateTags, UpdateArchitecture,
         UpdateConfig, UpdateConcurrency, Settle, Skip, Update, Ends, planVars,
         cloudVars, eventVars

\* EventSteps is preserved by every step.
LEMMA EventStepsStep ==
    ASSUME TypeOK, EventSteps, [Next]_vars
    PROVE  EventSteps'
  <1> USE DEF EventSteps, SourceGone, planVars, cloudVars, eventVars
  <1>v. want \in Versions
    BY WantIsVersion
  <1>w. /\ want.group \in Groups /\ want.kind \in Kinds /\ Principal(want) # Absent
        /\ Absent \notin Rules /\ want \in family
        /\ want.kind # "schedule" => want.group = Default
        /\ schedules \in [Groups -> Specs \cup {Absent}]
        /\ rule \in Rules \cup {Absent}
    BY <1>v, VersionFields, ProvisionAssumption DEF TypeOK
  <1>1. CASE UNCHANGED vars
    BY <1>1 DEF vars
  <1>2. CASE FunctionCall
    BY <1>2, FunctionCallFrame
  <1>3. CASE Publish \/ AddHubAction \/ Remove \/ Fault
    BY <1>3 DEF Publish, AddHubAction, Remove, Fault, Ends
  <1>4. CASE PutRule
    <2>1. rule' \in Rules
      BY <1>4, <1>v, <1>w, VersionFields DEF PutRule, Rules
    <2> QED BY <1>4, <1>w, <2>1 DEF PutRule
  <1>5. CASE AddPermission
    BY <1>5, <1>w DEF AddPermission
  <1>6. CASE PutTarget \/ DeleteFunction
    BY <1>6 DEF PutTarget, DeleteFunction, Ends
  <1>7. CASE AddConfigRule
    BY <1>7 DEF AddConfigRule, PutConfigRule, Ends
  <1>8. CASE PutSchedule
    BY <1>8, <1>w DEF PutSchedule
  <1>9. CASE LeaveOldGroup
    BY <1>9, <1>w DEF LeaveOldGroup, Ends
  <1>10. CASE RemoveTargets
    <2>1. rule # Absent => [rule EXCEPT !.target = FALSE] \in Rules
      BY <1>w DEF Rules
    <2>2. rule # Absent => rule' # Absent
      BY <1>10, <1>w, <2>1 DEF RemoveTargets
    <2> QED BY <1>10, <2>2 DEF RemoveTargets, RuleIsGone, Ends
  <1>11. CASE DeleteRule
    BY <1>11, <1>w DEF DeleteRule, RuleIsGone, Ends
  <1>12. CASE RemoveConfigRule
    BY <1>12 DEF RemoveConfigRule
  <1>13. CASE RemoveSchedule
    BY <1>13, <1>w DEF RemoveSchedule, Ends
  <1>14. CASE \E w \in Versions : Edit(w)
    BY <1>14 DEF Edit
  <1> QED
    BY <1>1, <1>2, <1>3, <1>4, <1>5, <1>6, <1>7, <1>8, <1>9, <1>10, <1>11, <1>12,
       <1>13, <1>14 DEF Next, Custodian, FunctionCall

\* How a run ends is kept until the next step of the run: Results is preserved.
LEMMA ResultsStep ==
    ASSUME TypeOK, FunctionSteps, EventSteps, Results, [Next]_vars
    PROVE  Results'
  <1> USE DEF Results, SourceGone, planVars, cloudVars, eventVars
  <1>1. CASE UNCHANGED vars
    BY <1>1 DEF vars, FunctionAsWanted, Code, Tag
  <1>2. CASE Settle
    <2>1. fn \in Functions /\ Absent \notin Functions
      BY <1>2, ProvisionAssumption DEF Settle, TypeOK
    <2>2. fn' \in Functions
      BY <1>2, <2>1, FunctionUpdates, WantIsVersion DEF Settle
    <2>3. FunctionAsWanted => FunctionAsWanted'
      BY <1>2, <2>1, <2>2 DEF Settle, FunctionAsWanted, Functions, Code, Tag
    <2> QED BY <1>2, <2>3 DEF Settle
  <1>3. CASE FunctionCall /\ ~Settle
    BY <1>3, FunctionCallFrame
       DEF FunctionCall, Get, Create, UpdateCode, Wait, UpdateTags, UpdateArchitecture,
           UpdateConfig, UpdateConcurrency
  <1>4. ASSUME pc \in EventCalls, UNCHANGED <<want, fn>>
        PROVE  FunctionAsWanted'
    BY <1>4 DEF FunctionSteps, FromConcurrency, EventCalls, FunctionAsWanted, TypeOK,
                Code, Tag
  <1>5. CASE PutTarget \/ AddConfigRule \/ LeaveOldGroup
    BY <1>5, <1>4 DEF PutTarget, AddConfigRule, PutConfigRule, LeaveOldGroup, Ends, EventCalls
  <1>6. CASE PutRule \/ AddPermission \/ PutSchedule \/ AddHubAction
    BY <1>6 DEF PutRule, AddPermission, PutSchedule, AddHubAction, Ends
  <1>7. CASE Publish \/ Remove \/ Fault \/ (\E w \in Versions : Edit(w))
    BY <1>7 DEF Publish, Remove, Fault, Edit, Ends
  <1>8. CASE RemoveTargets \/ DeleteRule \/ RemoveConfigRule \/ RemoveSchedule
    BY <1>8 DEF RemoveTargets, DeleteRule, RemoveConfigRule, RemoveSchedule, RuleIsGone, Ends
  <1>9. CASE DeleteFunction
    BY <1>9 DEF DeleteFunction, Ends, EventSteps
  <1> QED
    BY <1>1, <1>2, <1>3, <1>5, <1>6, <1>7, <1>8, <1>9 DEF Next, Custodian, FunctionCall

-----------------------------------------------------------------------------
(***************************************************************************)
(* The statement that lets the event source invoke the function.           *)
(***************************************************************************)
\* A policy that keeps its mode keeps the principal that invokes it.
LEMMA ModeHasPrincipal == KeepsMode => KeepsPrincipal
  BY DEF KeepsMode, KeepsPrincipal, Principal

\* The family of versions stays, and the file has one of its versions.
LEMMA FamilyStays ==
    ASSUME TypeOK, [Next]_vars
    PROVE  family' = family /\ want' \in family
  BY DEF TypeOK, Next, Custodian, vars, planVars, cloudVars, eventVars, Publish, Get, Create,
         UpdateCode, Wait, UpdateTags, UpdateArchitecture, UpdateConfig,
         UpdateConcurrency, PutRule, AddPermission, PutTarget, AddConfigRule,
         PutSchedule, LeaveOldGroup, AddHubAction, RemoveTargets, DeleteRule,
         RemoveConfigRule, RemoveSchedule, DeleteFunction, Remove, Edit, Fault, Settle

\* While a run is on its way it has no result yet.
LEMMA NoResultYet ==
    ASSUME Results, pc # "idle"
    PROVE  last # "published"
  BY DEF Results

\* As long as the versions keep the principal, PrincipalIsWanted is preserved.
LEMMA PrincipalStep ==
    ASSUME TypeOK, EventSteps, Results, KeepsPrincipal, PrincipalIsWanted, [Next]_vars
    PROVE  PrincipalIsWanted'
  <1> USE DEF PrincipalIsWanted, planVars, cloudVars, eventVars
  <1>v. want \in Versions
    BY WantIsVersion
  <1>w. /\ want.group \in Groups /\ want.kind \in Kinds
        /\ Principal(want) # Absent /\ want.spec # Absent
        /\ Absent \notin Rules /\ Absent \notin {"events", "config"}
        /\ schedules \in [Groups -> Specs \cup {Absent}]
        /\ rule \in Rules \cup {Absent}
    BY <1>v, VersionFields, ProvisionAssumption DEF TypeOK
  <1>1. CASE UNCHANGED vars
    BY <1>1 DEF vars, EventAsWanted, Principal
  <1>2. CASE FunctionCall
    <2>1. UNCHANGED <<want, permission, rule, configRule, schedules>>
      BY <1>2, FunctionCallFrame
    <2>2. last' = "published" => last = "published"
      BY <1>2, FunctionCallFrame
    <2> QED BY <2>1, <2>2 DEF EventAsWanted, Principal
  <1>3. CASE Publish \/ AddHubAction \/ Remove \/ Fault
    BY <1>3 DEF Publish, AddHubAction, Remove, Fault, Ends, Principal
  <1>4. CASE PutRule
    BY <1>4, NoResultYet DEF PutRule, Principal
  <1>5. CASE AddPermission
    <2>1. last' # "published" /\ UNCHANGED <<want, configRule>>
      BY <1>5, NoResultYet DEF AddPermission
    <2>2. permission' \in {permission, Principal(want)}
          /\ (permission # Absent => permission' = permission)
      BY <1>5 DEF AddPermission
    <2> QED BY <2>1, <2>2, <1>w DEF Principal
  <1>6. CASE PutTarget
    <2>1. /\ want.kind = "rule" /\ permission = "events"
          /\ rule' = [spec |-> want.spec, target |-> TRUE]
      BY <1>6, <1>w DEF PutTarget, EventSteps, Principal, Rules
    <2> QED BY <1>6, <2>1 DEF PutTarget, Ends, EventAsWanted, Principal
  <1>7. CASE AddConfigRule
    <2>1. want.kind = "config"
      BY <1>7 DEF AddConfigRule, EventSteps
    <2>2. CASE UNCHANGED configRule /\ last' # "published"
      BY <1>7, <2>2 DEF AddConfigRule, Principal
    <2>3. CASE last' = "published" /\ configRule' = want.spec /\ permission = "config"
      BY <1>7, <2>1, <2>3 DEF AddConfigRule, EventAsWanted, Principal
    <2> QED BY <1>7, <1>w, <2>2, <2>3, NoResultYet DEF AddConfigRule, PutConfigRule, Ends
  <1>8. CASE PutSchedule
    BY <1>8, NoResultYet DEF PutSchedule, Principal
  <1>9. CASE LeaveOldGroup
    <2>1. want.kind = "schedule" /\ schedules'[want.group] = want.spec
      BY <1>9, <1>w DEF LeaveOldGroup, EventSteps, Ends
    <2> QED BY <1>9, <2>1 DEF LeaveOldGroup, Ends, EventAsWanted, Principal
  <1>10. CASE RemoveTargets \/ DeleteRule \/ RemoveConfigRule \/ RemoveSchedule
    <2>1. last' # "published" /\ UNCHANGED <<want, permission>>
      BY <1>10, NoResultYet
         DEF RemoveTargets, DeleteRule, RemoveConfigRule, RemoveSchedule, RuleIsGone, Ends
    <2>2. configRule' \in {configRule, Absent}
      BY <1>10 DEF RemoveTargets, DeleteRule, RemoveConfigRule, RemoveSchedule
    <2> QED BY <2>1, <2>2 DEF Principal
  <1>11. CASE DeleteFunction
    BY <1>11 DEF DeleteFunction, EventSteps, SourceGone, Ends, Principal
  <1>12. CASE \E w \in Versions : Edit(w)
    <2>1. PICK w \in Versions : Edit(w)
      BY <1>12
    <2>2. Principal(want') = Principal(want)
      BY <2>1 DEF Edit, KeepsPrincipal, TypeOK
    <2>3. want'.kind = "config" <=> want.kind = "config"
      BY <2>2 DEF Principal
    <2>4. UNCHANGED <<permission, configRule>> /\ last' # "published"
      BY <2>1 DEF Edit
    <2> QED BY <2>2, <2>3, <2>4
  <1> QED
    BY <1>1, <1>2, <1>3, <1>4, <1>5, <1>6, <1>7, <1>8, <1>9, <1>10, <1>11, <1>12
       DEF Next, Custodian, FunctionCall

\* As long as the versions keep the mode, RulesCanInvoke is preserved.
LEMMA RulesStep ==
    ASSUME TypeOK, EventSteps, KeepsMode, PrincipalIsWanted, RulesCanInvoke, [Next]_vars
    PROVE  RulesCanInvoke'
  <1> USE DEF RulesCanInvoke, planVars, cloudVars, eventVars
  <1>1. CASE UNCHANGED vars \/ FunctionCall
    BY <1>1, FunctionCallFrame DEF vars
  <1>2. CASE Publish \/ AddHubAction \/ Remove \/ Fault
    BY <1>2 DEF Publish, AddHubAction, Remove, Fault
  <1>3. CASE PutRule
    BY <1>3 DEF PutRule
  <1>4. CASE AddPermission
    BY <1>4, ProvisionAssumption DEF AddPermission
  <1>5. CASE PutTarget
    <2>1. want.kind = "rule" /\ permission = "events"
      BY <1>5 DEF PutTarget, EventSteps, PrincipalIsWanted, Principal
    <2> QED BY <1>5, <2>1 DEF PutTarget
  <1>6. CASE AddConfigRule \/ PutSchedule \/ LeaveOldGroup \/ RemoveConfigRule \/ RemoveSchedule
    BY <1>6 DEF AddConfigRule, PutSchedule, LeaveOldGroup, RemoveConfigRule, RemoveSchedule
  <1>7. CASE RemoveTargets
    <2>1. rule # Absent => rule \in Rules
      BY DEF TypeOK
    <2>2. rule # Absent => ~[rule EXCEPT !.target = FALSE].target
      BY <2>1 DEF Rules
    <2>3. rule' = rule \/ ~rule'.target
      BY <1>7, <2>2 DEF RemoveTargets
    <2>4. want.kind # "rule" => rule' = Absent
      BY <1>7 DEF RemoveTargets
    <2> QED BY <1>7, <2>3, <2>4 DEF RemoveTargets
  <1>8. CASE DeleteRule
    BY <1>8 DEF DeleteRule
  <1>9. CASE DeleteFunction
    BY <1>9 DEF DeleteFunction, EventSteps, SourceGone
  <1>10. CASE \E w \in Versions : Edit(w)
    BY <1>10 DEF Edit, KeepsMode, TypeOK
  <1> QED
    BY <1>1, <1>2, <1>3, <1>4, <1>5, <1>6, <1>7, <1>8, <1>9, <1>10
       DEF Next, Custodian, FunctionCall

-----------------------------------------------------------------------------
(***************************************************************************)
(* One schedule, in the group that the function's tag names.               *)
(***************************************************************************)
\* Once disturbed, always disturbed.
LEMMA WasUndisturbed ==
    ASSUME TypeOK, [Next]_vars, Undisturbed'
    PROVE  Undisturbed /\ ~Remove /\ ~Fault
  <1>1. KeepsMode /\ KeepsArch
    BY FamilyStays DEF Undisturbed, KeepsMode, KeepsArch
  <1>2. want'.kind = want.kind
    BY <1>1, FamilyStays DEF KeepsMode, TypeOK
  <1>3. faults \in Nat /\ removes \in Nat
    BY ProvisionAssumption DEF TypeOK
  <1>4. ~Remove /\ ~Fault
    BY <1>3 DEF Undisturbed, Remove, Fault
  <1>5. UNCHANGED <<faults, removes>>
    BY <1>4 DEF Next, Custodian, vars, planVars, cloudVars, eventVars, Publish, Get, Create,
         UpdateCode, Wait, UpdateTags, UpdateArchitecture, UpdateConfig,
         UpdateConcurrency, PutRule, AddPermission, PutTarget, AddConfigRule,
         PutSchedule, LeaveOldGroup, AddHubAction, RemoveTargets, DeleteRule,
         RemoveConfigRule, RemoveSchedule, DeleteFunction, Edit, Settle
  <1> QED BY <1>1, <1>2, <1>4, <1>5 DEF Undisturbed

\* While nothing disturbs the policy, OneSchedule is preserved.
LEMMA OneScheduleStep ==
    ASSUME TypeOK, FunctionSteps, EventSteps, Undisturbed, OneSchedule,
           [Next]_vars, ~Remove, ~Fault
    PROVE  OneSchedule'
  <1> USE DEF planVars, cloudVars, eventVars
  <1>v. want \in Versions
    BY WantIsVersion
  <1>w. /\ want.kind = "schedule" /\ want.group \in Groups /\ want.spec # Absent
        /\ NoGroup \notin Groups /\ Tag(want) = want.group
    BY <1>v, VersionFields, ProvisionAssumption DEF Undisturbed, Tag
  <1>s. schedules \in [Groups -> Specs \cup {Absent}]
    BY DEF TypeOK
  <1>f. /\ fn # Absent => fn \in Functions
        /\ existing # Absent => existing \in Functions
        /\ Absent \notin Functions
    BY ProvisionAssumption DEF TypeOK
  <1>g. existing # Absent => existing.tag \in Groups \cup {NoGroup}
    BY <1>f DEF Functions
  <1>c. Code(want).conf = want.conf
    BY DEF Code
  <1>1. CASE UNCHANGED vars
    BY <1>1 DEF vars, OneSchedule, SchedulesAre, Consistent, PreviousGroup, Code
  <1>2. CASE Publish
    BY <1>2 DEF Publish, OneSchedule, SchedulesAre, Consistent
  <1>3. CASE Get
    <2>1. SchedulesAre({PreviousGroup})'
      BY <1>3, <1>w DEF Get, OneSchedule, SchedulesAre, PreviousGroup
    <2> QED BY <1>3, <2>1 DEF Get, OneSchedule, Consistent
  <1>4. CASE Create
    <2>1. fn'.arch = want.arch
      BY <1>4 DEF Create
    <2>2. SchedulesAre({PreviousGroup})'
      BY <1>4 DEF Create, OneSchedule, SchedulesAre, PreviousGroup
    <2> QED BY <1>4, <2>1, <2>2 DEF Create, OneSchedule, Consistent
  <1>5. CASE UpdateCode
    <2>1. /\ existing # Absent /\ fn # Absent
          /\ fn.tag = existing.tag /\ fn.code = existing.code /\ fn.conf = existing.conf
          /\ Consistent(existing) /\ SchedulesAre({existing.tag})
          /\ fn.arch = want.arch
      BY <1>5 DEF UpdateCode, FunctionSteps, OneSchedule, TypeOK, PreviousGroup
    <2>2. UNCHANGED <<schedules, existing, want>>
      BY <1>5 DEF UpdateCode
    <2>3. CASE pc' = "idle" /\ UNCHANGED fn
      BY <2>1, <2>2, <2>3 DEF OneSchedule, SchedulesAre, Consistent
    <2>4. CASE pc' = "updated" /\ fn'.arch = fn.arch
      BY <2>1, <2>2, <2>4 DEF OneSchedule, SchedulesAre, Consistent, PreviousGroup
    <2>5. CASE pc' = "tags" /\ UNCHANGED fn /\ existing.code = Code(want)
      BY <2>1, <2>2, <2>5 DEF OneSchedule, SchedulesAre, Consistent, PreviousGroup, Code
    <2> QED BY <1>5, <1>f, <2>1, <2>3, <2>4, <2>5 DEF UpdateCode, Skip, Update, Ends, Functions
  <1>6. CASE Wait
    <2>1. UNCHANGED <<schedules, existing, want, fn>> /\ ~fn.busy
      BY <1>6 DEF Wait
    <2> QED BY <1>6, <2>1 DEF Wait, OneSchedule, SchedulesAre, Consistent, PreviousGroup
  <1>7. CASE UpdateTags
    <2>1. /\ fn'.arch = fn.arch /\ fn'.busy = fn.busy /\ fn # Absent
          /\ UNCHANGED <<schedules, existing, want>>
      BY <1>7, <1>f DEF UpdateTags, Functions, TypeOK
    <2> QED
      BY <1>7, <2>1 DEF UpdateTags, OneSchedule, SchedulesAre, Consistent, PreviousGroup, Code
  <1>8. CASE UpdateArchitecture
    <2>1. existing.arch = want.arch
      BY <1>8 DEF UpdateArchitecture, FunctionSteps, OneSchedule, TypeOK
    <2>2. pc' = "config" /\ UNCHANGED <<schedules, existing, want, fn>>
      BY <1>8, <2>1 DEF UpdateArchitecture, Skip
    <2> QED
      BY <1>8, <2>2
         DEF UpdateArchitecture, OneSchedule, SchedulesAre, Consistent, PreviousGroup, Code
  <1>9. CASE UpdateConfig
    <2>1. fn # Absent /\ existing # Absent /\ Consistent(existing)
      BY <1>9 DEF UpdateConfig, FunctionSteps, OneSchedule, TypeOK
    <2>2. fn.busy => existing.conf = want.conf
      BY <1>9, <2>1, <1>c DEF UpdateConfig, OneSchedule, Consistent
    <2>3. /\ pc' = "concurrency" /\ fn'.arch = fn.arch
          /\ UNCHANGED <<schedules, existing, want>>
      BY <1>9, <1>f, <2>1, <2>2 DEF UpdateConfig, Skip, Update, Functions
    <2> QED
      BY <1>9, <2>1, <2>3
         DEF UpdateConfig, OneSchedule, SchedulesAre, Consistent, PreviousGroup
  <1>10. CASE UpdateConcurrency
    <2>1. fn # Absent /\ fn'.arch = fn.arch /\ UNCHANGED <<schedules, existing, want>>
      BY <1>10, <1>f DEF UpdateConcurrency, Functions, TypeOK
    <2> QED
      BY <1>10, <2>1
         DEF UpdateConcurrency, OneSchedule, SchedulesAre, Consistent, PreviousGroup
  <1>11. CASE PutSchedule
    <2>1. SchedulesAre({PreviousGroup, want.group})'
      BY <1>11, <1>w, <1>s DEF PutSchedule, OneSchedule, SchedulesAre, PreviousGroup
    <2> QED BY <1>11, <2>1 DEF PutSchedule, OneSchedule, Consistent
  <1>12. CASE LeaveOldGroup
    <2>1. /\ fn # Absent /\ fn.tag = want.group /\ Consistent(fn)
          /\ UNCHANGED <<fn, want>> /\ pc' = "idle"
      BY <1>12, <1>w, <1>c
         DEF LeaveOldGroup, FunctionSteps, FromConcurrency, EventCalls, TypeOK,
             Consistent, Ends
    <2>2. SchedulesAre({PreviousGroup, want.group})
      BY <1>12 DEF LeaveOldGroup, OneSchedule
    <2>3. PreviousGroup \in Groups \cup {NoGroup}
      BY <1>g DEF PreviousGroup
    <2>4. SchedulesAre({fn.tag})'
      BY <1>12, <1>w, <1>s, <2>1, <2>2, <2>3 DEF LeaveOldGroup, SchedulesAre
    <2> QED BY <2>1, <2>4 DEF OneSchedule, Consistent
  <1>13. CASE Settle
    <2>1. fn \in Functions /\ fn' = [fn EXCEPT !.busy = FALSE]
      BY <1>13, <1>f DEF Settle
    <2>2. fn' \in Functions
      BY <2>1, <1>v, FunctionUpdates
    <2>3. /\ ~fn'.busy /\ fn'.arch = fn.arch /\ fn'.tag = fn.tag
          /\ fn'.code = fn.code /\ fn'.conf = fn.conf
      BY <2>1 DEF Functions
    <2>4. /\ fn # Absent /\ fn' # Absent
          /\ UNCHANGED <<schedules, existing, want, pc>>
      BY <1>13, <1>f, <2>1, <2>2 DEF Settle
    <2> QED BY <2>3, <2>4 DEF OneSchedule, SchedulesAre, Consistent, PreviousGroup
  <1>14. CASE \E w \in Versions : Edit(w)
    <2>1. want'.arch = want.arch /\ pc = "idle" /\ UNCHANGED <<schedules, existing, fn, pc>>
      BY <1>14 DEF Edit, Undisturbed, KeepsArch, TypeOK
    <2> QED BY <2>1 DEF OneSchedule, SchedulesAre, Consistent
  <1>15. ~(PutRule \/ AddPermission \/ PutTarget \/ AddConfigRule \/ AddHubAction)
    BY <1>w
       DEF EventSteps, PutRule, AddPermission, PutTarget, AddConfigRule, AddHubAction
  <1>16. ~(RemoveTargets \/ DeleteRule \/ RemoveConfigRule \/ RemoveSchedule \/ DeleteFunction)
    BY DEF OneSchedule, RemoveTargets, DeleteRule, RemoveConfigRule, RemoveSchedule,
           DeleteFunction
  <1> QED
    BY <1>1, <1>2, <1>3, <1>4, <1>5, <1>6, <1>7, <1>8, <1>9, <1>10, <1>11, <1>12,
       <1>13, <1>14, <1>15, <1>16 DEF Next, Custodian

-----------------------------------------------------------------------------
(***************************************************************************)
(* The theorems.                                                           *)
(***************************************************************************)
\* The inductive invariant holds at first.
LEMMA IndInit == Init => IndInv
  <1> SUFFICES ASSUME Init PROVE IndInv  OBVIOUS
  <1>1. TypeOK
    BY TypeInit
  <1>2. FunctionSteps /\ Results
    BY DEF Init, FunctionSteps, FromConcurrency, EventCalls, Results
  <1>3. EventSteps
    BY DEF Init, EventSteps
  <1>4. PrincipalIsWanted /\ RulesCanInvoke
    BY DEF Init, PrincipalIsWanted, RulesCanInvoke
  <1>5. OneSchedule
    BY DEF Init, OneSchedule, SchedulesAre
  <1> QED BY <1>1, <1>2, <1>3, <1>4, <1>5 DEF IndInv

\* Every step preserves it.
LEMMA IndStep == IndInv /\ [Next]_vars => IndInv'
  <1> SUFFICES ASSUME IndInv, [Next]_vars PROVE IndInv'  OBVIOUS
  <1>1. TypeOK /\ FunctionSteps /\ EventSteps /\ Results
    BY DEF IndInv
  <1>2. TypeOK' /\ FunctionSteps' /\ EventSteps' /\ Results'
    BY <1>1, TypeStep, FunctionStepsStep, EventStepsStep, ResultsStep
  <1>3. family' = family
    BY <1>1, FamilyStays
  <1>4. ASSUME KeepsPrincipal' PROVE PrincipalIsWanted'
    <2>1. KeepsPrincipal
      BY <1>3, <1>4 DEF KeepsPrincipal
    <2> QED BY <2>1, <1>1, PrincipalStep DEF IndInv
  <1>5. ASSUME KeepsMode' PROVE RulesCanInvoke'
    <2>1. KeepsMode
      BY <1>3, <1>5 DEF KeepsMode
    <2> QED BY <2>1, <1>1, ModeHasPrincipal, RulesStep DEF IndInv
  <1>6. ASSUME Undisturbed' PROVE OneSchedule'
    BY <1>6, <1>1, WasUndisturbed, OneScheduleStep DEF IndInv
  <1> QED BY <1>2, <1>4, <1>5, <1>6 DEF IndInv

\* The inductive invariant holds in every reachable state.
LEMMA Invariance == Spec => []IndInv
  BY IndInit, IndStep, PTL DEF Spec

\* In every state of the invariant a run that succeeded is complete, for
\* versions that are Orderly.
LEMMA CompleteFromInv == IndInv /\ Orderly => SuccessIsComplete
  <1> SUFFICES ASSUME IndInv, Orderly PROVE SuccessIsComplete  OBVIOUS
  <1>1. PublishedAsWanted
    BY DEF IndInv, Orderly, PrincipalIsWanted, Results, PublishedAsWanted
  <1>2. RemovedIsGone
    BY DEF IndInv, Results, SourceGone, RemovedIsGone
  <1>3. OneScheduleUndisturbed
    <2> SUFFICES ASSUME faults = 0, removes = 0, last = "published",
                        want.kind = "schedule", NEW g \in Groups, schedules[g] # Absent
                 PROVE  g = want.group
      BY DEF OneScheduleUndisturbed
    <2>1. want \in family
      BY DEF IndInv, TypeOK
    <2>2. CASE OneGroup
      <3>1. PICK w \in family : w.kind = "schedule" /\ w.group = g
        BY DEF IndInv, EventSteps
      <3> QED BY <2>1, <2>2, <3>1 DEF OneGroup
    <2>3. CASE KeepsMode /\ KeepsArch
      <3>1. OneSchedule
        BY <2>3 DEF IndInv, Undisturbed
      <3>2. pc = "idle" /\ fn # Absent /\ fn.tag = want.group
        BY DEF IndInv, Results, FunctionAsWanted, Tag
      <3> QED BY <3>1, <3>2 DEF OneSchedule, SchedulesAre
    <2> QED BY <2>2, <2>3 DEF Orderly
  <1>4. NoOtherSource
    <2> SUFFICES ASSUME KeepsMode, last \in {"published", "removed"} PROVE
            /\ rule # Absent => want.kind = "rule" /\ last = "published"
            /\ configRule # Absent => want.kind = "config" /\ last = "published"
            /\ \A g \in Groups : schedules[g] # Absent =>
                   want.kind = "schedule" /\ (last = "removed" => {g, want.group} # {Default})
      BY DEF NoOtherSource
    <2>1. RulesCanInvoke /\ PrincipalIsWanted /\ EventSteps /\ Results /\ want \in family
      BY ModeHasPrincipal DEF IndInv, TypeOK
    <2>2. \A g \in Groups : schedules[g] # Absent => want.kind = "schedule"
      BY <2>1 DEF EventSteps, KeepsMode
    <2>3. ASSUME last = "removed"
          PROVE  /\ rule = Absent /\ configRule = Absent
                 /\ \A g \in Groups : schedules[g] # Absent => {g, want.group} # {Default}
      <3>1. SourceGone
        BY <2>1, <2>3 DEF Results
      <3>2. rule = Absent /\ configRule = Absent
        BY <2>1, <3>1 DEF SourceGone, RulesCanInvoke, PrincipalIsWanted
      <3>3. ASSUME NEW g \in Groups, schedules[g] # Absent, {g, want.group} = {Default}
            PROVE  FALSE
        <4>1. g = Default /\ want.group = Default
          BY <3>3
        <4> QED BY <2>2, <3>1, <3>3, <4>1 DEF SourceGone
      <3> QED BY <3>2, <3>3
    <2> QED BY <2>1, <2>2, <2>3 DEF RulesCanInvoke, PrincipalIsWanted
  <1> QED BY <1>1, <1>2, <1>3, <1>4 DEF SuccessIsComplete

\* A publish or remove that succeeds has left, or removed, the function and the
\* event source of the version in the file, however many runs failed half way
\* before it and wherever they failed, for every set of versions that keeps the
\* principal that invokes the function, and either the group of its schedules, or
\* the mode and the architecture; where the versions keep the mode there is no
\* other kind of source (LambdaManager.publish, remove).
THEOREM SuccessfulRunsAreComplete == Spec => [](Orderly => SuccessIsComplete)
  BY Invariance, CompleteFromInv, PTL

\* A policy that keeps its mode never has a rule whose target it may not invoke,
\* in whatever call of publish or remove a run stopped
\* (CloudWatchEventSource.add, remove).
THEOREM TargetsAreInvocable == Spec => []TargetsCanInvoke
  <1>1. IndInv => TargetsCanInvoke
    <2> SUFFICES ASSUME IndInv PROVE TargetsCanInvoke  OBVIOUS
    <2>1. TypeOK /\ (KeepsMode => RulesCanInvoke)
      BY DEF IndInv
    <2>2. permission = "events" => fn # Absent
      BY <2>1, ProvisionAssumption DEF TypeOK
    <2> QED BY <2>1, <2>2 DEF TargetsCanInvoke, RulesCanInvoke
  <1> QED BY <1>1, Invariance, PTL

\* Moving from group to group never leaves a policy without a schedule, at any
\* call and for any set of versions: the new schedule is there before the old one
\* is deleted (EventBridgeScheduleSource.add).
THEOREM SchedulesAreKept == Spec => KeepsSchedule
  <1>1. ASSUME IndInv, [Next]_vars
        PROVE  [Scheduled => Scheduled' \/ pc = "remove"]_vars
    <2> SUFFICES ASSUME Scheduled, pc # "remove" PROVE Scheduled'
      OBVIOUS
    <2> USE DEF Scheduled, planVars, cloudVars, eventVars
    <2>1. want \in Versions /\ schedules \in [Groups -> Specs \cup {Absent}]
      BY <1>1, WantIsVersion DEF IndInv, TypeOK
    <2>2. want.group \in Groups /\ want.spec # Absent
      BY <2>1, VersionFields
    <2>3. CASE PutSchedule
      BY <2>1, <2>2, <2>3 DEF PutSchedule
    <2>4. CASE LeaveOldGroup
      <3>1. schedules[want.group] = want.spec
        BY <1>1, <2>4 DEF IndInv, EventSteps, LeaveOldGroup
      <3>2. schedules'[want.group] = want.spec
        BY <2>1, <2>2, <2>4, <3>1 DEF LeaveOldGroup
      <3> QED BY <2>2, <3>2
    <2>5. CASE FunctionCall \/ UNCHANGED vars
      BY <2>5, FunctionCallFrame DEF vars
    <2>6. CASE Publish \/ AddHubAction \/ Remove \/ Fault \/ (\E w \in Versions : Edit(w))
      BY <2>6 DEF Publish, AddHubAction, Remove, Fault, Edit
    <2>7. CASE PutRule \/ AddPermission \/ PutTarget \/ AddConfigRule
      BY <2>7 DEF PutRule, AddPermission, PutTarget, AddConfigRule
    <2>8. CASE RemoveTargets \/ DeleteRule \/ RemoveConfigRule \/ RemoveSchedule
                  \/ DeleteFunction
      BY <2>8 DEF RemoveTargets, DeleteRule, RemoveConfigRule, RemoveSchedule,
                  DeleteFunction
    <2> QED
      BY <1>1, <2>3, <2>4, <2>5, <2>6, <2>7, <2>8 DEF Next, Custodian, FunctionCall
  <1> QED BY <1>1, Invariance, PTL DEF Spec, KeepsSchedule
=============================================================================
