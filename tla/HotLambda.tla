------------------------------ MODULE HotLambda ------------------------------
(***************************************************************************)
(* A policy lambda: the entry point (c7n/handler.py) and the event driven  *)
(* modes (c7n/policy.py LambdaMode and GuardDutyMode, and SecurityHub of   *)
(* c7n/resources/securityhub.py) in a process that serves one event after  *)
(* the other.  Process-wide state outlives an event: the configuration,    *)
(* which assume_member changes in place, and the sessions that             *)
(* local_session keeps by region (c7n/utils.py).                           *)
(*                                                                         *)
(* A place is an account and a region.  An event that reports a failed API *)
(* call is dropped before anything is read or changed, and is no step here.*)
(***************************************************************************)
EXTENDS Naturals, FiniteSets

CONSTANTS
    Accounts,      \* accounts, the lambda's own included
    Regions,       \* regions
    Home,          \* the account of the lambda's role
    HomeRegion,    \* the region of the lambda
    NoRegion,      \* the region in the ARN of a global resource
    NoSession,     \* no session is cached
    Cold,          \* the configuration of a process that has served no event
    Modes,         \* the modes to look at: see AllModes
    MemberRoles,   \* whether the policy has a member-role
    HubPlaces,     \* where the resources of security hub findings are
    MaxEvents      \* bound: events served

\* event: cloudtrail, ec2-instance-state and asg-instance-state, which do not
\* differ here; guard-duty; hub: hub-finding and hub-action.
AllModes == {"event", "guard-duty", "hub"}

Place == [account : Accounts, region : Regions]
ArnPlace == [account : Accounts, region : Regions \cup {NoRegion}]

ASSUME LambdaAssumption ==
    /\ Home \in Accounts
    /\ HomeRegion \in Regions
    /\ NoRegion \notin Regions
    /\ NoSession \notin Accounts
    /\ Cold \notin Place
    /\ Modes \subseteq AllModes
    /\ MemberRoles \subseteq BOOLEAN
    /\ HubPlaces \subseteq ArnPlace
    /\ MaxEvents \in Nat

VARIABLES
    mode,          \* the policy's mode
    memberRole,    \* the policy has a member-role
    pc,            \* where the invocation is: see Steps
    event,         \* the event being served
    todo,          \* places of a security hub event that are still to do
    place,         \* the place that is being worked on
    config,        \* policy_config: options.account_id and options.region
    factory,       \* the policy's SessionFactory: its region, its role's account
    sessions,      \* CONN_CACHE: the account of the session of each region
    effect,        \* history: the last use made of a session or the options
    served         \* how many events were received

processVars == <<config, factory, sessions>>
vars == <<mode, memberRole, pc, event, todo, place, processVars,
          effect, served>>

Steps == {"idle", "sets", "conditions", "assume", "query", "filter", "act"}

HomePlace == [account |-> Home, region |-> HomeRegion]

\* bus is the account in the event's envelope; places are where the resources
\* that it names are.  An event bus that only serves its own account and region
\* delivers only their events.
LocalEvents == {[bus |-> Home, places |-> {HomePlace}]}
MemberEvents == {[bus |-> pl.account, places |-> {pl}] : pl \in Place}
FindingEvents == {[bus |-> a, places |-> {pl}] : a \in Accounts, pl \in Place}
HubEvents == [bus : Accounts, places : SUBSET HubPlaces \ {{}}]

Events == LocalEvents \cup MemberEvents \cup FindingEvents \cup HubEvents

Delivered ==
    IF mode = "hub" THEN HubEvents
    ELSE IF ~memberRole THEN LocalEvents
    ELSE IF mode = "guard-duty" THEN FindingEvents ELSE MemberEvents

NoEffect == [kind |-> "none", session |-> HomePlace, config |-> HomePlace]

Effects == [kind : {"none", "conditions", "query", "act"},
            session : Place, config : Place]

Init ==
    /\ mode \in Modes
    /\ memberRole \in MemberRoles
    /\ pc = "idle"
    /\ event = [bus |-> Home, places |-> {HomePlace}]
    /\ todo = {}
    /\ place = HomePlace
    /\ config = Cold
    /\ factory = HomePlace
    /\ sessions = [r \in Regions |-> NoSession]
    /\ effect = NoEffect
    /\ served = 0

-----------------------------------------------------------------------------
\* local_session: the account whose credentials are used, from the session that
\* is cached for the factory's region or from a new one.
SessionAccount ==
    IF sessions[factory.region] # NoSession THEN sessions[factory.region]
                                            ELSE factory.account

UseSession == sessions' = [sessions EXCEPT ![factory.region] = SessionAccount]

Effect(kind) ==
    effect' = [kind |-> kind,
               session |-> [account |-> SessionAccount, region |-> factory.region],
               config |-> config]

\* dispatch_event: a cold process loads its configuration; every event builds
\* the policy, and its session factory, from the configuration as it is now.
Receive(e) ==
    /\ pc = "idle" /\ served < MaxEvents
    /\ e \in Delivered
    /\ event' = e
    /\ todo' = e.places
    /\ served' = served + 1
    /\ config' = IF config = Cold THEN HomePlace ELSE config
    /\ factory' = [account |-> Home, region |-> config'.region]
    /\ effect' = NoEffect
    /\ pc' = IF mode = "hub" THEN "sets" ELSE "conditions"
    /\ UNCHANGED <<mode, memberRole, place, sessions>>

\* is_runnable(event): the conditions look at the options, and may look values
\* up with a session.
Evaluate ==
    /\ pc = "conditions"
    /\ Effect("conditions")
    /\ UseSession \/ UNCHANGED sessions
    /\ pc' \in {"assume", "idle"}
    /\ UNCHANGED <<mode, memberRole, event, todo, place, config, factory, served>>

\* SecurityHub.get_resource_sets: an insight's findings are looked up with a
\* session; resources of other accounts need a member-role.
ResourceSets ==
    /\ pc = "sets"
    /\ UseSession \/ UNCHANGED sessions
    /\ pc' = IF ~memberRole /\ {pl.account : pl \in event.places} # {config.account}
               THEN "idle" ELSE "assume"
    /\ UNCHANGED <<mode, memberRole, event, todo, place, config, factory,
                   effect, served>>

\* get_member_account_id: guard duty takes it from the finding, the others from
\* the event; SecurityHub.run hands assume_member an event for each place.
MemberAccount(pl) == IF mode = "event" THEN event.bus ELSE pl.account

\* Mutant: the sessions of earlier events stay cached.
AssumeMemberCached(pl) ==
    /\ pc = "assume" /\ pl \in todo
    /\ IF memberRole /\ pl.region # NoRegion
         THEN /\ config' = [account |-> MemberAccount(pl), region |-> pl.region]
              /\ factory' = [account |-> MemberAccount(pl), region |-> pl.region]
         ELSE UNCHANGED <<config, factory>>
    /\ todo' = todo \ {pl}
    /\ place' = pl
    /\ pc' = "query"
    /\ UNCHANGED <<mode, memberRole, event, sessions, effect, served>>

\* assume_member changes nothing without a member-role, an account or a region.
AssumeMember(pl) ==
    /\ pc = "assume" /\ pl \in todo
    /\ IF memberRole /\ pl.region # NoRegion
         THEN /\ config' = [account |-> MemberAccount(pl), region |-> pl.region]
              /\ factory' = [account |-> MemberAccount(pl), region |-> pl.region]
              /\ sessions' = [r \in Regions |-> NoSession]
         ELSE UNCHANGED processVars
    /\ todo' = todo \ {pl}
    /\ place' = pl
    /\ pc' = "query"
    /\ UNCHANGED <<mode, memberRole, event, effect, served>>

\* The place is done; SecurityHub.run goes on with the next one.
NextPlace == pc' = IF todo = {} THEN "idle" ELSE "assume"

\* resolve_resources: resources are found or not; security hub asks each place
\* for those of all places of the event, and does not filter what it finds.
Query ==
    /\ pc = "query"
    /\ UseSession
    /\ Effect("query")
    /\ \/ pc' = IF mode = "hub" THEN "act" ELSE "filter"
       \/ NextPlace
    /\ UNCHANGED <<mode, memberRole, event, todo, place, config, factory, served>>

FilterResources ==
    /\ pc = "filter"
    /\ pc' \in {"act", "idle"}
    /\ UseSession \/ UNCHANGED sessions
    /\ UNCHANGED <<mode, memberRole, event, todo, place, config, factory,
                   effect, served>>

\* run_resource_set: one action of the policy runs; there may be more.
Act ==
    /\ pc = "act"
    /\ UseSession
    /\ Effect("act")
    /\ pc' = "act" \/ NextPlace
    /\ UNCHANGED <<mode, memberRole, event, todo, place, config, factory, served>>

\* An exception ends the invocation; the process, with its state, stays.
Fails ==
    /\ pc # "idle"
    /\ pc' = "idle"
    /\ UNCHANGED <<mode, memberRole, event, todo, place, processVars,
                   effect, served>>

\* A session that is 45 minutes old is not used any more.
Expire(r) ==
    /\ sessions[r] # NoSession
    /\ sessions' = [sessions EXCEPT ![r] = NoSession]
    /\ UNCHANGED <<mode, memberRole, pc, event, todo, place, config, factory,
                   effect, served>>

\* The process is ended by a timeout or by the service; the next one is cold.
Recycle ==
    /\ pc' = "idle"
    /\ config' = Cold
    /\ factory' = HomePlace
    /\ sessions' = [r \in Regions |-> NoSession]
    /\ effect' = NoEffect
    /\ UNCHANGED <<mode, memberRole, event, todo, place, served>>

Next ==
    \/ \E e \in Events : Receive(e)
    \/ Evaluate \/ ResourceSets
    \/ \E pl \in todo : AssumeMember(pl)
    \/ Query \/ FilterResources \/ Act \/ Fails
    \/ \E r \in Regions : Expire(r)
    \/ Recycle

Spec == Init /\ [][Next]_vars

-----------------------------------------------------------------------------
(***************************************************************************)
(* Properties.                                                             *)
(***************************************************************************)
\* The process is well typed, and no event is served with a configuration that
\* was not loaded (dispatch_event).
TypeOK ==
    /\ mode \in Modes
    /\ memberRole \in MemberRoles
    /\ pc \in Steps
    /\ event \in Events
    /\ todo \in SUBSET ArnPlace
    /\ place \in ArnPlace
    /\ config \in Place \cup {Cold}
    /\ pc # "idle" => config # Cold
    /\ factory \in Place
    /\ sessions \in [Regions -> Accounts \cup {NoSession}]
    /\ effect \in Effects
    /\ served \in 0..MaxEvents

\* Resources at a place are within reach of a session: a global resource is in
\* reach from every region of its account.
Reaches(session, pl) ==
    /\ session.account = pl.account
    /\ pl.region \in {session.region, NoRegion}

Touches == effect.kind \in {"query", "act"}

\* "if a member role is defined we're being run out of the master, and we need
\* to assume back into the member for policy execution" (assume_member): the
\* resources of an event are queried and acted on with credentials of a place
\* that the event is about, and under the options of that place, whatever
\* events and failures the process has seen before.
ActsAtEventPlace ==
    Touches => /\ \E pl \in event.places : Reaches(effect.session, pl)
               /\ effect.config = effect.session
=============================================================================
