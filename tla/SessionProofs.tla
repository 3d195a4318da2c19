---------------------------- MODULE SessionProofs ----------------------------
(***************************************************************************)
(* Proofs about the two components whose processes serve one account after *)
(* the other while c7n.utils.local_session caches their sessions by region:*)
(* the policy lambda (HotLambda) and c7n-org (OrgRun).  Their state is     *)
(* disjoint; each theorem is about one of them.                            *)
(***************************************************************************)
EXTENDS HotLambda, OrgRun, FiniteSetTheorems, TLAPS

(***************************************************************************)
(* HotLambda: whatever events, failures, expired sessions and restarts a   *)
(* process has seen, it queries and acts only at a place of the event that *)
(* it serves.                                                              *)
(***************************************************************************)
\* The deployments ActsAtEventPlace holds for: the resources of security hub
\* findings have a region, and without a member-role those of the lambda's own
\* account are in its own region.  The mode and the role are fixed by Init.
Regional ==
    mode = "hub" => /\ HubPlaces \subseteq Place
                    /\ memberRole \/ \A pl \in HubPlaces : pl.account = Home => pl = HomePlace

\* Without a member-role the process never leaves its own place.
StaysHome ==
    ~memberRole =>
        /\ config \in {Cold, HomePlace}
        /\ factory = HomePlace
        /\ \A r \in Regions : sessions[r] \in {NoSession, Home}

\* The event is one that the deployment receives; without a member-role, one
\* that passed get_resource_sets is about the lambda's own place.
Expected ==
    pc # "idle" => /\ event.places \subseteq Place
                   /\ todo \subseteq event.places
                   /\ ~memberRole /\ pc # "sets" => event.places \subseteq {HomePlace}
                   /\ mode = "event" => \A pl \in event.places : event.bus = pl.account
                   /\ mode # "hub" => \A pl, other \in event.places : pl = other
                   /\ pc = "sets" => mode = "hub" /\ event.places \subseteq HubPlaces

\* From assume_member on, the options, the session factory and every session
\* that is still cached agree on one place of the event.
Assumed ==
    pc \in {"query", "filter", "act"} =>
        /\ config \in event.places /\ place \in event.places
        /\ factory = config
        /\ \A r \in Regions : sessions[r] \in {NoSession, config.account}

PlacesAgree == StaysHome /\ Expected /\ Assumed /\ ActsAtEventPlace

IndInv == TypeOK /\ (Regional => PlacesAgree)

\* The places of an event the deployment receives.
LEMMA DeliveredPlaces ==
    ASSUME Regional, TypeOK, NEW e \in Delivered
    PROVE  /\ e.places \subseteq Place
           /\ ~memberRole /\ mode # "hub" => e.places = {HomePlace}
           /\ mode = "event" => \A pl \in e.places : e.bus = pl.account
           /\ mode # "hub" => \A pl, other \in e.places : pl = other
           /\ mode = "hub" => e.places \subseteq HubPlaces
<1>1. HomePlace \in Place
  BY LambdaAssumption DEF HomePlace, Place
<1>2. CASE mode = "hub"
  BY <1>2 DEF Delivered, HubEvents, Regional
<1>3. CASE mode # "hub" /\ ~memberRole
  <2>1. e = [bus |-> Home, places |-> {HomePlace}]
    BY <1>3 DEF Delivered, LocalEvents
  <2> QED
    BY <1>1, <1>3, <2>1 DEF HomePlace
<1>4. CASE mode = "guard-duty" /\ memberRole
  BY <1>4 DEF Delivered, FindingEvents
<1>5. CASE mode = "event" /\ memberRole
  BY <1>5 DEF Delivered, MemberEvents
<1>6. mode \in AllModes
  BY LambdaAssumption DEF TypeOK
<1> QED
  BY <1>2, <1>3, <1>4, <1>5, <1>6 DEF AllModes

\* Using a session leaves a cached session of an account for the factory's
\* region, and changes no other.
LEMMA SessionUse ==
    ASSUME TypeOK
    PROVE  /\ SessionAccount \in Accounts
           /\ \A x : (\A r \in Regions : sessions[r] \in {NoSession, x})
                     /\ factory.account = x => SessionAccount = x
           /\ UseSession => sessions' \in [Regions -> Accounts \cup {NoSession}]
           /\ UseSession => \A x : (\A r \in Regions : sessions[r] \in {NoSession, x})
                                   /\ factory.account = x =>
                                   \A r \in Regions : sessions'[r] \in {NoSession, x}
<1>1. factory.region \in Regions /\ factory.account \in Accounts
  BY DEF TypeOK, Place
<1>2. SessionAccount \in Accounts
  BY <1>1 DEF TypeOK, SessionAccount
<1>3. ASSUME NEW x, \A r \in Regions : sessions[r] \in {NoSession, x},
             factory.account = x
      PROVE  SessionAccount = x
  BY <1>1, <1>3 DEF SessionAccount
<1>4. UseSession => sessions' \in [Regions -> Accounts \cup {NoSession}]
  BY <1>1, <1>2 DEF UseSession, TypeOK
<1>5. ASSUME UseSession, NEW x, \A r \in Regions : sessions[r] \in {NoSession, x},
             factory.account = x
      PROVE  \A r \in Regions : sessions'[r] \in {NoSession, x}
  BY <1>1, <1>3, <1>5 DEF UseSession, TypeOK
<1> QED
  BY <1>2, <1>3, <1>4, <1>5

\* The inductive invariant holds at first.
LEMMA InitIndInv == Init => IndInv
<1> SUFFICES ASSUME Init PROVE IndInv
  OBVIOUS
<1>1. HomePlace \in Place /\ HomePlace \in ArnPlace
  BY LambdaAssumption DEF HomePlace, Place, ArnPlace
<1>2. event \in Events
  BY DEF Init, Events, LocalEvents
<1>3. effect \in Effects
  BY <1>1 DEF Init, NoEffect, Effects
<1>4. TypeOK
  <2>1. sessions \in [Regions -> Accounts \cup {NoSession}] /\ served \in 0..MaxEvents
    BY LambdaAssumption DEF Init
  <2>2. todo \in SUBSET ArnPlace /\ place \in ArnPlace /\ factory \in Place
    BY <1>1 DEF Init
  <2>3. mode \in Modes /\ memberRole \in MemberRoles
    BY DEF Init
  <2>4. pc \in Steps /\ pc = "idle" /\ config \in Place \cup {Cold}
    BY DEF Init, Steps
  <2> QED
    BY <1>2, <1>3, <2>1, <2>2, <2>3, <2>4, Zenon DEF TypeOK
<1>5. StaysHome /\ Expected /\ Assumed
  BY DEF Init, StaysHome, Expected, Assumed
<1>6. ActsAtEventPlace
  BY DEF Init, ActsAtEventPlace, Touches, NoEffect
<1> QED
  BY <1>4, <1>5, <1>6 DEF IndInv, PlacesAgree

\* A use of a session under the type invariant yields a well typed record of it.
LEMMA EffectType ==
    ASSUME TypeOK, config # Cold, NEW kind \in {"none", "conditions", "query", "act"},
           Effect(kind)
    PROVE  /\ effect' \in Effects
           /\ effect'.kind = kind
           /\ effect'.session = [account |-> SessionAccount, region |-> factory.region]
           /\ effect'.config = config
<1>1. [account |-> SessionAccount, region |-> factory.region] \in Place
  BY SessionUse DEF TypeOK, Place
<1>2. config \in Place
  BY DEF TypeOK
<1> QED
  BY <1>1, <1>2 DEF Effect, Effects

\* Places that an event names.
LEMMA EventPlaces == \A e \in Events : e.places \subseteq ArnPlace
<1> SUFFICES ASSUME NEW e \in Events PROVE e.places \subseteq ArnPlace
  OBVIOUS
<1>1. Place \subseteq ArnPlace /\ HomePlace \in Place
  BY LambdaAssumption DEF Place, ArnPlace, HomePlace
<1>2. CASE e \in LocalEvents
  BY <1>1, <1>2 DEF LocalEvents
<1>3. CASE e \in MemberEvents
  BY <1>1, <1>3 DEF MemberEvents
<1>4. CASE e \in FindingEvents
  BY <1>1, <1>4 DEF FindingEvents
<1>5. CASE e \in HubEvents
  BY <1>5, LambdaAssumption DEF HubEvents
<1> QED
  BY <1>2, <1>3, <1>4, <1>5 DEF Events

\* Using a session keeps what is known of the cached sessions.
LEMMA UseKeeps ==
    ASSUME TypeOK, StaysHome, UNCHANGED <<memberRole, config, factory>>,
           UseSession \/ sessions' = sessions
    PROVE  /\ sessions' \in [Regions -> Accounts \cup {NoSession}]
           /\ StaysHome'
           /\ factory = config
              /\ (\A r \in Regions : sessions[r] \in {NoSession, config.account})
              => \A r \in Regions : sessions'[r] \in {NoSession, config.account}
<1>1. sessions' \in [Regions -> Accounts \cup {NoSession}]
  BY SessionUse DEF TypeOK
<1>2. ASSUME NEW x, \A r \in Regions : sessions[r] \in {NoSession, x},
             factory.account = x
      PROVE  \A r \in Regions : sessions'[r] \in {NoSession, x}
  <2>1. CASE UseSession
    BY <1>2, <2>1, SessionUse
  <2>2. CASE sessions' = sessions
    BY <1>2, <2>2
  <2> QED
    BY <2>1, <2>2
<1>3. StaysHome'
  <2>1. SUFFICES ASSUME ~memberRole
                 PROVE  /\ config \in {Cold, HomePlace} /\ factory = HomePlace
                        /\ \A r \in Regions : sessions'[r] \in {NoSession, Home}
    BY DEF StaysHome
  <2>2. /\ config \in {Cold, HomePlace} /\ factory = HomePlace
        /\ \A r \in Regions : sessions[r] \in {NoSession, Home}
    BY <2>1 DEF StaysHome
  <2>3. factory.account = Home
    BY <2>2 DEF HomePlace
  <2> QED
    BY <1>2, <2>2, <2>3
<1> QED
  BY <1>1, <1>2, <1>3

\* A query or an action from the assumed place is at a place of the event, and
\* the place stays assumed.
LEMMA TouchIsPlaced ==
    ASSUME TypeOK, StaysHome, Expected, Assumed, pc \in {"query", "filter", "act"},
           UNCHANGED <<mode, memberRole, config, factory, event, place>>, UseSession,
           NEW kind \in {"query", "act"}, Effect(kind)
    PROVE  ActsAtEventPlace' /\ Assumed'
<1>1. /\ config \in event.places /\ place \in event.places /\ factory = config
      /\ \A r \in Regions : sessions[r] \in {NoSession, config.account}
  BY DEF Assumed
<1>2. config \in Place /\ config # Cold
  BY <1>1, LambdaAssumption DEF Expected, TypeOK
<1>3. SessionAccount = config.account
  BY <1>1, SessionUse
<1>5. /\ effect'.session = [account |-> config.account, region |-> config.region]
      /\ effect'.config = config
  BY <1>1, <1>2, <1>3, EffectType
<1>6. effect'.session = config
  BY <1>2, <1>5 DEF Place
<1>7. ActsAtEventPlace'
  BY <1>1, <1>5, <1>6 DEF ActsAtEventPlace, Reaches
<1>9. Assumed'
  BY <1>1, UseKeeps DEF Assumed
<1> QED
  BY <1>7, <1>9

\* Every step keeps the types, in every deployment.
LEMMA NextTypes == TypeOK /\ [Next]_vars => TypeOK'
<1> SUFFICES ASSUME TypeOK, [Next]_vars PROVE TypeOK'
  OBVIOUS
<1>h. HomePlace \in Place /\ NoEffect \in Effects /\ Place \subseteq ArnPlace
  BY LambdaAssumption DEF HomePlace, Place, ArnPlace, NoEffect, Effects
<1>1. ASSUME NEW e \in Events, Receive(e) PROVE TypeOK'
  <2>1. config' \in Place /\ config' # Cold
    BY <1>1, <1>h, LambdaAssumption DEF Receive, TypeOK
  <2>2. factory' \in Place
    BY <1>1, <2>1, LambdaAssumption DEF Receive, Place
  <2>3. pc' \in {"sets", "conditions"}
    BY <1>1 DEF Receive
  <2>4. served' \in 0..MaxEvents
    BY <1>1, LambdaAssumption DEF Receive, TypeOK
  <2>5. todo' \in SUBSET ArnPlace
    BY <1>1, EventPlaces DEF Receive
  <2> QED
    BY <1>1, <1>h, <2>1, <2>2, <2>3, <2>4, <2>5, Zenon DEF Receive, TypeOK, Steps
<1>2. CASE Evaluate
  <2>1. pc' \in {"assume", "idle"} /\ config # Cold
    BY <1>2 DEF Evaluate, TypeOK
  <2>2. sessions' \in [Regions -> Accounts \cup {NoSession}]
    BY <1>2, SessionUse DEF Evaluate, TypeOK
  <2>3. effect' \in Effects
    BY <1>2, <2>1, EffectType DEF Evaluate, TypeOK
  <2> QED
    BY <1>2, <2>1, <2>2, <2>3, Zenon DEF Evaluate, TypeOK, Steps
<1>3. CASE ResourceSets
  <2>1. pc' \in {"assume", "idle"} /\ config # Cold
    BY <1>3 DEF ResourceSets, TypeOK
  <2>2. sessions' \in [Regions -> Accounts \cup {NoSession}]
    BY <1>3, SessionUse DEF ResourceSets, TypeOK
  <2> QED
    BY <1>3, <2>1, <2>2, Zenon DEF ResourceSets, TypeOK, Steps
<1>4. ASSUME NEW pl \in todo, AssumeMember(pl) PROVE TypeOK'
  <2>1. pc' = "query" /\ config # Cold /\ pl \in ArnPlace /\ event.places \subseteq ArnPlace
    BY <1>4, EventPlaces DEF AssumeMember, TypeOK
  <2>2. /\ config' \in Place /\ config' # Cold /\ factory' \in Place
        /\ sessions' \in [Regions -> Accounts \cup {NoSession}]
    <3>1. CASE memberRole /\ pl.region # NoRegion
      <4>1. event.bus \in Accounts
        BY LambdaAssumption
        DEF TypeOK, Events, LocalEvents, MemberEvents, FindingEvents, HubEvents, Place
      <4>2. [account |-> MemberAccount(pl), region |-> pl.region] \in Place
        BY <2>1, <3>1, <4>1 DEF MemberAccount, ArnPlace, Place
      <4> QED
        BY <1>4, <3>1, <4>2, LambdaAssumption DEF AssumeMember
    <3>2. CASE ~(memberRole /\ pl.region # NoRegion)
      BY <1>4, <2>1, <3>2 DEF AssumeMember, processVars, TypeOK
    <3> QED
      BY <3>1, <3>2
  <2>3. todo' \in SUBSET ArnPlace /\ place' \in ArnPlace
    BY <1>4 DEF AssumeMember, TypeOK
  <2> QED
    BY <1>4, <2>1, <2>2, <2>3, Zenon DEF AssumeMember, TypeOK, Steps
<1>5. CASE Query \/ Act
  <2>1. pc' \in {"act", "filter", "assume", "idle"} /\ config # Cold
    BY <1>5 DEF Query, Act, NextPlace, TypeOK
  <2>2. sessions' \in [Regions -> Accounts \cup {NoSession}]
    BY <1>5, SessionUse DEF Query, Act
  <2>4. effect' \in Effects
    BY <1>5, <2>1, EffectType DEF Query, Act
  <2> QED
    BY <1>5, <2>1, <2>2, <2>4, Zenon DEF Query, Act, TypeOK, Steps
<1>6. CASE FilterResources
  <2>1. pc' \in {"act", "idle"} /\ config # Cold
    BY <1>6 DEF FilterResources, TypeOK
  <2>2. sessions' \in [Regions -> Accounts \cup {NoSession}]
    BY <1>6, SessionUse DEF FilterResources, TypeOK
  <2> QED
    BY <1>6, <2>1, <2>2, Zenon DEF FilterResources, TypeOK, Steps
<1>7. CASE Fails
  BY <1>7, Zenon DEF Fails, TypeOK, Steps, processVars
<1>8. ASSUME NEW r \in Regions, Expire(r) PROVE TypeOK'
  <2>1. sessions' \in [Regions -> Accounts \cup {NoSession}]
    BY <1>8 DEF Expire, TypeOK
  <2> QED
    BY <1>8, <2>1, Zenon DEF Expire, TypeOK
<1>9. CASE Recycle
  <2>1. sessions' \in [Regions -> Accounts \cup {NoSession}]
    BY <1>9 DEF Recycle
  <2> QED
    BY <1>9, <1>h, <2>1, Zenon DEF Recycle, TypeOK, Steps
<1>10. CASE UNCHANGED vars
  BY <1>10, Zenon DEF vars, processVars, TypeOK
<1> QED
  BY <1>1, <1>2, <1>3, <1>4, <1>5, <1>6, <1>7, <1>8, <1>9, <1>10 DEF Next

\* Every step of a regional deployment keeps the process and the event in
\* agreement.
LEMMA NextPlacesAgree == TypeOK /\ Regional /\ PlacesAgree /\ [Next]_vars => PlacesAgree'
<1> SUFFICES ASSUME TypeOK, Regional, PlacesAgree, [Next]_vars PROVE PlacesAgree'
  OBVIOUS
<1>t. StaysHome /\ Expected /\ Assumed /\ ActsAtEventPlace
  BY DEF PlacesAgree
<1>h. HomePlace \in Place /\ HomePlace.account = Home /\ HomePlace.region = HomeRegion
  BY LambdaAssumption DEF HomePlace, Place
<1>e. ASSUME UNCHANGED <<effect, event, mode>>
      PROVE  ActsAtEventPlace'
  BY <1>t, <1>e DEF ActsAtEventPlace, Touches
<1>1. ASSUME NEW e \in Events, Receive(e) PROVE PlacesAgree'
  <2>1. /\ e.places \subseteq Place
        /\ ~memberRole /\ mode # "hub" => e.places = {HomePlace}
        /\ mode = "event" => \A pl \in e.places : e.bus = pl.account
        /\ mode # "hub" => \A pl, other \in e.places : pl = other
        /\ mode = "hub" => e.places \subseteq HubPlaces
    BY <1>1, DeliveredPlaces DEF Receive
  <2>2. StaysHome'
    BY <1>1, <1>t, <1>h DEF Receive, StaysHome, HomePlace
  <2>3. Expected' /\ Assumed'
    BY <1>1, <2>1 DEF Receive, Expected, Assumed
  <2>4. ActsAtEventPlace'
    BY <1>1 DEF Receive, ActsAtEventPlace, Touches, NoEffect
  <2> QED
    BY <2>2, <2>3, <2>4 DEF PlacesAgree
<1>2. CASE Evaluate
  <2>1. UNCHANGED <<memberRole, config, factory>> /\ (UseSession \/ sessions' = sessions)
    BY <1>2 DEF Evaluate
  <2>2. StaysHome'
    BY <1>t, <2>1, UseKeeps
  <2>3. Expected' /\ Assumed'
    BY <1>2, <1>t DEF Evaluate, Expected, Assumed
  <2>4. ActsAtEventPlace'
    BY <1>2 DEF Evaluate, Effect, ActsAtEventPlace, Touches
  <2> QED
    BY <2>2, <2>3, <2>4 DEF PlacesAgree
<1>3. CASE ResourceSets
  <2>1. UNCHANGED <<memberRole, config, factory>> /\ (UseSession \/ sessions' = sessions)
    BY <1>3 DEF ResourceSets
  <2>2. StaysHome'
    BY <1>t, <2>1, UseKeeps
  <2>3. ASSUME ~memberRole, pc' # "idle" PROVE event.places \subseteq {HomePlace}
    <3>1. config = HomePlace /\ mode = "hub" /\ event.places \subseteq HubPlaces
      BY <1>3, <1>t, <2>3
      DEF ResourceSets, StaysHome, Expected, TypeOK
    <3>2. \A pl \in event.places : pl.account = Home
      BY <1>3, <1>h, <2>3, <3>1 DEF ResourceSets
    <3> QED
      BY <2>3, <3>1, <3>2 DEF Regional
  <2>4. Expected' /\ Assumed'
    BY <1>3, <1>t, <2>3 DEF ResourceSets, Expected, Assumed
  <2>5. ActsAtEventPlace'
    BY <1>3, <1>e DEF ResourceSets
  <2> QED
    BY <2>2, <2>4, <2>5 DEF PlacesAgree
<1>4. ASSUME NEW pl \in todo, AssumeMember(pl) PROVE PlacesAgree'
  <2>1. pc = "assume" /\ pc' = "query" /\ config # Cold
    BY <1>4 DEF AssumeMember, TypeOK
  <2>2. /\ event.places \subseteq Place /\ todo \subseteq event.places
        /\ ~memberRole => event.places \subseteq {HomePlace}
        /\ mode = "event" => \A x \in event.places : event.bus = x.account
    BY <1>t, <2>1 DEF Expected
  <2>3. pl \in Place /\ pl \in event.places /\ pl.region # NoRegion
    BY <2>2, LambdaAssumption DEF Place
  <2>4. pl = [account |-> pl.account, region |-> pl.region] /\ MemberAccount(pl) = pl.account
    BY <2>2, <2>3 DEF Place, MemberAccount
  <2>5. Expected'
    BY <1>4, <1>t, <2>1 DEF AssumeMember, Expected
  <2>6. ActsAtEventPlace'
    BY <1>4, <1>e DEF AssumeMember
  <2>7. CASE memberRole
    <3>1. /\ config' = pl /\ factory' = pl
          /\ sessions' = [r \in Regions |-> NoSession]
      BY <1>4, <2>3, <2>4, <2>7 DEF AssumeMember
    <3>2. StaysHome' /\ Assumed'
      BY <1>4, <2>3, <2>7, <3>1 DEF AssumeMember, StaysHome, Assumed
    <3> QED
      BY <2>5, <2>6, <3>2 DEF PlacesAgree
  <2>8. CASE ~memberRole
    <3>1. UNCHANGED processVars
      BY <1>4, <2>8 DEF AssumeMember
    <3>2. /\ config = HomePlace /\ factory = HomePlace
          /\ \A r \in Regions : sessions[r] \in {NoSession, Home}
      BY <1>t, <2>1, <2>8 DEF StaysHome
    <3>3. StaysHome'
      BY <1>4, <1>t, <3>1 DEF AssumeMember, StaysHome, processVars
    <3>4. Assumed'
      BY <1>4, <1>h, <2>2, <2>3, <2>8, <3>1, <3>2 DEF AssumeMember, Assumed, processVars
    <3> QED
      BY <2>5, <2>6, <3>3, <3>4 DEF PlacesAgree
  <2> QED
    BY <2>7, <2>8
<1>5. CASE Query \/ Act
  <2>1. pc \in {"query", "act"} /\ pc' \in {"act", "filter", "assume", "idle"}
    BY <1>5 DEF Query, Act, NextPlace
  <2>2. /\ UNCHANGED <<mode, memberRole, config, factory, event, place, todo>>
        /\ UseSession
    BY <1>5 DEF Query, Act
  <2>3. Effect("query") \/ Effect("act")
    BY <1>5 DEF Query, Act
  <2>4. StaysHome'
    BY <1>t, <2>2, UseKeeps
  <2>5. ActsAtEventPlace' /\ Assumed'
    BY <1>t, <2>1, <2>2, <2>3, TouchIsPlaced
  <2>6. Expected'
    BY <1>t, <2>1, <2>2 DEF Expected
  <2> QED
    BY <2>4, <2>5, <2>6 DEF PlacesAgree
<1>6. CASE FilterResources
  <2>1. pc = "filter" /\ pc' \in {"act", "idle"}
    BY <1>6 DEF FilterResources
  <2>2. UNCHANGED <<memberRole, config, factory>> /\ (UseSession \/ sessions' = sessions)
    BY <1>6 DEF FilterResources
  <2>3. StaysHome'
    BY <1>t, <2>2, UseKeeps
  <2>4. Expected'
    BY <1>6, <1>t, <2>1 DEF FilterResources, Expected
  <2>5. Assumed'
    <3>1. /\ config \in event.places /\ place \in event.places /\ factory = config
          /\ \A r \in Regions : sessions[r] \in {NoSession, config.account}
      BY <1>t, <2>1 DEF Assumed
    <3>2. \A r \in Regions : sessions'[r] \in {NoSession, config.account}
      BY <1>t, <2>2, <3>1, UseKeeps
    <3> QED
      BY <1>6, <2>2, <3>1, <3>2 DEF FilterResources, Assumed
  <2>6. ActsAtEventPlace'
    BY <1>6, <1>e DEF FilterResources
  <2> QED
    BY <2>3, <2>4, <2>5, <2>6 DEF PlacesAgree
<1>7. CASE Fails
  <2>1. StaysHome' /\ Expected' /\ Assumed'
    BY <1>7, <1>t DEF Fails, StaysHome, Expected, Assumed, processVars
  <2>2. ActsAtEventPlace'
    BY <1>7, <1>e DEF Fails
  <2> QED
    BY <2>1, <2>2 DEF PlacesAgree
<1>8. ASSUME NEW r \in Regions, Expire(r) PROVE PlacesAgree'
  <2>1. \A x \in Regions : sessions'[x] \in {NoSession, sessions[x]}
    BY <1>8 DEF Expire, TypeOK
  <2>2. StaysHome' /\ Expected' /\ Assumed'
    BY <1>8, <1>t, <2>1 DEF Expire, StaysHome, Expected, Assumed
  <2>3. ActsAtEventPlace'
    BY <1>8, <1>e DEF Expire
  <2> QED
    BY <2>2, <2>3 DEF PlacesAgree
<1>9. CASE Recycle
  <2>1. StaysHome' /\ Expected' /\ Assumed'
    BY <1>9 DEF Recycle, StaysHome, Expected, Assumed
  <2>2. ActsAtEventPlace'
    BY <1>9 DEF Recycle, ActsAtEventPlace, Touches, NoEffect
  <2> QED
    BY <2>1, <2>2 DEF PlacesAgree
<1>10. CASE UNCHANGED vars
  <2>1. StaysHome' /\ Expected' /\ Assumed'
    BY <1>10, <1>t DEF vars, processVars, StaysHome, Expected, Assumed
  <2>2. ActsAtEventPlace'
    BY <1>10, <1>e DEF vars
  <2> QED
    BY <2>1, <2>2 DEF PlacesAgree
<1> QED
  BY <1>1, <1>2, <1>3, <1>4, <1>5, <1>6, <1>7, <1>8, <1>9, <1>10 DEF Next

\* No step changes the deployment, so that one that is regional stays so.
LEMMA IndInvAlways == Spec => []IndInv
<1>1. IndInv /\ [Next]_vars => IndInv'
  <2> SUFFICES ASSUME IndInv, [Next]_vars PROVE IndInv'
    OBVIOUS
  <2>1. UNCHANGED <<mode, memberRole>>
    BY DEF Next, Receive, Evaluate, ResourceSets, AssumeMember, Query, FilterResources, Act,
           Fails, Expire, Recycle, vars
  <2>2. Regional' => Regional
    BY <2>1 DEF Regional
  <2> QED
    BY <2>2, NextTypes, NextPlacesAgree DEF IndInv
<1> QED
  BY <1>1, InitIndInv, PTL DEF Spec

\* The configuration, the session factory and the session cache of a process
\* are well typed, and loaded whenever an event is being served.
THEOREM LambdaTypeCorrect == Spec => []TypeOK
<1>1. IndInv => TypeOK
  BY DEF IndInv
<1> QED
  BY <1>1, IndInvAlways, PTL

\* assume_member: resources are queried and acted on only with credentials and
\* options of a place of the event, for any accounts, regions and events, after
\* any failures, expired sessions and restarts.
THEOREM ActsOnlyAtEventPlace == Spec => [](Regional => ActsAtEventPlace)
<1>1. IndInv => (Regional => ActsAtEventPlace)
  BY DEF IndInv, PlacesAgree
<1> QED
  BY <1>1, IndInvAlways, PTL

-----------------------------------------------------------------------------
(***************************************************************************)
(* OrgRun: for any accounts, regions, policies, pool of workers and faults,*)
(* every policy runs with its account's credentials, and the counts and    *)
(* the exit code are those of the runs.                                    *)
(***************************************************************************)
\* A task that runs is in one worker.
OneWorkerPerTask ==
    \A w \in Workers : Busy(w) =>
        /\ future[runs[w]] = "running"
        /\ \A v \in Workers : runs[v] = runs[w] => v = w

\* Between two tasks a worker has neither sessions nor credentials of an
\* account, and in a task only those of its account.
Clean(w) ==
    IF Busy(w)
      THEN /\ environ[w] = (IF Account(w) \in Chained THEN Account(w) ELSE None)
           /\ \A r \in RegionNames : conn_cache[w][r] \in {None, Account(w)}
      ELSE broken \/ (environ[w] = None /\ \A r \in RegionNames : conn_cache[w][r] = None)

\* No task of an account that is still to be submitted has a future.
NotYetSubmitted ==
    \A i \in 1..Len(accounts), t \in Tasks :
        next <= i /\ t[1] = accounts[i] => future[t] = "none"

\* The main process has only seen futures that ended, and no failure of theirs
\* escaped it.
SeenIsFinal ==
    \A t \in collected :
        /\ future[t] \in {"done", "raised"}
        /\ success /\ future[t] = "done" => fine[t]

OrgInv ==
    /\ ReportIsTrue /\ OwnCredentials
    /\ OneWorkerPerTask /\ NotYetSubmitted /\ SeenIsFinal
    /\ \A w \in Workers : Clean(w)

\* A task is an account and one of its regions.
LEMMA TaskParts == \A t \in Tasks : t[1] \in Named /\ t[2] \in RegionNames
  BY DEF Tasks

\* The lists of accounts and of policies hold names of them.
LEMMA ListFacts ==
    /\ Len(accounts) \in Nat /\ Len(Policies) \in Nat
    /\ \A i \in 1..Len(Policies) : Policies[i] \in PolicyNames
    /\ \A i \in 1..Len(accounts) : accounts[i] \in Named
<1>1. accounts \in Seq(Named) /\ Policies \in Seq(PolicyNames)
  BY OrgAssumption
<1>2. Len(accounts) \in Nat /\ Len(Policies) \in Nat
  BY <1>1
<1>3. \A i \in 1..Len(Policies) : Policies[i] \in PolicyNames
  BY DEF PolicyNames
<1>4. \A i \in 1..Len(accounts) : accounts[i] \in Named
  BY DEF Named
<1> QED
  BY <1>2, <1>3, <1>4

\* The inductive invariant holds at first.
LEMMA InitOrgInv == OrgInit => OrgInv
<1> SUFFICES ASSUME OrgInit PROVE OrgInv
  OBVIOUS
<1> USE OrgAssumption, ListFacts
<1>1. OrgTypeOK
  <2>1. next \in 1..(Len(accounts) + 1) /\ at \in [Tasks -> 1..(Len(Policies) + 1)]
    BY DEF OrgInit
  <2>2. counts \in [Tasks -> [PolicyNames -> 0..MaxResources]]
        /\ policy_counts \in [PolicyNames -> Nat]
    BY DEF OrgInit
  <2>3. future \in [Tasks -> FutureStates] /\ fine \in [Tasks -> BOOLEAN]
    BY DEF OrgInit, FutureStates
  <2>4. /\ conn_cache \in [Workers -> [RegionNames -> Named \cup {None}]]
        /\ environ \in [Workers -> Named \cup {None}]
        /\ runs \in [Workers -> Tasks \cup {None}]
    BY DEF OrgInit
  <2> QED
    BY <2>1, <2>2, <2>3, <2>4 DEF OrgInit, OrgTypeOK
<1>2. CountsAreSums
  <2>1. \A p \in PolicyNames :
           {x \in collected \X (1..MaxResources) :
               future[x[1]] = "done" /\ x[2] <= counts[x[1]][p]} = {}
    BY DEF OrgInit
  <2> QED
    BY <2>1, FS_EmptySet DEF OrgInit, CountsAreSums
<1>3. ZeroMeansNoFailure /\ FailuresAreContained /\ OwnCredentials
  BY DEF OrgInit, ZeroMeansNoFailure, FailuresAreContained, OwnCredentials
<1>4. OneWorkerPerTask /\ NotYetSubmitted /\ SeenIsFinal
  BY DEF OrgInit, OneWorkerPerTask, NotYetSubmitted, SeenIsFinal, Busy
<1>5. \A w \in Workers : Clean(w)
  BY DEF OrgInit, Clean, Busy
<1> QED
  BY <1>1, <1>2, <1>3, <1>4, <1>5 DEF OrgInv, ReportIsTrue

-----------------------------------------------------------------------------
(***************************************************************************)
(* What a busy worker does.                                                *)
(***************************************************************************)
\* A worker in a task has its account's session, cached or new.
LEMMA SessionIsOwn ==
    ASSUME OrgTypeOK, NEW w \in Workers, Clean(w), Busy(w)
    PROVE  /\ runs[w] \in Tasks /\ Account(w) \in Named /\ Region(w) \in RegionNames
           /\ Session(w) = Account(w)
           /\ environ[w] = (IF Account(w) \in Chained THEN Account(w) ELSE None)
<1>1. runs[w] \in Tasks
  BY DEF OrgTypeOK, Busy
<1>2. Account(w) \in Named /\ Region(w) \in RegionNames
  BY <1>1, TaskParts DEF Account, Region
<1>3. environ[w] = (IF Account(w) \in Chained THEN Account(w) ELSE None)
      /\ conn_cache[w][Region(w)] \in {None, Account(w)}
  BY <1>2 DEF Clean
<1> QED
  BY <1>1, <1>2, <1>3 DEF Session

\* Its session is cached for its region.
LEMMA RunsTypes ==
    ASSUME OrgTypeOK, NEW w \in Workers, Clean(w), Busy(w), Runs(w)
    PROVE  /\ conn_cache' \in [Workers -> [RegionNames -> Named \cup {None}]]
           /\ conn_cache' = [conn_cache EXCEPT ![w] =
                              [conn_cache[w] EXCEPT ![Region(w)] = Account(w)]]
           /\ acted' = acted \cup {[for |-> Account(w), as |-> Account(w),
                                    env |-> environ[w]]}
           /\ acted' \subseteq [for : Named, as : Named, env : Named \cup {None}]
<1>1. Account(w) \in Named /\ Region(w) \in RegionNames /\ Session(w) = Account(w)
  BY SessionIsOwn
<1> DEFINE mine == [conn_cache[w] EXCEPT ![Region(w)] = Account(w)]
<1>2. mine \in [RegionNames -> Named \cup {None}]
  BY <1>1 DEF OrgTypeOK
<1>3. conn_cache' = [conn_cache EXCEPT ![w] = mine]
  BY <1>1 DEF Runs, OrgTypeOK
<1> HIDE DEF mine
<1>4. conn_cache' \in [Workers -> [RegionNames -> Named \cup {None}]]
  BY <1>2, <1>3 DEF OrgTypeOK
<1>5. acted' = acted \cup {[for |-> Account(w), as |-> Account(w), env |-> environ[w]]}
  BY <1>1 DEF Runs
<1>6. environ[w] \in Named \cup {None}
  BY DEF OrgTypeOK
<1>7. acted' \subseteq [for : Named, as : Named, env : Named \cup {None}]
  BY <1>1, <1>5, <1>6 DEF OrgTypeOK
<1> QED
  BY <1>3, <1>4, <1>5, <1>7 DEF mine

\* Leaving environ keeps the types of the worker's state.
LEMMA LeaveTypes ==
    ASSUME OrgTypeOK, NEW w \in Workers, Leave(w)
    PROVE  /\ runs' \in [Workers -> Tasks \cup {None}]
           /\ environ' \in [Workers -> Named \cup {None}]
           /\ conn_cache' \in [Workers -> [RegionNames -> Named \cup {None}]]
<1>1. [r \in RegionNames |-> None] \in [RegionNames -> Named \cup {None}]
  OBVIOUS
<1> QED
  BY <1>1 DEF OrgTypeOK, Leave

\* The faults that are left stay numbers.
LEMMA SpendTypes ==
    ASSUME OrgTypeOK, NEW k \in FaultKinds, Spend(k)
    PROVE  faults' \in [FaultKinds -> Nat]
  BY DEF OrgTypeOK, Spend

\* Every step keeps the types.
LEMMA NextOrgTypes == OrgInv /\ [OrgNext]_orgVars => OrgTypeOK'
<1> SUFFICES ASSUME OrgInv, [OrgNext]_orgVars PROVE OrgTypeOK'
  OBVIOUS
<1> USE OrgAssumption, ListFacts
<1>0. OrgTypeOK /\ \A w \in Workers : Clean(w)
  BY DEF OrgInv, ReportIsTrue
<1>k. \A k \in FaultKinds : Spend(k) => faults' \in [FaultKinds -> Nat]
  BY <1>0, SpendTypes
<1>1. ASSUME Submit PROVE OrgTypeOK'
  <2>1. future' \in [Tasks -> FutureStates]
    BY <1>0, <1>1 DEF Submit, OrgTypeOK, FutureStates
  <2> QED
    BY <1>0, <1>1, <2>1 DEF Submit, Submitting, OrgTypeOK, taskVars, workerVars
<1>2. ASSUME SubmitDenied \/ SubmitRaises PROVE OrgTypeOK'
  <2>1. faults' \in [FaultKinds -> Nat]
    BY <1>0, <1>2, <1>k DEF SubmitDenied, SubmitRaises, OrgTypeOK, FaultKinds
  <2>2. next' \in 1..(Len(accounts) + 1)
    BY <1>0, <1>2 DEF SubmitDenied, SubmitRaises, Submitting, OrgTypeOK
  <2> QED
    BY <1>0, <1>2, <2>1, <2>2 DEF SubmitDenied, SubmitRaises, OrgTypeOK, taskVars, workerVars
<1>3. ASSUME Submitted PROVE OrgTypeOK'
  BY <1>0, <1>3 DEF Submitted, OrgTypeOK, taskVars, workerVars
<1>4. ASSUME Exit PROVE OrgTypeOK'
  BY <1>0, <1>4 DEF Exit, OrgTypeOK, taskVars, workerVars
<1>5. ASSUME NEW t \in Tasks, Collect(t) PROVE OrgTypeOK'
  <2>1. \A p \in PolicyNames : policy_counts[p] + counts[t][p] \in Nat
    BY <1>0 DEF OrgTypeOK
  <2>2. policy_counts' \in [PolicyNames -> Nat] /\ fine[t] \in BOOLEAN
    BY <1>0, <1>5, <2>1 DEF Collect, OrgTypeOK
  <2> QED
    BY <1>0, <1>5, <2>2 DEF Collect, OrgTypeOK, taskVars, workerVars
<1>6. ASSUME NEW t \in Tasks, CollectRaised(t) PROVE OrgTypeOK'
  BY <1>0, <1>6 DEF CollectRaised, OrgTypeOK, taskVars, workerVars
<1>7. ASSUME NEW w \in Workers, NEW t \in Tasks, Start(w, t) PROVE OrgTypeOK'
  <2>1. t[1] \in Named
    BY TaskParts
  <2> QED
    BY <1>0, <1>7, <2>1 DEF Start, OrgTypeOK, FutureStates, mainVars, taskVars
<1>8. ASSUME NEW w \in Workers, NEW t \in Tasks, StartRaises(w, t) PROVE OrgTypeOK'
  BY <1>0, <1>8, <1>k
  DEF StartRaises, OrgTypeOK, FutureStates, FaultKinds, mainVars, taskVars, workerVars
<1>9. ASSUME NEW w \in Workers, Running(w)
      PROVE  /\ runs[w] \in Tasks /\ Policy(w) \in PolicyNames
             /\ Advance(w) => at' \in [Tasks -> 1..(Len(Policies) + 1)]
  <2>1. runs[w] \in Tasks
    BY <1>0, <1>9 DEF Running, Busy, OrgTypeOK
  <2>2. at[runs[w]] \in 1..Len(Policies)
    BY <1>0, <1>9, <2>1 DEF Running, OrgTypeOK
  <2>3. at[runs[w]] + 1 \in 1..(Len(Policies) + 1)
    BY <2>2
  <2>4. Policy(w) \in PolicyNames
    BY <2>2 DEF Policy
  <2>5. ASSUME Advance(w) PROVE at' \in [Tasks -> 1..(Len(Policies) + 1)]
    BY <1>0, <2>1, <2>3, <2>5 DEF Advance, OrgTypeOK
  <2> QED
    BY <2>1, <2>4, <2>5
<1>10. ASSUME NEW w \in Workers, NEW n \in 0..MaxResources, RunPolicy(w, n)
       PROVE  OrgTypeOK'
  <2>1. Running(w) /\ Runs(w) /\ Advance(w) /\ Busy(w)
    BY <1>10 DEF RunPolicy, Running
  <2> DEFINE new == [counts[runs[w]] EXCEPT ![Policy(w)] = n]
  <2>2. runs[w] \in Tasks /\ new \in [PolicyNames -> 0..MaxResources]
    BY <1>0, <1>9, <2>1 DEF OrgTypeOK
  <2>3. counts' = [counts EXCEPT ![runs[w]] = new]
    BY <1>0, <1>10, <2>2 DEF RunPolicy, OrgTypeOK
  <2> HIDE DEF new
  <2>4. counts' \in [Tasks -> [PolicyNames -> 0..MaxResources]]
    BY <1>0, <2>2, <2>3 DEF OrgTypeOK
  <2>5. /\ conn_cache' \in [Workers -> [RegionNames -> Named \cup {None}]]
        /\ acted' \subseteq [for : Named, as : Named, env : Named \cup {None}]
    BY <1>0, <2>1, RunsTypes
  <2> QED
    BY <1>0, <1>9, <1>10, <2>1, <2>4, <2>5 DEF RunPolicy, OrgTypeOK, mainVars
<1>11. ASSUME NEW w \in Workers, RunPolicyFails(w) PROVE OrgTypeOK'
  <2>1. Running(w) /\ Runs(w) /\ Advance(w) /\ Busy(w)
    BY <1>11 DEF RunPolicyFails, Running
  <2>2. /\ conn_cache' \in [Workers -> [RegionNames -> Named \cup {None}]]
        /\ acted' \subseteq [for : Named, as : Named, env : Named \cup {None}]
    BY <1>0, <2>1, RunsTypes
  <2>3. faults' \in [FaultKinds -> Nat]
    BY <1>k, <1>11 DEF RunPolicyFails, FaultKinds
  <2> QED
    BY <1>0, <1>9, <1>11, <2>1, <2>2, <2>3 DEF RunPolicyFails, OrgTypeOK, mainVars
<1>12. ASSUME NEW w \in Workers, RunPolicyDenied(w) PROVE OrgTypeOK'
  <2>1. Running(w) /\ Busy(w) /\ Leave(w) /\ runs[w] \in Tasks
    BY <1>9, <1>12 DEF RunPolicyDenied, Running
  <2>2. Account(w) \in Named /\ Session(w) \in Named /\ environ[w] \in Named \cup {None}
    BY <1>0, <2>1, SessionIsOwn DEF OrgTypeOK
  <2>3. acted' \subseteq [for : Named, as : Named, env : Named \cup {None}]
    BY <1>0, <1>12, <2>2 DEF RunPolicyDenied, OrgTypeOK
  <2>4. faults' \in [FaultKinds -> Nat]
    BY <1>k, <1>12 DEF RunPolicyDenied, FaultKinds
  <2>5. future' \in [Tasks -> FutureStates] /\ fine' \in [Tasks -> BOOLEAN]
        /\ denied' \subseteq Tasks
    BY <1>0, <1>12, <2>1 DEF RunPolicyDenied, OrgTypeOK, FutureStates
  <2> QED
    BY <1>0, <1>12, <2>1, <2>3, <2>4, <2>5, LeaveTypes DEF RunPolicyDenied, OrgTypeOK, mainVars
<1>13. ASSUME NEW w \in Workers, PolicyInvalid(w) \/ Finish(w) PROVE OrgTypeOK'
  <2>1. Leave(w)
    BY <1>13 DEF PolicyInvalid, Finish
  <2>2. faults' \in [FaultKinds -> Nat]
    BY <1>0, <1>k, <1>13 DEF PolicyInvalid, Finish, FaultKinds, OrgTypeOK
  <2>3. future' \in [Tasks -> FutureStates]
    BY <1>0, <1>13 DEF PolicyInvalid, Finish, OrgTypeOK, FutureStates
  <2> QED
    BY <1>0, <1>13, <2>1, <2>2, <2>3, LeaveTypes
    DEF PolicyInvalid, Finish, OrgTypeOK, mainVars, taskVars
<1>14. ASSUME NEW w \in Workers, WorkerDies(w) PROVE OrgTypeOK'
  <2>1. faults' \in [FaultKinds -> Nat]
    BY <1>k, <1>14 DEF WorkerDies, FaultKinds
  <2>2. future' \in [Tasks -> FutureStates]
    BY <1>0, <1>14 DEF WorkerDies, OrgTypeOK, FutureStates
  <2> QED
    BY <1>0, <1>14, <2>1, <2>2 DEF WorkerDies, OrgTypeOK, mainVars, taskVars
<1>15. ASSUME UNCHANGED orgVars PROVE OrgTypeOK'
  BY <1>0, <1>15 DEF OrgTypeOK, orgVars, mainVars, taskVars, workerVars
<1> QED
  BY <1>1, <1>2, <1>3, <1>4, <1>5, <1>6, <1>7, <1>8, <1>10, <1>11, <1>12, <1>13,
     <1>14, <1>15
  DEF OrgNext, Main, Worker, Done

-----------------------------------------------------------------------------
(***************************************************************************)
(* Futures.                                                                *)
(***************************************************************************)
\* A worker that changes a task's results is in that task, so that the results
\* of a future that ended are final; so is the main process's account of it.
LEMMA EndedIsFinal ==
    ASSUME OrgInv, [OrgNext]_orgVars, NEW t \in Tasks, future[t] \in {"done", "raised"}
    PROVE  /\ future'[t] = future[t] /\ counts'[t] = counts[t]
           /\ fine'[t] = fine[t] /\ at'[t] = at[t]
<1> USE OrgAssumption, ListFacts
<1>0. OrgTypeOK /\ OneWorkerPerTask /\ NotYetSubmitted
  BY DEF OrgInv, ReportIsTrue
<1>d. ASSUME NEW w \in Workers, Busy(w) PROVE runs[w] # t
  BY <1>0, <1>d DEF OneWorkerPerTask
<1>1. ASSUME Submit
      PROVE  future'[t] = future[t]
  BY <1>0, <1>1 DEF Submit, Submitting, OrgTypeOK, NotYetSubmitted
<1>2. ASSUME NEW w \in Workers, NEW u \in Tasks, Start(w, u) \/ StartRaises(w, u)
      PROVE  future'[t] = future[t]
  BY <1>0, <1>2 DEF Start, StartRaises, OrgTypeOK
<1>3. ASSUME NEW w \in Workers, NEW n \in 0..MaxResources,
             RunPolicy(w, n) \/ RunPolicyFails(w) \/ RunPolicyDenied(w)
             \/ PolicyInvalid(w) \/ Finish(w)
      PROVE  /\ future'[t] = future[t] /\ counts'[t] = counts[t]
             /\ fine'[t] = fine[t] /\ at'[t] = at[t]
  <2>1. Busy(w) /\ runs[w] # t
    BY <1>d, <1>3 DEF RunPolicy, RunPolicyFails, RunPolicyDenied, PolicyInvalid, Finish, Running
  <2> QED
    BY <1>0, <1>3, <2>1
    DEF RunPolicy, RunPolicyFails, RunPolicyDenied, PolicyInvalid, Finish, Advance,
        OrgTypeOK, taskVars
<1>4. ASSUME NEW w \in Workers, WorkerDies(w)
      PROVE  future'[t] = future[t]
  BY <1>0, <1>4 DEF WorkerDies, OrgTypeOK
<1>5. 0 \in 0..MaxResources
  OBVIOUS
<1> QED
  BY <1>1, <1>2, <1>3, <1>4, <1>5
  DEF OrgNext, Main, Worker, Done, Submit, SubmitDenied, SubmitRaises, Submitted, Exit, Collect,
      CollectRaised, Start, StartRaises, WorkerDies, orgVars, taskVars

\* A task stays in one worker.
LEMMA NextOneWorker == OrgInv /\ [OrgNext]_orgVars => OneWorkerPerTask'
<1> SUFFICES ASSUME OrgInv, [OrgNext]_orgVars PROVE OneWorkerPerTask'
  OBVIOUS
<1> USE OrgAssumption, ListFacts
<1>0. OrgTypeOK /\ OneWorkerPerTask /\ NotYetSubmitted
  BY DEF OrgInv, ReportIsTrue
<1>1. ASSUME Submit PROVE OneWorkerPerTask'
  <2>1. \A w \in Workers : Busy(w) => runs[w] \in Tasks
    BY <1>0 DEF Busy, OrgTypeOK
  <2>2. \A t \in Tasks : future[t] = "running" => future'[t] = "running"
    BY <1>0, <1>1 DEF Submit, Submitting, NotYetSubmitted, OrgTypeOK
  <2> QED
    BY <1>0, <1>1, <2>1, <2>2 DEF Submit, OneWorkerPerTask, Busy, workerVars
<1>2. ASSUME NEW w \in Workers, NEW t \in Tasks, Start(w, t) PROVE OneWorkerPerTask'
  BY <1>0, <1>2 DEF Start, OneWorkerPerTask, Busy, OrgTypeOK
<1>3. ASSUME NEW w \in Workers, NEW t \in Tasks, StartRaises(w, t) PROVE OneWorkerPerTask'
  BY <1>0, <1>3 DEF StartRaises, OneWorkerPerTask, Busy, OrgTypeOK, workerVars
<1>4. ASSUME NEW w \in Workers, NEW n \in 0..MaxResources, RunPolicy(w, n) \/ RunPolicyFails(w)
      PROVE  OneWorkerPerTask'
  BY <1>0, <1>4 DEF RunPolicy, RunPolicyFails, OneWorkerPerTask, Busy
<1>5. ASSUME NEW w \in Workers, RunPolicyDenied(w) \/ PolicyInvalid(w) \/ Finish(w)
      PROVE  OneWorkerPerTask'
  <2>1. Busy(w) /\ Leave(w)
    BY <1>5 DEF RunPolicyDenied, PolicyInvalid, Finish, Running
  <2>2. \A v \in Workers : v # w /\ Busy(v) => runs[v] # runs[w] /\ runs[v] \in Tasks
    BY <1>0, <2>1 DEF OneWorkerPerTask, Busy, OrgTypeOK
  <2>3. \A t \in Tasks : t # runs[w] => future'[t] = future[t]
    BY <1>0, <1>5 DEF RunPolicyDenied, PolicyInvalid, Finish, OrgTypeOK
  <2> QED
    BY <1>0, <2>1, <2>2, <2>3 DEF Leave, OneWorkerPerTask, Busy, OrgTypeOK
<1>6. ASSUME NEW w \in Workers, WorkerDies(w) PROVE OneWorkerPerTask'
  BY <1>6 DEF WorkerDies, OneWorkerPerTask, Busy
<1>7. ASSUME UNCHANGED <<future, runs>> PROVE OneWorkerPerTask'
  BY <1>0, <1>7 DEF OneWorkerPerTask, Busy
<1>8. 0 \in 0..MaxResources
  OBVIOUS
<1> QED
  BY <1>1, <1>2, <1>3, <1>4, <1>5, <1>6, <1>7, <1>8
  DEF OrgNext, Main, Worker, Done, SubmitDenied, SubmitRaises, Submitted, Exit, Collect,
      CollectRaised, orgVars, workerVars

\* Accounts are submitted in order, each once.
LEMMA NextNotYetSubmitted == OrgInv /\ [OrgNext]_orgVars => NotYetSubmitted'
<1> SUFFICES ASSUME OrgInv, [OrgNext]_orgVars,
                    NEW i \in 1..Len(accounts), NEW t \in Tasks,
                    next' <= i, t[1] = accounts[i]
             PROVE  future'[t] = "none"
  BY DEF NotYetSubmitted
<1> USE OrgAssumption, ListFacts
<1>0. OrgTypeOK /\ OneWorkerPerTask /\ NotYetSubmitted
  BY DEF OrgInv, ReportIsTrue
<1>1. next \in Nat
  BY <1>0 DEF OrgTypeOK
<1>n. next' \in {next, next + 1}
  BY DEF OrgNext, Main, Worker, Done, Submit, SubmitDenied, SubmitRaises, Submitted, Exit,
     Collect, CollectRaised, Start, StartRaises, RunPolicy, RunPolicyFails, RunPolicyDenied,
     PolicyInvalid, Finish, WorkerDies, orgVars, mainVars
<1>2. future[t] = "none"
  BY <1>0, <1>1, <1>n DEF NotYetSubmitted
<1>3. ASSUME Submit PROVE future'[t] = "none"
  BY <1>0, <1>1, <1>2, <1>3 DEF Submit, Submitting, OrgTypeOK
<1>4. ASSUME NEW w \in Workers, NEW u \in Tasks, Start(w, u) \/ StartRaises(w, u)
      PROVE  future'[t] = "none"
  BY <1>0, <1>2, <1>4 DEF Start, StartRaises, OrgTypeOK
<1>5. ASSUME NEW w \in Workers, RunPolicyDenied(w) \/ PolicyInvalid(w) \/ Finish(w)
      PROVE  future'[t] = "none"
  <2>1. Busy(w) /\ runs[w] # t
    BY <1>0, <1>2, <1>5 DEF RunPolicyDenied, PolicyInvalid, Finish, Running, OneWorkerPerTask
  <2> QED
    BY <1>0, <1>2, <1>5, <2>1 DEF RunPolicyDenied, PolicyInvalid, Finish, OrgTypeOK
<1>6. ASSUME NEW w \in Workers, WorkerDies(w) PROVE future'[t] = "none"
  BY <1>2, <1>6 DEF WorkerDies
<1> QED
  BY <1>2, <1>3, <1>4, <1>5, <1>6
  DEF OrgNext, Main, Worker, Done, SubmitDenied, SubmitRaises, Submitted, Exit, Collect,
      CollectRaised, RunPolicy, RunPolicyFails, orgVars

-----------------------------------------------------------------------------
(***************************************************************************)
(* Credentials.                                                            *)
(***************************************************************************)
\* No step leaves credentials or sessions of one account to another.
LEMMA NextClean == OrgInv /\ [OrgNext]_orgVars => \A w \in Workers : Clean(w)'
<1> SUFFICES ASSUME OrgInv, [OrgNext]_orgVars, NEW x \in Workers PROVE Clean(x)'
  OBVIOUS
<1> USE OrgAssumption
<1>0. OrgTypeOK /\ \A w \in Workers : Clean(w)
  BY DEF OrgInv, ReportIsTrue
<1>1. ASSUME UNCHANGED <<runs, environ, conn_cache, broken>> PROVE Clean(x)'
  BY <1>0, <1>1 DEF Clean, Busy, Account
<1>2. ASSUME NEW w \in Workers, NEW t \in Tasks, Start(w, t) PROVE Clean(x)'
  <2>1. CASE x = w
    BY <1>0, <1>2, <2>1 DEF Start, Clean, Busy, Account, OrgTypeOK
  <2>2. CASE x # w
    BY <1>0, <1>2, <2>2 DEF Start, Clean, Busy, Account, OrgTypeOK
  <2> QED
    BY <2>1, <2>2
<1>3. ASSUME NEW w \in Workers, NEW n \in 0..MaxResources,
             RunPolicy(w, n) \/ RunPolicyFails(w)
      PROVE  Clean(x)'
  <2>1. Busy(w) /\ Runs(w) /\ UNCHANGED <<runs, environ, broken>>
    BY <1>3 DEF RunPolicy, RunPolicyFails, Running
  <2>2. conn_cache' = [conn_cache EXCEPT ![w] = [conn_cache[w] EXCEPT ![Region(w)] = Account(w)]]
    BY <1>0, <2>1, RunsTypes
  <2>3. CASE x = w
    <3>1. \A r \in RegionNames : conn_cache'[w][r] \in {conn_cache[w][r], Account(w)}
      BY <1>0, <2>2 DEF OrgTypeOK
    <3> QED
      BY <1>0, <2>1, <2>3, <3>1 DEF Clean, Busy, Account
  <2>4. CASE x # w
    <3>1. conn_cache'[x] = conn_cache[x]
      BY <1>0, <2>2, <2>4 DEF OrgTypeOK
    <3> QED
      BY <1>0, <2>1, <3>1 DEF Clean, Busy, Account
  <2> QED
    BY <2>3, <2>4
<1>4. ASSUME NEW w \in Workers, Leave(w), UNCHANGED broken PROVE Clean(x)'
  <2>1. CASE x = w
    BY <1>0, <1>4, <2>1 DEF Leave, Clean, Busy, OrgTypeOK
  <2>2. CASE x # w
    BY <1>0, <1>4, <2>2 DEF Leave, Clean, Busy, Account, OrgTypeOK
  <2> QED
    BY <2>1, <2>2
<1>5. ASSUME NEW w \in Workers, WorkerDies(w) PROVE Clean(x)'
  BY <1>5 DEF WorkerDies, Clean, Busy
<1>6. 0 \in 0..MaxResources
  OBVIOUS
<1> QED
  BY <1>1, <1>2, <1>3, <1>4, <1>5, <1>6
  DEF OrgNext, Main, Worker, Done, Submit, SubmitDenied, SubmitRaises, Submitted, Exit, Collect,
      CollectRaised, StartRaises, RunPolicyDenied, PolicyInvalid, Finish, orgVars, workerVars

\* Whatever runs does so with its account's credentials.
LEMMA NextOwnCredentials == OrgInv /\ [OrgNext]_orgVars => OwnCredentials'
<1> SUFFICES ASSUME OrgInv, [OrgNext]_orgVars PROVE OwnCredentials'
  OBVIOUS
<1> USE OrgAssumption
<1>0. OrgTypeOK /\ OwnCredentials /\ \A w \in Workers : Clean(w)
  BY DEF OrgInv, ReportIsTrue
<1>1. ASSUME UNCHANGED acted PROVE OwnCredentials'
  BY <1>0, <1>1 DEF OwnCredentials
<1>2. ASSUME NEW w \in Workers, NEW n \in 0..MaxResources,
             RunPolicy(w, n) \/ RunPolicyFails(w) \/ RunPolicyDenied(w)
      PROVE  OwnCredentials'
  <2>1. Busy(w)
    BY <1>2 DEF RunPolicy, RunPolicyFails, RunPolicyDenied, Running
  <2>2. acted' = acted \cup {[for |-> Account(w), as |-> Session(w), env |-> environ[w]]}
    BY <1>2 DEF RunPolicy, RunPolicyFails, RunPolicyDenied, Runs
  <2>3. /\ Session(w) = Account(w)
        /\ environ[w] = (IF Account(w) \in Chained THEN Account(w) ELSE None)
    BY <1>0, <2>1, SessionIsOwn
  <2> QED
    BY <1>0, <2>2, <2>3 DEF OwnCredentials
<1>3. 0 \in 0..MaxResources
  OBVIOUS
<1> QED
  BY <1>1, <1>2, <1>3
  DEF OrgNext, Main, Worker, Done, Submit, SubmitDenied, SubmitRaises, Submitted, Exit, Collect,
      CollectRaised, Start, StartRaises, PolicyInvalid, Finish, WorkerDies, orgVars

-----------------------------------------------------------------------------
(***************************************************************************)
(* The report.                                                             *)
(***************************************************************************)
\* The main process only sees futures that ended, and takes in their success.
LEMMA NextSeenIsFinal == OrgInv /\ [OrgNext]_orgVars => SeenIsFinal'
<1> SUFFICES ASSUME OrgInv, [OrgNext]_orgVars, NEW t \in collected'
             PROVE  /\ future'[t] \in {"done", "raised"}
                    /\ success' /\ future'[t] = "done" => fine'[t]
  BY DEF SeenIsFinal
<1>0. OrgTypeOK /\ SeenIsFinal
  BY DEF OrgInv, ReportIsTrue
<1>1. ASSUME NEW u \in Tasks, Collect(u) \/ CollectRaised(u)
      PROVE  /\ future'[t] \in {"done", "raised"}
             /\ success' /\ future'[t] = "done" => fine'[t]
  BY <1>0, <1>1 DEF SeenIsFinal, Collect, CollectRaised, taskVars, OrgTypeOK
<1>2. ASSUME UNCHANGED <<collected, success>>
      PROVE  /\ future'[t] \in {"done", "raised"}
             /\ success' /\ future'[t] = "done" => fine'[t]
  <2>1. t \in Tasks /\ t \in collected /\ future[t] \in {"done", "raised"}
    BY <1>0, <1>2 DEF SeenIsFinal, OrgTypeOK
  <2> QED
    BY <1>0, <1>2, <2>1, EndedIsFinal DEF SeenIsFinal
<1> QED
  BY <1>1, <1>2
  DEF OrgNext, Main, Worker, Done, Submit, SubmitDenied, SubmitRaises, Submitted, Exit,
      Start, StartRaises, RunPolicy, RunPolicyFails, RunPolicyDenied,
      PolicyInvalid, Finish, WorkerDies, orgVars, mainVars

\* After exit code 0 no task is left to change.
LEMMA NextZeroMeansNoFailure == OrgInv /\ [OrgNext]_orgVars => ZeroMeansNoFailure'
<1> SUFFICES ASSUME OrgInv, [OrgNext]_orgVars, main' = "exit0", NEW t \in Tasks,
                    future'[t] # "none"
             PROVE  t \in collected' /\ (future'[t] = "done" => fine'[t])
  BY DEF ZeroMeansNoFailure
<1>0. OrgTypeOK /\ SeenIsFinal /\ ZeroMeansNoFailure /\ OneWorkerPerTask
  BY DEF OrgInv, ReportIsTrue
<1>1. CASE Exit
  BY <1>0, <1>1 DEF Exit, SeenIsFinal, taskVars
<1>2. CASE main = "exit0"
  <2>1. \A u \in Tasks : future[u] \in {"none", "done", "raised"}
    BY <1>0, <1>2 DEF ZeroMeansNoFailure, SeenIsFinal
  <2>2. \A w \in Workers : ~Busy(w)
    <3> SUFFICES ASSUME NEW w \in Workers, Busy(w) PROVE FALSE
      OBVIOUS
    <3>1. runs[w] \in Tasks /\ future[runs[w]] = "running"
      BY <1>0 DEF OneWorkerPerTask, Busy, OrgTypeOK
    <3> QED
      BY <2>1, <3>1
  <2>3. UNCHANGED orgVars \/ Exit
    BY <1>2, <2>1, <2>2
    DEF OrgNext, Main, Worker, Done, Submit, Submitting, SubmitDenied, SubmitRaises, Submitted,
        Collect, CollectRaised, Start, StartRaises, RunPolicy, RunPolicyFails, RunPolicyDenied,
        PolicyInvalid, Finish, WorkerDies, Running
  <2> QED
    BY <1>0, <1>1, <1>2, <2>3 DEF ZeroMeansNoFailure, orgVars, mainVars, taskVars
<1> QED
  BY <1>1, <1>2
  DEF OrgNext, Main, Worker, Done, Submit, SubmitDenied, SubmitRaises, Submitted, Collect,
      CollectRaised, Start, StartRaises, RunPolicy, RunPolicyFails, RunPolicyDenied,
      PolicyInvalid, Finish, WorkerDies, orgVars, mainVars

\* A task ends when its policies have run, or access was denied.
LEMMA NextFailuresAreContained == OrgInv /\ [OrgNext]_orgVars => FailuresAreContained'
<1> SUFFICES ASSUME OrgInv, [OrgNext]_orgVars, NEW t \in Tasks, future'[t] = "done"
             PROVE  t \in denied' \/ at'[t] = Len(Policies) + 1
  BY DEF FailuresAreContained
<1> USE OrgAssumption, ListFacts
<1>0. OrgTypeOK /\ FailuresAreContained
  BY DEF OrgInv, ReportIsTrue
<1>1. CASE future[t] = "done"
  <2>1. denied \subseteq denied'
    BY DEF OrgNext, Main, Worker, Done, Submit, SubmitDenied, SubmitRaises, Submitted, Exit, Collect,
      CollectRaised, Start, StartRaises, RunPolicy, RunPolicyFails, RunPolicyDenied,
      PolicyInvalid, Finish, WorkerDies, orgVars
  <2> QED
    BY <1>0, <1>1, <2>1, EndedIsFinal DEF FailuresAreContained
<1>2. CASE future[t] # "done"
  <2>1. ASSUME NEW w \in Workers, RunPolicyDenied(w) PROVE t \in denied'
    BY <1>0, <1>2, <2>1 DEF RunPolicyDenied, OrgTypeOK
  <2>2. ASSUME NEW w \in Workers, Finish(w) PROVE at'[t] = Len(Policies) + 1
    <3>1. t = runs[w]
      BY <1>0, <1>2, <2>2 DEF Finish, OrgTypeOK
    <3>2. at[t] \in 1..(Len(Policies) + 1) /\ at[t] > Len(Policies) /\ at' = at
      BY <1>0, <2>2, <3>1 DEF Finish, OrgTypeOK, taskVars
    <3> QED
      BY <3>2
  <2>3. ASSUME Submit PROVE FALSE
    BY <1>0, <1>2, <2>3 DEF Submit, OrgTypeOK
  <2>4. ASSUME NEW w \in Workers, NEW u \in Tasks,
               Start(w, u) \/ StartRaises(w, u) \/ PolicyInvalid(w) \/ WorkerDies(w)
        PROVE  FALSE
    BY <1>0, <1>2, <2>4 DEF Start, StartRaises, PolicyInvalid, WorkerDies, OrgTypeOK
  <2>5. ASSUME UNCHANGED future PROVE FALSE
    BY <1>2, <2>5
  <2> QED
    BY <2>1, <2>2, <2>3, <2>4, <2>5
    DEF OrgNext, Main, Worker, Done, SubmitDenied, SubmitRaises, Submitted, Exit, Collect,
        CollectRaised, RunPolicy, RunPolicyFails, orgVars
<1> QED
  BY <1>1, <1>2

\* A count c is the number of pairs <<t, 1>>, ..., <<t, c>>.
LEMMA PairsOf ==
    ASSUME NEW t, NEW c \in Nat
    PROVE  IsFiniteSet({t} \X (1..c)) /\ Cardinality({t} \X (1..c)) = c
<1> DEFINE pair == [i \in 1..c |-> <<t, i>>]
<1>1. pair \in [1..c -> {t} \X (1..c)]
  OBVIOUS
<1>2. \A i, j \in 1..c : pair[i] = pair[j] => i = j
  OBVIOUS
<1>3. \A x \in {t} \X (1..c) : \E i \in 1..c : pair[i] = x
  OBVIOUS
<1> HIDE DEF pair
<1>4. pair \in Bijection(1..c, {t} \X (1..c))
  BY <1>1, <1>2, <1>3 DEF Bijection, Injection, Surjection, IsInjective
<1>5. ExistsBijection(1..c, {t} \X (1..c))
  BY <1>4 DEF ExistsBijection
<1>6. IsFiniteSet(1..c) /\ Cardinality(1..c) = c
  BY FS_Interval
<1> QED
  BY <1>5, <1>6, FS_Bijection

\* There are finitely many tasks.
LEMMA FiniteTasks == IsFiniteSet(Tasks)
<1> USE OrgAssumption, ListFacts
<1> DEFINE f == [i \in 1..Len(accounts) |-> accounts[i]]
<1>1. IsFiniteSet(1..Len(accounts))
  BY FS_Interval
<1>2. f \in Surjection(1..Len(accounts), Named)
  BY DEF Surjection, Named
<1>3. IsFiniteSet(Named)
  BY <1>1, <1>2, FS_Surjection
<1>4. IsFiniteSet(Named \X RegionNames)
  BY <1>3, FS_Product
<1> QED
  BY <1>4, FS_Subset DEF Tasks

\* A collected task adds its counts, once.
LEMMA NextCountsAreSums == OrgInv /\ [OrgNext]_orgVars => CountsAreSums'
<1> SUFFICES ASSUME OrgInv, [OrgNext]_orgVars, NEW p \in PolicyNames
             PROVE  policy_counts'[p] = Cardinality({x \in collected' \X (1..MaxResources) :
                        future'[x[1]] = "done" /\ x[2] <= counts'[x[1]][p]})
  BY DEF CountsAreSums
<1> USE OrgAssumption
<1> DEFINE Units == {x \in collected \X (1..MaxResources) :
                        future[x[1]] = "done" /\ x[2] <= counts[x[1]][p]}
           Units2 == {x \in collected' \X (1..MaxResources) :
                        future'[x[1]] = "done" /\ x[2] <= counts'[x[1]][p]}
<1>0. /\ OrgTypeOK /\ SeenIsFinal
      /\ policy_counts[p] = Cardinality(Units)
  BY DEF OrgInv, ReportIsTrue, CountsAreSums
<1>1. \A t \in collected : t \in Tasks /\ future'[t] = future[t] /\ counts'[t] = counts[t]
  BY <1>0, EndedIsFinal DEF SeenIsFinal, OrgTypeOK
<1>2. ASSUME UNCHANGED <<collected, policy_counts>>
      PROVE  policy_counts'[p] = Cardinality(Units2)
  <2>1. Units2 = Units
    BY <1>1, <1>2
  <2> QED
    BY <1>0, <1>2, <2>1
<1>3. ASSUME NEW t \in Tasks, CollectRaised(t)
      PROVE  policy_counts'[p] = Cardinality(Units2)
  <2>1. /\ collected' = collected \cup {t} /\ future[t] = "raised"
        /\ UNCHANGED <<policy_counts, future, counts>>
    BY <1>3 DEF CollectRaised, taskVars
  <2>2. Units2 = Units
    BY <2>1
  <2> QED
    BY <1>0, <2>1, <2>2
<1>4. ASSUME NEW t \in Tasks, Collect(t)
      PROVE  policy_counts'[p] = Cardinality(Units2)
  <2> DEFINE c == counts[t][p]
             Mine == {t} \X (1..c)
  <2>1. c \in 0..MaxResources
    BY <1>0 DEF OrgTypeOK
  <2>2. /\ collected' = collected \cup {t} /\ future[t] = "done" /\ t \notin collected
        /\ policy_counts'[p] = policy_counts[p] + c
        /\ UNCHANGED <<future, counts>>
    BY <1>4 DEF Collect, taskVars
  <2>3. Units2 = Units \cup Mine /\ Units \cap Mine = {}
    BY <2>1, <2>2
  <2>4. IsFiniteSet(collected \X (1..MaxResources))
    <3>1. IsFiniteSet(collected)
      BY <1>0, FiniteTasks, FS_Subset DEF OrgTypeOK
    <3>2. IsFiniteSet(1..MaxResources)
      BY FS_Interval
    <3> QED
      BY <3>1, <3>2, FS_Product
  <2>5. IsFiniteSet(Units)
    BY <2>4, FS_Subset
  <2>6. IsFiniteSet(Mine) /\ Cardinality(Mine) = c
    <3>1. c \in Nat
      BY <2>1
    <3> HIDE DEF c
    <3> QED
      BY <3>1, PairsOf
  <2> HIDE DEF Units, Units2, Mine, c
  <2>7. Cardinality(Units2) = Cardinality(Units) + Cardinality(Mine)
    <3>1. Cardinality(Units \cap Mine) = 0
      BY <2>3, FS_EmptySet
    <3>2. Cardinality(Units) \in Nat /\ Cardinality(Mine) \in Nat
      BY <2>5, <2>6, FS_CardinalityType
    <3>3. Cardinality(Units \cup Mine)
             = Cardinality(Units) + Cardinality(Mine) - Cardinality(Units \cap Mine)
      BY <2>5, <2>6, FS_Union
    <3> QED
      BY <2>3, <3>1, <3>2, <3>3
  <2> QED
    BY <1>0, <2>2, <2>6, <2>7
<1> QED
  BY <1>2, <1>3, <1>4
  DEF OrgNext, Main, Worker, Done, Submit, SubmitDenied, SubmitRaises, Submitted, Exit,
      Start, StartRaises, RunPolicy, RunPolicyFails, RunPolicyDenied,
      PolicyInvalid, Finish, WorkerDies, orgVars, mainVars

-----------------------------------------------------------------------------
\* Every step keeps the inductive invariant.
LEMMA IndInvHolds == OrgSpec => []OrgInv
<1>1. OrgInv /\ [OrgNext]_orgVars => OrgInv'
  <2> SUFFICES ASSUME OrgInv, [OrgNext]_orgVars PROVE OrgInv'
    OBVIOUS
  <2>1. OrgTypeOK' /\ CountsAreSums' /\ ZeroMeansNoFailure' /\ FailuresAreContained'
    BY NextOrgTypes, NextCountsAreSums, NextZeroMeansNoFailure, NextFailuresAreContained
  <2>2. OwnCredentials' /\ OneWorkerPerTask' /\ NotYetSubmitted' /\ SeenIsFinal'
    BY NextOwnCredentials, NextOneWorker, NextNotYetSubmitted, NextSeenIsFinal
  <2>3. \A w \in Workers : Clean(w)'
    BY NextClean
  <2> QED
    BY <2>1, <2>2, <2>3 DEF OrgInv, ReportIsTrue
<1> QED
  BY <1>1, InitOrgInv, PTL DEF OrgSpec

\* Accounts that run one after the other, or side by side, in the same processes
\* never run a policy with another account's credentials (run_account with
\* environ and local_session), for any accounts, regions and workers.
THEOREM CredentialsAreOwn == OrgSpec => []OwnCredentials
<1>1. OrgInv => OwnCredentials
  BY DEF OrgInv
<1> QED
  BY <1>1, IndInvHolds, PTL

\* The counts and the exit code of c7n-org are those of the accounts' runs, in
\* whatever order they end, raise or die with their process (run).
THEOREM ReportsAreTrue == OrgSpec => []ReportIsTrue
<1>1. OrgInv => ReportIsTrue
  BY DEF OrgInv
<1> QED
  BY <1>1, IndInvHolds, PTL
==============================================================================
