--------------------------- MODULE PolicyRunProofs ---------------------------
(***************************************************************************)
(* Proofs about PolicyRun: for any list of policies, buffer size, metrics  *)
(* and faults, policies act as they are allowed to, a failing body leaves  *)
(* nothing behind and is metered, every recorded error is accounted for,   *)
(* and only a log handler ends the process early.                          *)
(***************************************************************************)
EXTENDS PolicyRun, TLAPS

-----------------------------------------------------------------------------
(***************************************************************************)
(* The inductive invariant: what the policies to come, the current one and *)
(* those that are over have done.                                          *)
(***************************************************************************)
\* A limit that check_resource_limits tests: it overlooks a threshold of zero
\* percent, and "and" with a single threshold.
LimitIsTested(d) ==
    d.percent # 0 /\ (d.op = "and" => d.amount # Unset /\ d.percent # Unset)

Own == {"body", "limit"}

\* A metric was recorded: it is in the buffer or with the service.
Recorded(q, name) == name \in buf[q] \cup sent[q]

\* The context of a policy is torn down, and its failure, if any, metered.
TornDown(q) ==
    /\ held[q] = {} /\ buf[q] = {}
    /\ causes[q] # {} => "PolicyException" \in sent[q]
    /\ "limit" \in causes[q] => "ResourceLimitExceeded" \in sent[q]

\* Policies to come have done nothing yet.
Untouched(q) ==
    /\ held[q] = {} /\ buf[q] = {} /\ causes[q] = {} /\ applied[q] = 0
    /\ outcome[q] = "pending"

\* Policies that are over are recorded, and torn down if only their body failed.
Settled(q) ==
    /\ Decided(q) /\ (outcome[q] = "error" <=> causes[q] # {})
    /\ causes[q] \subseteq Own => TornDown(q)

SetUp(s) == UNION {Setup[i] : i \in 1..(s - 1)}
Remaining(s) == Holdings \ {Teardown[i] : i \in 1..(s - 1)}

\* The current policy: what its context holds and its metrics say at each step.
Outside == pc = "call" => Untouched(p) /\ step = 1 /\ exc = FALSE

Entering ==
    pc = "enter" => /\ step \in 1..Len(Setup) /\ held[p] = SetUp(step)
                    /\ buf[p] = {} /\ causes[p] = {} /\ applied[p] = 0 /\ exc = FALSE

Inside ==
    pc \in {"fetch", "actions", "provision"} =>
        /\ held[p] = Holdings /\ causes[p] = {} /\ exc = FALSE
        /\ pc = "fetch" => applied[p] = 0
        /\ pc # "fetch" => ~options.dryrun

Leaving ==
    pc = "exit" =>
        /\ step \in 1..Len(Teardown) /\ held[p] = Remaining(step)
        /\ exc <=> causes[p] # {}
        /\ step > 1 /\ exc => Recorded(p, "PolicyException")
        /\ "limit" \in causes[p] /\ "metrics" \notin causes[p] =>
               Recorded(p, "ResourceLimitExceeded")
        /\ step > 4 => buf[p] = {}

Failed == pc = "caught" => causes[p] # {} /\ (causes[p] \subseteq Own => TornDown(p))

\* The selection that actions run on passed the test.
TestedSelections ==
    /\ \A q \in Ids :
           /\ selected[q].count <= selected[q].of
           /\ applied[q] > 0 =>
                  ~LimitExceeded(PolicyData[q], selected[q].count, selected[q].of)
    /\ pc = "actions" /\ p \in Ids =>
           ~LimitExceeded(Data, selected[p].count, selected[p].of)

\* An attached handler that raises, of this policy or of an earlier one.
Culprit(q) == \E r \in broken : r <= q /\ "logs" \in held[r]

\* A policy is blamed on a log handler while one raises, and is the last one.
LogsBlamed ==
    \A q \in Ids : "log" \in causes[q] =>
        Culprit(q) /\ (q < p => status # "running" /\ p = q + 1)

\* The process ends after the last policy, or in the two ways that abort it.
EndsInOrder ==
    status # "running" => options.debug \/ LogRaises \/ p = Len(PolicyData) + 1

IndInv ==
    /\ TypeOK
    /\ \A q \in Ids : (q > p => Untouched(q)) /\ (q < p => Settled(q))
    /\ p \in Ids => /\ outcome[p] = "pending"
                    /\ Outside /\ Entering /\ Inside /\ Leaving /\ Failed
    /\ p = Len(PolicyData) + 1 => pc = "call"
    /\ TestedSelections /\ DryrunChangesNothing /\ EndsInOrder /\ LogsBlamed

-----------------------------------------------------------------------------
\* The policies of the file are numbered, and well formed.
LEMMA DataFacts ==
    /\ Len(PolicyData) \in Nat
    /\ Ids = 1..Len(PolicyData)
    /\ \A q \in Ids : PolicyData[q] \in DataType
  BY PolicyAssumption DEF Ids

\* The metrics of a policy while some are recorded.
MeterState == [buf : SUBSET MetricNames, sent : SUBSET MetricNames, ok : BOOLEAN]

\* Recording loses no metric, and records the new one unless a put raised.
LEMMA PutOneParts ==
    ASSUME NEW r \in MeterState, NEW name \in MetricNames, NEW x \in PutOne(r, name)
    PROVE  /\ x \in MeterState
           /\ r.buf \cup r.sent \subseteq x.buf \cup x.sent
           /\ x.ok => r.ok /\ name \in x.buf \cup x.sent
           /\ r.ok /\ ~x.ok => "metrics" \in Faults
<1> DEFINE b == r.buf \cup {name}
<1>0. b \in SUBSET MetricNames /\ r.sent \in SUBSET MetricNames /\ r.ok \in BOOLEAN
  BY DEF MeterState
<1>1. \/ x = r /\ ~r.ok
      \/ x = [r EXCEPT !.buf = b] /\ r.ok
      \/ x = [buf |-> {}, sent |-> r.sent \cup b, ok |-> TRUE] /\ r.ok
      \/ x = [r EXCEPT !.buf = b, !.ok = FALSE] /\ r.ok /\ "metrics" \in Faults
  BY DEF PutOne
<1>2. CASE x = r /\ ~r.ok
  BY <1>2
<1>3. CASE x = [r EXCEPT !.buf = b] /\ r.ok
  <2>1. x.buf = b /\ x.sent = r.sent /\ x.ok = r.ok /\ x \in MeterState
    BY <1>0, <1>3 DEF MeterState
  <2> QED
    BY <1>3, <2>1
<1>4. CASE x = [buf |-> {}, sent |-> r.sent \cup b, ok |-> TRUE] /\ r.ok
  BY <1>0, <1>4 DEF MeterState
<1>5. CASE x = [r EXCEPT !.buf = b, !.ok = FALSE] /\ r.ok /\ "metrics" \in Faults
  <2>1. x.buf = b /\ x.sent = r.sent /\ x.ok = FALSE /\ x \in MeterState
    BY <1>0, <1>5 DEF MeterState
  <2> QED
    BY <1>5, <2>1
<1> QED
  BY <1>1, <1>2, <1>3, <1>4, <1>5

\* Where nothing is recorded the metrics are those of the policy.
LEMMA NoPutParts ==
    ASSUME TypeOK, p \in Ids
    PROVE  NoPut \in MeterState /\ NoPut.ok /\ NoPut.buf = buf[p] /\ NoPut.sent = sent[p]
  BY DEF TypeOK, NoPut, MeterState

\* Recording one metric loses none, and records it unless the flush fails.
LEMMA Put1Parts ==
    ASSUME TypeOK, p \in Ids, NEW name \in MetricNames, NEW x \in Put1(name)
    PROVE  /\ x \in MeterState
           /\ buf[p] \cup sent[p] \subseteq x.buf \cup x.sent
           /\ x.ok => name \in x.buf \cup x.sent
  BY NoPutParts, PutOneParts DEF Put1

\* Recording two metrics loses none.
LEMMA Put2Parts ==
    ASSUME TypeOK, p \in Ids, NEW name1 \in MetricNames, NEW name2 \in MetricNames,
           NEW x \in Put2(name1, name2)
    PROVE  /\ x \in MeterState
           /\ buf[p] \cup sent[p] \subseteq x.buf \cup x.sent
<1>1. PICK r \in Put1(name1) : x \in PutOne(r, name2)
  BY DEF Put2
<1>2. r \in MeterState /\ buf[p] \cup sent[p] \subseteq r.buf \cup r.sent
  BY Put1Parts
<1> QED
  BY <1>1, <1>2, PutOneParts

\* The metrics of policy.py are metric names.
LEMMA NamesOfMetrics ==
    /\ {"ResourceCount", "ResourceTime", "ActionTime", "ResourceLimitExceeded",
        "PolicyException", "ApiCalls", "ApiTime"} \subseteq MetricNames
    /\ Custom \subseteq MetricNames
  BY DEF MetricNames

-----------------------------------------------------------------------------
(***************************************************************************)
(* What a step does to the current policy's entries, the others staying    *)
(* as they are.                                                            *)
(***************************************************************************)
AllCauses == FaultKinds \cup {"limit"}

Meters ==
    /\ buf' \in [Ids -> SUBSET MetricNames] /\ sent' \in [Ids -> SUBSET MetricNames]
    /\ \A q \in Ids : q # p => buf'[q] = buf[q] /\ sent'[q] = sent[q]

Selects ==
    /\ selected' \in [Ids -> [count : Nat, of : Nat]]
    /\ selected'[p].count <= selected'[p].of
    /\ \A q \in Ids : q # p => selected'[q] = selected[q]

Applies ==
    /\ applied' \in [Ids -> Nat]
    /\ \A q \in Ids : q # p => applied'[q] = applied[q]

Blames ==
    /\ causes' \in [Ids -> SUBSET AllCauses]
    /\ \A q \in Ids : q # p => causes'[q] = causes[q]

Holds ==
    /\ held' \in [Ids -> SUBSET Holdings]
    /\ \A q \in Ids : q # p => held'[q] = held[q]

\* Leaving the body with or without an exception, its limit metered.
Leaves ==
    /\ pc' = "exit" /\ step' = 1
    /\ (exc' = TRUE /\ causes'[p] # {}) \/ (exc' = FALSE /\ causes'[p] = {})
    /\ "limit" \in causes'[p] /\ "metrics" \notin causes'[p] =>
           "ResourceLimitExceeded" \in buf'[p] \cup sent'[p]

\* What Metered writes.
LEMMA MeteredWrites ==
    ASSUME TypeOK, p \in Ids, NEW r \in MeterState, Metered(r)
    PROVE  Meters /\ buf'[p] = r.buf /\ sent'[p] = r.sent
  BY DEF Metered, Meters, TypeOK, MeterState

\* A step that leaves the metrics alone.
LEMMA MetersNothing ==
    ASSUME TypeOK, UNCHANGED <<buf, sent>>
    PROVE  Meters
  BY DEF Meters, TypeOK

\* What Blame writes.
LEMMA BlameWrites ==
    ASSUME TypeOK, p \in Ids, NEW kinds \in SUBSET AllCauses, Blame(kinds)
    PROVE  Blames /\ causes'[p] = causes[p] \cup kinds
<1>1. causes \in [Ids -> SUBSET AllCauses] /\ causes' = [causes EXCEPT ![p] = @ \cup kinds]
  BY DEF TypeOK, Blame, AllCauses
<1>2. causes'[p] = causes[p] \cup kinds /\ causes[p] \in SUBSET AllCauses
  BY <1>1
<1>3. causes' \in [Ids -> SUBSET AllCauses]
  BY <1>1, <1>2
<1> QED
  BY <1>1, <1>2, <1>3 DEF Blames

\* A step that leaves the causes alone.
LEMMA BlamesNothing ==
    ASSUME TypeOK, UNCHANGED causes
    PROVE  Blames
  BY DEF Blames, TypeOK, AllCauses

\* What Raise and Return write.
LEMMA RaiseLeaves ==
    ASSUME TypeOK, p \in Ids, causes[p] = {},
           NEW kinds \in SUBSET AllCauses, kinds # {}, Raise(kinds),
           "limit" \in kinds /\ "metrics" \notin kinds =>
               "ResourceLimitExceeded" \in buf'[p] \cup sent'[p]
    PROVE  Leaves /\ Blames /\ exc' \in BOOLEAN /\ step' \in Nat \ {0}
<1>1. Blames /\ causes'[p] = kinds
  BY BlameWrites DEF Raise
<1> QED
  BY <1>1 DEF Raise, Leaves

\* Returning from the body leaves it without a cause.
LEMMA ReturnLeaves ==
    ASSUME TypeOK, p \in Ids, causes[p] = {}, Return
    PROVE  Leaves /\ Blames /\ exc' \in BOOLEAN /\ step' \in Nat \ {0}
<1>1. Blames /\ causes'[p] = {}
  BY BlamesNothing DEF Return
<1>2. pc' = "exit" /\ step' = 1 /\ exc' = FALSE
  BY DEF Return
<1>3. exc' \in BOOLEAN
  BY <1>2, Zenon
<1>4. step' \in Nat \ {0}
  BY <1>2
<1>5. "limit" \notin causes'[p]
  BY <1>1
<1> QED
  BY <1>1, <1>2, <1>3, <1>4, <1>5 DEF Leaves

\* What a step may be blamed on is a cause.
LEMMA KindsOfCauses == {"call", "enter", "body", "exit", "log", "limit", "metrics"} \subseteq AllCauses
  BY DEF AllCauses, FaultKinds

-----------------------------------------------------------------------------
(***************************************************************************)
(* The kinds of step.  In the body a step stays there or leaves.           *)
(***************************************************************************)
BodyStep ==
    /\ pc \in {"fetch", "actions", "provision"} /\ p \in Ids /\ status = "running"
    /\ UNCHANGED <<options, p, held, broken, outcome, status>>
    /\ Meters /\ Selects /\ Applies /\ Blames
    /\ step' \in Nat \ {0} /\ exc' \in BOOLEAN
    /\ Leaves \/ (pc' = "actions" /\ exc' = exc /\ causes' = causes)

\* What a body step does to the resources.
BodyEffect ==
    /\ deployed' = deployed \/ (pc = "provision" /\ deployed' = deployed \cup {p})
    /\ pc # "fetch" => selected' = selected
    /\ pc # "actions" => applied' = applied
    /\ pc' = "actions" =>
           \/ pc = "actions"
           \/ /\ pc = "fetch" /\ ~options.dryrun
              /\ ~LimitExceeded(Data, selected'[p].count, selected'[p].of)

\* The fetch of resources is a step of the body.
LEMMA FetchIsBody ==
    ASSUME TypeOK, p \in Ids, Inside, FetchFails \/ FetchOverLimit \/ Fetch,
           selected[p].count <= selected[p].of
    PROVE  BodyStep /\ BodyEffect
<1> USE NamesOfMetrics
<1>0. pc = "fetch" /\ status = "running" /\ causes[p] = {}
  BY DEF FetchFails, FetchOverLimit, Fetch, At, Inside
<1>f. UNCHANGED <<options, p, held, broken, applied, deployed, outcome, status>>
  BY DEF FetchFails, FetchOverLimit, Fetch
<1>a. Applies
  BY <1>f DEF Applies, TypeOK
<1>s. ASSUME NEW of \in 0..MaxPop, NEW count \in 0..of,
             selected' = [selected EXCEPT ![p] = [count |-> count, of |-> of]]
      PROVE  Selects /\ selected'[p].count = count /\ selected'[p].of = of
  <2>1. of \in Nat /\ count \in Nat /\ count <= of
    BY PolicyAssumption
  <2>2. selected'[p] = [count |-> count, of |-> of]
        /\ \A q \in Ids : q # p => selected'[q] = selected[q]
    BY <1>s DEF TypeOK
  <2>3. selected' \in [Ids -> [count : Nat, of : Nat]]
    BY <1>s, <2>1 DEF TypeOK
  <2> QED
    BY <2>1, <2>2, <2>3 DEF Selects
<1>r. ASSUME NEW k \in {"body", "log", "metrics"}, Raise({k})
      PROVE  Leaves /\ Blames /\ exc' \in BOOLEAN /\ step' \in Nat \ {0}
  <2>1. {k} \in SUBSET AllCauses /\ {k} # {} /\ "limit" \notin {k}
    BY KindsOfCauses
  <2> QED
    BY <1>0, <1>r, <2>1, RaiseLeaves
<1>l. ASSUME Leaves, Blames, exc' \in BOOLEAN, step' \in Nat \ {0}, Meters, Selects
      PROVE  BodyStep /\ BodyEffect
  BY <1>0, <1>f, <1>a, <1>l DEF BodyStep, BodyEffect, Leaves
<1>1. ASSUME FetchFails PROVE BodyStep /\ BodyEffect
  <2>1. Raise({"body"}) /\ UNCHANGED <<buf, sent, selected>>
    BY <1>1 DEF FetchFails
  <2>2. Selects
    BY <2>1 DEF Selects, TypeOK
  <2> QED
    BY <1>l, <1>r, <2>1, <2>2, MetersNothing
<1>2. ASSUME FetchOverLimit PROVE BodyStep /\ BodyEffect
  <2>0. PICK of \in 0..MaxPop : \E count \in 0..of :
            selected' = [selected EXCEPT ![p] = [count |-> count, of |-> of]]
    BY <1>2 DEF FetchOverLimit
  <2>1. Selects
    BY <1>s, <2>0
  <2>2. CASE LogRaises
    <3>1. Raise({"log"}) /\ UNCHANGED <<buf, sent>>
      BY <1>2, <2>2 DEF FetchOverLimit
    <3> QED
      BY <1>l, <1>r, <2>1, <3>1, MetersNothing
  <2>3. CASE ~LogRaises
    <3>1. PICK r \in Put1("ResourceLimitExceeded") :
              Metered(r) /\ Raise({"limit"} \cup (IF r.ok THEN {} ELSE {"metrics"}))
      BY <1>2, <2>3 DEF FetchOverLimit
    <3>2. r \in MeterState /\ (r.ok => "ResourceLimitExceeded" \in r.buf \cup r.sent)
      BY Put1Parts
    <3>3. Meters /\ buf'[p] = r.buf /\ sent'[p] = r.sent
      BY <3>1, <3>2, MeteredWrites
    <3> DEFINE kinds == {"limit"} \cup (IF r.ok THEN {} ELSE {"metrics"})
    <3>4. /\ kinds \in SUBSET AllCauses /\ kinds # {}
          /\ "metrics" \notin kinds => "ResourceLimitExceeded" \in buf'[p] \cup sent'[p]
      BY <3>2, <3>3, KindsOfCauses
    <3>5. Raise(kinds)
      BY <3>1
    <3> HIDE DEF kinds
    <3> QED
      BY <1>0, <1>l, <2>1, <3>3, <3>4, <3>5, RaiseLeaves
  <2> QED
    BY <2>2, <2>3
<1>3. ASSUME Fetch PROVE BodyStep /\ BodyEffect
  <2> DEFINE Rest(count) ==
               IF LogRaises
                 THEN Raise({"log"}) /\ UNCHANGED <<buf, sent>>
                 ELSE \E r \in Put2("ResourceCount", "ResourceTime"),
                         fault \in BodyFault :
                        /\ Metered(r)
                        /\ CASE ~r.ok -> Raise({"metrics"})
                             [] r.ok /\ fault -> Raise({"body"})
                             [] r.ok /\ ~fault /\ (count = 0 \/ options.dryrun) ->
                                  Return
                             [] OTHER ->
                                  /\ pc' = "actions" /\ step' = 1
                                  /\ UNCHANGED <<exc, causes>>
  <2>0. PICK of \in 0..MaxPop : \E count \in 0..of :
            /\ ~LimitExceeded(Data, count, of)
            /\ selected' = [selected EXCEPT ![p] = [count |-> count, of |-> of]]
            /\ Rest(count)
    BY <1>3 DEF Fetch
  <2>1. PICK count \in 0..of :
            /\ ~LimitExceeded(Data, count, of)
            /\ selected' = [selected EXCEPT ![p] = [count |-> count, of |-> of]]
            /\ Rest(count)
    BY <2>0
  <2>2. Selects /\ ~LimitExceeded(Data, selected'[p].count, selected'[p].of)
    BY <1>s, <2>1
  <2>3. CASE LogRaises
    <3>1. Raise({"log"}) /\ UNCHANGED <<buf, sent>>
      BY <2>1, <2>3
    <3> QED
      BY <1>l, <1>r, <2>2, <3>1, MetersNothing
  <2>4. CASE ~LogRaises
    <3>1. PICK r \in Put2("ResourceCount", "ResourceTime"), fault \in BodyFault :
             /\ Metered(r)
             /\ CASE ~r.ok -> Raise({"metrics"})
                  [] r.ok /\ fault -> Raise({"body"})
                  [] r.ok /\ ~fault /\ (count = 0 \/ options.dryrun) -> Return
                  [] OTHER -> pc' = "actions" /\ step' = 1 /\ UNCHANGED <<exc, causes>>
      BY <2>1, <2>4
    <3>2. r \in MeterState
      BY Put2Parts
    <3>3. Meters
      BY <3>1, <3>2, MeteredWrites
    <3>4. r.ok \in BOOLEAN /\ fault \in BOOLEAN
      BY <3>2 DEF MeterState, BodyFault
    <3>5. \/ Raise({"metrics"}) \/ Raise({"body"}) \/ Return
          \/ pc' = "actions" /\ step' = 1 /\ UNCHANGED <<exc, causes>> /\ ~options.dryrun
      BY <3>1, <3>4
    <3>6. CASE Raise({"metrics"}) \/ Raise({"body"})
      BY <1>l, <1>r, <2>2, <3>3, <3>6
    <3>7. CASE Return
      BY <1>0, <1>l, <2>2, <3>3, <3>7, ReturnLeaves
    <3>8. CASE pc' = "actions" /\ step' = 1 /\ UNCHANGED <<exc, causes>> /\ ~options.dryrun
      <4>1. Blames /\ exc' \in BOOLEAN
        BY <3>8, BlamesNothing DEF TypeOK
      <4> QED
        BY <1>0, <1>f, <1>a, <2>2, <3>3, <3>8, <4>1 DEF BodyStep, BodyEffect
    <3> QED
      BY <3>5, <3>6, <3>7, <3>8
  <2> QED
    BY <2>3, <2>4
<1> QED
  BY <1>1, <1>2, <1>3

\* Actions and provisioning are steps of the body.
LEMMA ActIsBody ==
    ASSUME TypeOK, p \in Ids, Inside, Act \/ ActionsDone \/ Provision,
           selected[p].count <= selected[p].of
    PROVE  BodyStep /\ BodyEffect
<1> USE NamesOfMetrics
<1>0. pc \in {"actions", "provision"} /\ status = "running" /\ causes[p] = {}
  BY DEF Act, ActionsDone, Provision, At, Inside
<1>f. UNCHANGED <<options, p, held, broken, selected, outcome, status>>
  BY DEF Act, ActionsDone, Provision
<1>s. Selects
  BY <1>f DEF Selects, TypeOK
<1>r. ASSUME NEW k \in {"body", "log", "metrics"}, Raise({k})
      PROVE  Leaves /\ Blames /\ exc' \in BOOLEAN /\ step' \in Nat \ {0}
  <2>1. {k} \in SUBSET AllCauses /\ {k} # {} /\ "limit" \notin {k}
    BY KindsOfCauses
  <2> QED
    BY <1>0, <1>r, <2>1, RaiseLeaves
<1>1. ASSUME Act PROVE BodyStep /\ BodyEffect
  <2>1. PICK fault \in BodyFault, r \in {NoPut} \cup UNION {Put1(m) : m \in Custom} :
         /\ Metered(r)
         /\ IF ~r.ok \/ fault \/ LogRaises
              THEN Raise(IF ~r.ok THEN {"metrics"}
                         ELSE IF fault THEN {"body"} ELSE {"log"})
              ELSE step' = step + 1 /\ UNCHANGED <<pc, exc, causes>>
    BY <1>1 DEF Act
  <2>2. r \in MeterState
    BY Put1Parts, NoPutParts
  <2>3. Meters
    BY <2>1, <2>2, MeteredWrites
  <2>4. /\ pc = "actions" /\ deployed' = deployed
        /\ applied' = [applied EXCEPT ![p] = @ + 1]
    BY <1>1 DEF Act, At
  <2>5. Applies
    BY <2>4 DEF Applies, TypeOK
  <2>6. \/ Raise({"metrics"}) \/ Raise({"body"}) \/ Raise({"log"})
        \/ step' = step + 1 /\ UNCHANGED <<pc, exc, causes>>
    BY <2>1
  <2>7. CASE Raise({"metrics"}) \/ Raise({"body"}) \/ Raise({"log"})
    <3>1. Leaves /\ Blames /\ exc' \in BOOLEAN /\ step' \in Nat \ {0}
      BY <1>r, <2>7
    <3> QED
      BY <1>0, <1>f, <1>s, <2>3, <2>4, <2>5, <3>1 DEF BodyStep, BodyEffect, Leaves
  <2>8. CASE step' = step + 1 /\ UNCHANGED <<pc, exc, causes>>
    <3>1. Blames /\ exc' \in BOOLEAN /\ step' \in Nat \ {0}
      BY <2>8, BlamesNothing DEF TypeOK
    <3> QED
      BY <1>0, <1>f, <1>s, <2>3, <2>4, <2>5, <2>8, <3>1 DEF BodyStep, BodyEffect
  <2> QED
    BY <2>6, <2>7, <2>8
<1>2. ASSUME ActionsDone PROVE BodyStep /\ BodyEffect
  <2>1. PICK r \in Put1("ActionTime") :
            Metered(r) /\ IF r.ok THEN Return ELSE Raise({"metrics"})
    BY <1>2 DEF ActionsDone
  <2>2. Meters
    BY <2>1, Put1Parts, MeteredWrites
  <2>3. pc = "actions" /\ UNCHANGED <<applied, deployed>> /\ Applies
    BY <1>2 DEF ActionsDone, At, Applies, TypeOK
  <2>4. Leaves /\ Blames /\ exc' \in BOOLEAN /\ step' \in Nat \ {0}
    BY <1>0, <1>r, <2>1, ReturnLeaves
  <2> QED
    BY <1>0, <1>f, <1>s, <2>2, <2>3, <2>4 DEF BodyStep, BodyEffect, Leaves
<1>3. ASSUME Provision PROVE BodyStep /\ BodyEffect
  <2>1. /\ pc = "provision" /\ UNCHANGED <<buf, sent, applied>>
        /\ Raise({"log"}) \/ Raise({"body"}) \/ Return
        /\ deployed' = deployed \/ deployed' = deployed \cup {p}
    BY <1>3 DEF Provision, At
  <2>2. Leaves /\ Blames /\ exc' \in BOOLEAN /\ step' \in Nat \ {0}
    BY <1>0, <1>r, <2>1, ReturnLeaves
  <2>3. Meters /\ Applies
    BY <2>1, MetersNothing DEF Applies, TypeOK
  <2> QED
    BY <1>0, <1>f, <1>s, <2>1, <2>2, <2>3 DEF BodyStep, BodyEffect, Leaves
<1> QED
  BY <1>1, <1>2, <1>3

-----------------------------------------------------------------------------
(***************************************************************************)
(* Set up and tear down.                                                   *)
(***************************************************************************)
\* __enter__ takes what the context holds, some of it at each of its steps.
LEMMA SetupFacts ==
    /\ Len(Setup) = 5 /\ SetUp(1) = {}
    /\ \A s \in 1..5 : Setup[s] \subseteq Holdings
    /\ \A s \in 1..4 : SetUp(s + 1) = SetUp(s) \cup Setup[s]
    /\ SetUp(5) \cup Setup[5] = Holdings
<1>1. /\ Len(Setup) = 5 /\ Setup[1] = {"output", "session"} /\ Setup[2] = {"logs"}
      /\ Setup[3] = {"outlog"} /\ Setup[4] = {"recorder"} /\ Setup[5] = {"tracer"}
  BY DEF Setup
<1>2. SetUp(1) = {}
  BY DEF SetUp
<1>3. ASSUME NEW s \in 1..4 PROVE SetUp(s + 1) = SetUp(s) \cup Setup[s]
  <2>1. 1..((s + 1) - 1) = (1..(s - 1)) \cup {s}
    OBVIOUS
  <2> QED
    BY <2>1 DEF SetUp
<1>4. SetUp(5) = {"output", "session", "logs", "outlog", "recorder"}
  <2>1. SetUp(2) = Setup[1]
    BY <1>2, <1>3
  <2>2. SetUp(3) = SetUp(2) \cup Setup[2]
    BY <1>3
  <2>3. SetUp(4) = SetUp(3) \cup Setup[3]
    BY <1>3
  <2>4. SetUp(5) = SetUp(4) \cup Setup[4]
    BY <1>3
  <2> QED
    BY <1>1, <2>1, <2>2, <2>3, <2>4
<1>5. \A s \in 1..5 : s = 1 \/ s = 2 \/ s = 3 \/ s = 4 \/ s = 5
  OBVIOUS
<1>6. \A s \in 1..5 : Setup[s] \subseteq Holdings
  BY <1>1, <1>5 DEF Holdings
<1> QED
  BY <1>1, <1>2, <1>3, <1>4, <1>6 DEF Holdings

\* __exit__ releases what __enter__ took, one thing at each of its steps.
LEMMA TeardownFacts ==
    /\ Len(Teardown) = 9
    /\ Remaining(1) = Holdings
    /\ \A s \in 1..8 : Remaining(s + 1) = Remaining(s) \ {Teardown[s]}
    /\ Remaining(9) \ {"session"} = {}
<1>1. /\ Len(Teardown) = 9
      /\ Teardown[1] = "exception" /\ Teardown[2] = "metadata"
      /\ Teardown[3] = "recorder" /\ Teardown[4] = "metrics" /\ Teardown[5] = "logs"
      /\ Teardown[6] = "outlog" /\ Teardown[7] = "output" /\ Teardown[8] = "tracer"
      /\ Teardown[9] = "session"
  BY DEF Teardown
<1>2. Remaining(1) = Holdings
  BY DEF Remaining
<1>3. ASSUME NEW s \in 1..8 PROVE Remaining(s + 1) = Remaining(s) \ {Teardown[s]}
  <2>1. 1..((s + 1) - 1) = (1..(s - 1)) \cup {s}
    OBVIOUS
  <2> QED
    BY <2>1 DEF Remaining
<1>4. Remaining(9) \ {"session"} = {}
  <2>1. {3, 5, 6, 7, 8} \subseteq 1..(9 - 1)
    OBVIOUS
  <2>2. {"recorder", "logs", "outlog", "output", "tracer"} \subseteq
            {Teardown[i] : i \in 1..(9 - 1)}
    BY <1>1, <2>1
  <2> QED
    BY <2>2 DEF Remaining, Holdings
<1> QED
  BY <1>1, <1>2, <1>3, <1>4

\* The step at which each tear down happens.
LEMMA TeardownSteps ==
    ASSUME NEW s \in 1..9
    PROVE  /\ Teardown[s] = "exception" => s = 1
           /\ Teardown[s] = "metadata" => s = 2
           /\ Teardown[s] = "recorder" => s = 3
           /\ Teardown[s] = "metrics" => s = 4
           /\ Teardown[s] = "logs" => s = 5
           /\ Teardown[s] = "outlog" => s = 6
           /\ Teardown[s] = "output" => s = 7
           /\ Teardown[s] = "tracer" => s = 8
           /\ Teardown[s] = "session" => s = 9
<1>1. /\ Teardown[1] = "exception" /\ Teardown[2] = "metadata"
      /\ Teardown[3] = "recorder" /\ Teardown[4] = "metrics" /\ Teardown[5] = "logs"
      /\ Teardown[6] = "outlog" /\ Teardown[7] = "output" /\ Teardown[8] = "tracer"
      /\ Teardown[9] = "session"
  BY DEF Teardown
<1>2. s = 1 \/ s = 2 \/ s = 3 \/ s = 4 \/ s = 5 \/ s = 6 \/ s = 7 \/ s = 8 \/ s = 9
  OBVIOUS
<1> QED
  BY <1>1, <1>2

\* What holding more, releasing or leaving the holdings alone writes.
LEMMA HoldWrites ==
    ASSUME TypeOK, p \in Ids, NEW what \in SUBSET Holdings,
           held' = [held EXCEPT ![p] = @ \cup what]
    PROVE  Holds /\ held'[p] = held[p] \cup what
<1>1. held'[p] = held[p] \cup what /\ held[p] \in SUBSET Holdings
  BY DEF TypeOK
<1>2. held' \in [Ids -> SUBSET Holdings]
  BY <1>1 DEF TypeOK
<1> QED
  BY <1>1, <1>2 DEF Holds, TypeOK

\* What Release writes.
LEMMA ReleaseWrites ==
    ASSUME TypeOK, p \in Ids, NEW what, Release(what)
    PROVE  Holds /\ held'[p] = held[p] \ {what}
<1>1. held'[p] = held[p] \ {what} /\ held[p] \in SUBSET Holdings
  BY DEF TypeOK, Release
<1>2. held' \in [Ids -> SUBSET Holdings]
  BY <1>1 DEF TypeOK, Release
<1> QED
  BY <1>1, <1>2 DEF Holds, TypeOK, Release

\* A step that leaves what is held alone.
LEMMA HoldsNothing ==
    ASSUME TypeOK, UNCHANGED held
    PROVE  Holds
  BY DEF Holds, TypeOK

-----------------------------------------------------------------------------
(***************************************************************************)
(* The steps of __exit__.                                                  *)
(***************************************************************************)
\* The tear down went well, and the next one follows.
ExitGoesOn ==
    /\ pc' = pc /\ step' = step + 1 /\ causes' = causes /\ step \in 1..8
    /\ held'[p] = held[p] \ {Teardown[step]}
    /\ buf[p] \cup sent[p] \subseteq buf'[p] \cup sent'[p]
    /\ step = 1 /\ exc => "PolicyException" \in buf'[p] \cup sent'[p]
    /\ step = 4 => buf'[p] = {}
    /\ step > 4 => buf'[p] = buf[p]

\* It raised something else than the body's own exception.
ExitBreaks ==
    /\ pc' = "caught" /\ step' = step
    /\ \E k \in AllCauses \ Own : causes'[p] = causes[p] \cup {k}

\* The last tear down, with the body's exception going on.
ExitEnds ==
    /\ step = 9 /\ exc /\ pc' = "caught" /\ step' = step /\ causes' = causes
    /\ held'[p] = held[p] \ {"session"} /\ UNCHANGED <<buf, sent>>

ExitStep ==
    /\ pc = "exit" /\ p \in Ids /\ status = "running"
    /\ UNCHANGED <<options, p, exc, broken, selected, applied, deployed, outcome, status>>
    /\ Meters /\ Blames /\ Holds
    /\ ExitGoesOn \/ ExitBreaks \/ ExitEnds

\* An exception in __exit__ breaks it off there.
LEMMA ExitRaisesBreaks ==
    ASSUME TypeOK, p \in Ids, NEW k \in {"metrics", "exit", "log"}, ExitRaises(k)
    PROVE  Blames /\ ExitBreaks
<1>1. {k} \in SUBSET AllCauses /\ k \in AllCauses \ Own
  BY KindsOfCauses DEF Own
<1>2. Blames /\ causes'[p] = causes[p] \cup {k} /\ pc' = "caught" /\ step' = step
  BY <1>1, BlameWrites DEF ExitRaises
<1> QED
  BY <1>1, <1>2 DEF ExitBreaks

\* The steps of __exit__, but for the one that ends it, are of one kind.
LEMMA ExitKinds ==
    ASSUME TypeOK, p \in Ids, Leaving, Exit, ~(ExitSession /\ ~exc)
    PROVE  ExitStep
<1> USE NamesOfMetrics
<1>0. /\ pc = "exit" /\ status = "running" /\ step \in 1..9
      /\ held[p] = Remaining(step)
  BY TeardownFacts DEF Exit, ExitException, ExitMetadata, ExitRecorder, ExitMetrics,
     ExitLogs, ExitOutputLogs, ExitOutput, ExitTracer, ExitSession, AtExit, At, Leaving
<1>n. held[p] \subseteq Holdings /\ "exception" \notin Holdings /\ "metadata" \notin Holdings
      /\ "metrics" \notin Holdings
  BY DEF TypeOK, Holdings
<1>u. UNCHANGED <<options, broken, selected, applied, deployed, status>>
  BY DEF Exit, ExitException, ExitMetadata, ExitRecorder, ExitMetrics,
     ExitLogs, ExitOutputLogs, ExitOutput, ExitTracer, ExitSession
<1>b. exc \in BOOLEAN
  BY DEF TypeOK
<1>1. CASE ExitException
  <2>1. PICK r \in IF exc THEN Put1("PolicyException") ELSE {NoPut} :
            Metered(r) /\ IF r.ok THEN Proceed ELSE ExitRaises("metrics")
    BY <1>1 DEF ExitException
  <2>2. /\ step = 1 /\ UNCHANGED <<p, exc, held, outcome>> /\ Teardown[step] = "exception"
    BY <1>0, <1>1, TeardownSteps DEF ExitException, AtExit
  <2>3. /\ r \in MeterState /\ buf[p] \cup sent[p] \subseteq r.buf \cup r.sent
        /\ exc /\ r.ok => "PolicyException" \in r.buf \cup r.sent
    BY <1>b, <2>1, Put1Parts, NoPutParts
  <2>4. Meters /\ buf'[p] = r.buf /\ sent'[p] = r.sent
    BY <2>1, <2>3, MeteredWrites
  <2>5. Holds /\ held'[p] = held[p] \ {Teardown[step]}
    BY <1>n, <2>2, HoldsNothing
  <2>6. CASE r.ok
    <3>1. Blames /\ causes' = causes /\ pc' = pc /\ step' = step + 1
      BY <2>1, <2>6, BlamesNothing DEF Proceed
    <3>2. ExitGoesOn
      BY <2>2, <2>3, <2>4, <2>5, <2>6, <3>1 DEF ExitGoesOn
    <3> QED
      BY <1>0, <1>u, <2>2, <2>4, <2>5, <3>1, <3>2 DEF ExitStep
  <2>7. CASE ~r.ok
    <3>1. Blames /\ ExitBreaks
      BY <2>1, <2>7, ExitRaisesBreaks
    <3> QED
      BY <1>0, <1>u, <2>2, <2>4, <2>5, <3>1 DEF ExitStep
  <2> QED
    BY <2>6, <2>7
<1>2. CASE ExitMetadata
  <2>1. /\ step = 2 /\ UNCHANGED <<p, exc, held, outcome, buf, sent>>
        /\ Teardown[step] = "metadata"
        /\ Proceed \/ ExitRaises("exit")
    BY <1>0, <1>2, TeardownSteps DEF ExitMetadata, AtExit
  <2>2. Holds /\ Meters /\ held'[p] = held[p] \ {Teardown[step]}
    BY <1>n, <2>1, HoldsNothing, MetersNothing
  <2>3. CASE Proceed
    <3>1. Blames /\ causes' = causes /\ pc' = pc /\ step' = step + 1
      BY <2>3, BlamesNothing DEF Proceed
    <3>2. ExitGoesOn
      BY <2>1, <2>2, <3>1 DEF ExitGoesOn
    <3> QED
      BY <1>0, <1>u, <2>1, <2>2, <3>1, <3>2 DEF ExitStep
  <2>4. CASE ExitRaises("exit")
    <3>1. Blames /\ ExitBreaks
      BY <2>4, ExitRaisesBreaks
    <3> QED
      BY <1>0, <1>u, <2>1, <2>2, <3>1 DEF ExitStep
  <2> QED
    BY <2>1, <2>3, <2>4
<1>3. CASE ExitRecorder
  <2>1. /\ step = 3 /\ UNCHANGED <<p, exc, outcome>> /\ Teardown[step] = "recorder"
    BY <1>0, <1>3, TeardownSteps DEF ExitRecorder, AtExit
  <2>2. ASSUME NEW r \in Put2("ApiCalls", "ApiTime"), Metered(r), Release("recorder"),
               IF r.ok THEN Proceed ELSE ExitRaises("metrics")
        PROVE  ExitStep
    <3>1. r \in MeterState /\ buf[p] \cup sent[p] \subseteq r.buf \cup r.sent
      BY <2>2, Put2Parts
    <3>2. Meters /\ buf'[p] = r.buf /\ sent'[p] = r.sent
      BY <2>2, <3>1, MeteredWrites
    <3>3. Holds /\ held'[p] = held[p] \ {Teardown[step]}
      BY <2>1, <2>2, ReleaseWrites
    <3>4. CASE r.ok
      <4>1. Blames /\ causes' = causes /\ pc' = pc /\ step' = step + 1
        BY <2>2, <3>4, BlamesNothing DEF Proceed
      <4>2. ExitGoesOn
        BY <2>1, <3>1, <3>2, <3>3, <4>1 DEF ExitGoesOn
      <4> QED
        BY <1>0, <1>u, <2>1, <3>2, <3>3, <4>1, <4>2 DEF ExitStep
    <3>5. CASE ~r.ok
      <4>1. Blames /\ ExitBreaks
        BY <2>2, <3>5, ExitRaisesBreaks
      <4> QED
        BY <1>0, <1>u, <2>1, <3>2, <3>3, <4>1 DEF ExitStep
    <3> QED
      BY <3>4, <3>5
  <2>3. ASSUME ExitRaises("exit"), UNCHANGED <<held, buf, sent>> PROVE ExitStep
    <3>1. Blames /\ ExitBreaks /\ Holds /\ Meters
      BY <2>3, ExitRaisesBreaks, HoldsNothing, MetersNothing
    <3> QED
      BY <1>0, <1>u, <2>1, <3>1 DEF ExitStep
  <2> QED
    BY <1>3, <2>2, <2>3 DEF ExitRecorder
<1>4. CASE ExitMetrics
  <2>1. /\ step = 4 /\ UNCHANGED <<p, exc, held, outcome>> /\ Teardown[step] = "metrics"
    BY <1>0, <1>4, TeardownSteps DEF ExitMetrics, AtExit
  <2>2. Holds /\ held'[p] = held[p] \ {Teardown[step]}
    BY <1>n, <2>1, HoldsNothing
  <2>3. CASE /\ sent' = [sent EXCEPT ![p] = @ \cup buf[p]]
             /\ buf' = [buf EXCEPT ![p] = {}] /\ Proceed
    <3>1. buf'[p] = {} /\ sent'[p] = sent[p] \cup buf[p]
      BY <2>3 DEF TypeOK
    <3>2. buf[p] \in SUBSET MetricNames /\ sent[p] \in SUBSET MetricNames
      BY DEF TypeOK
    <3>3. Meters
      BY <2>3, <3>2 DEF Meters, TypeOK
    <3>4. Blames /\ causes' = causes /\ pc' = pc /\ step' = step + 1
      BY <2>3, BlamesNothing DEF Proceed
    <3>5. ExitGoesOn
      BY <2>1, <2>2, <3>1, <3>4 DEF ExitGoesOn
    <3> QED
      BY <1>0, <1>u, <2>1, <2>2, <3>3, <3>4, <3>5 DEF ExitStep
  <2>4. CASE ExitRaises("metrics") /\ UNCHANGED <<buf, sent>>
    <3>1. Blames /\ ExitBreaks /\ Meters
      BY <2>4, ExitRaisesBreaks, MetersNothing
    <3> QED
      BY <1>0, <1>u, <2>1, <2>2, <3>1 DEF ExitStep
  <2> QED
    BY <1>4, <2>3, <2>4 DEF ExitMetrics
<1>5. CASE ExitLogs \/ ExitOutputLogs \/ ExitOutput \/ ExitTracer
  <2>1. PICK k \in {"log", "exit"} :
            \/ Proceed /\ Release(Teardown[step])
            \/ ExitRaises(k) /\ (UNCHANGED held \/ Release(Teardown[step]))
    BY <1>5 DEF ExitLogs, ExitOutputLogs, ExitOutput, ExitTracer, AtExit
  <2>2. /\ step \in 5..8 /\ UNCHANGED <<p, exc, outcome, buf, sent>>
    BY <1>0, <1>5, TeardownSteps DEF ExitLogs, ExitOutputLogs, ExitOutput, ExitTracer, AtExit
  <2>3. Meters
    BY <2>2, MetersNothing
  <2>4. CASE Proceed /\ Release(Teardown[step])
    <3>1. Holds /\ held'[p] = held[p] \ {Teardown[step]}
      BY <2>4, ReleaseWrites
    <3>2. Blames /\ causes' = causes /\ pc' = pc /\ step' = step + 1
      BY <2>4, BlamesNothing DEF Proceed
    <3>3. ExitGoesOn
      BY <2>2, <3>1, <3>2 DEF ExitGoesOn
    <3> QED
      BY <1>0, <1>u, <2>2, <2>3, <3>1, <3>2, <3>3 DEF ExitStep
  <2>5. CASE ExitRaises(k) /\ (UNCHANGED held \/ Release(Teardown[step]))
    <3>1. Blames /\ ExitBreaks /\ Holds
      BY <2>5, ExitRaisesBreaks, HoldsNothing, ReleaseWrites
    <3> QED
      BY <1>0, <1>u, <2>2, <2>3, <3>1 DEF ExitStep
  <2> QED
    BY <2>1, <2>4, <2>5
<1>6. CASE ExitSession
  <2>1. /\ step = 9 /\ exc /\ pc' = "caught" /\ UNCHANGED <<p, step, exc, outcome>>
        /\ UNCHANGED <<buf, sent, causes>> /\ Release("session")
    BY <1>0, <1>6, TeardownSteps DEF ExitSession, AtExit
  <2>2. Meters /\ Blames /\ Holds /\ held'[p] = held[p] \ {"session"}
    BY <2>1, MetersNothing, BlamesNothing, ReleaseWrites
  <2>3. ExitEnds
    BY <2>1, <2>2 DEF ExitEnds
  <2> QED
    BY <1>0, <1>u, <2>1, <2>2, <2>3 DEF ExitStep
<1> QED
  BY <1>1, <1>2, <1>3, <1>4, <1>5, <1>6 DEF Exit

-----------------------------------------------------------------------------
(***************************************************************************)
(* Into the context.                                                       *)
(***************************************************************************)
\* The context is entered, or set up further, or the body begins.
Enters ==
    \/ pc' = "enter" /\ step' \in 1..5 /\ held'[p] = SetUp(step') /\ causes' = causes
    \/ /\ pc' = "provision" \/ pc' = "fetch"
       /\ pc' = "provision" => ~options.dryrun
       /\ held'[p] = Holdings /\ causes' = causes
    \/ pc' = "caught" /\ causes'[p] # {} /\ ~(causes'[p] \subseteq Own)

EnterKind ==
    /\ pc \in {"call", "enter"} /\ p \in Ids /\ status = "running" /\ exc = FALSE
    /\ buf[p] = {} /\ causes[p] = {} /\ applied[p] = 0
    /\ UNCHANGED <<options, p, exc, broken, buf, sent, selected, applied,
                   deployed, outcome, status>>
    /\ Blames /\ Holds /\ step' \in Nat \ {0}
    /\ Enters

\* The steps before the body are of one kind.
LEMMA EnterKinds ==
    ASSUME TypeOK, p \in Ids, Outside, Entering, CallFails \/ Call \/ EnterStep \/ EnterFails
    PROVE  EnterKind
<1>0. /\ pc \in {"call", "enter"} /\ status = "running" /\ exc = FALSE
      /\ buf[p] = {} /\ causes[p] = {} /\ applied[p] = 0
      /\ pc = "call" => step = 1 /\ held[p] = {}
      /\ pc = "enter" => step \in 1..5 /\ held[p] = SetUp(step)
  BY SetupFacts DEF CallFails, Call, EnterStep, EnterFails, At, Outside, Entering, Untouched
<1>u. UNCHANGED <<options, p, exc, broken, buf, sent, selected, applied, deployed,
                  outcome, status>>
  BY DEF CallFails, Call, EnterStep, EnterFails
<1>b. ASSUME NEW k \in {"call", "enter"}, Blame({k})
      PROVE  Blames /\ causes'[p] # {} /\ ~(causes'[p] \subseteq Own)
  <2>1. {k} \in SUBSET AllCauses /\ k \notin Own
    BY KindsOfCauses DEF Own
  <2>2. Blames /\ causes'[p] = {k}
    BY <1>0, <1>b, <2>1, BlameWrites
  <2> QED
    BY <2>1, <2>2
<1>1. CASE CallFails
  <2>1. pc' = "caught" /\ Blame({"call"}) /\ UNCHANGED <<step, held>>
    BY <1>1 DEF CallFails
  <2>2. Holds /\ step' \in Nat \ {0}
    BY <2>1, HoldsNothing DEF TypeOK
  <2> QED
    BY <1>0, <1>u, <1>b, <2>1, <2>2 DEF EnterKind, Enters
<1>2. CASE Call
  <2>1. pc = "call" /\ pc' = "enter" /\ UNCHANGED <<step, held, causes>>
    BY <1>2 DEF Call, At
  <2>2. Holds /\ Blames /\ step' \in Nat \ {0}
    BY <2>1, HoldsNothing, BlamesNothing DEF TypeOK
  <2>3. step' \in 1..5 /\ held'[p] = SetUp(step')
    BY <1>0, <2>1, SetupFacts
  <2> QED
    BY <1>0, <1>u, <2>1, <2>2, <2>3 DEF EnterKind, Enters
<1>3. CASE EnterStep
  <2>1. /\ pc = "enter" /\ held' = [held EXCEPT ![p] = @ \cup Setup[step]]
        /\ UNCHANGED causes /\ step \in 1..5 /\ held[p] = SetUp(step)
    BY <1>0, <1>3 DEF EnterStep, At
  <2>2. Holds /\ held'[p] = SetUp(step) \cup Setup[step]
    BY <2>1, SetupFacts, HoldWrites
  <2>3. Blames
    BY <2>1, BlamesNothing
  <2>4. CASE step < 5
    <3>1. step' = step + 1 /\ pc' = "enter"
      BY <1>3, <2>1, <2>4, SetupFacts DEF EnterStep
    <3>2. step \in 1..4 /\ step' \in 1..5 /\ step' \in Nat \ {0}
      BY <2>1, <2>4, <3>1
    <3>3. held'[p] = SetUp(step')
      BY <2>2, <3>1, <3>2, SetupFacts
    <3> QED
      BY <1>0, <1>u, <2>1, <2>2, <2>3, <3>1, <3>2, <3>3 DEF EnterKind, Enters
  <2>5. CASE ~(step < 5)
    <3>1. step = 5
      BY <2>1, <2>5
    <3>2. step' = 1 /\ pc' = IF Provisions THEN "provision" ELSE "fetch"
      BY <1>3, <3>1, SetupFacts DEF EnterStep
    <3>3. held'[p] = Holdings
      BY <2>2, <3>1, SetupFacts
    <3>4. step' \in Nat \ {0}
      BY <3>2
    <3>5. /\ pc' = "provision" \/ pc' = "fetch"
          /\ pc' = "provision" => ~options.dryrun
      BY <3>2 DEF Provisions
    <3> QED
      BY <1>0, <1>u, <2>1, <2>2, <2>3, <3>3, <3>4, <3>5 DEF EnterKind, Enters
  <2> QED
    BY <2>4, <2>5
<1>4. CASE EnterFails
  <2>1. PICK left \in {{}, {"output"}, {"output", "session"}, {"tracer"}} :
            held' = [held EXCEPT ![p] = @ \cup left]
    BY <1>4 DEF EnterFails, LeftOf
  <2>2. pc' = "caught" /\ Blame({"enter"}) /\ UNCHANGED step
    BY <1>4 DEF EnterFails
  <2>3. left \in SUBSET Holdings
    BY DEF Holdings
  <2>4. Holds /\ step' \in Nat \ {0}
    BY <2>1, <2>2, <2>3, HoldWrites DEF TypeOK
  <2> QED
    BY <1>0, <1>u, <1>b, <2>2, <2>4 DEF EnterKind, Enters
<1> QED
  BY <1>1, <1>2, <1>3, <1>4

-----------------------------------------------------------------------------
(***************************************************************************)
(* All of these stay with the current policy and leave the others alone.   *)
(***************************************************************************)
Stays ==
    /\ p \in Ids /\ status = "running"
    /\ UNCHANGED <<options, p, broken, outcome, status>>
    /\ Holds /\ Meters /\ Selects /\ Applies /\ Blames
    /\ step' \in Nat \ {0} /\ exc' \in BOOLEAN
    /\ pc' \in Phases \ {"call"} /\ deployed' \in SUBSET Ids

\* A step of the body stays at its policy.
LEMMA BodyStays ==
    ASSUME TypeOK, BodyStep, BodyEffect
    PROVE  Stays
<1>1. Holds /\ pc' \in Phases \ {"call"} /\ deployed' \in SUBSET Ids
  <2>1. Holds
    BY HoldsNothing DEF BodyStep
  <2>2. pc' \in Phases \ {"call"}
    BY DEF BodyStep, Leaves, Phases
  <2>3. deployed' \in SUBSET Ids
    BY DEF BodyEffect, BodyStep, TypeOK
  <2> QED
    BY <2>1, <2>2, <2>3
<1> QED
  BY <1>1 DEF BodyStep, Stays

\* A step of __exit__ stays at its policy.
LEMMA ExitStays ==
    ASSUME TypeOK, ExitStep, selected[p].count <= selected[p].of
    PROVE  Stays
<1>1. Selects /\ Applies /\ deployed' \in SUBSET Ids
  BY DEF ExitStep, Selects, Applies, TypeOK
<1>2. step' \in Nat \ {0}
  <2>1. step \in Nat \ {0} /\ (step' = step \/ step' = step + 1)
    BY DEF ExitStep, ExitGoesOn, ExitBreaks, ExitEnds, TypeOK
  <2> QED
    BY <2>1
<1>3. exc' \in BOOLEAN
  BY DEF ExitStep, TypeOK
<1>4. pc' \in Phases \ {"call"}
  BY DEF ExitStep, ExitGoesOn, ExitBreaks, ExitEnds, Phases
<1> QED
  BY <1>1, <1>2, <1>3, <1>4 DEF ExitStep, Stays

\* A step before the body stays at its policy.
LEMMA EnterStays ==
    ASSUME TypeOK, EnterKind, selected[p].count <= selected[p].of
    PROVE  Stays
<1>1. Selects /\ Applies /\ deployed' \in SUBSET Ids
  BY DEF EnterKind, Selects, Applies, TypeOK
<1>2. Meters
  BY MetersNothing DEF EnterKind
<1>3. exc' \in BOOLEAN
  BY DEF EnterKind, TypeOK
<1>4. pc' \in Phases \ {"call"}
  BY DEF EnterKind, Enters, Phases
<1> QED
  BY <1>1, <1>2, <1>3, <1>4 DEF EnterKind, Stays

\* Such a step keeps the types, the other policies and the running process.
LEMMA StaysKeeps ==
    ASSUME IndInv, Stays
    PROVE  /\ TypeOK'
           /\ (\A q \in Ids : (q > p => Untouched(q)) /\ (q < p => Settled(q)))'
           /\ (p \in Ids /\ outcome[p] = "pending")'
           /\ (p = Len(PolicyData) + 1 => pc = "call")'
           /\ EndsInOrder'
<1>1. p \in Ids /\ p' = p /\ outcome' = outcome /\ outcome[p] = "pending"
  BY DEF IndInv, Stays
<1>2. TypeOK'
  BY DEF IndInv, TypeOK, Stays, Holds, Meters, Selects, Applies, Blames, AllCauses
<1>3. ASSUME NEW q \in Ids, q # p
      PROVE  /\ held'[q] = held[q] /\ buf'[q] = buf[q] /\ sent'[q] = sent[q]
             /\ applied'[q] = applied[q] /\ causes'[q] = causes[q]
  BY <1>3 DEF Stays, Holds, Meters, Applies, Blames
<1>4. ASSUME NEW q \in Ids, q > p PROVE Untouched(q)'
  <2>1. q # p /\ Untouched(q)
    BY <1>1, <1>4, DataFacts DEF IndInv
  <2> QED
    BY <1>1, <1>3, <2>1 DEF Untouched
<1>5. ASSUME NEW q \in Ids, q < p PROVE Settled(q)'
  <2>1. q # p /\ Settled(q)
    BY <1>1, <1>5, DataFacts DEF IndInv
  <2> QED
    BY <1>1, <1>3, <2>1 DEF Settled, Decided, TornDown
<1>6. p # Len(PolicyData) + 1
  BY <1>1, DataFacts
<1>7. EndsInOrder'
  BY DEF Stays, EndsInOrder
<1> QED
  BY <1>1, <1>2, <1>4, <1>5, <1>6, <1>7

-----------------------------------------------------------------------------
(***************************************************************************)
(* The current policy after each kind of step.                             *)
(***************************************************************************)
Here == Outside /\ Entering /\ Inside /\ Leaving /\ Failed

\* Resources are touched only as the limit and the dry run allow.
Allowed == TestedSelections /\ DryrunChangesNothing

\* A step before the body keeps what is invariant of the current policy.
LEMMA EnterHere ==
    ASSUME IndInv, EnterKind
    PROVE  Here' /\ Allowed'
<1>0. /\ p \in Ids /\ p' = p /\ exc' = FALSE /\ buf'[p] = {} /\ applied'[p] = 0
      /\ causes[p] = {} /\ UNCHANGED <<options, applied, selected, deployed, sent>>
  BY DEF EnterKind
<1>1. Allowed'
  <2>1. pc' # "actions"
    BY DEF EnterKind, Enters
  <2>2. TestedSelections /\ DryrunChangesNothing
    BY DEF IndInv
  <2> QED
    BY <1>0, <2>1, <2>2 DEF Allowed, TestedSelections, DryrunChangesNothing
<1>2. CASE pc' = "enter" /\ step' \in 1..5 /\ held'[p] = SetUp(step') /\ causes' = causes
  <2>1. held'[p] = SetUp(step)'
    BY <1>2 DEF SetUp
  <2>2. Entering'
    BY <1>0, <1>2, <2>1, SetupFacts DEF Entering
  <2> QED
    BY <1>1, <1>2, <2>2 DEF Here, Outside, Inside, Leaving, Failed
<1>3. CASE /\ pc' = "provision" \/ pc' = "fetch"
           /\ pc' = "provision" => ~options.dryrun
           /\ held'[p] = Holdings /\ causes' = causes
  <2>1. Inside'
    BY <1>0, <1>3 DEF Inside
  <2> QED
    BY <1>1, <1>3, <2>1 DEF Here, Outside, Entering, Leaving, Failed
<1>4. CASE pc' = "caught" /\ causes'[p] # {} /\ ~(causes'[p] \subseteq Own)
  <2>1. Failed'
    BY <1>0, <1>4 DEF Failed
  <2> QED
    BY <1>1, <1>4, <2>1 DEF Here, Outside, Entering, Leaving, Inside
<1> QED
  BY <1>2, <1>3, <1>4 DEF EnterKind, Enters

\* A step of the body keeps what is invariant of the current policy.
LEMMA BodyHere ==
    ASSUME IndInv, BodyStep, BodyEffect
    PROVE  Here' /\ Allowed'
<1>0. /\ p \in Ids /\ p' = p /\ UNCHANGED <<options, held>>
      /\ held[p] = Holdings /\ causes[p] = {} /\ exc = FALSE
      /\ pc = "fetch" => applied[p] = 0
      /\ pc # "fetch" => ~options.dryrun
      /\ TestedSelections /\ DryrunChangesNothing
  BY DEF BodyStep, IndInv, Inside
<1>1. ASSUME Leaves PROVE Here'
  <2>1. held'[p] = Remaining(step)'
    BY <1>0, <1>1, TeardownFacts DEF Leaves, Remaining
  <2>2. step' \in 1..9 /\ ~(step' > 1) /\ ~(step' > 4)
    BY <1>1 DEF Leaves
  <2>3. (exc <=> causes[p] # {})'
    BY <1>0, <1>1 DEF Leaves
  <2>4. ("limit" \in causes[p] /\ "metrics" \notin causes[p] =>
             Recorded(p, "ResourceLimitExceeded"))'
    BY <1>0, <1>1 DEF Leaves, Recorded
  <2>5. Leaving'
    BY <1>0, <2>1, <2>2, <2>3, <2>4, TeardownFacts DEF Leaving
  <2> QED
    BY <1>1, <2>5 DEF Here, Outside, Entering, Inside, Failed, Leaves
<1>2. ASSUME pc' = "actions", exc' = exc, causes' = causes PROVE Here'
  <2>1. ~options.dryrun
    BY <1>0, <1>2 DEF BodyEffect
  <2>2. Inside'
    BY <1>0, <1>2, <2>1 DEF Inside
  <2> QED
    BY <1>2, <2>2 DEF Here, Outside, Entering, Leaving, Failed
<1>3. Here'
  BY <1>1, <1>2 DEF BodyStep
<1>4. DryrunChangesNothing'
  <2>1. CASE options.dryrun
    <3>1. pc = "fetch"
      BY <1>0, <2>1
    <3>2. deployed' = deployed /\ applied' = applied
      BY <3>1 DEF BodyEffect
    <3> QED
      BY <1>0, <3>2 DEF DryrunChangesNothing
  <2>2. CASE ~options.dryrun
    BY <1>0, <2>2 DEF DryrunChangesNothing
  <2> QED
    BY <2>1, <2>2
<1>5. TestedSelections'
  <2>1. ASSUME NEW q \in Ids
        PROVE  /\ (selected[q].count <= selected[q].of)'
               /\ (applied[q] > 0 => ~LimitExceeded(PolicyData[q], selected[q].count,
                                                    selected[q].of))'
    <3>1. CASE q # p
      <4>1. selected'[q] = selected[q] /\ applied'[q] = applied[q]
        BY <3>1 DEF BodyStep, Selects, Applies
      <4> QED
        BY <1>0, <4>1 DEF TestedSelections, LimitExceeded
    <3>2. CASE q = p
      <4>1. selected'[p].count <= selected'[p].of
        BY DEF BodyStep, Selects
      <4>2. CASE pc = "fetch"
        <5>1. applied'[p] = 0
          BY <1>0, <4>2 DEF BodyEffect
        <5> QED
          BY <3>2, <4>1, <5>1
      <4>3. CASE pc = "actions"
        <5>1. selected' = selected
          BY <4>3 DEF BodyEffect
        <5>2. ~LimitExceeded(PolicyData[p], selected[p].count, selected[p].of)
          BY <1>0, <4>3 DEF TestedSelections, Data
        <5> QED
          BY <3>2, <4>1, <5>1, <5>2 DEF LimitExceeded
      <4>4. CASE pc = "provision"
        <5>1. selected' = selected /\ applied' = applied
          BY <4>4 DEF BodyEffect
        <5> QED
          BY <1>0, <3>2, <5>1 DEF TestedSelections, LimitExceeded
      <4> QED
        BY <4>2, <4>3, <4>4 DEF BodyStep
    <3> QED
      BY <3>1, <3>2
  <2>2. ASSUME pc' = "actions"
        PROVE  (~LimitExceeded(Data, selected[p].count, selected[p].of))'
    <3>1. ~LimitExceeded(Data, selected'[p].count, selected'[p].of)
      BY <1>0, <2>2 DEF BodyEffect, TestedSelections
    <3> QED
      BY <1>0, <3>1 DEF LimitExceeded, Data
  <2> QED
    BY <2>1, <2>2 DEF TestedSelections
<1> QED
  BY <1>3, <1>4, <1>5 DEF Allowed

\* A step of __exit__ keeps what is invariant of the current policy.
LEMMA ExitHere ==
    ASSUME IndInv, ExitStep
    PROVE  Here' /\ Allowed'
<1>0. /\ p \in Ids /\ p' = p /\ exc' = exc
      /\ UNCHANGED <<options, applied, selected, deployed>>
      /\ step \in 1..9 /\ held[p] = Remaining(step)
      /\ exc <=> causes[p] # {}
      /\ step > 1 /\ exc => Recorded(p, "PolicyException")
      /\ "limit" \in causes[p] /\ "metrics" \notin causes[p] =>
             Recorded(p, "ResourceLimitExceeded")
      /\ step > 4 => buf[p] = {}
  BY TeardownFacts DEF ExitStep, IndInv, Leaving
<1>1. Allowed'
  <2>1. pc' # "actions"
    BY DEF ExitStep, ExitGoesOn, ExitBreaks, ExitEnds
  <2>2. TestedSelections /\ DryrunChangesNothing
    BY DEF IndInv
  <2> QED
    BY <1>0, <2>1, <2>2 DEF Allowed, TestedSelections, DryrunChangesNothing
<1>2. CASE ExitGoesOn
  <2>1. pc' = "exit" /\ step' = step + 1 /\ causes' = causes /\ step \in 1..8
    BY <1>2 DEF ExitGoesOn, ExitStep
  <2>2. step' \in 1..9 /\ (step' > 4 => step = 4 \/ step > 4)
        /\ (step > 1 \/ step = 1)
    BY <2>1
  <2>3. held'[p] = Remaining(step)'
    <3>1. held'[p] = Remaining(step + 1)
      BY <1>0, <1>2, <2>1, TeardownFacts DEF ExitGoesOn
    <3> QED
      BY <2>1, <3>1 DEF Remaining
  <2>4. (step > 1 /\ exc => Recorded(p, "PolicyException"))'
    BY <1>0, <1>2, <2>2 DEF ExitGoesOn, Recorded
  <2>5. ("limit" \in causes[p] /\ "metrics" \notin causes[p] =>
             Recorded(p, "ResourceLimitExceeded"))'
    BY <1>0, <1>2, <2>1 DEF ExitGoesOn, Recorded
  <2>6. (step > 4 => buf[p] = {})'
    BY <1>0, <1>2, <2>2 DEF ExitGoesOn
  <2>7. (exc <=> causes[p] # {})'
    BY <1>0, <2>1
  <2>8. Leaving'
    BY <1>0, <2>2, <2>3, <2>4, <2>5, <2>6, <2>7, TeardownFacts DEF Leaving
  <2> QED
    BY <1>1, <2>1, <2>8 DEF Here, Outside, Entering, Inside, Failed
<1>3. CASE ExitBreaks
  <2>1. pc' = "caught" /\ causes'[p] # {} /\ ~(causes'[p] \subseteq Own)
    BY <1>3 DEF ExitBreaks
  <2>2. Failed'
    BY <1>0, <2>1 DEF Failed
  <2> QED
    BY <1>1, <2>1, <2>2 DEF Here, Outside, Entering, Inside, Leaving
<1>4. CASE ExitEnds
  <2>1. /\ step = 9 /\ exc /\ pc' = "caught" /\ causes' = causes
        /\ held'[p] = {} /\ UNCHANGED <<buf, sent>>
    BY <1>0, <1>4, TeardownFacts DEF ExitEnds
  <2>2. buf[p] = {} /\ "PolicyException" \in sent[p] /\ causes[p] # {}
    BY <1>0, <2>1 DEF Recorded
  <2>3. "limit" \in causes[p] /\ causes[p] \subseteq Own =>
            "ResourceLimitExceeded" \in sent[p]
    BY <1>0, <2>2 DEF Recorded, Own
  <2>4. Failed'
    BY <1>0, <2>1, <2>2, <2>3 DEF Failed, TornDown
  <2> QED
    BY <1>1, <2>1, <2>4 DEF Here, Outside, Entering, Inside, Leaving
<1> QED
  BY <1>2, <1>3, <1>4 DEF ExitStep

-----------------------------------------------------------------------------
(***************************************************************************)
(* Who raises from a log call.                                             *)
(***************************************************************************)
\* A step is blamed on a handler that raises, and detaches the policy's own only
\* where none raises or nothing went wrong.
LogsOnStep ==
    /\ "log" \in causes'[p] => "log" \in causes[p] \/ LogRaises
    /\ "logs" \in held[p] \ held'[p] =>
           causes' = causes /\ (causes[p] = {} \/ ~LogRaises)

\* What a step of the body or of __exit__ is blamed on.
LEMMA BlameIs ==
    ASSUME TypeOK, p \in Ids, NEW kinds, causes' = [causes EXCEPT ![p] = @ \cup kinds]
    PROVE  causes'[p] = causes[p] \cup kinds
  BY DEF TypeOK

\* The body is left by a log error only while a handler raises.
LEMMA BodyLogs ==
    ASSUME TypeOK, p \in Ids, Body
    PROVE  LogsOnStep
<1>1. held' = held
  BY DEF Body, FetchFails, FetchOverLimit, Fetch, Act, ActionsDone, Provision
<1>2. ASSUME NEW kinds, "log" \notin kinds, Raise(kinds)
      PROVE  "log" \in causes'[p] => "log" \in causes[p]
  BY <1>2, BlameIs DEF Raise, Blame
<1>3. ASSUME ~LogRaises
      PROVE  \/ \E kinds : "log" \notin kinds /\ Raise(kinds)
             \/ causes' = causes
  <2>1. CASE FetchFails
    <3>1. "log" \notin {"body"} /\ Raise({"body"})
      BY <2>1 DEF FetchFails
    <3> QED
      BY <3>1
  <2>2. CASE FetchOverLimit
    <3>1. PICK r \in Put1("ResourceLimitExceeded") :
              Raise({"limit"} \cup (IF r.ok THEN {} ELSE {"metrics"}))
      BY <1>3, <2>2 DEF FetchOverLimit
    <3>2. "log" \notin {"limit"} \cup (IF r.ok THEN {} ELSE {"metrics"})
      OBVIOUS
    <3> QED
      BY <3>1, <3>2
  <2>3. CASE Fetch
    <3>1. PICK count \in Int,
               r \in Put2("ResourceCount", "ResourceTime"), fault \in BodyFault :
             CASE ~r.ok -> Raise({"metrics"})
               [] r.ok /\ fault -> Raise({"body"})
               [] r.ok /\ ~fault /\ (count = 0 \/ options.dryrun) -> Return
               [] OTHER -> pc' = "actions" /\ step' = 1 /\ UNCHANGED <<exc, causes>>
      BY <1>3, <2>3 DEF Fetch
    <3>2. r.ok \in BOOLEAN /\ fault \in BOOLEAN
      BY Put2Parts, NamesOfMetrics DEF MeterState, BodyFault
    <3>3. Raise({"metrics"}) \/ Raise({"body"}) \/ Return \/ causes' = causes
      BY <3>1, <3>2
    <3>4. "log" \notin {"metrics"} /\ "log" \notin {"body"}
      OBVIOUS
    <3> QED
      BY <3>3, <3>4 DEF Return
  <2>4. CASE Act
    <3>1. PICK fault \in BodyFault, r \in {NoPut} \cup UNION {Put1(m) : m \in Custom} :
             IF ~r.ok \/ fault
               THEN Raise(IF ~r.ok THEN {"metrics"} ELSE IF fault THEN {"body"} ELSE {"log"})
               ELSE UNCHANGED causes
      BY <1>3, <2>4 DEF Act
    <3>2. Raise({"metrics"}) \/ Raise({"body"}) \/ causes' = causes
      BY <3>1
    <3>3. "log" \notin {"metrics"} /\ "log" \notin {"body"}
      OBVIOUS
    <3> QED
      BY <3>2, <3>3
  <2>5. CASE ActionsDone
    <3>1. Raise({"metrics"}) \/ Return
      BY <2>5 DEF ActionsDone
    <3>2. "log" \notin {"metrics"}
      OBVIOUS
    <3> QED
      BY <3>1, <3>2 DEF Return
  <2>6. CASE Provision
    <3>1. Raise({"body"}) \/ Return
      BY <1>3, <2>6 DEF Provision
    <3>2. "log" \notin {"body"}
      OBVIOUS
    <3> QED
      BY <3>1, <3>2 DEF Return
  <2> QED
    BY <2>1, <2>2, <2>3, <2>4, <2>5, <2>6 DEF Body
<1> QED
  BY <1>1, <1>2, <1>3 DEF LogsOnStep

\* The set up of a context is blamed on no handler, and detaches none.
LEMMA EnterLogs ==
    ASSUME TypeOK, p \in Ids, CallFails \/ Call \/ EnterStep \/ EnterFails
    PROVE  LogsOnStep
<1>1. held[p] \subseteq held'[p]
  BY DEF CallFails, Call, EnterStep, EnterFails, TypeOK
<1>2. \/ causes' = causes
      \/ causes' = [causes EXCEPT ![p] = @ \cup {"call"}]
      \/ causes' = [causes EXCEPT ![p] = @ \cup {"enter"}]
  BY DEF CallFails, Call, EnterStep, EnterFails, Blame
<1>3. "log" \in causes'[p] => "log" \in causes[p]
  BY <1>2, BlameIs
<1> QED
  BY <1>1, <1>3 DEF LogsOnStep

\* __exit__ leaves the log only if nothing was raised or no handler raises.
LEMMA ExitLogsOn ==
    ASSUME TypeOK, p \in Ids, Leaving, Exit
    PROVE  LogsOnStep
<1>0. exc <=> causes[p] # {}
  BY DEF Exit, ExitException, ExitMetadata, ExitRecorder, ExitMetrics, ExitLogs,
     ExitOutputLogs, ExitOutput, ExitTracer, ExitSession, AtExit, At, Leaving
<1>1. \/ causes' = causes
      \/ causes' = [causes EXCEPT ![p] = @ \cup {"metrics"}]
      \/ causes' = [causes EXCEPT ![p] = @ \cup {"exit"}]
      \/ causes' = [causes EXCEPT ![p] = @ \cup {"log"}] /\ LogRaises
  BY DEF Exit, ExitException, ExitMetadata, ExitRecorder, ExitMetrics, ExitLogs,
     ExitOutputLogs, ExitOutput, ExitTracer, ExitSession, Proceed, ExitRaises, Blame
<1>2. "log" \in causes'[p] => "log" \in causes[p] \/ LogRaises
  BY <1>1, BlameIs
<1>3. \/ held' = held
      \/ \E what \in {"recorder", "outlog", "output", "tracer", "session"} : Release(what)
      \/ Release("logs") /\ causes' = causes /\ ~(exc /\ LogRaises)
  BY DEF Exit, ExitException, ExitMetadata, ExitRecorder, ExitMetrics, ExitLogs,
     ExitOutputLogs, ExitOutput, ExitTracer, ExitSession, Proceed
<1>4. ASSUME NEW what \in {"recorder", "outlog", "output", "tracer", "session"}, Release(what)
      PROVE  "logs" \notin held[p] \ held'[p]
  <2>1. held'[p] = held[p] \ {what} /\ what # "logs"
    BY <1>4, ReleaseWrites
  <2> QED
    BY <2>1
<1> QED
  BY <1>0, <1>2, <1>3, <1>4 DEF LogsOnStep

\* Such steps keep the account of who raised.
LEMMA StepBlamed ==
    ASSUME IndInv, Stays, LogsOnStep
    PROVE  LogsBlamed'
<1> SUFFICES ASSUME NEW q \in Ids, "log" \in causes'[q]
             PROVE  Culprit(q)' /\ ~(q < p')
  BY DEF LogsBlamed
<1>0. /\ p \in Ids /\ p' = p /\ status = "running" /\ broken' = broken /\ TypeOK
      /\ \A k \in Ids : k # p => causes'[k] = causes[k] /\ held'[k] = held[k]
  BY DEF Stays, Blames, Holds, IndInv
<1>1. q = p
  <2>1. SUFFICES ASSUME q # p PROVE FALSE
    OBVIOUS
  <2>2. "log" \in causes[q]
    BY <1>0, <2>1
  <2>3. ~(q < p) /\ ~(q > p)
    BY <1>0, <2>2 DEF IndInv, LogsBlamed, Untouched
  <2> QED
    BY <1>0, <2>1, <2>3, DataFacts
<1>2. LogRaises /\ (causes' = causes => causes[p] # {})
  BY <1>1 DEF LogsOnStep, LogRaises, IndInv, LogsBlamed, Culprit
<1>3. PICK r \in broken : "logs" \in held[r]
  BY <1>2 DEF LogRaises
<1>4. r \in Ids /\ r <= p
  <2>1. r \in Ids
    BY <1>0 DEF TypeOK
  <2>2. ~(r > p)
    BY <1>3, <2>1 DEF IndInv, Untouched
  <2> QED
    BY <1>0, <2>1, <2>2, DataFacts
<1>5. "logs" \in held'[r]
  BY <1>0, <1>2, <1>3, <1>4 DEF LogsOnStep
<1> QED
  BY <1>0, <1>1, <1>3, <1>4, <1>5, DataFacts DEF Culprit

-----------------------------------------------------------------------------
(***************************************************************************)
(* On to the next policy.                                                  *)
(***************************************************************************)
Advance(result) ==
    /\ p \in Ids /\ status = "running"
    /\ Finish(result) /\ result \in {"ok", "error"}
    /\ UNCHANGED <<options, broken, buf, sent, selected, applied, deployed, causes>>
    /\ Holds
    /\ status' \in {"running", "aborted"}
    /\ status' = "aborted" => options.debug \/ LogRaises'
    /\ result = "error" <=> causes[p] # {}
    /\ "log" \in causes[p] => status' # "running"
    /\ "logs" \in held[p] => "logs" \in held'[p]
    /\ causes[p] \subseteq Own =>
           /\ held'[p] = {} /\ buf[p] = {}
           /\ causes[p] # {} => "PolicyException" \in sent[p]
           /\ "limit" \in causes[p] => "ResourceLimitExceeded" \in sent[p]

\* The steps that end a policy go on to the next one.
LEMMA Advances ==
    ASSUME IndInv, NotRunnable \/ (ExitSession /\ ~exc) \/ Caught
    PROVE  \E result \in {"ok", "error"} : Advance(result)
<1>0. p \in Ids /\ status = "running" /\ TypeOK
  BY DEF NotRunnable, ExitSession, Caught, AtExit, At, IndInv
<1>1. CASE NotRunnable
  <2>1. /\ Finish("ok") /\ UNCHANGED <<options, held, broken, buf, sent, selected, applied,
                                       deployed, causes, status>>
    BY <1>1 DEF NotRunnable
  <2>2. held[p] = {} /\ buf[p] = {} /\ causes[p] = {}
    BY <1>0, <1>1 DEF NotRunnable, At, IndInv, Outside, Untouched
  <2>3. Holds
    BY <1>0, <2>1, HoldsNothing
  <2>4. Advance("ok")
    BY <1>0, <2>1, <2>2, <2>3 DEF Advance
  <2> QED
    BY <2>4
<1>2. CASE ExitSession /\ ~exc
  <2>1. pc = "exit" /\ Teardown[step] = "session"
    BY <1>2 DEF ExitSession, AtExit, At
  <2>2. /\ step \in 1..9 /\ held[p] = Remaining(step)
        /\ exc <=> causes[p] # {}
        /\ step > 4 => buf[p] = {}
    BY <1>0, <2>1, TeardownFacts DEF IndInv, Leaving
  <2>3. step = 9
    BY <2>1, <2>2, TeardownSteps
  <2>4. /\ Finish("ok") /\ Release("session")
        /\ UNCHANGED <<options, broken, buf, sent, selected, applied, deployed, causes, status>>
    BY <1>2 DEF ExitSession
  <2>5. Holds /\ held'[p] = {} /\ held'[p] = held[p] \ {"session"}
    BY <1>0, <2>2, <2>3, <2>4, ReleaseWrites, TeardownFacts
  <2>6. buf[p] = {} /\ causes[p] = {}
    BY <1>2, <2>2, <2>3
  <2>7. Advance("ok")
    BY <1>0, <2>4, <2>5, <2>6 DEF Advance
  <2> QED
    BY <2>7
<1>3. CASE Caught
  <2>1. /\ Finish("error") /\ UNCHANGED <<options, held, broken, buf, sent, selected,
                                          applied, deployed, causes>>
        /\ status' = IF options.debug \/ LogRaises THEN "aborted" ELSE status
        /\ pc = "caught"
    BY <1>3 DEF Caught, At
  <2>2. LogRaises' <=> LogRaises
    BY <2>1 DEF LogRaises
  <2>3. causes[p] # {} /\ (causes[p] \subseteq Own => TornDown(p))
    BY <1>0, <2>1 DEF IndInv, Failed
  <2>4. Holds
    BY <1>0, <2>1, HoldsNothing
  <2>5. /\ status' \in {"running", "aborted"}
        /\ status' = "aborted" => options.debug \/ LogRaises'
        /\ "log" \in causes[p] => status' # "running"
    BY <1>0, <2>1, <2>2 DEF IndInv, LogsBlamed, Culprit, LogRaises
  <2>6. Advance("error")
    BY <1>0, <2>1, <2>3, <2>4, <2>5 DEF Advance, TornDown
  <2> QED
    BY <2>6
<1> QED
  BY <1>1, <1>2, <1>3

\* Going on to the next policy preserves the inductive invariant.
LEMMA AdvanceKeeps ==
    ASSUME IndInv, NEW result \in {"ok", "error"}, Advance(result)
    PROVE  IndInv'
<1>0. /\ p \in Ids /\ p' = p + 1 /\ pc' = "call" /\ step' = 1 /\ exc' = FALSE
      /\ outcome' = [outcome EXCEPT ![p] = result]
      /\ UNCHANGED <<options, broken, buf, sent, selected, applied, deployed, causes>>
      /\ Holds /\ TypeOK
  BY DEF Advance, Finish, IndInv
<1>1. p' \in 1..(Len(PolicyData) + 1) /\ p' # p
  BY <1>0, DataFacts
<1>2. /\ outcome' \in [Ids -> {"pending", "ok", "error"}] /\ outcome'[p] = result
      /\ \A q \in Ids : q # p => outcome'[q] = outcome[q] /\ held'[q] = held[q]
  BY <1>0 DEF TypeOK, Holds
<1>3. TypeOK'
  <2>1. exc' \in BOOLEAN
    BY <1>0, Zenon
  <2>2. step' \in Nat \ {0} /\ pc' \in Phases
    BY <1>0 DEF Phases
  <2>3. status' \in {"running", "done", "aborted"} /\ held' \in [Ids -> SUBSET Holdings]
    BY <1>0 DEF Advance, Holds
  <2> QED
    BY <1>0, <1>1, <1>2, <2>1, <2>2, <2>3 DEF TypeOK
<1>4. ASSUME NEW q \in Ids, q > p PROVE Untouched(q)'
  <2>1. q # p /\ Untouched(q)
    BY <1>0, <1>4, DataFacts DEF IndInv
  <2> QED
    BY <1>0, <1>2, <2>1 DEF Untouched
<1>5. ASSUME NEW q \in Ids, q < p' PROVE Settled(q)'
  <2>1. CASE q = p
    <3>1. (outcome[q] # "pending" /\ (outcome[q] = "error" <=> causes[q] # {}))'
      BY <1>0, <1>2, <2>1 DEF Advance
    <3>2. (causes[q] \subseteq Own => TornDown(q))'
      BY <1>0, <2>1 DEF Advance, TornDown
    <3> QED
      BY <3>1, <3>2 DEF Settled, Decided
  <2>2. CASE q # p
    <3>1. q < p /\ Settled(q)
      BY <1>0, <1>5, <2>2, DataFacts DEF IndInv
    <3> QED
      BY <1>0, <1>2, <2>2, <3>1 DEF Settled, Decided, TornDown
  <2> QED
    BY <2>1, <2>2
<1>6. \A q \in Ids : q > p' \/ q = p' => q > p
  BY <1>0, DataFacts
<1>7. (p \in Ids => outcome[p] = "pending" /\ Here)'
  <2>1. ASSUME p' \in Ids PROVE Untouched(p)'
    <3>1. Untouched(p') /\ p' # p
      BY <1>0, <1>1, <1>6, <2>1 DEF IndInv
    <3> QED
      BY <1>0, <1>2, <2>1, <3>1 DEF Untouched
  <2>2. p' \in Ids => Outside'
    BY <1>0, <2>1 DEF Outside
  <2>3. p' \in Ids => outcome'[p'] = "pending"
    BY <2>1 DEF Untouched
  <2> QED
    BY <1>0, <2>2, <2>3 DEF Here, Entering, Inside, Leaving, Failed
<1>8. Allowed'
  <2>1. TestedSelections /\ DryrunChangesNothing
    BY DEF IndInv
  <2> QED
    BY <1>0, <2>1 DEF Allowed, TestedSelections, DryrunChangesNothing
<1>9. EndsInOrder'
  BY <1>0 DEF Advance, EndsInOrder
<1>10. LogsBlamed'
  <2> SUFFICES ASSUME NEW q \in Ids, "log" \in causes[q]
               PROVE  Culprit(q)' /\ status' # "running" /\ p' = q + 1
    BY <1>0 DEF LogsBlamed
  <2>1. q = p
    <3>1. status = "running" /\ ~(q < p) /\ ~(q > p)
      BY <1>0 DEF Advance, IndInv, LogsBlamed, Untouched
    <3> QED
      BY <1>0, <3>1, DataFacts
  <2>2. PICK r \in broken : r <= q /\ "logs" \in held[r]
    BY DEF IndInv, LogsBlamed, Culprit
  <2>3. r \in Ids /\ "logs" \in held'[r]
    BY <1>0, <1>2, <2>1, <2>2 DEF Advance, TypeOK
  <2> QED
    BY <1>0, <2>1, <2>2, <2>3 DEF Culprit, Advance
<1> QED
  BY <1>0, <1>3, <1>4, <1>5, <1>6, <1>7, <1>8, <1>9, <1>10 DEF IndInv, Here, Allowed

-----------------------------------------------------------------------------
(***************************************************************************)
(* IndInv is inductive.                                                    *)
(***************************************************************************)
\* It holds at first.
LEMMA InitInv == Init => IndInv
<1> SUFFICES ASSUME Init PROVE IndInv
  OBVIOUS
<1>1. p = 1 /\ 1 \in 1..(Len(PolicyData) + 1)
  BY DataFacts DEF Init
<1>2. TypeOK
  <2>1. exc \in BOOLEAN
    BY Zenon DEF Init
  <2>2. pc \in Phases /\ step \in Nat \ {0} /\ status \in {"running", "done", "aborted"}
    BY DEF Init, Phases
  <2>3. /\ held \in [Ids -> SUBSET Holdings] /\ buf \in [Ids -> SUBSET MetricNames]
        /\ sent \in [Ids -> SUBSET MetricNames]
        /\ causes \in [Ids -> SUBSET (FaultKinds \cup {"limit"})]
        /\ outcome \in [Ids -> {"pending", "ok", "error"}]
        /\ applied \in [Ids -> Nat]
    BY DEF Init
  <2>4. selected \in [Ids -> [count : Nat, of : Nat]]
    BY DEF Init
  <2> QED
    BY <1>1, <2>1, <2>2, <2>3, <2>4 DEF Init, TypeOK
<1>3. \A q \in Ids : Untouched(q)
  BY DEF Init, Untouched
<1>4. \A q \in Ids : ~(q < p)
  BY <1>1, DataFacts
<1>5. p \in Ids => outcome[p] = "pending" /\ Here
  <2>1. pc = "call" /\ step = 1 /\ exc = FALSE
    BY DEF Init
  <2> QED
    BY <1>3, <2>1 DEF Here, Outside, Entering, Inside, Leaving, Failed, Untouched
<1>6. Allowed
  <2>1. \A q \in Ids : selected[q].count = 0 /\ selected[q].of = 0 /\ applied[q] = 0
    BY DEF Init
  <2> QED
    BY <2>1 DEF Allowed, TestedSelections, DryrunChangesNothing, Init
<1>7. EndsInOrder /\ pc = "call" /\ LogsBlamed
  BY DEF Init, EndsInOrder, LogsBlamed
<1> QED
  BY <1>2, <1>3, <1>4, <1>5, <1>6, <1>7 DEF IndInv, Here, Allowed

\* A step that leaves the policies and their state alone.
LEMMA IdleKeeps ==
    ASSUME IndInv, TypeOK', EndsInOrder', broken \subseteq broken',
           status # "running" => status' # "running",
           UNCHANGED <<options, p, pc, step, exc, held, buf, sent, selected, applied,
                       deployed, outcome, causes>>
    PROVE  IndInv'
<1>1. \A q \in Ids : (Untouched(q)' <=> Untouched(q)) /\ (Settled(q)' <=> Settled(q))
  BY DEF Untouched, Settled, Decided, TornDown
<1>2. Here => Here'
  BY DEF Here, Outside, Entering, Inside, Leaving, Failed, Untouched, TornDown, Recorded,
     SetUp, Remaining
<1>3. TestedSelections' /\ DryrunChangesNothing'
  BY DEF IndInv, TestedSelections, DryrunChangesNothing, Data, LimitExceeded
<1>4. (p \in Ids => Here) /\ (p \in Ids => outcome[p] = "pending")
  BY DEF IndInv, Here
<1>5. (p \in Ids => outcome[p] = "pending" /\ Outside /\ Entering /\ Inside /\ Leaving /\ Failed)'
  BY <1>2, <1>4 DEF Here
<1>6. LogsBlamed'
  BY DEF IndInv, LogsBlamed, Culprit
<1> QED
  BY <1>1, <1>3, <1>5, <1>6 DEF IndInv

\* Every step preserves the inductive invariant.
LEMMA NextInv ==
    ASSUME IndInv, [Next]_vars
    PROVE  IndInv'
<1>0. TypeOK /\ (p \in Ids => Here /\ selected[p].count <= selected[p].of)
  BY DEF IndInv, Here, TestedSelections
<1>1. ASSUME Stays, Here', Allowed', LogsOnStep PROVE IndInv'
  BY <1>1, StaysKeeps, StepBlamed DEF IndInv, Here, Allowed
<1>2. CASE CallFails \/ Call \/ EnterStep \/ EnterFails
  <2>1. p \in Ids
    BY <1>2 DEF CallFails, Call, EnterStep, EnterFails, At
  <2>2. EnterKind
    BY <1>0, <1>2, <2>1, EnterKinds DEF Here
  <2> QED
    BY <1>0, <1>1, <1>2, <2>1, <2>2, EnterStays, EnterHere, EnterLogs
<1>3. CASE Body
  <2>1. p \in Ids
    BY <1>3 DEF Body, FetchFails, FetchOverLimit, Fetch, Act, ActionsDone, Provision, At
  <2>2. BodyStep /\ BodyEffect
    BY <1>0, <1>3, <2>1, FetchIsBody, ActIsBody DEF Body, Here
  <2> QED
    BY <1>0, <1>1, <1>3, <2>1, <2>2, BodyStays, BodyHere, BodyLogs
<1>4. CASE Exit /\ ~(ExitSession /\ ~exc)
  <2>1. p \in Ids
    BY <1>4 DEF Exit, ExitException, ExitMetadata, ExitRecorder, ExitMetrics, ExitLogs,
       ExitOutputLogs, ExitOutput, ExitTracer, ExitSession, AtExit, At
  <2>2. ExitStep
    BY <1>0, <1>4, <2>1, ExitKinds DEF Here
  <2> QED
    BY <1>0, <1>1, <1>4, <2>1, <2>2, ExitStays, ExitHere, ExitLogsOn DEF Here
<1>5. CASE NotRunnable \/ (ExitSession /\ ~exc) \/ Caught
  BY <1>5, Advances, AdvanceKeeps
<1>6. CASE End
  <2>1. p = Len(PolicyData) + 1
    BY <1>0, <1>6, DataFacts DEF End, TypeOK
  <2>2. UNCHANGED <<options, p, pc, step, exc, held, buf, sent, selected, applied,
                    deployed, outcome, causes>>
    BY <1>6 DEF End
  <2>3. EndsInOrder'
    BY <2>1, <2>2 DEF EndsInOrder
  <2>4. TypeOK' /\ broken' = broken /\ status = "running"
    BY <1>0, <1>6 DEF End, TypeOK
  <2> QED
    BY <2>2, <2>3, <2>4, IdleKeeps
<1>7. CASE \E q \in Ids : TransportFails(q)
  <2>1. PICK q \in Ids : TransportFails(q)
    BY <1>7
  <2>2. UNCHANGED <<options, p, pc, step, exc, held, buf, sent, selected, applied,
                    deployed, outcome, causes>>
    BY <2>1 DEF TransportFails
  <2>3. EndsInOrder'
    BY <2>1 DEF EndsInOrder, TransportFails
  <2>4. TypeOK' /\ broken \subseteq broken' /\ status' = status
    BY <1>0, <2>1 DEF TransportFails, TypeOK
  <2> QED
    BY <2>2, <2>3, <2>4, IdleKeeps
<1>8. CASE Ended \/ UNCHANGED vars
  <2>1. UNCHANGED vars
    BY <1>8 DEF Ended
  <2>2. UNCHANGED <<options, p, pc, step, exc, held, buf, sent, selected, applied,
                    deployed, outcome, causes, broken, status>>
    BY <2>1 DEF vars
  <2>3. EndsInOrder'
    BY <2>2 DEF IndInv, EndsInOrder, LogRaises
  <2>4. TypeOK'
    BY <1>0, <2>2 DEF TypeOK
  <2> QED
    BY <2>2, <2>3, <2>4, IdleKeeps
<1> QED
  BY <1>2, <1>3, <1>4, <1>5, <1>6, <1>7, <1>8 DEF Next, Process, Exit

\* The inductive invariant holds in every reachable state.
LEMMA Inductive == Spec => []IndInv
<1>1. Init => IndInv
  BY InitInv
<1>2. IndInv /\ [Next]_vars => IndInv'
  BY NextInv
<1> QED
  BY <1>1, <1>2, PTL DEF Spec

-----------------------------------------------------------------------------
(***************************************************************************)
(* Theorems.                                                               *)
(***************************************************************************)
\* check_resource_limits agrees with what the limit asks for, for the limits
\* that it tests.
LEMMA TestIsExact ==
    ASSUME NEW d \in DataType, LimitIsTested(d),
           NEW s \in [count : Nat, of : Nat], s.count <= s.of,
           ~LimitExceeded(d, s.count, s.of)
    PROVE  ~OverLimit(d, s)
<1>1. /\ d.amount \in {Unset} \cup (Nat \ {0}) /\ d.percent \in {Unset} \cup 0..100
      /\ d.op \in {"or", "and"} /\ s.count \in Nat /\ s.of \in Nat
  BY DEF DataType
<1>2. s.of = 0 => ~(s.count * 100 > s.of * d.percent)
  BY <1>1 DEF Unset
<1>3. OverAmount(d, s) => Truthy(d.amount)
  BY <1>1 DEF OverAmount, Truthy, Unset
<1>4. OverPercent(d, s) => Truthy(d.percent) /\ s.of # 0
  BY <1>2 DEF OverPercent, Truthy, LimitIsTested
<1>5. CASE d.op = "or"
  BY <1>3, <1>4, <1>5 DEF LimitExceeded, OverLimit, OverAmount, OverPercent
<1>6. CASE d.op = "and"
  BY <1>3, <1>4, <1>6 DEF LimitExceeded, OverLimit, OverAmount, OverPercent, LimitIsTested
<1> QED
  BY <1>1, <1>5, <1>6

\* Policy.__call__ and PullMode.run: no action starts on a selection over the
\* policy's limit, and a dry run starts none and provisions nothing, for all
\* policies whose limits check_resource_limits tests.
THEOREM PoliciesActAsAllowed ==
    ASSUME \A q \in Ids : LimitIsTested(PolicyData[q])
    PROVE  Spec => []ActsAsAllowed
<1>1. IndInv => ActsAsAllowed
  <2>1. ASSUME IndInv, NEW q \in Ids, applied[q] > 0
        PROVE  ~OverLimit(PolicyData[q], selected[q])
    <3>1. /\ selected[q] \in [count : Nat, of : Nat]
          /\ selected[q].count <= selected[q].of
          /\ ~LimitExceeded(PolicyData[q], selected[q].count, selected[q].of)
      BY <2>1 DEF IndInv, TestedSelections, TypeOK
    <3> QED
      BY <3>1, TestIsExact, DataFacts
  <2> QED
    BY <2>1 DEF ActsAsAllowed, ActionsWithinLimit, IndInv
<1> QED
  BY <1>1, Inductive, PTL

\* A policy that is over is settled.
LEMMA DecidedIsSettled ==
    ASSUME IndInv, NEW q \in Ids, Decided(q)
    PROVE  Settled(q)
<1>1. q # p /\ ~(q > p)
  BY DEF IndInv, Decided, Untouched
<1>2. q \in Nat /\ p \in Nat
  BY DataFacts DEF IndInv, TypeOK
<1> QED
  BY <1>1, <1>2 DEF IndInv

\* ExecutionContext.__exit__: a policy of which only the body failed, or that ran
\* over its limit, leaves no handler, recorder, session or output behind.
THEOREM FailedBodiesRelease == Spec => []FailedBodyReleasesContext
<1>1. IndInv => FailedBodyReleasesContext
  BY DecidedIsSettled DEF FailedBodyReleasesContext, Settled, TornDown, Own
<1> QED
  BY <1>1, Inductive, PTL

\* Its failure has reached the metrics service, whatever the buffer's size and
\* whatever else the policy recorded.
THEOREM FailuresReachMetrics == Spec => []FailuresAreMetered
<1>1. IndInv => FailuresAreMetered
  BY DecidedIsSettled DEF FailuresAreMetered, Settled, TornDown, Own
<1> QED
  BY <1>1, Inductive, PTL

\* commands.run records an error for exactly the policies in which something
\* failed; a policy that a log handler makes fail has one attached that raises,
\* its own or that of an earlier policy recorded as errored, and is the last one
\* attempted.
THEOREM EveryErrorIsAccounted == Spec => []ErrorsAreAccounted
<1>1. ASSUME IndInv, NEW q \in Ids, Decided(q), "log" \in causes[q]
      PROVE  /\ \E r \in broken : r <= q /\ outcome[r] = "error" /\ "logs" \in held[r]
             /\ \A later \in Ids : later > q => ~Decided(later)
  <2>1. q < p /\ p = q + 1
    <3>1. q # p /\ ~(q > p)
      BY <1>1 DEF IndInv, Decided, Untouched
    <3>2. q < p
      BY <1>1, <3>1, DataFacts DEF IndInv, TypeOK
    <3> QED
      BY <1>1, <3>2 DEF IndInv, LogsBlamed
  <2>2. PICK r \in broken : r <= q /\ "logs" \in held[r]
    BY <1>1 DEF IndInv, LogsBlamed, Culprit
  <2>3. r \in Ids
    BY <1>1 DEF IndInv, TypeOK
  <2>4. Settled(r)
    <3>1. r < p
      BY <2>1, <2>2, <2>3, DataFacts
    <3> QED
      BY <1>1, <2>3, <3>1 DEF IndInv
  <2>5. outcome[r] = "error"
    BY <2>2, <2>4 DEF Settled, TornDown
  <2>6. ASSUME NEW later \in Ids, later > q PROVE ~Decided(later)
    <3>1. later = p \/ later > p
      BY <2>1, <2>6, DataFacts
    <3> QED
      BY <1>1, <3>1 DEF IndInv, Untouched, Decided
  <2> QED
    BY <2>2, <2>5, <2>6
<1>2. IndInv => ErrorsAreAccounted
  BY <1>1, DecidedIsSettled DEF ErrorsAreAccounted, Settled, IndInv
<1> QED
  BY <1>2, Inductive, PTL

\* commands.run attempts every policy unless --debug or an attached log handler
\* ends the process.
THEOREM OnlyLogHandlersAbort == Spec => []OnlyLogsAbort
<1>1. ASSUME IndInv, status # "running", ~options.debug, ~LogRaises, NEW q \in Ids
      PROVE  Decided(q)
  <2>1. p = Len(PolicyData) + 1
    BY <1>1 DEF IndInv, EndsInOrder
  <2>2. q < p
    BY <2>1, DataFacts
  <2> QED
    BY <1>1, <2>2 DEF IndInv, Settled
<1>2. IndInv => OnlyLogsAbort
  BY <1>1 DEF OnlyLogsAbort
<1> QED
  BY <1>2, Inductive, PTL
=============================================================================
