------------------------------ MODULE TagProofs ------------------------------
(***************************************************************************)
(* Proofs about the two components of c7n/tags.py: the tag actions         *)
(* (TagActions) and mark for operation (MarkForOp).  Their state is        *)
(* disjoint; each theorem is about one of them.                            *)
(***************************************************************************)
EXTENDS TagActions, MarkForOp, FiniteSetTheorems, TLAPS

(***************************************************************************)
(* MarkForOp: the owner of a resource has the time that the policy         *)
(* announces.  The age of a mark and the hours until its date add up to    *)
(* that time and the skew, unless the age is beyond what is told apart;    *)
(* what is about to be operated on has been due since it was enumerated,   *)
(* unless its tag changed.                                                 *)
(***************************************************************************)
Readable(r) == stamp[r] \notin {None, Unread}

DatesAreKept ==
    \A r \in Resources :
        Readable(r) => age[r] = Cap \/ age[r] + stamp[r] >= Grace + config.skew

ListedAreDue ==
    matched["operate"] # None => \A r \in matched["operate"] \ remarked : age[r] >= Grace

OperatedWereDue == \A r \in operated \ remarked : graces[r] >= Grace

MarkInv == MarkTypeOK /\ DatesAreKept /\ ListedAreDue /\ OperatedWereDue

\* The parameters of the policies are numbers.
LEMMA ParametersAreNumbers ==
    ASSUME MarkTypeOK
    PROVE  /\ days \in Nat /\ hours \in Nat /\ days * HoursPerDay \in Nat
           /\ config.skew \in 0..Cap /\ config.offset \in Int /\ host \in Int
           /\ LocalHour \in 0..(HoursPerDay - 1)
<1>1. config \in Configs /\ host \in Hosts /\ hour \in 0..(HoursPerDay - 1)
  BY DEF MarkTypeOK
<1>2. days \in Nat /\ hours \in Nat /\ config.skew \in 0..Cap /\ config.offset \in Int
  BY <1>1, MarkAssumption DEF days, hours, Given
<1>3. days * HoursPerDay \in Nat
  BY <1>2, MarkAssumption
<1>4. host \in Int
  BY <1>1, MarkAssumption
<1>5. hour + config.offset \in Int /\ HoursPerDay \in Nat \ {0}
  BY <1>1, <1>2, MarkAssumption
<1>6. \A a \in Int, b \in Nat \ {0} : a % b \in 0..(b - 1)
  OBVIOUS
<1> QED
  BY <1>2, <1>3, <1>4, <1>5, <1>6 DEF LocalHour

\* The date that mark-for-op writes, as marked-for-op will read it, is not
\* before the grace period, and within what is told apart.
LEMMA DateAfterGrace ==
    ASSUME MarkTypeOK
    PROVE  /\ AsRead \in (-Cap)..Cap /\ AsRead >= Grace + config.skew
           /\ Grace \in Int /\ Grace <= Cap
<1> DEFINE D == days * HoursPerDay
           shift == config.offset - host
<1>1. /\ D \in Nat /\ hours \in Nat /\ config.skew \in 0..Cap
      /\ config.offset \in Int /\ host \in Int /\ LocalHour \in 0..(HoursPerDay - 1)
      /\ HoursPerDay \in Nat \ {0} /\ Cap \in Nat
  BY ParametersAreNumbers, MarkAssumption
<1>2. D + hours <= Cap /\ D + hours + shift <= Cap /\ shift - HoursPerDay >= -Cap
  BY CapAssumption DEF MarkTypeOK, days, hours
<1>3. UntilDate = IF hours > 0 THEN D + hours ELSE D - LocalHour
  BY DEF UntilDate
<1>4. AsRead = IF hours > 0 /\ config.zone = "utc" THEN UntilDate
               ELSE UntilDate + config.offset - host
  BY DEF AsRead
<1>5. Grace = D + hours - config.skew
                - (IF hours > 0 THEN 0 ELSE HoursPerDay - 1)
                + (IF hours > 0 /\ config.zone = "utc" THEN 0 ELSE config.offset - host)
  BY DEF Grace
<1> HIDE DEF D
<1>6. CASE hours > 0 /\ config.zone = "utc"
  BY <1>1, <1>2, <1>3, <1>4, <1>5, <1>6
<1>7. CASE hours > 0 /\ config.zone # "utc"
  BY <1>1, <1>2, <1>3, <1>4, <1>5, <1>7
<1>8. CASE ~(hours > 0)
  BY <1>1, <1>2, <1>3, <1>4, <1>5, <1>8
<1> QED
  BY <1>6, <1>7, <1>8

\* Nobody changes the parameters.
LEMMA GraceIsFixed ==
    ASSUME config' = config, host' = host
    PROVE  Grace' = Grace
  BY DEF Grace, days, hours

\* The invariant holds at first.
LEMMA InitMarkInv == MarkInit => MarkInv
<1> SUFFICES ASSUME MarkInit PROVE MarkInv
  OBVIOUS
<1>1. MarkTypeOK
  <2>1. 0 \in 0..Cap
    BY MarkAssumption
  <2>2. stamp \in [Resources -> (-Cap)..Cap \cup {None, Unread}]
        /\ matched \in [Policies -> (SUBSET Resources) \cup {None}]
    BY DEF MarkInit
  <2>3. age \in [Resources -> 0..Cap] /\ graces \in [Resources -> 0..Cap]
    BY <2>1 DEF MarkInit
  <2> QED
    BY <2>2, <2>3 DEF MarkInit, MarkTypeOK
<1> QED
  BY <1>1
  DEF MarkInit, MarkInv, DatesAreKept, Readable, ListedAreDue, OperatedWereDue, Policies

\* The types of what the steps below start from.
LEMMA MarkFacts ==
    ASSUME MarkInv
    PROVE  /\ Cap \in Nat /\ Grace \in Int /\ Grace <= Cap /\ config.skew \in 0..Cap
           /\ \A r \in Resources :
                  age[r] \in 0..Cap /\ (Readable(r) => stamp[r] \in (-Cap)..Cap)
           /\ matched \in [Policies -> (SUBSET Resources) \cup {None}]
           /\ "operate" \in Policies
<1>1. Cap \in Nat /\ Grace \in Int /\ Grace <= Cap /\ config.skew \in 0..Cap
  BY MarkAssumption, DateAfterGrace, ParametersAreNumbers DEF MarkInv
<1> QED
  BY <1>1 DEF MarkInv, MarkTypeOK, Readable, Policies

\* What is listed to be operated on is due.
LEMMA EnumerateKeeps ==
    ASSUME MarkInv, NEW p \in Policies, Enumerate(p)
    PROVE  MarkInv'
<1>1. Grace' = Grace
  BY GraceIsFixed DEF Enumerate
<1>2. /\ Cap \in Nat /\ Grace \in Int /\ Grace <= Cap /\ config.skew \in 0..Cap
      /\ \A r \in Resources :
             age[r] \in 0..Cap /\ (Readable(r) => stamp[r] \in (-Cap)..Cap)
  BY MarkFacts
<1>3. ASSUME NEW r \in Resources, Matches("operate", r)
      PROVE  age[r] >= Grace
  <2>1. Readable(r) /\ stamp[r] <= config.skew
    BY <1>3 DEF Matches, Due, Readable
  <2>2. age[r] = Cap \/ age[r] + stamp[r] >= Grace + config.skew
    BY <2>1 DEF MarkInv, DatesAreKept
  <2> QED
    BY <1>2, <2>1, <2>2
<1>4. MarkTypeOK'
  <2>1. matched' \in [Policies -> (SUBSET Resources) \cup {None}]
    BY DEF MarkInv, MarkTypeOK, Enumerate
  <2>2. remarked' \subseteq Resources
    BY DEF MarkInv, MarkTypeOK, Enumerate
  <2> QED
    BY <2>1, <2>2 DEF MarkInv, MarkTypeOK, Enumerate
<1>5. DatesAreKept'
  BY <1>1 DEF MarkInv, DatesAreKept, Readable, Enumerate
<1>6. OperatedWereDue'
  BY <1>1 DEF MarkInv, OperatedWereDue, Enumerate
<1>7. ListedAreDue'
  <2>1. CASE p = "operate"
    <3>1. matched'["operate"] = {r \in Resources : Matches("operate", r)} /\ age' = age
      BY <2>1, MarkFacts DEF Enumerate
    <3> QED
      BY <1>1, <1>3, <3>1 DEF ListedAreDue
  <2>2. CASE p # "operate"
    <3>1. matched'["operate"] = matched["operate"] /\ age' = age /\ remarked' = remarked
      BY <2>2, MarkFacts DEF Enumerate
    <3> QED
      BY <1>1, <3>1 DEF MarkInv, ListedAreDue
  <2> QED
    BY <2>1, <2>2
<1> QED
  BY <1>4, <1>5, <1>6, <1>7 DEF MarkInv

\* Whoever writes a tag writes a date after the grace period, none, or one that is
\* passed over; what operate has listed, and is not operated on yet, is noted.
LEMMA RetagKeeps ==
    ASSUME MarkInv, NEW rs \in SUBSET (Resources \ operated),
           NEW to \in {AsRead, None, Unread}, Retag(rs, to),
           UNCHANGED <<config, host, hour, bad, operated, graces>>,
           matched' \in [Policies -> (SUBSET Resources) \cup {None}],
           matched'["operate"] = matched["operate"]
    PROVE  MarkInv'
<1>1. Grace' = Grace
  BY GraceIsFixed
<1>2. /\ Cap \in Nat /\ Grace \in Int /\ config.skew \in 0..Cap
      /\ AsRead \in (-Cap)..Cap /\ AsRead >= Grace + config.skew
  BY MarkFacts, DateAfterGrace DEF MarkInv
<1>3. /\ stamp' = [r \in Resources |-> IF r \in rs THEN to ELSE stamp[r]]
      /\ age' = [r \in Resources |-> IF r \in rs THEN 0 ELSE age[r]]
      /\ remarked \subseteq remarked' /\ remarked' \subseteq remarked \cup rs
      /\ matched["operate"] # None => rs \cap matched["operate"] \subseteq remarked'
  BY DEF Retag
<1>4. MarkTypeOK'
  <2>1. stamp' \in [Resources -> (-Cap)..Cap \cup {None, Unread}]
    BY <1>2, <1>3 DEF MarkInv, MarkTypeOK
  <2>2. age' \in [Resources -> 0..Cap]
    BY <1>2, <1>3 DEF MarkInv, MarkTypeOK
  <2> QED
    BY <1>3, <2>1, <2>2 DEF MarkInv, MarkTypeOK
<1>5. DatesAreKept'
  <2> SUFFICES ASSUME NEW r \in Resources, stamp'[r] \notin {None, Unread}
               PROVE  age'[r] = Cap \/ age'[r] + stamp'[r] >= Grace + config.skew
    BY <1>1 DEF DatesAreKept, Readable
  <2>1. CASE r \in rs
    BY <1>2, <1>3, <2>1
  <2>2. CASE r \notin rs
    BY <1>3, <2>2 DEF MarkInv, DatesAreKept, Readable
  <2> QED
    BY <2>1, <2>2
<1>6. ListedAreDue'
  <2> SUFFICES ASSUME matched["operate"] # None,
                      NEW r \in matched["operate"], r \notin remarked'
               PROVE  age'[r] >= Grace
    BY <1>1 DEF ListedAreDue
  <2>1. r \in Resources
    BY MarkFacts
  <2>2. r \notin rs /\ r \notin remarked
    BY <1>3
  <2> QED
    BY <1>3, <2>1, <2>2 DEF MarkInv, ListedAreDue
<1>7. OperatedWereDue'
  BY <1>1, <1>3 DEF MarkInv, OperatedWereDue
<1> QED
  BY <1>4, <1>5, <1>6, <1>7 DEF MarkInv

LEMMA MarkKeeps ==
    ASSUME MarkInv, Mark \/ Unmark
    PROVE  MarkInv'
<1>1. matched \in [Policies -> (SUBSET Resources) \cup {None}]
  BY MarkFacts
<1>2. CASE Mark
  <2>1. Left("mark") \in SUBSET (Resources \ operated)
    BY <1>1, <1>2 DEF Mark, Left, Policies
  <2>2. /\ matched' \in [Policies -> (SUBSET Resources) \cup {None}]
        /\ matched'["operate"] = matched["operate"]
    BY <1>1, <1>2 DEF Mark, Policies
  <2>3. Retag(Left("mark"), AsRead) /\ UNCHANGED <<config, host, hour, bad, operated, graces>>
    BY <1>2 DEF Mark
  <2> QED
    BY <2>1, <2>2, <2>3, RetagKeeps
<1>3. CASE Unmark
  <2>1. Left("unmark") \in SUBSET (Resources \ operated)
    BY <1>1, <1>3 DEF Unmark, Left, Policies
  <2>2. /\ matched' \in [Policies -> (SUBSET Resources) \cup {None}]
        /\ matched'["operate"] = matched["operate"]
    BY <1>1, <1>3 DEF Unmark, Policies
  <2>3. Retag(Left("unmark"), None) /\ UNCHANGED <<config, host, hour, bad, operated, graces>>
    BY <1>3 DEF Unmark
  <2> QED
    BY <2>1, <2>2, <2>3, RetagKeeps
<1> QED
  BY <1>2, <1>3

LEMMA SpoilKeeps ==
    ASSUME MarkInv, NEW r \in Resources, Spoil(r)
    PROVE  MarkInv'
<1>1. {r} \in SUBSET (Resources \ operated)
  BY DEF Spoil
<1>2. /\ matched' \in [Policies -> (SUBSET Resources) \cup {None}]
      /\ matched'["operate"] = matched["operate"]
  BY MarkFacts DEF Spoil
<1>3. Retag({r}, Unread) /\ UNCHANGED <<config, host, hour, bad, operated, graces>>
  BY DEF Spoil
<1> QED
  BY <1>1, <1>2, <1>3, RetagKeeps

\* What is operated on is due.
LEMMA OperateKeeps ==
    ASSUME MarkInv, Operate
    PROVE  MarkInv'
<1>1. Grace' = Grace /\ config' = config
  BY GraceIsFixed DEF Operate
<1>2. matched["operate"] \in SUBSET Resources
  BY DEF MarkInv, MarkTypeOK, Operate, Policies
<1>3. matched' \in [Policies -> (SUBSET Resources) \cup {None}] /\ matched'["operate"] = None
  BY DEF MarkInv, MarkTypeOK, Operate, Policies
<1>4. operated' \subseteq Resources
  BY <1>2 DEF MarkInv, MarkTypeOK, Operate
<1>5. graces' \in [Resources -> 0..Cap]
  BY DEF MarkInv, MarkTypeOK, Operate
<1>6. MarkTypeOK'
  BY <1>3, <1>4, <1>5 DEF MarkInv, MarkTypeOK, Operate
<1>7. OperatedWereDue'
  <2> SUFFICES ASSUME NEW r \in operated', r \notin remarked PROVE graces'[r] >= Grace
    BY <1>1 DEF OperatedWereDue, Operate
  <2>1. graces'[r] = IF r \in Left("operate") THEN age[r] ELSE graces[r]
    BY <1>4 DEF Operate
  <2>2. CASE r \in Left("operate")
    BY <2>1, <2>2 DEF Left, MarkInv, ListedAreDue, Operate
  <2>3. CASE r \notin Left("operate")
    <3>1. r \in operated
      BY <2>3 DEF Left, Operate
    <3> QED
      BY <2>1, <2>3, <3>1 DEF MarkInv, OperatedWereDue
  <2> QED
    BY <2>2, <2>3
<1>8. DatesAreKept' /\ ListedAreDue'
  BY <1>1, <1>3 DEF MarkInv, DatesAreKept, Readable, ListedAreDue, Operate
<1> QED
  BY <1>6, <1>7, <1>8 DEF MarkInv

\* An hour brings a date as much closer as it makes the mark older.
LEMMA TickKeeps ==
    ASSUME MarkInv, Tick
    PROVE  MarkInv'
<1>1. Grace' = Grace /\ config' = config
  BY GraceIsFixed DEF Tick
<1>2. /\ Cap \in Nat /\ Grace \in Int /\ config.skew \in 0..Cap
      /\ \A r \in Resources :
             age[r] \in 0..Cap /\ (Readable(r) => stamp[r] \in (-Cap)..Cap)
  BY MarkFacts
<1>3. hour' \in 0..(HoursPerDay - 1)
  <2>1. \A a \in Int, b \in Nat \ {0} : a % b \in 0..(b - 1)
    OBVIOUS
  <2>2. hour + 1 \in Int /\ HoursPerDay \in Nat \ {0}
    BY MarkAssumption DEF MarkInv, MarkTypeOK
  <2> QED
    BY <2>1, <2>2 DEF Tick
<1>4. ASSUME NEW r \in Resources
      PROVE  /\ stamp'[r] = IF ~Readable(r) \/ stamp[r] = -Cap THEN stamp[r] ELSE stamp[r] - 1
             /\ age'[r] = IF ~Readable(r) \/ age[r] = Cap THEN age[r] ELSE age[r] + 1
  BY DEF Tick, Readable
<1>5. ASSUME NEW r \in Resources
      PROVE  /\ stamp'[r] \in (-Cap)..Cap \cup {None, Unread}
             /\ age'[r] \in 0..Cap /\ age'[r] >= age[r]
  <2>1. CASE Readable(r)
    BY <1>2, <1>4, <2>1
  <2>2. CASE ~Readable(r)
    BY <1>2, <1>4, <2>2 DEF Readable
  <2> QED
    BY <2>1, <2>2
<1>6. stamp' \in [Resources -> (-Cap)..Cap \cup {None, Unread}] /\ age' \in [Resources -> 0..Cap]
  BY <1>5 DEF Tick
<1>7. MarkTypeOK'
  BY <1>3, <1>6 DEF MarkInv, MarkTypeOK, Tick
<1>8. DatesAreKept'
  <2> SUFFICES ASSUME NEW r \in Resources, stamp'[r] \notin {None, Unread}
               PROVE  age'[r] = Cap \/ age'[r] + stamp'[r] >= Grace + config.skew
    BY <1>1 DEF DatesAreKept, Readable
  <2>1. Readable(r)
    BY <1>4 DEF Readable
  <2>2. age[r] = Cap \/ age[r] + stamp[r] >= Grace + config.skew
    BY <2>1 DEF MarkInv, DatesAreKept
  <2> QED
    BY <1>2, <1>4, <2>1, <2>2
<1>9. ListedAreDue'
  <2> SUFFICES ASSUME matched["operate"] # None,
                      NEW r \in matched["operate"], r \notin remarked
               PROVE  age'[r] >= Grace
    BY <1>1 DEF ListedAreDue, Tick
  <2>1. r \in Resources /\ age[r] >= Grace
    BY MarkFacts DEF MarkInv, ListedAreDue
  <2> QED
    BY <1>2, <1>5, <2>1
<1>10. OperatedWereDue'
  BY <1>1 DEF MarkInv, OperatedWereDue, Tick
<1> QED
  BY <1>7, <1>8, <1>9, <1>10 DEF MarkInv

\* Every step keeps the invariant.
LEMMA NextMarkInv == MarkInv /\ [MarkNext]_markVars => MarkInv'
<1> SUFFICES ASSUME MarkInv, [MarkNext]_markVars PROVE MarkInv'
  OBVIOUS
<1>1. CASE UNCHANGED markVars
  BY <1>1, GraceIsFixed
  DEF markVars, MarkInv, MarkTypeOK, DatesAreKept, Readable, ListedAreDue, OperatedWereDue
<1>2. ASSUME NEW r \in Resources, Owner(r) PROVE MarkInv'
  <2>1. Grace' = Grace
    BY <1>2, GraceIsFixed DEF Owner
  <2>2. bad' \subseteq Resources
    BY <1>2 DEF Owner, MarkInv, MarkTypeOK
  <2> QED
    BY <1>2, <2>1, <2>2
    DEF Owner, MarkInv, MarkTypeOK, DatesAreKept, Readable, ListedAreDue, OperatedWereDue
<1> QED
  BY <1>1, <1>2, EnumerateKeeps, MarkKeeps, SpoilKeeps, OperateKeeps, TickKeeps
  DEF MarkNext, Act

\* When a resource is operated on, the mark that it has then has been there for the
\* time that the policy gives, less the losses that Grace names, for any length of
\* a day, any parameters with days or hours, any zones and hosts, and however the
\* executions of the three policies and the owners interleave, unless its tag was
\* changed after the operating execution had listed it (TagDelayedAction,
\* TagActionFilter).
THEOREM OwnersHaveTheirGrace == MarkSpec => []GraceKept
<1>1. MarkInv => GraceKept
  BY DEF MarkInv, GraceKept, OperatedWereDue
<1> QED
  BY <1>1, InitMarkInv, NextMarkInv, PTL DEF MarkSpec

-----------------------------------------------------------------------------
(***************************************************************************)
(* TagActions: what each batch has done so far, of the resources that still*)
(* exist and that nobody else changed.                                     *)
(***************************************************************************)
Phases == {"waiting", "call", "universal", "create", "delete", "recreate", "done", "raised"}
BatchStates == [pc : Phases, ids : SUBSET Matched, calls : Nat]
TagValues == Values \cup {NoTag}

\* The phases are those of the action, a batch goes on with resources of its own,
\* and the tagging api is called again only within the attempts.
BatchShape(b) ==
    /\ work[b].ids \subseteq b /\ work[b].calls <= max_attempts
    /\ work[b].pc = "waiting" => work[b].ids = b /\ work[b].calls = 0
    /\ work[b].pc = "call" => kind \notin {"rename-tag", "universal-tag", "universal-untag"}
    /\ work[b].pc = "universal" => /\ kind \in {"universal-tag", "universal-untag"}
                                   /\ work[b].calls < max_attempts
    /\ work[b].pc \in {"create", "delete", "recreate"} => kind = "rename-tag"

\* What the batch does not go on with has the wanted tag.
Applied(b) ==
    kind # "rename-tag" /\ work[b].pc # "raised" =>
        \A r \in Ours(b) :
            (r \in work[b].ids /\ work[b].pc # "done") \/ tags[r].new = Wanted

\* Where the value of a resource is, at each call of a rename.
Renamed(b) ==
    kind = "rename-tag" =>
        \A r \in Ours(b) :
            /\ work[b].pc \in {"waiting", "create", "delete"} => tags[r].old = seen[r].old
            /\ work[b].pc \in {"recreate", "done"} => tags[r].old = NoTag
            /\ work[b].pc \in {"delete", "recreate"} /\ r \in Room(b) =>
                   tags[r].new = seen[r].old
            /\ work[b].pc = "done" => tags[r].new = seen[r].old
            /\ work[b].pc = "raised" /\ r \in Room(b) =>
                   seen[r].old \in {tags[r].old, tags[r].new}

\* What the batch may still write it has not written.
Fresh(b) ==
    /\ work[b].pc \in {"waiting", "call", "create"} => written \cap b = {}
    /\ work[b].pc = "universal" => written \cap work[b].ids = {}
    /\ work[b].pc \in {"delete", "recreate"} => written \cap b \subseteq Room(b)

EndedBeforeOutcome == outcome # "running" => Ended

TagInv ==
    /\ TypeOK /\ EndedBeforeOutcome /\ FailuresAreRaised
    /\ \A b \in DOMAIN work : BatchShape(b) /\ Applied(b) /\ Renamed(b) /\ Fresh(b)

\* The places of the resources before the i-th one are fewer than i.
LEMMA ChunkNumber ==
    ASSUME NEW rs, NEW i \in 1..Len(Found)
    PROVE  Cardinality(Before(i, rs)) \div batch_size \in 0..Len(Found)
<1>1. Len(Found) \in Nat /\ batch_size \in Nat \ {0}
  BY TagAssumption
<1>2. IsFiniteSet(1..(i - 1)) /\ Cardinality(1..(i - 1)) <= i - 1
  <2>1. \A a, b \in Int : /\ IsFiniteSet(a..b)
                          /\ Cardinality(a..b) = IF a > b THEN 0 ELSE b - a + 1
    BY FS_Interval
  <2>2. i - 1 \in Int /\ i >= 1
    BY <1>1
  <2>3. IsFiniteSet(1..(i - 1))
        /\ Cardinality(1..(i - 1)) = IF 1 > i - 1 THEN 0 ELSE (i - 1) - 1 + 1
    BY <2>1, <2>2
  <2> QED
    BY <2>2, <2>3
<1>3. Before(i, rs) \in SUBSET (1..(i - 1))
  BY DEF Before
<1>4. IsFiniteSet(Before(i, rs)) /\ Cardinality(Before(i, rs)) <= Cardinality(1..(i - 1))
  BY <1>2, <1>3, FS_Subset
<1> DEFINE n == Cardinality(Before(i, rs))
<1>5. n \in Nat /\ Cardinality(1..(i - 1)) \in Nat
  BY <1>2, <1>4, FS_CardinalityType
<1>6. n <= Len(Found)
  BY <1>1, <1>2, <1>4, <1>5
<1>7. \A a \in Nat, b \in Nat \ {0} : a \div b \in 0..a
  OBVIOUS
<1> HIDE DEF n
<1>8. n \div batch_size \in 0..Len(Found)
  BY <1>1, <1>5, <1>6, <1>7
<1> QED
  BY <1>8 DEF n

\* utils.chunks puts every resource into one chunk.
LEMMA ChunksPartition ==
    ASSUME NEW rs \in SUBSET Matched
    PROVE  /\ UNION Chunks(rs) = rs
           /\ \A b, c \in Chunks(rs) : b = c \/ b \cap c = {}
<1>1. \A i, j \in 1..Len(Found) : Found[i] = Found[j] => i = j
  BY TagAssumption
<1>2. ASSUME NEW r \in rs PROVE \E b \in Chunks(rs) : r \in b
  <2>1. PICK i \in 1..Len(Found) : r = Found[i]
    BY DEF Matched
  <2> DEFINE c == Cardinality(Before(i, rs)) \div batch_size
  <2>2. c \in 0..Len(Found)
    BY ChunkNumber
  <2>3. r \in Chunk(rs, c)
    BY <1>2, <2>1 DEF Chunk, InChunk
  <2> QED
    BY <2>2, <2>3 DEF Chunks
<1>3. ASSUME NEW b \in Chunks(rs), NEW r \in b PROVE r \in rs
  BY <1>3 DEF Chunks, Chunk, InChunk
<1>4. ASSUME NEW b \in Chunks(rs), NEW c \in Chunks(rs), NEW r \in b \cap c
      PROVE  b = c
  <2>1. PICK m \in 0..Len(Found) : b = Chunk(rs, m)
    BY DEF Chunks
  <2>2. PICK n \in 0..Len(Found) : c = Chunk(rs, n)
    BY DEF Chunks
  <2>3. PICK i \in 1..Len(Found) : r = Found[i] /\ InChunk(i, rs, m)
    BY <1>4, <2>1 DEF Chunk
  <2>4. PICK j \in 1..Len(Found) : r = Found[j] /\ InChunk(j, rs, n)
    BY <1>4, <2>2 DEF Chunk
  <2>5. i = j
    BY <1>1, <2>3, <2>4
  <2>6. m = n
    BY <2>3, <2>4, <2>5 DEF InChunk
  <2> QED
    BY <2>1, <2>2, <2>6
<1> QED
  BY <1>2, <1>3, <1>4

\* The batches are a partition of the resources that the action is about.
LEMMA BatchesPartition ==
    ASSUME seen \in [Matched -> Tags]
    PROVE  /\ UNION Batches = Considered
           /\ \A b, c \in Batches : b = c \/ b \cap c = {}
<1>1. CASE kind = "default"
  <2> DEFINE rs == {r \in Matched : Lacks(r)}
  <2>1. Batches = Chunks(rs) /\ Considered = rs /\ rs \in SUBSET Matched
    BY <1>1 DEF Batches, Considered
  <2> HIDE DEF rs
  <2> QED
    BY <2>1, ChunksPartition
<1>2. CASE kind = "rename-tag"
  <2>1. Batches = Groups
    BY <1>2 DEF Batches
  <2>2. Considered = {r \in Matched : seen[r].old # NoTag}
    BY <1>2 DEF Considered
  <2>3. \A r \in Matched : seen[r].old \in Values \cup {NoTag}
    BY DEF Tags
  <2>4. NoTag \notin Values
    BY TagAssumption
  <2>5. ASSUME NEW r \in Considered PROVE \E b \in Groups : r \in b
    <3>1. r \in Group(seen[r].old) /\ seen[r].old \in Values
      BY <2>2, <2>3 DEF Group
    <3> QED
      BY <3>1 DEF Groups
  <2>6. ASSUME NEW b \in Groups, NEW r \in b PROVE r \in Considered
    BY <2>2, <2>4, <2>6 DEF Groups, Group
  <2>7. ASSUME NEW b \in Groups, NEW c \in Groups, NEW r \in b \cap c PROVE b = c
    <3>1. PICK v \in Values : b = Group(v)
      BY DEF Groups
    <3>2. PICK w \in Values : c = Group(w)
      BY DEF Groups
    <3>3. v = w
      BY <2>7, <3>1, <3>2 DEF Group
    <3> QED
      BY <3>1, <3>2, <3>3
  <2> QED
    BY <2>1, <2>5, <2>6, <2>7
<1>3. CASE kind \notin {"default", "rename-tag"}
  <2>1. Batches = Chunks(Matched)
    BY <1>3 DEF Batches
  <2>2. Considered = Matched
    BY <1>3 DEF Considered
  <2> QED
    BY <2>1, <2>2, ChunksPartition
<1> QED
  BY <1>1, <1>2, <1>3

\* A batch of a rename has one value.
LEMMA GroupHasOneValue ==
    ASSUME kind = "rename-tag", NEW b \in Batches
    PROVE  /\ ValueOf(b) \in Values
           /\ \A r \in b : r \in Matched /\ seen[r].old = ValueOf(b)
<1>1. b \in Groups
  BY DEF Batches
<1>2. PICK v \in Values : b = Group(v) /\ b # {}
  BY <1>1 DEF Groups
<1>3. \A r \in b : r \in Matched /\ seen[r].old = v
  BY <1>2 DEF Group
<1>4. (CHOOSE r \in b : TRUE) \in b
  BY <1>2
<1> QED
  BY <1>2, <1>3, <1>4 DEF ValueOf

\* What a call writes.
LEMMA WriteWrites ==
    ASSUME tags \in [Matched -> Tags], NEW ids \in SUBSET Matched, NEW v \in TagValues,
           Write(ids, v)
    PROVE  /\ tags' \in [Matched -> Tags]
           /\ \A r \in ids : tags'[r].new = v /\ tags'[r].old = tags[r].old
           /\ \A r \in Matched \ ids : tags'[r] = tags[r]
           /\ written' = written \cup ids
<1>1. \A t \in Tags : With(t, v) \in Tags /\ With(t, v).new = v /\ With(t, v).old = t.old
  BY DEF Tags, With, TagValues
<1> QED
  BY <1>1 DEF Write

\* A thread goes on to another phase.
LEMMA ToGoes ==
    ASSUME work \in [Batches -> BatchStates], NEW b \in Batches, NEW ph \in Phases,
           To(b, ph), UNCHANGED <<kind, seen>>
    PROVE  /\ work' \in [Batches -> BatchStates]
           /\ work'[b].pc = ph /\ work'[b].ids = work[b].ids
           /\ work'[b].calls = work[b].calls
           /\ \A c \in Batches : c # b => work'[c] = work[c]
  BY DEF To, BatchStates

\* A step of the thread of batch b: it changes the tags of its own resources only.
OwnStep(b) ==
    /\ UNCHANGED <<kind, seen, alive, outcome, touched>>
    /\ work' \in [Batches -> BatchStates]
    /\ \A c \in Batches : c # b => work'[c] = work[c]
    /\ tags' \in [Matched -> Tags]
    /\ \A r \in Matched \ b : tags'[r] = tags[r]
    /\ faults' \in [FaultKinds -> Nat]
    /\ work[b].pc \notin {"done", "raised"}
    /\ BatchShape(b)' /\ Applied(b)' /\ Renamed(b)' /\ Fresh(b)'
    /\ written' \subseteq written \cup b
    /\ \A r \in written : tags'[r].new = tags[r].new

\* The facts that the steps of a thread start from.
LEMMA BatchFacts ==
    ASSUME TagInv, NEW b \in DOMAIN work
    PROVE  /\ work \in [Batches -> BatchStates] /\ b \in Batches /\ work[b] \in BatchStates
           /\ b \subseteq Matched /\ b \subseteq Considered
           /\ seen \in [Matched -> Tags] /\ tags \in [Matched -> Tags]
           /\ kind \in AllKinds /\ Wanted \in TagValues /\ faults \in [FaultKinds -> Nat]
           /\ BatchShape(b) /\ Applied(b) /\ Renamed(b) /\ Fresh(b)
           /\ written \subseteq Matched
<1>1. work \in [Batches -> BatchStates] /\ seen \in [Matched -> Tags]
      /\ tags \in [Matched -> Tags] /\ faults \in [FaultKinds -> Nat]
  BY DEF TagInv, TypeOK, BatchStates, Phases
<1>2. b \in Batches /\ work[b] \in BatchStates
  BY <1>1
<1>3. b \subseteq Considered
  BY DEF TagInv, TypeOK
<1>4. b \subseteq Matched
  BY <1>3 DEF Considered
<1>5. kind \in AllKinds /\ Wanted \in TagValues /\ written \subseteq Matched
  BY TagAssumption DEF TagInv, TypeOK, Wanted, TagValues
<1> QED
  BY <1>1, <1>2, <1>3, <1>4, <1>5 DEF TagInv

\* A thread disturbs no other batch.
LEMMA OwnStepKeeps ==
    ASSUME TagInv, NEW b \in DOMAIN work, OwnStep(b)
    PROVE  TagInv'
<1>1. /\ work \in [Batches -> BatchStates] /\ b \in Batches
      /\ b \subseteq Matched /\ b \subseteq Considered
  BY BatchFacts
<1>2. kind' = kind /\ seen' = seen /\ alive' = alive /\ outcome' = outcome /\ touched' = touched
  BY DEF OwnStep
<1>3. Batches' = Batches /\ Considered' = Considered
  BY <1>2 DEF Batches, Chunks, Chunk, InChunk, Before, Lacks, Groups, Group, Considered
<1>4. DOMAIN work' = DOMAIN work /\ DOMAIN work = Batches
  BY <1>1 DEF OwnStep
<1>5. TypeOK'
  BY <1>1, <1>2, <1>3, <1>4 DEF TagInv, TypeOK, OwnStep, BatchStates, Phases
<1>6. outcome = "running"
  BY DEF TagInv, EndedBeforeOutcome, Ended, OwnStep
<1>7. EndedBeforeOutcome' /\ FailuresAreRaised'
  BY <1>2, <1>6 DEF EndedBeforeOutcome, FailuresAreRaised
<1>9. ASSUME NEW c \in DOMAIN work'
      PROVE  BatchShape(c)' /\ Applied(c)' /\ Renamed(c)' /\ Fresh(c)'
  <2>1. CASE c = b
    BY <2>1 DEF OwnStep
  <2>2. CASE c # b
    <3>1. work'[c] = work[c] /\ c \subseteq Matched /\ c \cap b = {}
      BY <1>1, <1>4, <1>9, <2>2, BatchFacts DEF OwnStep, TagInv, TypeOK
    <3>2. \A r \in c : tags'[r] = tags[r]
      BY <3>1 DEF OwnStep
    <3>3. BatchShape(c) /\ Applied(c) /\ Renamed(c) /\ Fresh(c)
      BY <1>4, <1>9 DEF TagInv
    <3>4. BatchShape(c)'
      BY <1>2, <3>1, <3>3 DEF BatchShape
    <3>5. Applied(c)'
      BY <1>2, <3>1, <3>2, <3>3 DEF Applied, Ours, Wanted
    <3>6. Renamed(c)'
      BY <1>2, <3>1, <3>2, <3>3 DEF Renamed, Ours, Room
    <3>7. written' \cap c \subseteq written \cap c
      BY <3>1 DEF OwnStep
    <3>8. Fresh(c)'
      BY <1>2, <3>1, <3>3, <3>7 DEF Fresh, BatchShape, Room
    <3> QED
      BY <3>4, <3>5, <3>6, <3>8
  <2> QED
    BY <2>1, <2>2
<1> QED
  BY <1>5, <1>7, <1>9 DEF TagInv

\* Spending a fault leaves a budget.
LEMMA SpendSpends ==
    ASSUME faults \in [FaultKinds -> Nat], NEW k \in FaultKinds, Spend(k)
    PROVE  faults' \in [FaultKinds -> Nat]
  BY DEF Spend

\* A thread begins.
LEMMA StartIsOwn ==
    ASSUME TagInv, NEW b \in DOMAIN work, Start(b)
    PROVE  OwnStep(b)
<1> DEFINE ph == CASE kind = "rename-tag" -> "create"
                   [] kind \in {"universal-tag", "universal-untag"} -> "universal"
                   [] OTHER -> "call"
<1>1. ph \in {"create", "universal", "call"} /\ ph \in Phases
  BY DEF Phases
<1>2. To(b, ph) /\ work[b].pc = "waiting"
      /\ UNCHANGED <<kind, seen, tags, alive, outcome, touched, written, faults>>
  BY DEF Start, At
<1>3. (ph = "create" <=> kind = "rename-tag")
      /\ (ph = "universal" <=> kind \in {"universal-tag", "universal-untag"})
  OBVIOUS
<1> HIDE DEF ph
<1>4. /\ work' \in [Batches -> BatchStates] /\ work'[b].pc = ph
      /\ work'[b].ids = work[b].ids /\ work'[b].calls = work[b].calls
      /\ \A c \in Batches : c # b => work'[c] = work[c]
  BY <1>1, <1>2, BatchFacts, ToGoes
<1>5. BatchShape(b) /\ Applied(b) /\ Renamed(b) /\ Fresh(b)
  BY BatchFacts
<1>6. BatchShape(b)'
  BY <1>1, <1>2, <1>3, <1>4, <1>5, TagAssumption DEF BatchShape
<1>7. Applied(b)'
  BY <1>1, <1>2, <1>4, <1>5 DEF Applied, Ours, Wanted
<1>8. Renamed(b)'
  BY <1>1, <1>2, <1>3, <1>4, <1>5 DEF Renamed, Ours, Room
<1>9. Fresh(b)'
  BY <1>1, <1>2, <1>4, <1>5 DEF Fresh, BatchShape
<1> QED
  BY <1>2, <1>4, <1>6, <1>7, <1>8, <1>9, BatchFacts DEF OwnStep

\* A call that is accepted writes all that the batch goes on with.
LEMMA CallIsOwn ==
    ASSUME TagInv, NEW b \in DOMAIN work, Call(b)
    PROVE  OwnStep(b)
<1>1. To(b, "done") /\ work[b].pc = "call" /\ Write(work[b].ids, Wanted)
      /\ UNCHANGED <<kind, seen, alive, outcome, touched, faults>>
  BY DEF Call, At
<1>2. BatchShape(b) /\ Applied(b) /\ kind # "rename-tag" /\ work[b].ids \subseteq b
      /\ b \subseteq Matched
  BY <1>1, BatchFacts DEF BatchShape
<1>3. /\ work' \in [Batches -> BatchStates] /\ work'[b].pc = "done"
      /\ work'[b].ids = work[b].ids /\ work'[b].calls = work[b].calls
      /\ \A c \in Batches : c # b => work'[c] = work[c]
  BY <1>1, BatchFacts, ToGoes DEF Phases
<1>4. /\ tags' \in [Matched -> Tags]
      /\ \A r \in work[b].ids : tags'[r].new = Wanted
      /\ \A r \in Matched \ work[b].ids : tags'[r] = tags[r]
      /\ written' = written \cup work[b].ids
  <2> DEFINE ids == work[b].ids
  <2>1. tags \in [Matched -> Tags] /\ Wanted \in TagValues /\ ids \in SUBSET Matched
    BY <1>2, BatchFacts
  <2>2. Write(ids, Wanted)
    BY <1>1
  <2> HIDE DEF ids
  <2>3. /\ tags' \in [Matched -> Tags]
        /\ \A r \in ids : tags'[r].new = Wanted
        /\ \A r \in Matched \ ids : tags'[r] = tags[r]
        /\ written' = written \cup ids
    BY <2>1, <2>2, WriteWrites
  <2> QED
    BY <2>3 DEF ids
<1>5. BatchShape(b)' /\ Renamed(b)'
  BY <1>1, <1>2, <1>3 DEF BatchShape, Renamed
<1>6. Applied(b)'
  BY <1>1, <1>2, <1>3, <1>4 DEF Applied, Ours, Wanted
<1>7. Fresh(b)' /\ written' \subseteq written \cup b
  BY <1>2, <1>3, <1>4 DEF Fresh
<1>8. \A r \in written : r \in Matched \ work[b].ids
  BY <1>1, <1>2, BatchFacts DEF Fresh
<1> QED
  BY <1>1, <1>2, <1>3, <1>4, <1>5, <1>6, <1>7, <1>8, BatchFacts DEF OwnStep

\* What ec2 names is gone, and need not be tagged.
LEMMA SkipBadIdsIsOwn ==
    ASSUME TagInv, NEW b \in DOMAIN work, NEW gone \in SUBSET b, SkipBadIds(b, gone)
    PROVE  OwnStep(b)
<1>1. /\ work[b].pc = "call" /\ gone \subseteq work[b].ids \ alive
      /\ UNCHANGED <<kind, seen, tags, alive, outcome, touched, written, faults>>
  BY DEF SkipBadIds, At
<1>2. /\ work \in [Batches -> BatchStates] /\ b \in Batches /\ work[b] \in BatchStates
      /\ BatchShape(b) /\ Applied(b) /\ b \subseteq Matched
  BY BatchFacts
<1>3. kind # "rename-tag" /\ work[b].ids \subseteq b
  BY <1>1, <1>2 DEF BatchShape
<1>4. /\ work'[b].ids = work[b].ids \ gone /\ work'[b].calls = work[b].calls
      /\ work'[b].pc = IF gone = work[b].ids THEN "done" ELSE "call"
      /\ \A c \in Batches : c # b => work'[c] = work[c]
      /\ work' \in [Batches -> BatchStates]
  BY <1>2 DEF SkipBadIds, BatchStates, Phases
<1>5. BatchShape(b)' /\ Renamed(b)'
  BY <1>1, <1>2, <1>3, <1>4 DEF BatchShape, Renamed
<1>6. Applied(b)'
  BY <1>1, <1>2, <1>3, <1>4 DEF Applied, Ours, Wanted
<1>7. Fresh(b)'
  BY <1>1, <1>4, BatchFacts DEF Fresh
<1> QED
  BY <1>1, <1>2, <1>4, <1>5, <1>6, <1>7, BatchFacts DEF OwnStep

\* A batch of an action other than rename-tag that fails promises nothing.
LEMMA RaiseIsOwn ==
    ASSUME TagInv, NEW b \in DOMAIN work, kind # "rename-tag", To(b, "raised"),
           work[b].pc \notin {"done", "raised"},
           UNCHANGED <<kind, seen, tags, alive, outcome, touched, written>>,
           faults' \in [FaultKinds -> Nat]
    PROVE  OwnStep(b)
<1>1. /\ work' \in [Batches -> BatchStates] /\ work'[b].pc = "raised"
      /\ work'[b].ids = work[b].ids /\ work'[b].calls = work[b].calls
      /\ \A c \in Batches : c # b => work'[c] = work[c]
  BY BatchFacts, ToGoes DEF Phases
<1>2. BatchShape(b)
  BY BatchFacts
<1>3. BatchShape(b)' /\ Applied(b)' /\ Renamed(b)' /\ Fresh(b)'
  BY <1>1, <1>2 DEF BatchShape, Applied, Renamed, Fresh
<1> QED
  BY <1>1, <1>3, BatchFacts DEF OwnStep

LEMMA CallRaisesIsOwn ==
    ASSUME TagInv, NEW b \in DOMAIN work, CallRaises(b)
    PROVE  OwnStep(b)
<1>1. work[b].pc = "call" /\ To(b, "raised")
      /\ UNCHANGED <<kind, seen, tags, alive, outcome, touched, written>>
  BY DEF CallRaises, At
<1>2. kind # "rename-tag"
  BY <1>1, BatchFacts DEF BatchShape
<1>3. faults' \in [FaultKinds -> Nat]
  BY BatchFacts, SpendSpends DEF CallRaises, FaultKinds
<1> QED
  BY <1>1, <1>2, <1>3, RaiseIsOwn

LEMMA UniversalRaisesIsOwn ==
    ASSUME TagInv, NEW b \in DOMAIN work, UniversalRaises(b)
    PROVE  OwnStep(b)
<1>1. work[b].pc = "universal" /\ To(b, "raised") /\ Spend("call")
      /\ UNCHANGED <<kind, seen, tags, alive, outcome, touched, written>>
  BY DEF UniversalRaises, At
<1>2. kind # "rename-tag"
  BY <1>1, BatchFacts DEF BatchShape
<1>3. faults' \in [FaultKinds -> Nat]
  BY <1>1, BatchFacts, SpendSpends DEF FaultKinds
<1> QED
  BY <1>1, <1>2, <1>3, RaiseIsOwn

\* The tagging api tags what it neither throttles nor rejects; what it throttled
\* is what the batch goes on with, and what it rejected makes it fail.
LEMMA UniversalCallIsOwn ==
    ASSUME TagInv, NEW b \in DOMAIN work, NEW throttles \in SUBSET b,
           UniversalCall(b, throttles)
    PROVE  OwnStep(b)
<1> DEFINE ids == work[b].ids
           errors == Overfull(ids)
           tagged == (ids \cap alive) \ (throttles \cup errors)
           next == Decide(b, throttles, errors)
<1>1. /\ work[b].pc = "universal" /\ throttles \subseteq (ids \cap alive) \ errors
      /\ Write(tagged, Wanted)
      /\ work' = [work EXCEPT ![b] = [pc |-> next, ids |-> throttles,
                                      calls |-> work[b].calls + 1]]
      /\ UNCHANGED <<kind, seen, alive, outcome, touched, faults>>
  BY DEF UniversalCall, At
<1>2. /\ work \in [Batches -> BatchStates] /\ b \in Batches /\ work[b] \in BatchStates
      /\ BatchShape(b) /\ Applied(b) /\ b \subseteq Matched
      /\ tags \in [Matched -> Tags] /\ Wanted \in TagValues
  BY BatchFacts
<1>3. /\ kind \in {"universal-tag", "universal-untag"} /\ ids \subseteq b
      /\ work[b].calls \in Nat /\ work[b].calls < max_attempts /\ max_attempts \in Nat \ {0}
  BY <1>1, <1>2, TagAssumption DEF BatchShape, BatchStates
<1>4. /\ next \in {"raised", "done", "universal"}
      /\ errors # {} => next = "raised"
      /\ next = "done" => throttles = {}
      /\ next = "universal" => work[b].calls # max_attempts - 1
  BY DEF Decide
<1>5. errors \subseteq ids
  BY DEF Overfull
<1> HIDE DEF errors, next
<1>6. /\ tags' \in [Matched -> Tags]
      /\ \A r \in tagged : tags'[r].new = Wanted
      /\ \A r \in Matched \ tagged : tags'[r] = tags[r]
      /\ written' = written \cup tagged
  <2>1. tagged \in SUBSET Matched
    BY <1>2, <1>3
  <2> HIDE DEF Wanted, tagged
  <2> QED
    BY <1>1, <1>2, <2>1, WriteWrites
<1>7. /\ work'[b].pc = next /\ work'[b].ids = throttles /\ work'[b].calls = work[b].calls + 1
      /\ \A c \in Batches : c # b => work'[c] = work[c]
  BY <1>1, <1>2
<1>8. work' \in [Batches -> BatchStates]
  <2>1. [pc |-> next, ids |-> throttles, calls |-> work[b].calls + 1] \in BatchStates
    BY <1>2, <1>3, <1>4 DEF BatchStates, Phases
  <2> QED
    BY <1>1, <1>2, <2>1
<1>9. BatchShape(b)'
  BY <1>1, <1>3, <1>4, <1>7 DEF BatchShape
<1>10. Renamed(b)'
  BY <1>1, <1>3 DEF Renamed
<1>11. Applied(b)'
  <2> SUFFICES ASSUME next # "raised", NEW r \in Ours(b)
               PROVE  (r \in throttles /\ next # "done") \/ tags'[r].new = Wanted
    BY <1>1, <1>7 DEF Applied, Ours, Wanted
  <2>1. r \in b /\ r \in alive /\ r \in Matched /\ errors = {}
    BY <1>2, <1>4 DEF Ours
  <2>2. CASE r \in throttles
    BY <1>4, <2>2
  <2>3. CASE r \in tagged
    BY <1>6, <2>3
  <2>4. CASE r \notin ids
    <3>1. tags[r].new = Wanted
      BY <1>1, <1>2, <1>3, <2>4 DEF Applied
    <3> QED
      BY <1>6, <2>1, <2>4, <3>1
  <2> QED
    BY <2>1, <2>2, <2>3, <2>4
<1>12. \A r \in written : r \notin ids /\ r \in Matched
  BY <1>1, BatchFacts DEF Fresh
<1>13. Fresh(b)' /\ written' \subseteq written \cup b
  BY <1>1, <1>3, <1>4, <1>6, <1>7, <1>12 DEF Fresh
<1>14. \A r \in written : tags'[r].new = tags[r].new
  BY <1>6, <1>12
<1> QED
  BY <1>1, <1>2, <1>3, <1>6, <1>8, <1>7, <1>9, <1>10, <1>11, <1>13, <1>14, BatchFacts
     DEF OwnStep

\* The first calls of a rename write the value where there is room for it.
LEMMA CreateIsOwn ==
    ASSUME TagInv, NEW b \in DOMAIN work, Create(b)
    PROVE  OwnStep(b)
<1> DEFINE ids == Room(b)
           v == ValueOf(b)
<1>1. To(b, "delete") /\ work[b].pc = "create" /\ Write(ids, v)
      /\ UNCHANGED <<kind, seen, alive, outcome, touched, faults>>
  BY DEF Create, At
<1>2. BatchShape(b) /\ Renamed(b) /\ kind = "rename-tag" /\ b \subseteq Matched
      /\ tags \in [Matched -> Tags] /\ b \in Batches
  BY <1>1, BatchFacts DEF BatchShape
<1>3. v \in Values /\ \A r \in b : seen[r].old = v
  BY <1>2, GroupHasOneValue
<1>4. ids \in SUBSET Matched /\ ids \subseteq b /\ v \in TagValues
  BY <1>2, <1>3 DEF Room, TagValues
<1>5. Room(b)' = ids
  BY <1>1 DEF Room
<1>6. /\ work' \in [Batches -> BatchStates] /\ work'[b].pc = "delete"
      /\ work'[b].ids = work[b].ids /\ work'[b].calls = work[b].calls
      /\ \A c \in Batches : c # b => work'[c] = work[c]
  BY <1>1, BatchFacts, ToGoes DEF Phases
<1>7. BatchShape(b)' /\ Applied(b)'
  BY <1>1, <1>2, <1>6 DEF BatchShape, Applied
<1>8. Ours(b)' = Ours(b) /\ Ours(b) \subseteq b
  BY <1>1 DEF Ours
<1>9. \A r \in Ours(b) : tags[r].old = seen[r].old
  BY <1>1, <1>2 DEF Renamed
<1> HIDE DEF ids, v
<1>10. /\ tags' \in [Matched -> Tags]
       /\ \A r \in ids : tags'[r].new = v /\ tags'[r].old = tags[r].old
       /\ \A r \in Matched \ ids : tags'[r] = tags[r]
       /\ written' = written \cup ids
  BY <1>1, <1>2, <1>4, WriteWrites
<1>11. Renamed(b)'
  <2> SUFFICES ASSUME NEW r \in Ours(b)
               PROVE  tags'[r].old = seen[r].old /\ (r \in ids => tags'[r].new = seen[r].old)
    BY <1>1, <1>5, <1>6, <1>8 DEF Renamed
  <2> QED
    BY <1>2, <1>3, <1>8, <1>9, <1>10
<1>12. \A r \in written : r \in Matched \ ids
  BY <1>1, <1>4, BatchFacts DEF Fresh
<1>13. Fresh(b)' /\ written' \subseteq written \cup b
  <2>1. written \cap b = {}
    BY <1>1, BatchFacts DEF Fresh
  <2> QED
    BY <1>4, <1>5, <1>6, <1>10, <2>1 DEF Fresh
<1> QED
  BY <1>1, <1>2, <1>4, <1>6, <1>7, <1>10, <1>11, <1>12, <1>13, BatchFacts DEF OwnStep

\* The old tag goes; where there was room, the new one is there.
LEMMA DeleteIsOwn ==
    ASSUME TagInv, NEW b \in DOMAIN work, Delete(b)
    PROVE  OwnStep(b)
<1> DEFINE v == ValueOf(b)
           ph == IF Room(b) = b THEN "done" ELSE "recreate"
<1>1. /\ To(b, ph) /\ work[b].pc = "delete"
      /\ tags' = [r \in Matched |-> IF r \in b /\ tags[r].old = v
                                      THEN [tags[r] EXCEPT !.old = NoTag] ELSE tags[r]]
      /\ UNCHANGED <<kind, seen, alive, outcome, touched, written, faults>>
  BY DEF Delete, At
<1>2. BatchShape(b) /\ Renamed(b) /\ kind = "rename-tag" /\ b \subseteq Matched
      /\ tags \in [Matched -> Tags] /\ b \in Batches
  BY <1>1, BatchFacts DEF BatchShape
<1>3. v \in Values /\ \A r \in b : seen[r].old = v
  BY <1>2, GroupHasOneValue
<1>4. Room(b)' = Room(b) /\ (ph = "done" => Room(b) = b) /\ ph \in {"done", "recreate"}
  BY <1>1 DEF Room
<1>5. Ours(b)' = Ours(b) /\ Ours(b) \subseteq b
  BY <1>1 DEF Ours
<1>6. \A r \in Ours(b) :
          tags[r].old = seen[r].old /\ (r \in Room(b) => tags[r].new = seen[r].old)
  BY <1>1, <1>2 DEF Renamed
<1> HIDE DEF v, ph
<1>7. /\ work' \in [Batches -> BatchStates] /\ work'[b].pc = ph
      /\ work'[b].ids = work[b].ids /\ work'[b].calls = work[b].calls
      /\ \A c \in Batches : c # b => work'[c] = work[c]
  <2>1. ph \in Phases
    BY <1>4 DEF Phases
  <2> QED
    BY <1>1, <2>1, BatchFacts, ToGoes
<1>8. BatchShape(b)' /\ Applied(b)'
  BY <1>1, <1>2, <1>4, <1>7 DEF BatchShape, Applied
<1>9. \A t \in Tags : /\ [t EXCEPT !.old = NoTag] \in Tags
                      /\ [t EXCEPT !.old = NoTag].old = NoTag
                      /\ [t EXCEPT !.old = NoTag].new = t.new
  BY DEF Tags
<1>10. /\ tags' \in [Matched -> Tags]
       /\ \A r \in Matched \ b : tags'[r] = tags[r]
       /\ \A r \in b : tags[r].old = v => tags'[r].old = NoTag /\ tags'[r].new = tags[r].new
       /\ \A r \in Matched : tags'[r].new = tags[r].new
  BY <1>1, <1>2, <1>9
<1>11. Renamed(b)'
  <2> SUFFICES ASSUME NEW r \in Ours(b)
               PROVE  tags'[r].old = NoTag /\ (r \in Room(b) => tags'[r].new = seen[r].old)
    BY <1>1, <1>4, <1>5, <1>7 DEF Renamed
  <2> QED
    BY <1>3, <1>5, <1>6, <1>10
<1>12. Fresh(b)'
  BY <1>1, <1>4, <1>7, BatchFacts DEF Fresh
<1> QED
  BY <1>1, <1>2, <1>7, <1>8, <1>10, <1>11, <1>12, BatchFacts DEF OwnStep

\* The last call writes the value where there was no room.
LEMMA RecreateIsOwn ==
    ASSUME TagInv, NEW b \in DOMAIN work, Recreate(b)
    PROVE  OwnStep(b)
<1> DEFINE ids == b \ Room(b)
           v == ValueOf(b)
<1>1. To(b, "done") /\ work[b].pc = "recreate" /\ Write(ids, v)
      /\ UNCHANGED <<kind, seen, alive, outcome, touched, faults>>
  BY DEF Recreate, At
<1>2. BatchShape(b) /\ Renamed(b) /\ kind = "rename-tag" /\ b \subseteq Matched
      /\ tags \in [Matched -> Tags] /\ b \in Batches
  BY <1>1, BatchFacts DEF BatchShape
<1>3. v \in Values /\ \A r \in b : seen[r].old = v
  BY <1>2, GroupHasOneValue
<1>4. ids \in SUBSET Matched /\ ids \subseteq b /\ v \in TagValues
  BY <1>2, <1>3 DEF TagValues
<1>w. \A r \in written : r \in Matched \ ids
  BY <1>1, BatchFacts DEF Fresh
<1>5. /\ work' \in [Batches -> BatchStates] /\ work'[b].pc = "done"
      /\ work'[b].ids = work[b].ids /\ work'[b].calls = work[b].calls
      /\ \A c \in Batches : c # b => work'[c] = work[c]
  BY <1>1, BatchFacts, ToGoes DEF Phases
<1>6. BatchShape(b)' /\ Applied(b)'
  BY <1>1, <1>2, <1>5 DEF BatchShape, Applied
<1>7. Ours(b)' = Ours(b) /\ Ours(b) \subseteq b
  BY <1>1 DEF Ours
<1>8. \A r \in Ours(b) : tags[r].old = NoTag /\ (r \notin ids => tags[r].new = seen[r].old)
  BY <1>1, <1>2, <1>7 DEF Renamed
<1> HIDE DEF ids, v
<1>9. /\ tags' \in [Matched -> Tags]
      /\ \A r \in ids : tags'[r].new = v /\ tags'[r].old = tags[r].old
      /\ \A r \in Matched \ ids : tags'[r] = tags[r]
      /\ written' = written \cup ids
  BY <1>1, <1>2, <1>4, WriteWrites
<1>10. Renamed(b)'
  <2> SUFFICES ASSUME NEW r \in Ours(b)
               PROVE  tags'[r].old = NoTag /\ tags'[r].new = seen[r].old
    BY <1>1, <1>5, <1>7 DEF Renamed
  <2> QED
    BY <1>2, <1>3, <1>7, <1>8, <1>9
<1>11. Fresh(b)' /\ written' \subseteq written \cup b
  BY <1>4, <1>5, <1>9 DEF Fresh
<1> QED
  BY <1>1, <1>2, <1>4, <1>5, <1>6, <1>9, <1>10, <1>11, <1>w, BatchFacts DEF OwnStep

\* A call of a rename that fails leaves the value where it was.
LEMMA RenameRaisesIsOwn ==
    ASSUME TagInv, NEW b \in DOMAIN work, RenameRaises(b)
    PROVE  OwnStep(b)
<1>1. work[b].pc \in {"create", "delete", "recreate"} /\ To(b, "raised")
      /\ UNCHANGED <<kind, seen, tags, alive, outcome, touched, written>>
  BY DEF RenameRaises, At
<1>2. BatchShape(b) /\ Renamed(b) /\ kind = "rename-tag"
  BY <1>1, BatchFacts DEF BatchShape
<1>3. faults' \in [FaultKinds -> Nat]
  BY BatchFacts, SpendSpends DEF RenameRaises, FaultKinds
<1>4. /\ work' \in [Batches -> BatchStates] /\ work'[b].pc = "raised"
      /\ work'[b].ids = work[b].ids /\ work'[b].calls = work[b].calls
      /\ \A c \in Batches : c # b => work'[c] = work[c]
  BY <1>1, BatchFacts, ToGoes DEF Phases
<1>5. BatchShape(b)' /\ Applied(b)' /\ Fresh(b)'
  BY <1>1, <1>2, <1>4 DEF BatchShape, Applied, Fresh
<1>6. Renamed(b)'
  BY <1>1, <1>2, <1>4 DEF Renamed, Ours, Room
<1> QED
  BY <1>1, <1>3, <1>4, <1>5, <1>6, BatchFacts DEF OwnStep

LEMMA ThreadIsOwn ==
    ASSUME TagInv, NEW b \in DOMAIN work, Thread(b)
    PROVE  OwnStep(b)
  BY StartIsOwn, CallIsOwn, CallRaisesIsOwn, SkipBadIdsIsOwn, UniversalRaisesIsOwn,
     UniversalCallIsOwn, CreateIsOwn, DeleteIsOwn, RecreateIsOwn, RenameRaisesIsOwn
  DEF Thread

\* What the batches promise does not depend on what is deleted or touched.
LEMMA OthersKeep ==
    ASSUME TagInv, UNCHANGED <<kind, seen, work, outcome, written>>,
           alive' \subseteq alive, touched \subseteq touched', touched' \subseteq Matched,
           tags' \in [Matched -> Tags], faults' \in [FaultKinds -> Nat],
           \A r \in Matched \ touched' : tags'[r] = tags[r]
    PROVE  TagInv'
<1>1. Batches' = Batches /\ Considered' = Considered
  BY DEF Batches, Chunks, Chunk, InChunk, Before, Lacks, Groups, Group, Considered
<1>2. TypeOK'
  BY <1>1 DEF TagInv, TypeOK
<1>3. EndedBeforeOutcome' /\ FailuresAreRaised'
  BY DEF TagInv, EndedBeforeOutcome, Ended, FailuresAreRaised
<1>5. ASSUME NEW b \in DOMAIN work
      PROVE  BatchShape(b)' /\ Applied(b)' /\ Renamed(b)' /\ Fresh(b)'
  <2>1. BatchShape(b) /\ Applied(b) /\ Renamed(b) /\ Fresh(b) /\ b \subseteq Matched
    BY BatchFacts
  <2>2. Ours(b)' \subseteq Ours(b) /\ \A r \in Ours(b)' : tags'[r] = tags[r]
    BY <2>1 DEF Ours
  <2>3. BatchShape(b)'
    BY <2>1 DEF BatchShape
  <2>4. Applied(b)'
    BY <2>1, <2>2 DEF Applied, Wanted
  <2>5. Renamed(b)'
    BY <2>1, <2>2 DEF Renamed, Room
  <2>6. Fresh(b)'
    BY <2>1 DEF Fresh, Room
  <2> QED
    BY <2>3, <2>4, <2>5, <2>6
<1> QED
  BY <1>2, <1>3, <1>5 DEF TagInv

LEMMA InitTagInv == Init => TagInv
<1> SUFFICES ASSUME Init PROVE TagInv
  OBVIOUS
<1>1. seen \in [Matched -> Tags] /\ faults \in [FaultKinds -> Nat]
  BY TagAssumption DEF Init
<1>2. /\ UNION Batches = Considered
      /\ \A b, c \in Batches : b = c \/ b \cap c = {}
  BY <1>1, BatchesPartition
<1>3. \A b \in Batches : b \subseteq Matched
  BY <1>2 DEF Considered
<1>4. DOMAIN work = Batches
      /\ \A b \in Batches : work[b] = [pc |-> "waiting", ids |-> b, calls |-> 0]
  BY DEF Init
<1>5. work \in [Batches -> BatchStates]
  BY <1>3 DEF Init, BatchStates, Phases
<1>6. TypeOK
  BY <1>1, <1>2, <1>4, <1>5 DEF Init, TypeOK, BatchStates, Phases
<1>7. EndedBeforeOutcome /\ FailuresAreRaised
  BY DEF Init, EndedBeforeOutcome, FailuresAreRaised
<1>8. ASSUME NEW b \in DOMAIN work
      PROVE  BatchShape(b) /\ Applied(b) /\ Renamed(b) /\ Fresh(b)
  <2>1. work[b].pc = "waiting" /\ work[b].ids = b /\ work[b].calls = 0
    BY <1>4, <1>8
  <2>2. BatchShape(b)
    BY <2>1, TagAssumption DEF BatchShape
  <2>3. Applied(b) /\ Renamed(b) /\ Fresh(b)
    BY <2>1 DEF Applied, Renamed, Fresh, Ours, Init
  <2> QED
    BY <2>2, <2>3
<1> QED
  BY <1>6, <1>7, <1>8 DEF TagInv

LEMMA NextTagInv == TagInv /\ [Next]_vars => TagInv'
<1> SUFFICES ASSUME TagInv, [Next]_vars PROVE TagInv'
  OBVIOUS
<1>1. /\ tags \in [Matched -> Tags] /\ faults \in [FaultKinds -> Nat]
      /\ touched \subseteq Matched
  BY DEF TagInv, TypeOK
<1>2. CASE UNCHANGED vars
  BY <1>1, <1>2, OthersKeep DEF vars
<1>3. ASSUME NEW r \in Matched, Terminate(r) PROVE TagInv'
  <2>1. faults' \in [FaultKinds -> Nat]
    BY <1>1, <1>3, SpendSpends DEF Terminate, FaultKinds
  <2> QED
    BY <1>1, <1>3, <2>1, OthersKeep DEF Terminate
<1>4. ASSUME NEW r \in Matched, NEW t \in Edits, Edit(r, t) PROVE TagInv'
  <2>1. faults' \in [FaultKinds -> Nat]
    BY <1>1, <1>4, SpendSpends DEF Edit, FaultKinds
  <2>2. t \in Tags
    BY TagAssumption
  <2>3. tags' \in [Matched -> Tags] /\ \A q \in Matched \ touched' : tags'[q] = tags[q]
    BY <1>1, <1>4, <2>2 DEF Edit
  <2> QED
    BY <1>1, <1>4, <2>1, <2>3, OthersKeep DEF Edit
<1>5. CASE Finish
  <2>1. Ended /\ UNCHANGED <<kind, seen, tags, alive, work, touched, written, faults>>
        /\ (outcome' = "ok" /\ kind # "rename-tag" =>
                ~ \E b \in DOMAIN work : work[b].pc = "raised")
        /\ outcome' \in {"ok", "raised"}
    BY <1>5 DEF Finish
  <2>2. Batches' = Batches /\ Considered' = Considered
    BY <2>1 DEF Batches, Chunks, Chunk, InChunk, Before, Lacks, Groups, Group, Considered
  <2>3. TypeOK'
    BY <2>1, <2>2 DEF TagInv, TypeOK
  <2>4. EndedBeforeOutcome' /\ FailuresAreRaised'
    BY <2>1 DEF EndedBeforeOutcome, Ended, FailuresAreRaised
  <2>5. ASSUME NEW b \in DOMAIN work
        PROVE  BatchShape(b)' /\ Applied(b)' /\ Renamed(b)' /\ Fresh(b)'
    BY <2>1 DEF TagInv, BatchShape, Applied, Renamed, Fresh, Ours, Wanted, Room
  <2> QED
    BY <2>1, <2>3, <2>4, <2>5 DEF TagInv
<1> QED
  BY <1>2, <1>3, <1>4, <1>5, ThreadIsOwn, OwnStepKeeps DEF Next, Done

\* The outcome of a tag action can be relied on, for any number of resources and
\* batches and any size of a batch: every resource that the action is about is in
\* exactly one batch, a batch that ended well has reached all of its resources
\* that exist and that nobody else changed, and a batch that failed makes the
\* action fail (Tag.process, utils.chunks, universal_retry).
THEOREM TagOutcome == Spec => []OutcomeIsTrue
<1>1. TagInv => OutcomeIsTrue
  <2> SUFFICES ASSUME TagInv PROVE DoneIsApplied /\ AttemptsBounded
    BY DEF TagInv, OutcomeIsTrue
  <2> QED
    BY DEF TagInv, DoneIsApplied, Applied, Renamed, AttemptsBounded, BatchShape
<1> QED
  BY <1>1, InitTagInv, NextTagInv, PTL DEF Spec

\* A rename loses no value on the way, for any tags, any room and any calls that
\* fail: a resource with room for both keys, that nobody else changed, has its
\* value under one of them at every moment, and one without room has it but for
\* the time between the last two calls, or if the last one fails
\* (RenameTag.process_rename).
THEOREM RenamedValuesKept == Spec => []RenameKeepsValue
<1>1. TagInv => RenameKeepsValue
  <2> SUFFICES ASSUME TagInv, kind = "rename-tag", NEW b \in DOMAIN work, NEW r \in Ours(b)
               PROVE  \/ seen[r].old \in {tags[r].old, tags[r].new}
                      \/ r \notin Room(b) /\ work[b].pc \in {"recreate", "raised"}
    BY DEF RenameKeepsValue
  <2>1. Renamed(b) /\ work[b] \in BatchStates
    BY BatchFacts
  <2> QED
    BY <2>1 DEF Renamed, BatchStates, Phases, TagInv, BatchShape
<1> QED
  BY <1>1, InitTagInv, NextTagInv, PTL DEF Spec

\* What others do to a key after the action has written it stands, for any number
\* of throttled calls, rejected resources and batches (universal_retry,
\* retry_skip_bad_ids, RenameTag.process_rename).
THEOREM LaterEditsStand == Spec => EditsStand
<1>1. TagInv /\ [Next]_vars =>
          [\A b \in DOMAIN work : Thread(b) =>
              \A r \in written : tags'[r].new = tags[r].new]_vars
  <2> SUFFICES ASSUME TagInv, NEW b \in DOMAIN work, Thread(b), NEW r \in written
               PROVE  tags'[r].new = tags[r].new
    OBVIOUS
  <2>1. OwnStep(b)
    BY ThreadIsOwn
  <2> QED
    BY <2>1 DEF OwnStep
<1> QED
  BY <1>1, InitTagInv, NextTagInv, PTL DEF Spec, EditsStand
==============================================================================
