----------------------------- MODULE MarkForOp ------------------------------
(***************************************************************************)
(* Delayed operations (c7n/tags.py): a policy marks the resources that do  *)
(* not comply with a tag that names an operation and a date, another one   *)
(* operates on those whose date has come, a third one unmarks what complies*)
(* again.  The policies are separate executions: each enumerates its       *)
(* resources first and acts on them later, while the others run and the    *)
(* owners act.  Time passes in hours; a date is kept as the hours from now *)
(* until it, as the host that runs the policies reads it, so that time may *)
(* go on for ever.  What can fail in writing a tag is in TagActions.       *)
(***************************************************************************)
EXTENDS Integers, FiniteSets

CONSTANTS
    Resources,
    HoursPerDay,
    Configs,  \* the policies: [days, hours, zone, offset, skew]; None is left out
    Hosts,    \* hours the host's clock is ahead of UTC
    None,
    Unread,   \* a tag that marked-for-op passes over
    Cap       \* hours beyond which ages and dates are not told apart

ASSUME MarkAssumption ==
    /\ HoursPerDay \in Nat \ {0} /\ Cap \in Nat /\ Hosts \subseteq Int
    /\ \A c \in Configs : c.offset \in Int /\ c.skew \in 0..Cap
                          /\ c.days \in Nat \cup {None} /\ c.hours \in Nat \cup {None}
                          /\ c.zone \in {"utc", "other"}

\* A parameter that is left out counts as zero.
Given(x) == IF x = None THEN 0 ELSE x

\* Cap is beyond every date that the policies write.
ASSUME CapAssumption ==
    \A c \in Configs, h \in Hosts :
        LET span  == Given(c.days) * HoursPerDay + Given(c.hours)
            shift == c.offset - h
        IN  span <= Cap /\ span + shift <= Cap /\ shift - HoursPerDay >= -Cap

Policies == {"mark", "operate", "unmark"}

VARIABLES
    config,   \* the policies' parameters
    host,     \* the host's offset
    hour,     \* the hour of the day, in UTC
    bad,      \* the resources that do not comply
    stamp,    \* hours until the date of each resource's tag, Unread, or None
    matched,  \* what the running execution of each policy enumerated, or None
    operated, \* resources that were operated on
    age,      \* history: hours since the resource was marked
    remarked, \* history: resources whose tag changed after operate listed them
    graces    \* history: the ages of the marks of the operated ones at that time

markVars == <<config, host, hour, bad, stamp, matched, operated, age, remarked, graces>>

days == Given(config.days)
hours == Given(config.hours)

MarkInit ==
    /\ config \in Configs /\ host \in Hosts /\ hour \in 0..(HoursPerDay - 1)
    /\ bad \in SUBSET Resources
    /\ stamp = [r \in Resources |-> None]
    /\ matched = [p \in Policies |-> None]
    /\ operated = {} /\ age = [r \in Resources |-> 0]
    /\ remarked = {} /\ graces = [r \in Resources |-> 0]

-----------------------------------------------------------------------------
\* The hour of the day in the zone of mark-for-op.
LocalHour == (hour + config.offset) % HoursPerDay

\* Mutant: the operation is due the day before.
UntilDateEarly == days * HoursPerDay - LocalHour - HoursPerDay

\* Hours from now until the date that generate_timestamp writes: a moment if
\* hours are given, else the first hour of a day.
UntilDate ==
    IF hours > 0 THEN days * HoursPerDay + hours
    ELSE days * HoursPerDay - LocalHour

\* marked-for-op reads the date as UTC if it says so.  A date without a zone,
\* or with one that the date parser does not know, is read by the host's clock.
AsRead ==
    IF hours > 0 /\ config.zone = "utc" THEN UntilDate
    ELSE UntilDate + config.offset - host

\* TagActionFilter: a tag that is not of the form it expects, names another
\* operation or has no date that can be parsed is passed over.
Due(r) == stamp[r] \notin {None, Unread} /\ stamp[r] <= config.skew

\* Mutant: the policy marks what is marked already.
MatchesRemark(p, r) ==
    /\ r \notin operated
    /\ CASE p = "mark"    -> r \in bad
         [] p = "operate" -> r \in bad /\ Due(r)
         [] p = "unmark"  -> r \notin bad /\ stamp[r] # None

\* The filters of the three policies: the documented set, with one operation.
Matches(p, r) ==
    /\ r \notin operated
    /\ CASE p = "mark"    -> r \in bad /\ stamp[r] = None
         [] p = "operate" -> r \in bad /\ Due(r)
         [] p = "unmark"  -> r \notin bad /\ stamp[r] # None

Enumerate(p) ==
    /\ matched[p] = None
    /\ matched' = [matched EXCEPT ![p] = {r \in Resources : Matches(p, r)}]
    /\ remarked' = IF p = "operate" THEN remarked \cap operated ELSE remarked
    /\ UNCHANGED <<config, host, hour, bad, stamp, operated, age, graces>>

Left(p) == matched[p] \ operated

\* The tags of rs are written or removed.
Retag(rs, to) ==
    /\ stamp' = [r \in Resources |-> IF r \in rs THEN to ELSE stamp[r]]
    /\ age' = [r \in Resources |-> IF r \in rs THEN 0 ELSE age[r]]
    /\ remarked' = IF matched["operate"] = None THEN remarked
                   ELSE remarked \cup (rs \cap matched["operate"])

\* mark-for-op writes the same date on all of them, and over what is there.
Mark ==
    /\ matched["mark"] # None
    /\ Retag(Left("mark"), AsRead)
    /\ matched' = [matched EXCEPT !["mark"] = None]
    /\ UNCHANGED <<config, host, hour, bad, operated, graces>>

\* The operation removes the resource, or stops it for good.
Operate ==
    /\ matched["operate"] # None
    /\ operated' = operated \cup matched["operate"]
    /\ matched' = [matched EXCEPT !["operate"] = None]
    /\ graces' = [r \in Resources |-> IF r \in Left("operate") THEN age[r] ELSE graces[r]]
    /\ UNCHANGED <<config, host, hour, bad, stamp, age, remarked>>

Unmark ==
    /\ matched["unmark"] # None
    /\ Retag(Left("unmark"), None)
    /\ matched' = [matched EXCEPT !["unmark"] = None]
    /\ UNCHANGED <<config, host, hour, bad, operated, graces>>

-----------------------------------------------------------------------------
\* Executions may take hours.
Tick ==
    /\ hour' = (hour + 1) % HoursPerDay
    /\ stamp' = [r \in Resources |->
                    IF stamp[r] \in {None, Unread, -Cap} THEN stamp[r] ELSE stamp[r] - 1]
    /\ age' = [r \in Resources |-> IF stamp[r] \in {None, Unread} \/ age[r] = Cap
                                     THEN age[r] ELSE age[r] + 1]
    /\ UNCHANGED <<config, host, bad, matched, operated, remarked, graces>>

Owner(r) ==
    /\ r \notin operated
    /\ bad' = IF r \in bad THEN bad \ {r} ELSE bad \cup {r}
    /\ UNCHANGED <<config, host, hour, stamp, matched, operated, age, remarked, graces>>

\* Somebody, or a policy with another operation, writes over the tag, or a policy
\* with a message of its own wrote it in another form.
Spoil(r) ==
    /\ r \notin operated
    /\ Retag({r}, Unread)
    /\ UNCHANGED <<config, host, hour, bad, matched, operated, graces>>

Act == Mark \/ Operate \/ Unmark

MarkNext ==
    \/ \E p \in Policies : Enumerate(p)
    \/ Act \/ Tick \/ \E r \in Resources : Owner(r) \/ Spoil(r)

MarkSpec == MarkInit /\ [][MarkNext]_markVars

\* Time passes, and each policy is scheduled again and again.
Fairness ==
    /\ \A p \in Policies : WF_markVars(Enumerate(p))
    /\ WF_markVars(Mark) /\ WF_markVars(Operate) /\ WF_markVars(Unmark) /\ WF_markVars(Tick)

FairMarkSpec == MarkSpec /\ Fairness

-----------------------------------------------------------------------------
\* Dates, ages and executions are well typed.
MarkTypeOK ==
    /\ config \in Configs /\ host \in Hosts /\ hour \in 0..(HoursPerDay - 1)
    /\ bad \subseteq Resources /\ operated \subseteq Resources
    /\ stamp \in [Resources -> (-Cap)..Cap \cup {None, Unread}] /\ age \in [Resources -> 0..Cap]
    /\ matched \in [Policies -> (SUBSET Resources) \cup {None}]
    /\ remarked \subseteq Resources /\ graces \in [Resources -> 0..Cap]

\* The policy says how long it gives the owners.  Without days and without hours
\* the documentation promises four days, and the code gives none: the defaults of
\* get_config_values keep generate_timestamp from seeing that both are missing.
TimeIsGiven == config.days # None \/ config.hours # None

\* The time an owner has at least: what the policy says, less the hours of the
\* day of marking that have gone when only days are given, less the skew, and
\* less the hours by which the host's clock is ahead of the policy's zone, unless
\* the date is read as UTC.
Grace ==
    days * HoursPerDay + hours - config.skew
        - (IF hours > 0 THEN 0 ELSE HoursPerDay - 1)
        + (IF hours > 0 /\ config.zone = "utc" THEN 0 ELSE config.offset - host)

\* The state is well typed, and when a resource is operated on, the mark that it
\* has at that moment has been there for that time, if the policy gives a time,
\* however marking, unmarking, owners and executions interleave.  Excepted are the
\* resources whose tag was changed after the operating execution had listed them,
\* which it does not look at again: those are operated on whatever their tag says.
GraceKept ==
    /\ MarkTypeOK
    /\ TimeIsGiven => \A r \in operated \ remarked : graces[r] >= Grace

\* A resource that never complies again is operated on in the end, unless its tag
\* was written over: it is marked, again if a stale execution unmarks it, and its
\* date is not put off.
BadIsOperated ==
    \A r \in Resources :
        <>[](r \in bad /\ stamp[r] # Unread) => <>(r \in operated)
=============================================================================
