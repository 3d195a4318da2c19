---------------------------- MODULE ResourceCache ----------------------------
(***************************************************************************)
(* The resource cache on disk (c7n/cache.py SqlKvCache) and its use by     *)
(* QueryResourceManager.resources and get_resources (c7n/query.py), by     *)
(* several custodian processes that share one cache file.                  *)
(*                                                                         *)
(* The file system is modelled by inodes, so that a file can be removed or *)
(* replaced while a process has it open.  A cached value stands for what   *)
(* the cloud held when it was queried: it is represented by that time.     *)
(* SQLite's own locking makes each statement atomic and is not modelled.   *)
(***************************************************************************)
EXTENDS Integers, FiniteSets

CONSTANTS
    Procs,         \* processes, each with its own cache object and connection
    Keys,          \* cache keys: account, region, resource, source and query
    NoQuery,       \* the key of a resource without a query
    Period,        \* --cache-period of each process
    MaxFetch,      \* bound: longest time from a query to the save of its result
    MaxTime,       \* bound: the clock
    MaxOps,        \* bound: how many lookups each process makes
    MaxInode       \* bound: how many files are created

ASSUME CacheAssumption ==
    /\ NoQuery \in Keys
    /\ Period \in [Procs -> Nat \ {0}]
    /\ MaxFetch \in Nat
    /\ MaxTime \in Nat
    /\ MaxOps \in Nat
    /\ MaxInode \in Nat \ {0}

VARIABLES
    now,           \* the clock
    dir,           \* the parent directory of the cache path exists
    path,          \* inode at the cache path, or NoFile
    kind,          \* what each inode holds
    rows,          \* table c7n_cache of each inode
    warm,          \* history: the path held a database from the start
    removed,       \* history: the kinds of file that init() has removed
    pc,            \* where each process is: see Steps
    op,            \* its current lookup: what is asked, and for which key
    conn,          \* its SqlKvCache.conn: an inode, or NoFile
    data,          \* the result it holds: see Data
    ops,           \* how many lookups it has begun
    hit,           \* age of the data its last lookup was served from the cache
    failed         \* history: the processes that the cache made fail

fileVars == <<dir, path, kind, rows, removed>>
procVars == <<pc, op, conn, data, ops, hit, failed>>
vars == <<now, warm, fileVars, procVars>>

NoFile == 0
NoHit == -1
Inodes == 1..MaxInode
Kinds == {"unused", "empty", "legacy", "db"}

\* list: resources(); raw: resources(augment=False); ids: get_resources(ids).
Queries == {"list", "raw", "ids"}
Steps == {"idle", "probe", "mkdir", "header", "remove", "connect", "table",
          "purge", "get", "fetch", "augment", "save"}

\* The result of a query: when it was made, and whether it was augmented.
Times == 0..MaxTime
Data == [at : Times, augmented : BOOLEAN]
NoOp == [query |-> "list", key |-> NoQuery]
NoData == [at |-> 0, augmented |-> FALSE]
NoRow == [valid |-> FALSE, at |-> 0, augmented |-> FALSE, date |-> 0]
Rows == [valid : BOOLEAN, at : Times, augmented : BOOLEAN, date : Times]

Init ==
    /\ now = 0
    /\ \/ dir = FALSE /\ path = NoFile /\ kind = [i \in Inodes |-> "unused"]
       \/ dir = TRUE /\ path = NoFile /\ kind = [i \in Inodes |-> "unused"]
       \/ \E k \in {"legacy", "db"} :
            /\ dir = TRUE /\ path = 1
            /\ kind = [i \in Inodes |-> IF i = 1 THEN k ELSE "unused"]
    /\ rows = [i \in Inodes |-> [k \in Keys |-> NoRow]]
    /\ warm = (path # NoFile /\ kind[1] = "db")
    /\ removed = {}
    /\ pc = [q \in Procs |-> "idle"]
    /\ op = [q \in Procs |-> NoOp]
    /\ conn = [q \in Procs |-> NoFile]
    /\ data = [q \in Procs |-> NoData]
    /\ ops = [q \in Procs |-> 0]
    /\ hit = [q \in Procs |-> NoHit]
    /\ failed = {}

-----------------------------------------------------------------------------
Goto(q, step) == pc' = [pc EXCEPT ![q] = step]

\* The lookup is over and the cache is closed (SqlKvCache.close).
Finish(q) ==
    /\ pc' = [pc EXCEPT ![q] = "idle"]
    /\ conn' = [conn EXCEPT ![q] = NoFile]
    /\ data' = [data EXCEPT ![q] = NoData]
    /\ op' = [op EXCEPT ![q] = NoOp]

\* An operation of the cache raises, which fails the policy: its resource
\* manager, and the cache object with it, is given up.
CacheRaises(q) ==
    /\ Finish(q)
    /\ failed' = failed \cup {q}

\* The connection's file is no longer the one at the path: SQLite may refuse
\* to write to it, or may write to the removed file.
Moved(q) == conn[q] # path

Begin(q) ==
    /\ pc[q] = "idle" /\ ops[q] < MaxOps
    /\ \E query \in Queries, k \in Keys :
         /\ query = "ids" => k = NoQuery
         /\ op' = [op EXCEPT ![q] = [query |-> query, key |-> k]]
    /\ ops' = [ops EXCEPT ![q] = @ + 1]
    /\ hit' = [hit EXCEPT ![q] = NoHit]
    /\ Goto(q, "probe")
    /\ UNCHANGED <<now, warm, fileVars, conn, data, failed>>

(***************************************************************************)
(* SqlKvCache.init, one step for each look at, or change of, the file.     *)
(***************************************************************************)
Probe(q) ==
    /\ pc[q] = "probe"
    /\ Goto(q, IF path # NoFile THEN "header"
               ELSE IF ~dir THEN "mkdir" ELSE "connect")
    /\ UNCHANGED <<now, warm, fileVars, op, conn, data, ops, hit, failed>>

\* os.makedirs raises when the directory has appeared in the meantime.
MakeDir(q) ==
    /\ pc[q] = "mkdir"
    /\ dir' = TRUE
    /\ IF dir THEN CacheRaises(q)
              ELSE Goto(q, "connect") /\ UNCHANGED <<op, conn, data, failed>>
    /\ UNCHANGED <<now, warm, path, kind, rows, removed, ops, hit>>

\* Mutant: the header is compared with one byte too many.
HeaderTooLong(q) ==
    /\ pc[q] = "header"
    /\ IF path = NoFile THEN CacheRaises(q)
       ELSE Goto(q, "remove") /\ UNCHANGED <<op, conn, data, failed>>
    /\ UNCHANGED <<now, warm, fileVars, ops, hit>>

\* open() and the read of the first bytes: only a database has the header.
Header(q) ==
    /\ pc[q] = "header"
    /\ IF path = NoFile THEN CacheRaises(q)
       ELSE /\ Goto(q, IF kind[path] = "db" THEN "connect" ELSE "remove")
            /\ UNCHANGED <<op, conn, data, failed>>
    /\ UNCHANGED <<now, warm, fileVars, ops, hit>>

\* os.remove of whatever is at the path by now.
Remove(q) ==
    /\ pc[q] = "remove"
    /\ IF path = NoFile
         THEN CacheRaises(q) /\ UNCHANGED <<path, removed>>
         ELSE /\ removed' = removed \cup {kind[path]}
              /\ path' = NoFile
              /\ Goto(q, "connect")
              /\ UNCHANGED <<op, conn, data, failed>>
    /\ UNCHANGED <<now, warm, dir, kind, rows, ops, hit>>

\* sqlite3.connect creates an empty file when there is none.
Connect(q) ==
    /\ pc[q] = "connect"
    /\ IF path # NoFile
         THEN conn' = [conn EXCEPT ![q] = path] /\ UNCHANGED <<path, kind>>
         ELSE \E i \in Inodes :
                /\ kind[i] = "unused"
                /\ \A j \in Inodes : j < i => kind[j] # "unused"
                /\ kind' = [kind EXCEPT ![i] = "empty"]
                /\ path' = i
                /\ conn' = [conn EXCEPT ![q] = i]
    /\ Goto(q, "table")
    /\ UNCHANGED <<now, warm, dir, rows, removed, op, data, ops, hit, failed>>

\* create table if not exists: writes the header into an empty file.
CreateTable(q) ==
    /\ pc[q] = "table"
    /\ \/ /\ kind[conn[q]] \in {"empty", "db"}
          /\ kind' = [kind EXCEPT ![conn[q]] = "db"]
          /\ Goto(q, "purge")
          /\ UNCHANGED <<op, conn, data, failed>>
       \/ /\ kind[conn[q]] = "legacy" \/ (kind[conn[q]] = "empty" /\ Moved(q))
          /\ CacheRaises(q)
          /\ UNCHANGED kind
    /\ UNCHANGED <<now, warm, dir, path, rows, removed, ops, hit>>

Expired(q, row) == row.valid /\ row.date < now - Period[q]

\* delete from c7n_cache where create_date < now - cache_period.
Purge(q) ==
    /\ pc[q] = "purge"
    /\ \/ /\ rows' = [rows EXCEPT ![conn[q]] =
                        [k \in Keys |-> IF Expired(q, @[k]) THEN NoRow ELSE @[k]]]
          /\ Goto(q, "get")
          /\ UNCHANGED <<op, conn, data, failed>>
       \/ /\ Moved(q) /\ \E k \in Keys : Expired(q, rows[conn[q]][k])
          /\ CacheRaises(q)
          /\ UNCHANGED rows
    /\ UNCHANGED <<now, warm, dir, path, kind, removed, ops, hit>>

(***************************************************************************)
(* The lookup.                                                             *)
(***************************************************************************)
Row(q) == rows[conn[q]][op[q].key]

\* Mutant: get trusts that init() has removed what is stale.
UsableUnchecked(q) == Row(q).valid

\* SqlKvCache.get finds a row that is not older than the cache period.
Usable(q) == Row(q).valid /\ now - Row(q).date <= Period[q]

GetHit(q) ==
    /\ pc[q] = "get" /\ Usable(q)
    /\ hit' = [hit EXCEPT ![q] = now - Row(q).at]
    /\ Finish(q)
    /\ UNCHANGED <<now, warm, fileVars, ops, failed>>

\* get_resources closes the cache before it queries.
GetMiss(q) ==
    /\ pc[q] = "get" /\ ~Usable(q)
    /\ Goto(q, "fetch")
    /\ conn' = [conn EXCEPT ![q] = IF op[q].query = "ids" THEN NoFile ELSE @]
    /\ UNCHANGED <<now, warm, fileVars, op, data, ops, hit, failed>>

\* Mutant: a result is saved before it is augmented.
AfterFetchSaves(query) == IF query = "list" THEN "save" ELSE "idle"

\* Where resources() and get_resources go with the result of the query: a raw
\* result is returned as it is; only resources() saves, once augmented.
AfterFetch(query) == IF query = "raw" THEN "idle" ELSE "augment"

Fetch(q) ==
    /\ pc[q] = "fetch"
    /\ LET next == AfterFetch(op[q].query)
       IN  IF next = "idle" THEN Finish(q)
           ELSE /\ Goto(q, next)
                /\ data' = [data EXCEPT ![q] = [at |-> now, augmented |-> FALSE]]
                /\ UNCHANGED <<op, conn>>
    /\ UNCHANGED <<now, warm, fileVars, ops, hit, failed>>

Augment(q) ==
    /\ pc[q] = "augment"
    /\ IF op[q].query = "list"
         THEN /\ Goto(q, "save")
              /\ data' = [data EXCEPT ![q].augmented = TRUE]
              /\ UNCHANGED <<op, conn>>
         ELSE Finish(q)
    /\ UNCHANGED <<now, warm, fileVars, ops, hit, failed>>

\* The query or the augmentation raises; the cache is closed on the way out.
QueryFails(q) ==
    /\ pc[q] \in {"fetch", "augment"}
    /\ Finish(q)
    /\ UNCHANGED <<now, warm, fileVars, ops, hit, failed>>

\* replace into c7n_cache, dated with the time of the save.
Save(q) ==
    /\ pc[q] = "save"
    /\ \/ /\ rows' = [rows EXCEPT ![conn[q]][op[q].key] =
                        [valid |-> TRUE, at |-> data[q].at,
                         augmented |-> data[q].augmented, date |-> now]]
          /\ Finish(q)
          /\ UNCHANGED failed
       \/ /\ Moved(q)
          /\ CacheRaises(q)
          /\ UNCHANGED rows
    /\ UNCHANGED <<now, warm, dir, path, kind, removed, ops, hit>>

\* A process between a query and the save of its result.
InFlight(q) == pc[q] \in {"augment", "save"}

Tick ==
    /\ now < MaxTime
    /\ \A q \in Procs : InFlight(q) => now - data[q].at < MaxFetch
    /\ now' = now + 1
    /\ UNCHANGED <<warm, fileVars, procVars>>

-----------------------------------------------------------------------------
Open(q) ==
    \/ Probe(q) \/ MakeDir(q) \/ Header(q) \/ Remove(q)
    \/ Connect(q) \/ CreateTable(q) \/ Purge(q)

Lookup(q) ==
    \/ GetHit(q) \/ GetMiss(q) \/ Fetch(q)
    \/ Augment(q) \/ QueryFails(q) \/ Save(q)

Next == (\E q \in Procs : Begin(q) \/ Open(q) \/ Lookup(q)) \/ Tick

Spec == Init /\ [][Next]_vars

-----------------------------------------------------------------------------
(***************************************************************************)
(* Properties.                                                             *)
(***************************************************************************)
\* Files, rows and processes are well typed: no row is dated later than the
\* clock can be, and no process looks up more than it may.
TypeOK ==
    /\ now \in Times
    /\ dir \in BOOLEAN
    /\ path \in Inodes \cup {NoFile}
    /\ kind \in [Inodes -> Kinds]
    /\ rows \in [Inodes -> [Keys -> Rows]]
    /\ warm \in BOOLEAN
    /\ removed \in SUBSET Kinds
    /\ pc \in [Procs -> Steps]
    /\ op \in [Procs -> [query : Queries, key : Keys]]
    /\ conn \in [Procs -> Inodes \cup {NoFile}]
    /\ data \in [Procs -> Data]
    /\ ops \in [Procs -> 0..MaxOps]
    /\ hit \in [Procs -> Times \cup {NoHit}]
    /\ failed \in SUBSET Procs

\* The data a lookup is served from the cache was queried no longer ago than
\* the process's cache period and the time the slowest query takes, whichever
\* process saved it, with whatever period, and in whatever order saves overtook
\* each other.
HitAgeBounded == \A q \in Procs : hit[q] <= Period[q] + MaxFetch

\* "Don't pollute cache with unaugmented resources" (query.resources): every
\* cached result was augmented, although raw lookups share its key.
CachedIsAugmented ==
    \A i \in Inodes, k \in Keys : rows[i][k].valid => rows[i][k].augmented

\* A connection that is used has its table: get, save and the purge never meet
\* an empty file or a pickle file of an earlier version.
ConnectedToDatabase ==
    \A q \in Procs :
        pc[q] \in {"purge", "get", "save"} => kind[conn[q]] = "db"

\* The state is well typed, and what the processes share is fit to be used:
\* connections lead to databases, and these hold augmented results.
SharedIsUsable == TypeOK /\ CachedIsAugmented /\ ConnectedToDatabase

\* Once a database is at the path, opening and using it never fails and it is
\* never removed: only the first start, on no file or on an old one, can race.
WarmCacheIsSafe == warm => failed = {} /\ removed = {}
=============================================================================
