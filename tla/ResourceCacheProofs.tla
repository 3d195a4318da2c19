------------------------- MODULE ResourceCacheProofs -------------------------
(***************************************************************************)
(* Proofs about ResourceCache: for any processes, keys and cache periods,  *)
(* what the cache serves is fresh and augmented, and a database that was   *)
(* there from the start neither fails nor goes.                            *)
(***************************************************************************)
EXTENDS ResourceCache, TLAPS

-----------------------------------------------------------------------------
(***************************************************************************)
(* The inductive invariant.                                                *)
(***************************************************************************)
\* A row is dated at or after its query, by MaxFetch at the most.
RowFresh(row) ==
    row.valid => /\ row.augmented
                 /\ row.at <= row.date /\ row.date <= now
                 /\ row.date - row.at <= MaxFetch

\* A result that a process holds is not older than MaxFetch, and augmented by
\* the time it is saved.
DataFresh(q) ==
    /\ InFlight(q) => data[q].at <= now /\ now - data[q].at <= MaxFetch
    /\ pc[q] = "save" => data[q].augmented /\ op[q].query = "list"

\* The connection is open from connect on, but for get_resources, which closes
\* it before its query; from create table on it leads to a database.
Connected(q) ==
    /\ pc[q] = "table" => conn[q] # NoFile
    /\ pc[q] \in {"purge", "get", "save"}
           \/ (pc[q] \in {"fetch", "augment"} /\ op[q].query # "ids")
       => conn[q] # NoFile /\ kind[conn[q]] = "db"

\* A database that was there from the start stays at the path, every connection
\* leads to it, and nobody is on the way to replace it.
WarmStays ==
    warm =>
        /\ dir /\ path # NoFile /\ kind[path] = "db"
        /\ \A q \in Procs : /\ pc[q] \notin {"mkdir", "remove"}
                            /\ conn[q] \in {NoFile, path}

IndInv ==
    /\ TypeOK
    /\ \A i \in Inodes, k \in Keys : RowFresh(rows[i][k])
    /\ \A q \in Procs : DataFresh(q) /\ Connected(q)
    /\ WarmStays
    /\ HitAgeBounded /\ WarmCacheIsSafe

-----------------------------------------------------------------------------
\* The inductive invariant holds at first.
LEMMA InitIndInv == Init => IndInv
<1> SUFFICES ASSUME Init PROVE IndInv
  OBVIOUS
<1> USE CacheAssumption
<1>1. 0 \in Times /\ 1 \in Inodes
  BY DEF Times, Inodes
<1>2. NoOp \in [query : Queries, key : Keys] /\ NoData \in Data /\ NoRow \in Rows
  BY <1>1 DEF NoOp, NoData, NoRow, Data, Rows, Queries
<1>3. TypeOK
  <2>1. kind \in [Inodes -> Kinds] /\ path \in Inodes \cup {NoFile} /\ dir \in BOOLEAN
    BY <1>1 DEF Init, Kinds
  <2>2. rows \in [Inodes -> [Keys -> Rows]] /\ data \in [Procs -> Data]
        /\ op \in [Procs -> [query : Queries, key : Keys]]
    BY <1>2 DEF Init
  <2>3. pc \in [Procs -> Steps] /\ conn \in [Procs -> Inodes \cup {NoFile}]
    BY DEF Init, Steps
  <2>4. ops \in [Procs -> 0..MaxOps] /\ hit \in [Procs -> Times \cup {NoHit}]
    BY DEF Init
  <2>5. now \in Times /\ removed \in SUBSET Kinds /\ failed \in SUBSET Procs
    BY <1>1 DEF Init
  <2>6. warm \in BOOLEAN
    BY DEF Init
  <2> QED
    BY <2>1, <2>2, <2>3, <2>4, <2>5, <2>6 DEF TypeOK
<1>4. \A i \in Inodes, k \in Keys : RowFresh(rows[i][k])
  BY DEF Init, RowFresh, NoRow
<1>5. \A q \in Procs : DataFresh(q) /\ Connected(q)
  BY DEF Init, DataFresh, Connected, InFlight
<1>6. WarmStays
  BY <1>1 DEF Init, WarmStays, NoFile
<1>7. HitAgeBounded /\ WarmCacheIsSafe
  BY DEF Init, HitAgeBounded, WarmCacheIsSafe, NoHit
<1> QED
  BY <1>3, <1>4, <1>5, <1>6, <1>7 DEF IndInv

\* The end of a lookup, with or without an error, keeps the types of what a
\* process holds.
LEMMA FinishTypes ==
    ASSUME TypeOK, NEW q \in Procs, Finish(q)
    PROVE  /\ pc' \in [Procs -> Steps]
           /\ op' \in [Procs -> [query : Queries, key : Keys]]
           /\ conn' \in [Procs -> Inodes \cup {NoFile}]
           /\ data' \in [Procs -> Data]
           /\ pc' = [pc EXCEPT ![q] = "idle"]
           /\ conn' = [conn EXCEPT ![q] = NoFile]
<1>1. NoOp \in [query : Queries, key : Keys] /\ NoData \in Data /\ "idle" \in Steps
  BY CacheAssumption DEF NoOp, NoData, Data, Queries, Times, Steps
<1> QED
  BY <1>1 DEF TypeOK, Finish

\* Every step keeps the types.
LEMMA NextTypes == IndInv /\ [Next]_vars => TypeOK'
<1> SUFFICES ASSUME IndInv, [Next]_vars PROVE TypeOK'
  OBVIOUS
<1> USE CacheAssumption
<1>0. TypeOK
  BY DEF IndInv
<1> USE <1>0
<1>1. ASSUME NEW q \in Procs, Begin(q) PROVE TypeOK'
  <2>1. PICK query \in Queries, k \in Keys : op' = [op EXCEPT ![q] = [query |-> query, key |-> k]]
    BY <1>1 DEF Begin
  <2>2. op' \in [Procs -> [query : Queries, key : Keys]]
    BY <2>1 DEF TypeOK
  <2>3. pc' \in [Procs -> Steps] /\ ops' \in [Procs -> 0..MaxOps]
        /\ hit' \in [Procs -> Times \cup {NoHit}]
    BY <1>1 DEF Begin, Goto, Steps, TypeOK
  <2> QED
    BY <1>1, <2>2, <2>3 DEF Begin, TypeOK, fileVars
<1>2. ASSUME NEW q \in Procs, Probe(q) PROVE TypeOK'
  BY <1>2 DEF Probe, Goto, Steps, TypeOK, fileVars
<1>3. ASSUME NEW q \in Procs, MakeDir(q) PROVE TypeOK'
  BY <1>3, FinishTypes DEF MakeDir, CacheRaises, Goto, Steps, TypeOK
<1>4. ASSUME NEW q \in Procs, Header(q) PROVE TypeOK'
  BY <1>4, FinishTypes DEF Header, CacheRaises, Goto, Steps, TypeOK, fileVars
<1>5. ASSUME NEW q \in Procs, Remove(q) PROVE TypeOK'
  BY <1>5, FinishTypes DEF Remove, CacheRaises, Goto, Steps, TypeOK, NoFile
<1>6. ASSUME NEW q \in Procs, Connect(q) PROVE TypeOK'
  BY <1>6 DEF Connect, Goto, Steps, TypeOK, Kinds
<1>7. ASSUME NEW q \in Procs, CreateTable(q) PROVE TypeOK'
  <2>1. kind' \in [Inodes -> Kinds]
    BY <1>7 DEF CreateTable, TypeOK, Kinds
  <2> QED
    BY <1>7, <2>1, FinishTypes DEF CreateTable, CacheRaises, Goto, Steps, TypeOK
<1>8. ASSUME NEW q \in Procs, Purge(q) PROVE TypeOK'
  <2>1. NoRow \in Rows
    BY DEF NoRow, Rows, Times
  <2>2. rows' \in [Inodes -> [Keys -> Rows]]
    <3>1. conn[q] \in Inodes
      BY <1>8 DEF Purge, IndInv, Connected, TypeOK
    <3>2. rows[conn[q]] \in [Keys -> Rows]
      BY <3>1 DEF TypeOK
    <3> DEFINE kept == [k \in Keys |-> IF Expired(q, rows[conn[q]][k]) THEN NoRow ELSE rows[conn[q]][k]]
    <3>3. kept \in [Keys -> Rows]
      BY <3>2, <2>1
    <3>4. rows' = [rows EXCEPT ![conn[q]] = kept] \/ rows' = rows
      BY <1>8 DEF Purge
    <3> HIDE DEF kept
    <3> QED
      BY <3>1, <3>3, <3>4 DEF TypeOK
  <2> QED
    BY <1>8, <2>2, FinishTypes DEF Purge, CacheRaises, Goto, Steps, TypeOK
<1>9. ASSUME NEW q \in Procs, GetHit(q) PROVE TypeOK'
  <2>1. conn[q] \in Inodes /\ op[q].key \in Keys
    BY <1>9 DEF GetHit, IndInv, Connected, TypeOK
  <2>2. Row(q).at \in Times /\ Row(q).at <= now
    <3>1. RowFresh(Row(q)) /\ Row(q) \in Rows /\ Row(q).valid
      BY <1>9, <2>1 DEF IndInv, Row, TypeOK, GetHit, Usable
    <3> QED
      BY <3>1 DEF RowFresh, Rows, Times, TypeOK
  <2>3. hit' \in [Procs -> Times \cup {NoHit}]
    BY <1>9, <2>2 DEF GetHit, TypeOK, Times
  <2> QED
    BY <1>9, <2>3, FinishTypes DEF GetHit, TypeOK, fileVars
<1>10. ASSUME NEW q \in Procs, GetMiss(q) PROVE TypeOK'
  BY <1>10 DEF GetMiss, Goto, Steps, TypeOK, fileVars
<1>11. ASSUME NEW q \in Procs, Fetch(q) PROVE TypeOK'
  <2>1. [at |-> now, augmented |-> FALSE] \in Data
    BY DEF TypeOK, Data
  <2>2. AfterFetch(op[q].query) \in {"idle", "augment"}
    BY DEF AfterFetch
  <2> QED
    BY <1>11, <2>1, <2>2, FinishTypes DEF Fetch, Goto, Steps, TypeOK, fileVars
<1>12. ASSUME NEW q \in Procs, Augment(q) PROVE TypeOK'
  <2>1. data[q] \in Data
    BY DEF TypeOK
  <2>2. [data[q] EXCEPT !.augmented = TRUE] \in Data
    BY <2>1 DEF Data
  <2> QED
    BY <1>12, <2>2, FinishTypes DEF Augment, Goto, Steps, TypeOK, fileVars
<1>13. ASSUME NEW q \in Procs, QueryFails(q) PROVE TypeOK'
  BY <1>13, FinishTypes DEF QueryFails, TypeOK, fileVars
<1>14. ASSUME NEW q \in Procs, Save(q) PROVE TypeOK'
  <2>1. data[q] \in Data
    BY DEF TypeOK
  <2>2. [valid |-> TRUE, at |-> data[q].at, augmented |-> data[q].augmented, date |-> now] \in Rows
    BY <2>1 DEF TypeOK, Data, Rows
  <2>3. rows' \in [Inodes -> [Keys -> Rows]]
    <3>1. conn[q] \in Inodes /\ op[q].key \in Keys
      BY <1>14 DEF Save, IndInv, Connected, TypeOK
    <3> DEFINE row == [valid |-> TRUE, at |-> data[q].at,
                       augmented |-> data[q].augmented, date |-> now]
    <3>2. rows' = [rows EXCEPT ![conn[q]][op[q].key] = row] \/ rows' = rows
      BY <1>14 DEF Save
    <3>3. row \in Rows
      BY <2>2
    <3> HIDE DEF row
    <3>4. [rows[conn[q]] EXCEPT ![op[q].key] = row] \in [Keys -> Rows]
      BY <3>1, <3>3 DEF TypeOK
    <3> QED
      BY <3>1, <3>2, <3>4 DEF TypeOK
  <2> QED
    BY <1>14, <2>3, FinishTypes DEF Save, CacheRaises, TypeOK
<1>15. CASE Tick
  BY <1>15 DEF Tick, TypeOK, Times, fileVars, procVars
<1>16. CASE UNCHANGED vars
  BY <1>16 DEF vars, TypeOK, fileVars, procVars
<1> QED
  BY <1>1, <1>2, <1>3, <1>4, <1>5, <1>6, <1>7, <1>8, <1>9, <1>10, <1>11, <1>12,
     <1>13, <1>14, <1>15, <1>16 DEF Next, Open, Lookup

\* A process that has opened its cache keeps what it relies on of the connection.
LEMMA NextConnected == IndInv /\ [Next]_vars => \A q \in Procs : Connected(q)'
<1> SUFFICES ASSUME IndInv, [Next]_vars, NEW p \in Procs PROVE Connected(p)'
  OBVIOUS
<1>0. TypeOK /\ Connected(p)
  BY DEF IndInv
<1> USE <1>0
<1>1. ASSUME NEW q \in Procs, Begin(q) PROVE Connected(p)'
  BY <1>1 DEF Begin, Goto, Connected, TypeOK, fileVars
<1>2. ASSUME NEW q \in Procs, Probe(q) PROVE Connected(p)'
  BY <1>2 DEF Probe, Goto, Connected, TypeOK, fileVars
<1>3. ASSUME NEW q \in Procs, MakeDir(q) PROVE Connected(p)'
  BY <1>3 DEF MakeDir, CacheRaises, Finish, Goto, Connected, TypeOK
<1>4. ASSUME NEW q \in Procs, Header(q) PROVE Connected(p)'
  BY <1>4 DEF Header, CacheRaises, Finish, Goto, Connected, TypeOK, fileVars
<1>5. ASSUME NEW q \in Procs, Remove(q) PROVE Connected(p)'
  BY <1>5 DEF Remove, CacheRaises, Finish, Goto, Connected, TypeOK
<1>6. ASSUME NEW q \in Procs, Connect(q) PROVE Connected(p)'
  <2>1. pc' = [pc EXCEPT ![q] = "table"] /\ op' = op
    BY <1>6 DEF Connect, Goto
  <2>2. CASE path # NoFile
    BY <1>6, <2>1, <2>2 DEF Connect, Connected, TypeOK
  <2>3. CASE path = NoFile
    <3>1. PICK i \in Inodes : /\ kind[i] = "unused" /\ kind' = [kind EXCEPT ![i] = "empty"]
                              /\ conn' = [conn EXCEPT ![q] = i]
      BY <1>6, <2>3 DEF Connect
    <3>2. i # NoFile
      BY DEF Inodes, NoFile
    <3>3. \A j \in Inodes : kind[j] = "db" => kind'[j] = "db"
      BY <3>1 DEF TypeOK
    <3> QED
      BY <2>1, <3>1, <3>2, <3>3 DEF Connected, TypeOK
  <2> QED
    BY <2>2, <2>3
<1>7. ASSUME NEW q \in Procs, CreateTable(q) PROVE Connected(p)'
  <2>1. conn[q] \in Inodes
    BY <1>7 DEF CreateTable, Connected, TypeOK, IndInv
  <2>2. CASE CacheRaises(q) /\ UNCHANGED kind
    BY <2>2 DEF CacheRaises, Finish, Connected, TypeOK
  <2>3. CASE /\ kind' = [kind EXCEPT ![conn[q]] = "db"]
             /\ Goto(q, "purge") /\ UNCHANGED <<op, conn>>
    <3>1. \A i \in Inodes : kind'[i] \in {kind[i], "db"}
      BY <2>1, <2>3 DEF TypeOK
    <3>2. kind'[conn[q]] = "db"
      BY <2>1, <2>3 DEF TypeOK
    <3> QED
      BY <1>7, <2>1, <2>3, <3>1, <3>2 DEF CreateTable, Goto, Connected, TypeOK, NoFile, Inodes
  <2> QED
    BY <1>7, <2>2, <2>3 DEF CreateTable
<1>8. ASSUME NEW q \in Procs, Purge(q) PROVE Connected(p)'
  BY <1>8 DEF Purge, CacheRaises, Finish, Goto, Connected, TypeOK
<1>9. ASSUME NEW q \in Procs, GetHit(q) PROVE Connected(p)'
  BY <1>9 DEF GetHit, Finish, Connected, TypeOK, fileVars
<1>10. ASSUME NEW q \in Procs, GetMiss(q) PROVE Connected(p)'
  BY <1>10 DEF GetMiss, Goto, Connected, TypeOK, fileVars
<1>11. ASSUME NEW q \in Procs, Fetch(q) PROVE Connected(p)'
  BY <1>11 DEF Fetch, AfterFetch, Finish, Goto, Connected, TypeOK, fileVars
<1>12. ASSUME NEW q \in Procs, Augment(q) PROVE Connected(p)'
  BY <1>12 DEF Augment, Finish, Goto, Connected, TypeOK, fileVars
<1>13. ASSUME NEW q \in Procs, QueryFails(q) PROVE Connected(p)'
  BY <1>13 DEF QueryFails, Finish, Connected, TypeOK, fileVars
<1>14. ASSUME NEW q \in Procs, Save(q) PROVE Connected(p)'
  BY <1>14 DEF Save, CacheRaises, Finish, Connected, TypeOK
<1>15. CASE Tick
  BY <1>15 DEF Tick, Connected, fileVars, procVars
<1>16. CASE UNCHANGED vars
  BY <1>16 DEF vars, Connected, fileVars, procVars
<1> QED
  BY <1>1, <1>2, <1>3, <1>4, <1>5, <1>6, <1>7, <1>8, <1>9, <1>10, <1>11, <1>12,
     <1>13, <1>14, <1>15, <1>16 DEF Next, Open, Lookup

\* What a process has read, or is about to write, stays fresh.
LEMMA NextDataFresh == IndInv /\ [Next]_vars => \A q \in Procs : DataFresh(q)'
<1> SUFFICES ASSUME IndInv, [Next]_vars, NEW p \in Procs PROVE DataFresh(p)'
  OBVIOUS
<1>0. TypeOK /\ DataFresh(p)
  BY DEF IndInv
<1> USE <1>0, CacheAssumption DEF DataFresh, InFlight
<1>1. ASSUME NEW q \in Procs, Begin(q) PROVE DataFresh(p)'
  BY <1>1 DEF Begin, Goto, TypeOK
<1>2. ASSUME NEW q \in Procs, Open(q) PROVE DataFresh(p)'
  BY <1>2 DEF Open, Probe, MakeDir, Header, Remove, Connect, CreateTable, Purge,
              CacheRaises, Finish, Goto, TypeOK
<1>3. ASSUME NEW q \in Procs, GetHit(q) \/ GetMiss(q) PROVE DataFresh(p)'
  BY <1>3 DEF GetHit, GetMiss, Finish, Goto, TypeOK
<1>4. ASSUME NEW q \in Procs, Fetch(q) PROVE DataFresh(p)'
  BY <1>4 DEF Fetch, AfterFetch, Finish, Goto, TypeOK, Times
<1>5. ASSUME NEW q \in Procs, Augment(q) PROVE DataFresh(p)'
  BY <1>5 DEF Augment, Finish, Goto, TypeOK, Data
<1>6. ASSUME NEW q \in Procs, QueryFails(q) \/ Save(q) PROVE DataFresh(p)'
  BY <1>6 DEF QueryFails, Save, CacheRaises, Finish, TypeOK
<1>7. CASE Tick
  BY <1>7 DEF Tick, TypeOK, Times, Data, procVars
<1>8. CASE UNCHANGED vars
  BY <1>8 DEF vars, procVars
<1> QED
  BY <1>1, <1>2, <1>3, <1>4, <1>5, <1>6, <1>7, <1>8 DEF Next, Lookup

\* Only the purge and the save change rows: one removes some, the other writes a
\* result that is fresh and augmented.
LEMMA NextRowsFresh ==
    IndInv /\ [Next]_vars => \A i \in Inodes, k \in Keys : RowFresh(rows[i][k])'
<1> SUFFICES ASSUME IndInv, [Next]_vars, NEW i \in Inodes, NEW k \in Keys
             PROVE  RowFresh(rows[i][k])'
  OBVIOUS
<1>0. TypeOK /\ RowFresh(rows[i][k]) /\ rows[i][k] \in Rows
  BY DEF IndInv, TypeOK
<1>1. CASE now' \in {now, now + 1} /\ rows' = rows
  BY <1>0, <1>1 DEF RowFresh, TypeOK, Times, Rows
<1>2. ASSUME NEW q \in Procs, Purge(q) PROVE RowFresh(rows[i][k])'
  <2>1. rows'[i][k] \in {rows[i][k], NoRow} /\ now' = now
    <3> DEFINE kept == [l \in Keys |-> IF Expired(q, rows[conn[q]][l]) THEN NoRow
                                       ELSE rows[conn[q]][l]]
    <3>1. rows' = [rows EXCEPT ![conn[q]] = kept] \/ rows' = rows
      BY <1>2 DEF Purge
    <3>2. kept[k] \in {rows[conn[q]][k], NoRow}
      OBVIOUS
    <3>3. now' = now
      BY <1>2 DEF Purge
    <3> HIDE DEF kept
    <3> QED
      BY <1>0, <3>1, <3>2, <3>3 DEF TypeOK
  <2> QED
    BY <1>0, <2>1 DEF RowFresh, NoRow
<1>3. ASSUME NEW q \in Procs, Save(q) PROVE RowFresh(rows[i][k])'
  <2>1. DataFresh(q) /\ pc[q] = "save" /\ now' = now /\ data[q] \in Data
    BY <1>0, <1>3 DEF IndInv, Save, TypeOK
  <2> DEFINE row == [valid |-> TRUE, at |-> data[q].at,
                     augmented |-> data[q].augmented, date |-> now]
  <2>2. rows' = [rows EXCEPT ![conn[q]][op[q].key] = row] \/ rows' = rows
    BY <1>3 DEF Save
  <2>3. RowFresh(row)
    BY <1>0, <2>1 DEF RowFresh, DataFresh, InFlight, TypeOK, Times, Data
  <2> HIDE DEF row
  <2>4. rows'[i][k] \in {rows[i][k], row}
    BY <1>0, <2>2 DEF TypeOK
  <2> QED
    BY <1>0, <2>1, <2>3, <2>4 DEF RowFresh
<1>4. CASE Tick \/ UNCHANGED vars
  BY <1>1, <1>4 DEF Tick, vars, fileVars
<1>5. ASSUME NEW q \in Procs, Begin(q) \/ Probe(q) \/ MakeDir(q) \/ Header(q)
             \/ Remove(q) \/ Connect(q) \/ CreateTable(q)
      PROVE  RowFresh(rows[i][k])'
  BY <1>1, <1>5 DEF Begin, Probe, MakeDir, Header, Remove, Connect, CreateTable, fileVars
<1>6. ASSUME NEW q \in Procs, GetHit(q) \/ GetMiss(q) \/ Fetch(q) \/ Augment(q)
             \/ QueryFails(q)
      PROVE  RowFresh(rows[i][k])'
  BY <1>1, <1>6 DEF GetHit, GetMiss, Fetch, Augment, QueryFails, fileVars
<1> QED
  BY <1>2, <1>3, <1>4, <1>5, <1>6 DEF Next, Open, Lookup

\* A warm start keeps its cache safe.
LEMMA NextWarm == IndInv /\ [Next]_vars => (WarmStays /\ WarmCacheIsSafe)'
<1> SUFFICES ASSUME IndInv, [Next]_vars, warm' PROVE (WarmStays /\ WarmCacheIsSafe)'
  BY DEF WarmStays, WarmCacheIsSafe
<1>0. TypeOK /\ warm' = warm
  BY DEF IndInv, Next, vars, Begin, Open, Lookup, Probe, MakeDir, Header, Remove, Connect,
         CreateTable, Purge, GetHit, GetMiss, Fetch, Augment, QueryFails, Save, Tick
<1>1. /\ dir /\ path # NoFile /\ kind[path] = "db" /\ path \in Inodes
      /\ failed = {} /\ removed = {}
      /\ \A q \in Procs : pc[q] \notin {"mkdir", "remove"} /\ conn[q] \in {NoFile, path}
  BY <1>0 DEF IndInv, WarmStays, WarmCacheIsSafe, TypeOK
<1> DEFINE Stays == /\ dir' = dir /\ path' = path /\ kind'[path] = "db"
                    /\ failed' = failed /\ removed' = removed
                    /\ \A q \in Procs : pc'[q] \notin {"mkdir", "remove"}
                                        /\ conn'[q] \in {NoFile, path}
<1>2. ASSUME NEW q \in Procs, Begin(q) PROVE Stays
  BY <1>0, <1>1, <1>2 DEF Begin, Goto, TypeOK, fileVars
<1>3. ASSUME NEW q \in Procs, Open(q) PROVE Stays
  <2>1. CASE Probe(q) \/ MakeDir(q) \/ Header(q) \/ Remove(q)
    BY <1>0, <1>1, <2>1 DEF Probe, MakeDir, Header, Remove, Goto, TypeOK, fileVars
  <2>2. CASE Connect(q)
    BY <1>0, <1>1, <2>2 DEF Connect, Goto, TypeOK
  <2>3. CASE CreateTable(q) \/ Purge(q)
    <3>1. conn[q] = path
      BY <1>1, <2>3 DEF IndInv, Connected, CreateTable, Purge
    <3>2. kind'[path] = "db"
      BY <1>0, <1>1, <2>3, <3>1 DEF CreateTable, Purge, TypeOK
    <3>3. ~CacheRaises(q) \/ ~Moved(q)
      BY <3>1 DEF Moved
    <3>4. UNCHANGED <<dir, path, removed, conn, failed>>
      BY <1>1, <2>3, <3>1 DEF CreateTable, Purge, Moved
    <3>5. \A r \in Procs : pc'[r] \in {pc[r], "purge", "get"}
      BY <1>0, <1>1, <2>3, <3>1 DEF CreateTable, Purge, Moved, Goto, TypeOK
    <3> QED
      BY <1>1, <3>2, <3>4, <3>5
  <2> QED
    BY <1>3, <2>1, <2>2, <2>3 DEF Open
<1>4. ASSUME NEW q \in Procs, Lookup(q) PROVE Stays
  <2>1. CASE GetHit(q) \/ GetMiss(q) \/ Fetch(q) \/ Augment(q) \/ QueryFails(q)
    BY <1>0, <1>1, <2>1 DEF GetHit, GetMiss, Fetch, AfterFetch, Augment, QueryFails, Finish,
                             Goto, TypeOK, fileVars
  <2>2. CASE Save(q)
    <3>1. conn[q] = path
      BY <1>1, <2>2 DEF IndInv, Connected, Save
    <3> QED
      BY <1>0, <1>1, <2>2, <3>1 DEF Save, Moved, Finish, TypeOK
  <2> QED
    BY <1>4, <2>1, <2>2 DEF Lookup
<1>5. ASSUME Tick \/ UNCHANGED vars PROVE Stays
  BY <1>1, <1>5 DEF Tick, vars, fileVars, procVars
<1>6. Stays
  BY <1>2, <1>3, <1>4, <1>5 DEF Next
<1> QED
  BY <1>1, <1>6 DEF WarmStays, WarmCacheIsSafe

\* No step makes a hit older than the cache period.
LEMMA NextHitAge == IndInv /\ [Next]_vars => HitAgeBounded'
<1> SUFFICES ASSUME IndInv, [Next]_vars, NEW p \in Procs
             PROVE  hit'[p] <= Period[p] + MaxFetch
  BY DEF HitAgeBounded
<1>0. TypeOK /\ hit[p] <= Period[p] + MaxFetch
  BY DEF IndInv, HitAgeBounded
<1>1. ASSUME NEW q \in Procs, Begin(q) PROVE hit'[p] <= Period[p] + MaxFetch
  <2>1. hit'[p] \in {hit[p], NoHit} /\ Period[p] \in Nat
    BY <1>0, <1>1, CacheAssumption DEF Begin, TypeOK
  <2> QED
    BY <1>0, <2>1, CacheAssumption DEF NoHit
<1>2. ASSUME NEW q \in Procs, GetHit(q) PROVE hit'[p] <= Period[p] + MaxFetch
  <2>1. conn[q] \in Inodes /\ op[q].key \in Keys
    BY <1>0, <1>2 DEF GetHit, IndInv, Connected, TypeOK
  <2>2. RowFresh(Row(q)) /\ Row(q) \in Rows
    BY <1>0, <2>1 DEF IndInv, Row, TypeOK
  <2>3. now - Row(q).at <= Period[q] + MaxFetch
    <3>1. /\ now \in Nat /\ Period[q] \in Nat /\ MaxFetch \in Nat
          /\ Row(q).at \in Nat /\ Row(q).date \in Nat
      BY <1>0, <2>2, CacheAssumption DEF Rows, Times, TypeOK
    <3>2. now - Row(q).date <= Period[q] /\ Row(q).date - Row(q).at <= MaxFetch
      BY <1>2, <2>2 DEF GetHit, Usable, RowFresh
    <3> QED
      BY <3>1, <3>2
  <2> QED
    BY <1>0, <1>2, <2>3 DEF GetHit, TypeOK
<1>3. CASE hit' = hit
  BY <1>0, <1>3
<1>4. ASSUME NEW q \in Procs, Open(q) PROVE hit' = hit
  BY <1>4 DEF Open, Probe, MakeDir, Header, Remove, Connect, CreateTable, Purge
<1>5. ASSUME NEW q \in Procs, Lookup(q), ~GetHit(q) PROVE hit' = hit
  BY <1>5 DEF Lookup, GetMiss, Fetch, Augment, QueryFails, Save
<1>6. CASE Tick \/ UNCHANGED vars
  BY <1>3, <1>6 DEF Tick, vars, procVars
<1> QED
  BY <1>1, <1>2, <1>3, <1>4, <1>5, <1>6 DEF Next

\* The inductive invariant holds in every reachable state.
LEMMA IndInvHolds == Spec => []IndInv
<1>1. IndInv /\ [Next]_vars => IndInv'
  BY NextTypes, NextConnected, NextDataFresh, NextRowsFresh, NextWarm, NextHitAge DEF IndInv
<1> QED
  BY <1>1, InitIndInv, PTL DEF Spec

\* Whatever processes with whatever periods share the file, a lookup is never
\* served data that is older than its own process's period and the slowest query
\* (SqlKvCache.get, QueryResourceManager.resources).
THEOREM HitsAreFresh == Spec => []HitAgeBounded
<1>1. IndInv => HitAgeBounded
  BY DEF IndInv
<1> QED
  BY <1>1, IndInvHolds, PTL

\* The shared files are used as databases only once they are, and hold nothing
\* but augmented results (SqlKvCache.init, QueryResourceManager.resources).
THEOREM CacheIsUsable == Spec => []SharedIsUsable
<1>1. IndInv => SharedIsUsable
  <2> SUFFICES ASSUME IndInv PROVE SharedIsUsable
    OBVIOUS
  <2>1. CachedIsAugmented
    BY DEF IndInv, CachedIsAugmented, RowFresh
  <2>2. ConnectedToDatabase
    BY DEF IndInv, ConnectedToDatabase, Connected
  <2> QED
    BY <2>1, <2>2 DEF IndInv, SharedIsUsable
<1> QED
  BY <1>1, IndInvHolds, PTL

\* A database at the path from the start is never removed and fails nobody, however
\* many processes open, purge and write it (SqlKvCache.init).
THEOREM WarmStartsAreSafe == Spec => []WarmCacheIsSafe
<1>1. IndInv => WarmCacheIsSafe
  BY DEF IndInv
<1> QED
  BY <1>1, IndInvHolds, PTL
=============================================================================
