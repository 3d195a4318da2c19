------------------------- MODULE LogTransportProofs -------------------------
(***************************************************************************)
(* Proofs about LogTransport, for every set of records, batch size, number *)
(* of handlers and number of faults, those that kill the transport thread  *)
(* included.  The inductive invariant IndInv adds two facts to what the    *)
(* runs check: Shape, where the markers are in the queue in each phase of  *)
(* the main thread, and Covered, that no accepted record is ever in none   *)
(* of the handler, the queue, the transport, the service and the losses    *)
(* recorded as errors.                                                     *)
(*                                                                         *)
(* The second part shows that the handler implements the outbox of         *)
(* LogOutbox: every step is of one of a few kinds, and each kind is a step *)
(* of the outbox or leaves it alone.  Its invariant is RefInv: every       *)
(* record is in one place on its way, and what is stored twice is counted  *)
(* against the replies that were lost.                                     *)
(***************************************************************************)
EXTENDS LogRefinement, SequenceTheorems, TLAPS

-----------------------------------------------------------------------------
(***************************************************************************)
(* The inductive invariant.                                                *)
(***************************************************************************)
AllBatches == \A i \in 1..Len(queue) : queue[i].kind = "batch"

\* While flush waits, its marker is the last item of the queue, or is being
\* served, or has been served and the transport has nothing left.
FlushShape ==
    \/ /\ queue # << >> /\ ~task
       /\ queue[Len(queue)] = FLUSH_MARKER
       /\ \A i \in 1..(Len(queue) - 1) : queue[i].kind = "batch"
    \/ /\ queue = << >> /\ transport # "none"
       /\ task \/ buffers = {}

CloseShape ==
    /\ buffers = {} /\ ~task
    /\ \/ queue = <<SHUTDOWN_MARKER>> /\ transport = "loop"
       \/ queue = << >> /\ transport = "gone"

\* What each phase of the main thread implies about the queue and the thread.
Shape ==
    /\ pc # "run" => buf = {}
    /\ task => sending
    /\ transport = "none" => buf = {} /\ buffers = {} /\ ~sending
    /\ transport = "dead" => sending /\ buffers # {}
    /\ transport = "gone" => pc \in {"close", "reap", "left"} /\ ~sending
    /\ pc = "run" /\ (shutdown \/ transport = "none") =>
           transport = "none" /\ queue = << >>
    /\ pc \in {"run", "mark"} => ~task /\ AllBatches
    /\ pc = "flush" => FlushShape
    /\ pc = "close" => CloseShape
    /\ pc \in {"reap", "left"} => queue = << >> /\ buffers = {} /\ ~task

\* Every accepted record is somewhere on its way, stored or given up.
Covered ==
    \A m \in emitted :
        \/ m \in buf \/ m \in buffers
        \/ \E i \in 1..Len(queue) : m \in queue[i].msgs
        \/ stored[m] > 0 \/ m \in dropped

IndInv == TypeOK /\ QueueAccounting /\ Shape /\ Covered

\* A record is in one place at a time.
OnePlace ==
    /\ buf \cap Queued = {} /\ buf \cap buffers = {} /\ Queued \cap buffers = {}
    /\ \A i, j \in 1..Len(queue) : i # j => queue[i].msgs \cap queue[j].msgs = {}

\* Only records that emit accepted are pending, stored or given up.
OnlyEmitted ==
    /\ Pending \cup dropped \subseteq emitted
    /\ \A m \in Msgs \ emitted : stored[m] = 0

\* A record that is still pending was stored only by puts whose reply was lost.
StoresCounted ==
    /\ faults["lost"] <= Budget["lost"]
    /\ \A m \in Msgs :
           stored[m] <= (IF m \in Pending THEN 0 ELSE 1) + (Budget["lost"] - faults["lost"])

RefInv == IndInv /\ OnePlace /\ OnlyEmitted /\ StoresCounted

-----------------------------------------------------------------------------
USE LogAssumption DEF handlerVars, transportVars, serviceVars, historyVars

\* What handler.flush_buffers, flush and close put on the queue are items.
LEMMA ItemTypes ==
    /\ \A ms \in SUBSET Msgs : Batch(ms) \in Items
    /\ FLUSH_MARKER \in Items
    /\ SHUTDOWN_MARKER \in Items
    /\ \A x \in Items : x.msgs \in SUBSET Msgs
    /\ \A ms : Batch(ms).msgs = ms /\ Batch(ms).kind = "batch"
BY DEF Items, Batch, FLUSH_MARKER, SHUTDOWN_MARKER

\* Putting an item keeps the records already queued and adds its own.
LEMMA PutCovers ==
    ASSUME NEW q \in Seq(Items), NEW x \in Items, NEW m,
           (\E i \in 1..Len(q) : m \in q[i].msgs) \/ m \in x.msgs
    PROVE  \E i \in 1..Len(Append(q, x)) : m \in Append(q, x)[i].msgs
<1>1. Len(Append(q, x)) = Len(q) + 1 /\ Len(q) \in Nat
  OBVIOUS
<1>2. CASE \E i \in 1..Len(q) : m \in q[i].msgs
  <2>1. PICK i \in 1..Len(q) : m \in q[i].msgs
    BY <1>2
  <2>2. Append(q, x)[i] = q[i] /\ i \in 1..Len(Append(q, x))
    BY <1>1
  <2>3. QED
    BY <2>1, <2>2
<1>3. CASE m \in x.msgs
  <2>1. Append(q, x)[Len(q) + 1] = x /\ Len(q) + 1 \in 1..Len(Append(q, x))
    BY <1>1
  <2>2. QED
    BY <1>3, <2>1
<1>4. QED
  BY <1>2, <1>3

\* Taking the head keeps every queued record but the head's own.
LEMMA TakeCovers ==
    ASSUME NEW q \in Seq(Items), q # << >>, NEW m,
           \E i \in 1..Len(q) : m \in q[i].msgs
    PROVE  \/ m \in Head(q).msgs
           \/ \E i \in 1..Len(Tail(q)) : m \in Tail(q)[i].msgs
<1>1. PICK i \in 1..Len(q) : m \in q[i].msgs
  OBVIOUS
<1>2. CASE i = 1
  BY <1>1, <1>2
<1>3. CASE i # 1
  <2>1. /\ Len(Tail(q)) = Len(q) - 1
        /\ i - 1 \in 1..Len(Tail(q))
        /\ Tail(q)[i - 1] = q[i]
    BY <1>3
  <2>2. QED
    BY <1>1, <2>1
<1>4. QED
  BY <1>2, <1>3

\* The items of a queue after a put, and after a get.
LEMMA AppendIs ==
    ASSUME NEW q \in Seq(Items), NEW x \in Items
    PROVE  /\ Len(Append(q, x)) = Len(q) + 1
           /\ Append(q, x)[Len(q) + 1] = x
           /\ \A i \in 1..Len(q) : Append(q, x)[i] = q[i]
OBVIOUS

\* Taking an item off the queue moves the others one place forward.
LEMMA TailIs ==
    ASSUME NEW q \in Seq(Items), q # << >>
    PROVE  /\ Len(Tail(q)) = Len(q) - 1
           /\ \A i \in 1..Len(Tail(q)) : Tail(q)[i] = q[i + 1]
           /\ Len(q) \in Nat /\ Len(q) >= 1
           /\ Head(q) = q[1] /\ 1 \in 1..Len(q)
           /\ Len(q) > 1 => Tail(q) # << >>
           /\ Len(q) = 1 => Tail(q) = << >>
<1>1. /\ Len(Tail(q)) = Len(q) - 1
      /\ \A i \in 1..Len(Tail(q)) : Tail(q)[i] = q[i + 1]
      /\ Len(q) \in Nat /\ Len(q) >= 1
      /\ Head(q) = q[1] /\ 1 \in 1..Len(q)
      /\ Tail(q) \in Seq(Items)
  OBVIOUS
<1>2. QED
  BY <1>1, EmptySeq

\* Handing a buffer over to a queue of batches leaves a queue of batches.
LEMMA PutBatch ==
    ASSUME NEW q \in Seq(Items), NEW x \in Items, x.kind = "batch",
           \A i \in 1..Len(q) : q[i].kind = "batch"
    PROVE  \A i \in 1..Len(Append(q, x)) : Append(q, x)[i].kind = "batch"
BY AppendIs

\* Every step keeps the types.
LEMMA TypeStep ==
    ASSUME TypeOK, QueueAccounting, [Next]_vars
    PROVE  TypeOK'
<1> USE DEF TypeOK, QueueAccounting, Phases, TransportStates, FaultKinds
<1>1. ASSUME NEW m \in Msgs, EmitRaises(m)
      PROVE  TypeOK'
  BY <1>1 DEF EmitRaises, Fresh
<1>2. ASSUME NEW m \in Msgs, EmitStartFails(m)
      PROVE  TypeOK'
  <2>1. faults' \in [FaultKinds -> Nat]
    BY <1>2 DEF EmitStartFails, Spend
  <2>2. shutdown' \in BOOLEAN /\ refused' \in SUBSET Msgs
    BY <1>2, Zenon DEF EmitStartFails
  <2>3. QED
    BY <1>2, <2>1, <2>2 DEF EmitStartFails
<1>3. ASSUME NEW m \in Msgs, NEW late \in BOOLEAN, EmitBuffers(m, late)
      PROVE  TypeOK'
  <2>1. /\ buf' \in SUBSET Msgs
        /\ queue' \in Seq(Items)
        /\ unfinished' \in Nat
    <3>1. Batch(buf \cup {m}) \in Items
      BY ItemTypes
    <3>2. CASE late \/ Cardinality(buf \cup {m}) >= BatchMin
      <4>1. /\ queue' = Append(queue, Batch(buf \cup {m}))
            /\ unfinished' = unfinished + 1
            /\ buf' = {}
        BY <1>3, <3>2, Zenon DEF EmitBuffers, Put
      <4>2. QED
        BY <3>1, <4>1
    <3>3. CASE ~(late \/ Cardinality(buf \cup {m}) >= BatchMin)
      BY <1>3, <3>3 DEF EmitBuffers
    <3>4. QED
      BY <3>2, <3>3
  <2>2. shutdown' \in BOOLEAN /\ transport' \in TransportStates
    BY <1>3, Zenon DEF EmitBuffers
  <2>3. QED
    BY <1>3, <2>1, <2>2 DEF EmitBuffers
<1>4. CASE LeaveIdle
  BY <1>4 DEF LeaveIdle
<1>5. CASE LeaveFlush
  BY <1>5, ItemTypes DEF LeaveFlush, Put
<1>6. CASE PutFlushMarker
  BY <1>6, ItemTypes DEF PutFlushMarker, Put
<1>7. CASE Close
  BY <1>7, ItemTypes DEF Close, Put
<1>8. CASE CloseJoined
  BY <1>8 DEF CloseJoined
<1>9. CASE ThreadJoined
  BY <1>9 DEF ThreadJoined
<1>10. CASE JoinLog
  <2>1. session' \in 1..MaxSessions
    BY <1>10 DEF JoinLog
  <2>2. queue' \in Seq(Items)
    BY <1>10 DEF JoinLog
  <2>3. QED
    BY <1>10, <2>1, <2>2 DEF JoinLog, Unknown
<1>11. CASE GetBatch
  <2>1. Head(queue) \in Items /\ Tail(queue) \in Seq(Items)
    BY <1>11 DEF GetBatch
  <2>2. unfinished' \in Nat
    BY <1>11 DEF GetBatch
  <2>3. QED
    BY <1>11, <2>1, <2>2, ItemTypes DEF GetBatch
<1>12. CASE GetFlush
  BY <1>12 DEF GetFlush
<1>13. CASE GetShutdown
  <2>1. unfinished' \in Nat /\ queue' \in Seq(Items)
    BY <1>13 DEF GetShutdown
  <2>2. QED
    BY <1>13, <2>1 DEF GetShutdown
<1>14. CASE GetTimeout
  BY <1>14 DEF GetTimeout, Idle
<1>15. CASE SendReturns
  <2>1. unfinished' \in Nat
    BY <1>15 DEF SendReturns
  <2>2. QED
    BY <1>15, <2>1 DEF SendReturns
<1>16. CASE CreateStream
  BY <1>16 DEF CreateStream, NoToken
<1>17. CASE PutAccepted
  BY <1>17 DEF PutAccepted, Sending, TokenValid, Stored
<1>18. CASE PutAlreadyAccepted
  <2>1. faults' \in [FaultKinds -> Nat]
    BY <1>18 DEF PutAlreadyAccepted, Spend
  <2>2. stored' \in [Msgs -> Nat]
    BY <1>18 DEF PutAlreadyAccepted, Stored
  <2>3. QED
    BY <1>18, <2>1, <2>2 DEF PutAlreadyAccepted
<1>19. CASE PutInvalidToken
  BY <1>19 DEF PutInvalidToken, Sending
<1>20. CASE SendRefused
  BY <1>20 DEF SendRefused, Sending, Spend
<1>21. CASE SendDies
  BY <1>21 DEF SendDies, Sending, Spend
<1>22. CASE ForeignPut
  BY <1>22 DEF ForeignPut, Spend
<1>23. CASE UNCHANGED vars
  BY <1>23 DEF vars
<1>24. QED
  BY <1>1, <1>2, <1>3, <1>4, <1>5, <1>6, <1>7, <1>8, <1>9, <1>10, <1>11, <1>12,
     <1>13, <1>14, <1>15, <1>16, <1>17, <1>18, <1>19, <1>20, <1>21, <1>22, <1>23
  DEF Next, Emit, Main, Loop, Send, Done


\* Every step keeps the count that queue.join() waits on.
LEMMA AccountingStep ==
    ASSUME TypeOK, QueueAccounting, Shape, [Next]_vars
    PROVE  QueueAccounting'
<1> USE DEF TypeOK, QueueAccounting
<1>1. ASSUME NEW m \in Msgs, EmitRaises(m)
      PROVE  QueueAccounting'
  BY <1>1 DEF EmitRaises, Fresh
<1>2. ASSUME NEW m \in Msgs, EmitStartFails(m)
      PROVE  QueueAccounting'
  BY <1>2 DEF EmitStartFails, Fresh, Spend
<1>3. ASSUME NEW m \in Msgs, NEW late \in BOOLEAN, EmitBuffers(m, late)
      PROVE  QueueAccounting'
  BY <1>3 DEF EmitBuffers, Fresh, Put, Batch
<1>4. CASE LeaveIdle
  BY <1>4 DEF LeaveIdle
<1>5. CASE LeaveFlush
  BY <1>5 DEF LeaveFlush, Put, Batch
<1>6. CASE PutFlushMarker
  BY <1>6 DEF PutFlushMarker, Put, FLUSH_MARKER
<1>7. CASE Close
  BY <1>7 DEF Close, Put, SHUTDOWN_MARKER
<1>8. CASE CloseJoined
  BY <1>8 DEF CloseJoined
<1>9. CASE ThreadJoined
  BY <1>9 DEF ThreadJoined
<1>10. CASE JoinLog
  BY <1>10 DEF JoinLog
<1>11. CASE GetBatch
  BY <1>11 DEF GetBatch, Idle
<1>12. CASE GetFlush
  BY <1>12 DEF GetFlush, Idle, Shape
<1>13. CASE GetShutdown
  BY <1>13 DEF GetShutdown, Idle
<1>14. CASE GetTimeout
  BY <1>14 DEF GetTimeout, Idle
<1>15. CASE SendReturns
  BY <1>15 DEF SendReturns
<1>16. CASE CreateStream
  BY <1>16 DEF CreateStream, Sending
<1>17. CASE PutAccepted
  BY <1>17 DEF PutAccepted, Sending, TokenValid, Stored
<1>18. CASE PutAlreadyAccepted
  BY <1>18 DEF PutAlreadyAccepted, Sending, TokenValid, Stored, Spend
<1>19. CASE PutInvalidToken
  BY <1>19 DEF PutInvalidToken, Sending
<1>20. CASE SendRefused
  BY <1>20 DEF SendRefused, Sending, Spend
<1>21. CASE SendDies
  BY <1>21 DEF SendDies, Sending, Spend
<1>22. CASE ForeignPut
  BY <1>22 DEF ForeignPut, Spend
<1>23. CASE UNCHANGED vars
  BY <1>23 DEF vars
<1>24. QED
  BY <1>1, <1>2, <1>3, <1>4, <1>5, <1>6, <1>7, <1>8, <1>9, <1>10, <1>11, <1>12,
     <1>13, <1>14, <1>15, <1>16, <1>17, <1>18, <1>19, <1>20, <1>21, <1>22, <1>23
  DEF Next, Emit, Main, Loop, Send, Done


\* Every step keeps what the main thread's phase implies.
LEMMA ShapeStep ==
    ASSUME TypeOK, QueueAccounting, Shape, [Next]_vars
    PROVE  Shape'
<1> USE DEF TypeOK, QueueAccounting, Shape, FlushShape, CloseShape, AllBatches
<1>1. ASSUME NEW m \in Msgs, EmitRaises(m)
      PROVE  Shape'
  BY <1>1 DEF EmitRaises, Fresh
<1>2. ASSUME NEW m \in Msgs, EmitStartFails(m)
      PROVE  Shape'
  BY <1>2 DEF EmitStartFails, Fresh, Spend
<1>3. ASSUME NEW m \in Msgs, NEW late \in BOOLEAN, EmitBuffers(m, late)
      PROVE  Shape'
  <2>1. AllBatches'
    <3>1. CASE late \/ Cardinality(buf \cup {m}) >= BatchMin
      <4>1. queue' = Append(queue, Batch(buf \cup {m}))
        BY <1>3, <3>1, Zenon DEF EmitBuffers, Put
      <4>2. Batch(buf \cup {m}) \in Items /\ Batch(buf \cup {m}).kind = "batch"
        BY ItemTypes
      <4>3. \A i \in 1..Len(queue) : queue[i].kind = "batch"
        BY <1>3 DEF EmitBuffers, Fresh
      <4>4. QED
        BY <4>1, <4>2, <4>3, PutBatch
    <3>2. CASE ~(late \/ Cardinality(buf \cup {m}) >= BatchMin)
      BY <1>3, <3>2 DEF EmitBuffers, Fresh
    <3>3. QED
      BY <3>1, <3>2
  <2>2. pc' = "run" /\ transport' # "none" /\ ~shutdown'
    BY <1>3 DEF EmitBuffers, Fresh
  <2>3. QED
    BY <1>3, <2>1, <2>2 DEF EmitBuffers, Fresh
<1>4. CASE LeaveIdle
  BY <1>4 DEF LeaveIdle
<1>5. CASE LeaveFlush
  BY <1>5 DEF LeaveFlush, Put, Batch
<1>6. CASE PutFlushMarker
  <2>1. /\ queue' # << >>
        /\ queue'[Len(queue')] = FLUSH_MARKER
        /\ \A i \in 1..(Len(queue') - 1) : queue'[i].kind = "batch"
    BY <1>6, ItemTypes, AppendIs DEF PutFlushMarker, Put
  <2>2. FlushShape'
    BY <1>6, <2>1 DEF PutFlushMarker
  <2>3. QED
    BY <1>6, <2>2 DEF PutFlushMarker
<1>7. CASE Close
  <2>1. queue = << >> /\ ~task
    BY <1>7 DEF Close
  <2>2. buffers = {} /\ transport = "loop"
    BY <1>7, <2>1 DEF Close, TransportStates
  <2>3. queue' = <<SHUTDOWN_MARKER>>
    BY <1>7, <2>1 DEF Close, Put
  <2>4. CloseShape'
    BY <1>7, <2>1, <2>2, <2>3 DEF Close
  <2>5. QED
    BY <1>7, <2>2, <2>4 DEF Close
<1>8. CASE CloseJoined
  BY <1>8 DEF CloseJoined
<1>9. CASE ThreadJoined
  BY <1>9 DEF ThreadJoined
<1>10. CASE JoinLog
  BY <1>10 DEF JoinLog
<1>11. CASE GetBatch
  <2>1. pc \in {"run", "mark"} => AllBatches'
    BY <1>11, TailIs DEF GetBatch
  <2>2. ASSUME pc = "flush"
        PROVE  FlushShape'
    <3>1. queue # << >> /\ ~task /\ queue[Len(queue)].kind = "flush"
      BY <1>11, <2>2 DEF GetBatch, FLUSH_MARKER
    <3>2. Len(queue) \in Nat /\ Len(queue) > 1
      BY <1>11, <3>1, TailIs DEF GetBatch
    <3>3. /\ queue' = Tail(queue)
          /\ Len(queue') = Len(queue) - 1
          /\ \A i \in 1..Len(queue') : queue'[i] = queue[i + 1]
      BY <1>11, TailIs DEF GetBatch
    <3>4. queue'[Len(queue')] = queue[Len(queue)]
      BY <3>2, <3>3
    <3>5. \A i \in 1..(Len(queue') - 1) : queue'[i].kind = "batch"
      BY <2>2, <3>1, <3>2, <3>3
    <3>6. queue' # << >>
      BY <3>1, <3>2, <3>3, TailIs
    <3>7. QED
      BY <1>11, <2>2, <3>1, <3>4, <3>5, <3>6 DEF GetBatch
  <2>3. pc # "close"
    BY <1>11 DEF GetBatch, Idle, SHUTDOWN_MARKER
  <2>4. QED
    BY <1>11, <2>1, <2>2, <2>3 DEF GetBatch, Idle, Phases
<1>12. CASE GetFlush
  <2>1. /\ queue # << >> /\ 1 \in 1..Len(queue)
        /\ Len(queue) \in Nat /\ Len(queue) >= 1
        /\ queue[1].kind = "flush"
    BY <1>12, TailIs DEF GetFlush
  <2>2. pc = "flush"
    BY <2>1 DEF SHUTDOWN_MARKER, Phases
  <2>3. Len(queue) = 1
    <3>1. \A i \in 1..(Len(queue) - 1) : queue[i].kind = "batch"
      BY <2>1, <2>2
    <3>2. 1 \notin 1..(Len(queue) - 1)
      BY <2>1, <3>1
    <3>3. \A n \in Nat : n >= 1 /\ 1 \notin 1..(n - 1) => n = 1
      OBVIOUS
    <3>4. QED
      BY <2>1, <3>2, <3>3
  <2>4. queue' = << >>
    BY <1>12, <2>1, <2>3, TailIs DEF GetFlush
  <2>5. QED
    BY <1>12, <2>2, <2>4 DEF GetFlush, Idle
<1>13. CASE GetShutdown
  <2>1. /\ queue # << >> /\ 1 \in 1..Len(queue)
        /\ Len(queue) \in Nat /\ Len(queue) >= 1
        /\ queue[1].kind = "shutdown"
    BY <1>13, TailIs DEF GetShutdown
  <2>2. pc = "close"
    <3>1. pc \notin {"run", "mark", "reap", "left"}
      BY <2>1
    <3>2. ASSUME pc = "flush"
          PROVE  FALSE
      <4>1. /\ queue[Len(queue)].kind = "flush"
            /\ \A i \in 1..(Len(queue) - 1) : queue[i].kind = "batch"
        BY <2>1, <3>2 DEF FLUSH_MARKER
      <4>2. CASE Len(queue) = 1
        BY <2>1, <4>1, <4>2
      <4>3. CASE Len(queue) > 1
        <5>1. 1 \in 1..(Len(queue) - 1)
          BY <4>3
        <5>2. QED
          BY <2>1, <4>1, <5>1
      <4>4. QED
        <5>1. \A n \in Nat : n >= 1 => n = 1 \/ n > 1
          OBVIOUS
        <5>2. QED
          BY <2>1, <4>2, <4>3, <5>1
    <3>3. QED
      BY <3>1, <3>2 DEF Phases
  <2>3. queue' = << >>
    <3>1. queue = <<SHUTDOWN_MARKER>>
      BY <2>1, <2>2
    <3>2. QED
      BY <1>13, <2>1, <3>1, TailIs DEF GetShutdown
  <2>4. QED
    BY <1>13, <2>2, <2>3 DEF GetShutdown, Idle
<1>14. CASE GetTimeout
  BY <1>14 DEF GetTimeout, Idle
<1>15. CASE SendReturns
  BY <1>15 DEF SendReturns
<1>16. CASE CreateStream
  BY <1>16 DEF CreateStream, Sending
<1>17. CASE PutAccepted
  BY <1>17 DEF PutAccepted, Sending, TokenValid, Stored
<1>18. CASE PutAlreadyAccepted
  BY <1>18 DEF PutAlreadyAccepted, Sending, TokenValid, Stored, Spend
<1>19. CASE PutInvalidToken
  BY <1>19 DEF PutInvalidToken, Sending
<1>20. CASE SendRefused
  BY <1>20 DEF SendRefused, Sending, Spend
<1>21. CASE SendDies
  BY <1>21 DEF SendDies, Sending, Spend
<1>22. CASE ForeignPut
  BY <1>22 DEF ForeignPut, Spend
<1>23. CASE UNCHANGED vars
  BY <1>23 DEF vars
<1>24. QED
  BY <1>1, <1>2, <1>3, <1>4, <1>5, <1>6, <1>7, <1>8, <1>9, <1>10, <1>11, <1>12,
     <1>13, <1>14, <1>15, <1>16, <1>17, <1>18, <1>19, <1>20, <1>21, <1>22, <1>23
  DEF Next, Emit, Main, Loop, Send, Done


\* Every step keeps each accepted record on its way, stored or given up.
LEMMA CoveredStep ==
    ASSUME TypeOK, Shape, Covered, [Next]_vars
    PROVE  Covered'
<1> USE DEF TypeOK, Covered
<1>1. ASSUME NEW m \in Msgs, EmitRaises(m)
      PROVE  Covered'
  BY <1>1 DEF EmitRaises, Fresh
<1>2. ASSUME NEW m \in Msgs, EmitStartFails(m)
      PROVE  Covered'
  BY <1>2 DEF EmitStartFails, Fresh, Spend
<1>3. ASSUME NEW m \in Msgs, NEW late \in BOOLEAN, EmitBuffers(m, late)
      PROVE  Covered'
  <2>1. SUFFICES ASSUME NEW r \in emitted'
                 PROVE  \/ r \in buf' \/ r \in buffers'
                        \/ \E i \in 1..Len(queue') : r \in queue'[i].msgs
                        \/ stored'[r] > 0 \/ r \in dropped'
    BY DEF Covered
  <2>2. Batch(buf \cup {m}) \in Items /\ Batch(buf \cup {m}).msgs = buf \cup {m}
    BY ItemTypes
  <2>3. CASE queue' = Append(queue, Batch(buf \cup {m}))
    BY <1>3, <2>2, <2>3, PutCovers DEF EmitBuffers
  <2>4. CASE queue' = queue /\ buf' = buf \cup {m}
    BY <1>3, <2>4 DEF EmitBuffers
  <2>5. QED
    BY <1>3, <2>3, <2>4 DEF EmitBuffers, Put
<1>4. CASE LeaveIdle
  BY <1>4 DEF LeaveIdle
<1>5. CASE LeaveFlush
  BY <1>5, ItemTypes, PutCovers DEF LeaveFlush, Put
<1>6. CASE PutFlushMarker
  BY <1>6, ItemTypes, PutCovers DEF PutFlushMarker, Put
<1>7. CASE Close
  BY <1>7, ItemTypes, PutCovers DEF Close, Put
<1>8. CASE CloseJoined
  BY <1>8 DEF CloseJoined
<1>9. CASE ThreadJoined
  BY <1>9 DEF ThreadJoined
<1>10. CASE JoinLog
  BY <1>10 DEF JoinLog, Shape
<1>11. CASE GetBatch
  BY <1>11, TakeCovers DEF GetBatch
<1>12. CASE GetFlush
  <2>1. Head(queue).msgs = {}
    <3>1. Head(queue) \in Items
      BY <1>12 DEF GetFlush
    <3>2. QED
      BY <1>12, <3>1 DEF GetFlush, Items, Batch, SHUTDOWN_MARKER, FLUSH_MARKER
  <2>2. QED
    BY <1>12, <2>1, TakeCovers DEF GetFlush
<1>13. CASE GetShutdown
  <2>1. Head(queue).msgs = {}
    <3>1. Head(queue) \in Items
      BY <1>13 DEF GetShutdown
    <3>2. QED
      BY <1>13, <3>1 DEF GetShutdown, Items, Batch, SHUTDOWN_MARKER, FLUSH_MARKER
  <2>2. QED
    BY <1>13, <2>1, TakeCovers DEF GetShutdown
<1>14. CASE GetTimeout
  BY <1>14 DEF GetTimeout, Idle
<1>15. CASE SendReturns
  BY <1>15 DEF SendReturns
<1>16. CASE CreateStream
  BY <1>16 DEF CreateStream, Sending
<1>17. CASE PutAccepted
  BY <1>17 DEF PutAccepted, Sending, TokenValid, Stored
<1>18. CASE PutAlreadyAccepted
  BY <1>18 DEF PutAlreadyAccepted, Sending, TokenValid, Stored, Spend
<1>19. CASE PutInvalidToken
  BY <1>19 DEF PutInvalidToken, Sending
<1>20. CASE SendRefused
  BY <1>20 DEF SendRefused, Sending, Spend
<1>21. CASE SendDies
  BY <1>21 DEF SendDies, Sending, Spend
<1>22. CASE ForeignPut
  BY <1>22 DEF ForeignPut, Spend
<1>23. CASE UNCHANGED vars
  BY <1>23 DEF vars
<1>24. QED
  BY <1>1, <1>2, <1>3, <1>4, <1>5, <1>6, <1>7, <1>8, <1>9, <1>10, <1>11, <1>12,
     <1>13, <1>14, <1>15, <1>16, <1>17, <1>18, <1>19, <1>20, <1>21, <1>22, <1>23
  DEF Next, Emit, Main, Loop, Send, Done


(***************************************************************************)
(* The invariant is inductive, and implies what the runs check.            *)
(***************************************************************************)
\* A new handler satisfies the invariant.
LEMMA InitIndInv == Init => IndInv
<1> SUFFICES ASSUME Init
             PROVE  IndInv
  OBVIOUS
<1>1. TypeOK
  <2>1. session \in 1..MaxSessions /\ svcToken \in Nat /\ sequence \in Nat \cup {Unknown}
    BY DEF Init
  <2>2. queue \in Seq(Items) /\ unfinished \in Nat
    BY EmptySeq DEF Init
  <2>3. stored \in [Msgs -> Nat] /\ faults \in [FaultKinds -> Nat]
    BY DEF Init
  <2>4. QED
    BY <2>1, <2>2, <2>3 DEF Init, TypeOK, Phases, TransportStates
<1>2. QueueAccounting /\ Shape /\ Covered
  BY DEF Init, QueueAccounting, Shape, FlushShape, CloseShape, AllBatches, Covered
<1>3. QED
  BY <1>1, <1>2 DEF IndInv

\* Every step keeps the invariant.
LEMMA NextIndInv == IndInv /\ [Next]_vars => IndInv'
BY TypeStep, AccountingStep, ShapeStep, CoveredStep DEF IndInv

\* The invariant holds throughout.
LEMMA IndInvAlways == Spec => []IndInv
BY InitIndInv, NextIndInv, PTL DEF Spec

\* The state of the handler, the transport and the service stays well typed; in
\* particular queue.unfinished_tasks never goes below zero, where task_done
\* would raise in the transport thread.
THEOREM TypeCorrect == Spec => []TypeOK
<1>1. IndInv => TypeOK
  BY DEF IndInv
<1>2. QED
  BY <1>1, IndInvAlways, PTL

\* queue.join() in flush and close waits for exactly the items that were put and
\* not yet served by Transport.loop.
THEOREM JoinCountsTasks == Spec => []QueueAccounting
<1>1. IndInv => QueueAccounting
  BY DEF IndInv
<1>2. QED
  BY <1>1, IndInvAlways, PTL

\* When LogOutput.leave_log's flush has returned, no accepted record is left
\* behind: it is with the service, or was given up with an error.
THEOREM FlushDeliversAll == Spec => []FlushDelivers
<1>1. IndInv => FlushDelivers
  <2>1. SUFFICES ASSUME IndInv, pc \in {"close", "reap", "left"},
                        NEW m \in emitted
                 PROVE  stored[m] > 0 \/ m \in dropped
    BY DEF FlushDelivers
  <2>2. buf = {} /\ buffers = {}
    BY <2>1 DEF IndInv, Shape, CloseShape
  <2>3. queue = << >> \/ queue = <<SHUTDOWN_MARKER>>
    BY <2>1 DEF IndInv, Shape, CloseShape
  <2>4. ~ \E i \in 1..Len(queue) : m \in queue[i].msgs
    BY <2>3 DEF SHUTDOWN_MARKER
  <2>5. QED
    BY <2>1, <2>2, <2>4 DEF IndInv, Covered
<1>2. QED
  BY <1>1, IndInvAlways, PTL

\* Transport.loop returns on SHUTDOWN_MARKER without sending; it is only reached
\* with nothing left to send.
THEOREM ShutdownIsClean == Spec => []ShutdownStrandsNothing
<1>1. IndInv => ShutdownStrandsNothing
  BY DEF IndInv, Shape, CloseShape, ShutdownStrandsNothing
<1>2. QED
  BY <1>1, IndInvAlways, PTL

-----------------------------------------------------------------------------
(***************************************************************************)
(* The handler implements LogOutbox.  Every step is of one of these kinds, *)
(* told apart by what they do to the pending records.                      *)
(***************************************************************************)
\* The records queued in q, and that no two of its items share one.
RecordsOf(q) == UNION {q[i].msgs : i \in 1..Len(q)}
Apart(q) == \A i, j \in 1..Len(q) : i # j => q[i].msgs \cap q[j].msgs = {}

\* Putting a batch on the queue adds its records, and keeps batches apart if
\* those records are in none yet.
LEMMA RecordsAfterPut ==
    ASSUME NEW q \in Seq(Items), NEW x \in Items
    PROVE  /\ RecordsOf(Append(q, x)) = RecordsOf(q) \cup x.msgs
           /\ Apart(q) /\ RecordsOf(q) \cap x.msgs = {} => Apart(Append(q, x))
<1> DEFINE r == Append(q, x)
<1>1. /\ Len(r) = Len(q) + 1 /\ Len(q) \in Nat /\ r[Len(q) + 1] = x
      /\ \A i \in 1..Len(q) : r[i] = q[i]
  BY AppendIs
<1>2. /\ 1..Len(r) = (1..Len(q)) \cup {Len(q) + 1}
  BY <1>1
<1> HIDE DEF r
<1>3. RecordsOf(r) = RecordsOf(q) \cup x.msgs
  BY <1>1, <1>2 DEF RecordsOf
<1>4. ASSUME Apart(q), RecordsOf(q) \cap x.msgs = {} PROVE Apart(r)
  <2>1. \A i \in 1..Len(q) : r[i].msgs \cap x.msgs = {}
    BY <1>1, <1>4 DEF RecordsOf
  <2> QED
    BY <1>1, <1>2, <1>4, <2>1 DEF Apart
<1> QED
  BY <1>3, <1>4 DEF r

\* Taking a batch off the queue takes its records, and only those.
LEMMA RecordsAfterGet ==
    ASSUME NEW q \in Seq(Items), q # << >>
    PROVE  /\ RecordsOf(q) = Head(q).msgs \cup RecordsOf(Tail(q))
           /\ Apart(q) => Apart(Tail(q)) /\ Head(q).msgs \cap RecordsOf(Tail(q)) = {}
<1> DEFINE r == Tail(q)
<1>1. /\ Len(r) = Len(q) - 1 /\ Len(q) \in Nat /\ Len(q) >= 1
      /\ \A i \in 1..Len(r) : r[i] = q[i + 1]
      /\ Head(q) = q[1] /\ 1 \in 1..Len(q)
  BY TailIs
<1>2. /\ \A i \in 1..Len(r) : i + 1 \in 1..Len(q) /\ i + 1 # 1
      /\ \A i \in 1..Len(q) : i # 1 => i - 1 \in 1..Len(r) /\ (i - 1) + 1 = i
      /\ \A i, j \in 1..Len(r) : i # j => i + 1 # j + 1
  BY <1>1
<1> HIDE DEF r
<1>3. RecordsOf(q) = q[1].msgs \cup RecordsOf(r)
  <2>1. ASSUME NEW m \in RecordsOf(q) PROVE m \in q[1].msgs \cup RecordsOf(r)
    <3>1. PICK i \in 1..Len(q) : m \in q[i].msgs
      BY DEF RecordsOf
    <3>2. CASE i = 1
      BY <3>1, <3>2
    <3>3. CASE i # 1
      <4>1. i - 1 \in 1..Len(r) /\ r[i - 1] = q[i]
        BY <1>1, <1>2, <3>3
      <4> QED
        BY <3>1, <4>1 DEF RecordsOf
    <3> QED
      BY <3>2, <3>3
  <2>2. ASSUME NEW m \in RecordsOf(r) PROVE m \in RecordsOf(q)
    BY <1>1, <1>2 DEF RecordsOf
  <2>3. q[1].msgs \subseteq RecordsOf(q)
    BY <1>1 DEF RecordsOf
  <2> QED
    BY <2>1, <2>2, <2>3
<1>4. Apart(q) => Apart(r)
  <2>1. ASSUME Apart(q), NEW i \in 1..Len(r), NEW j \in 1..Len(r), i # j
        PROVE  r[i].msgs \cap r[j].msgs = {}
    <3>1. i + 1 \in 1..Len(q) /\ j + 1 \in 1..Len(q) /\ i + 1 # j + 1
      BY <1>2, <2>1
    <3>2. q[i + 1].msgs \cap q[j + 1].msgs = {}
      BY <2>1, <3>1 DEF Apart
    <3> QED
      BY <1>1, <3>2
  <2> QED
    BY <2>1 DEF Apart
<1>5. Apart(q) => q[1].msgs \cap RecordsOf(r) = {}
  BY <1>1, <1>2 DEF Apart, RecordsOf
<1> QED
  BY <1>1, <1>3, <1>4, <1>5 DEF r

Lost == faults["lost"]

\* Records move between the buffer, the queue and the transport, or nothing does.
Moves ==
    /\ Pending' = Pending /\ OnePlace'
    /\ UNCHANGED <<stored, emitted, refused, dropped>>
    /\ (Open' <=> Open) /\ Lost' = Lost

Takes(m) ==
    /\ Open /\ m \notin emitted \cup refused
    /\ Pending' = Pending \cup {m} /\ OnePlace' /\ emitted' = emitted \cup {m}
    /\ UNCHANGED <<stored, refused, dropped>>
    /\ Open' /\ Lost' = Lost

Refuses(m) ==
    /\ Open /\ m \notin emitted \cup refused
    /\ refused' = refused \cup {m}
    /\ Pending' = Pending /\ OnePlace'
    /\ UNCHANGED <<stored, emitted, dropped>>
    /\ Open' /\ Lost' = Lost

\* put_log_events takes the transport's records, and the reply arrives or is lost.
Confirms ==
    /\ buffers # {} /\ stored' = Stored(buffers) /\ Pending' = Pending \ buffers
    /\ OnePlace'
    /\ UNCHANGED <<emitted, refused, dropped>>
    /\ (Open' <=> Open) /\ Lost' = Lost

Repeats ==
    /\ buffers # {} /\ stored' = Stored(buffers) /\ Pending' = Pending
    /\ OnePlace'
    /\ UNCHANGED <<emitted, refused, dropped>>
    /\ (Open' <=> Open) /\ Lost' = Lost - 1 /\ Lost > 0

GivesUp ==
    /\ buffers # {} /\ dropped' = dropped \cup buffers /\ Pending' = Pending \ buffers
    /\ OnePlace'
    /\ UNCHANGED <<stored, emitted, refused>>
    /\ (Open' <=> Open) /\ Lost' = Lost

\* The flush has returned, or the next handler is built.
Switches ==
    /\ Pending = {} /\ Pending' = {} /\ OnePlace'
    /\ UNCHANGED <<stored, emitted, refused, dropped>>
    /\ (Open' <=> ~Open) /\ Lost' = Lost

Kinds ==
    \/ Moves
    \/ \E m \in Msgs : Takes(m) \/ Refuses(m)
    \/ Confirms \/ Repeats \/ GivesUp \/ Switches

\* The kinds keep what the refinement rests on.
LEMMA KindsKeep ==
    ASSUME RefInv, Kinds, TypeOK'
    PROVE  OnePlace' /\ OnlyEmitted' /\ StoresCounted'
<1> DEFINE B == Budget["lost"]
<1>0. /\ stored \in [Msgs -> Nat] /\ Lost \in Nat /\ B \in Nat /\ Lost <= B
      /\ Lost' \in Nat
      /\ \A m \in Msgs : stored[m] <= (IF m \in Pending THEN 0 ELSE 1) + (B - Lost)
      /\ Pending \cup dropped \subseteq emitted
      /\ \A m \in Msgs \ emitted : stored[m] = 0
      /\ buffers \subseteq Pending /\ Pending \subseteq emitted
  BY DEF RefInv, IndInv, TypeOK, OnlyEmitted, StoresCounted, Lost, FaultKinds, Pending
<1>1. OnePlace'
  BY DEF Kinds, Moves, Takes, Refuses, Confirms, Repeats, GivesUp, Switches
<1>2. OnlyEmitted'
  <2>1. (Pending \cup dropped)' \subseteq emitted'
    BY <1>0 DEF Kinds, Moves, Takes, Refuses, Confirms, Repeats, GivesUp, Switches
  <2>2. ASSUME NEW m \in Msgs \ emitted' PROVE stored'[m] = 0
    <3>1. m \notin emitted /\ m \notin buffers /\ stored[m] = 0
      BY <1>0, <2>2 DEF Kinds, Moves, Takes, Refuses, Confirms, Repeats, GivesUp, Switches
    <3>2. stored' = stored \/ stored' = Stored(buffers)
      BY DEF Kinds, Moves, Takes, Refuses, Confirms, Repeats, GivesUp, Switches
    <3> QED
      BY <3>1, <3>2 DEF Stored
  <2> QED
    BY <2>1, <2>2 DEF OnlyEmitted
<1>3. Lost' <= B
  BY <1>0 DEF Kinds, Moves, Takes, Refuses, Confirms, Repeats, GivesUp, Switches
<1>4. ASSUME NEW m \in Msgs
      PROVE  stored'[m] <= (IF m \in Pending' THEN 0 ELSE 1) + (B - Lost')
  <2>0. stored[m] \in Nat
    BY <1>0
  <2>1. CASE Moves \/ Switches \/ (\E n \in Msgs : Refuses(n))
    BY <1>0, <2>1 DEF Moves, Switches, Refuses
  <2>2. ASSUME NEW n \in Msgs, Takes(n)
        PROVE  stored'[m] <= (IF m \in Pending' THEN 0 ELSE 1) + (B - Lost')
    <3>1. stored' = stored /\ Lost' = Lost /\ Pending' = Pending \cup {n} /\ stored[n] = 0
      BY <1>0, <2>2 DEF Takes
    <3>2. CASE m = n
      BY <1>0, <3>1, <3>2
    <3>3. CASE m # n
      <4>1. m \in Pending' <=> m \in Pending
        BY <3>1, <3>3
      <4> QED
        BY <1>0, <3>1, <4>1
    <3> QED
      BY <3>2, <3>3
  <2>3. CASE Confirms
    <3>1. /\ stored'[m] = IF m \in buffers THEN stored[m] + 1 ELSE stored[m]
          /\ Lost' = Lost /\ Pending' = Pending \ buffers
      BY <2>3 DEF Confirms, Stored
    <3>2. CASE m \in buffers
      <4>1. m \in Pending /\ m \notin Pending' /\ stored'[m] = stored[m] + 1
        BY <1>0, <3>1, <3>2
      <4>2. stored[m] <= B - Lost
        BY <1>0, <4>1
      <4> QED
        BY <1>0, <2>0, <3>1, <4>1, <4>2
    <3>3. CASE m \notin buffers
      <4>1. (m \in Pending' <=> m \in Pending) /\ stored'[m] = stored[m]
        BY <3>1, <3>3
      <4> QED
        BY <1>0, <3>1, <4>1
    <3> QED
      BY <3>2, <3>3
  <2>4. CASE Repeats
    <3>1. /\ stored'[m] = IF m \in buffers THEN stored[m] + 1 ELSE stored[m]
          /\ Lost' = Lost - 1 /\ Pending' = Pending
      BY <2>4 DEF Repeats, Stored
    <3>2. stored'[m] <= stored[m] + 1 /\ stored'[m] \in Nat
      BY <2>0, <3>1
    <3>3. B - Lost' = (B - Lost) + 1
      BY <1>0, <3>1
    <3> QED
      BY <1>0, <2>0, <3>1, <3>2, <3>3
  <2>5. CASE GivesUp
    <3>1. stored' = stored /\ Lost' = Lost /\ Pending' = Pending \ buffers
      BY <2>5 DEF GivesUp
    <3>2. m \in Pending' => m \in Pending
      BY <3>1
    <3> QED
      BY <1>0, <2>0, <3>1, <3>2
  <2> QED
    BY <2>1, <2>2, <2>3, <2>4, <2>5 DEF Kinds
<1> QED
  BY <1>1, <1>2, <1>3, <1>4 DEF StoresCounted, Lost

\* The kinds are steps of the outbox.
LEMMA KindsSimulate ==
    ASSUME RefInv, Kinds
    PROVE  [Outbox!Next]_(Outbox!outboxVars)
<1>0. /\ Pending \cup dropped \subseteq emitted
      /\ \A m \in Msgs \ emitted : stored[m] = 0
      /\ buffers \subseteq Pending /\ Open \in BOOLEAN /\ Open' \in BOOLEAN
  BY DEF RefInv, OnlyEmitted, Pending, Open
<1>1. CASE Moves
  BY <1>0, <1>1 DEF Moves, Outbox!outboxVars
<1>2. ASSUME NEW m \in Msgs, Takes(m) PROVE Outbox!Next
  <2>1. Outbox!New(m)
    BY <1>0, <1>2 DEF Takes, Outbox!New
  <2>2. Outbox!Take(m)
    BY <1>0, <1>2, <2>1 DEF Takes, Outbox!Take
  <2> QED
    BY <2>2 DEF Outbox!Next
<1>3. ASSUME NEW m \in Msgs, Refuses(m) PROVE Outbox!Next
  <2>1. Outbox!New(m)
    BY <1>0, <1>3 DEF Refuses, Outbox!New
  <2>2. Outbox!Refuse(m)
    BY <1>0, <1>3, <2>1 DEF Refuses, Outbox!Refuse
  <2> QED
    BY <2>2 DEF Outbox!Next
<1>4. CASE Confirms
  <2>1. Outbox!Deliver(buffers)
    BY <1>0, <1>4 DEF Confirms, Outbox!Deliver, Stored
  <2> QED
    BY <1>0, <2>1 DEF Outbox!Next
<1>5. CASE Repeats
  <2>1. Outbox!DeliverUnconfirmed(buffers)
    BY <1>0, <1>5 DEF Repeats, Outbox!DeliverUnconfirmed, Stored
  <2> QED
    BY <1>0, <2>1 DEF Outbox!Next
<1>6. CASE GivesUp
  <2>1. Outbox!GiveUp(buffers)
    BY <1>0, <1>6 DEF GivesUp, Outbox!GiveUp
  <2> QED
    BY <1>0, <2>1 DEF Outbox!Next
<1>7. CASE Switches
  <2>1. Outbox!Close \/ Outbox!Reopen
    BY <1>0, <1>7 DEF Switches, Outbox!Close, Outbox!Reopen
  <2> QED
    BY <2>1 DEF Outbox!Next
<1> QED
  BY <1>1, <1>2, <1>3, <1>4, <1>5, <1>6, <1>7 DEF Kinds

\* OnePlace in terms of the queue's records.
LEMMA OnePlaceIs ==
    /\ Queued = RecordsOf(queue)
    /\ Pending = buf \cup RecordsOf(queue) \cup buffers
    /\ OnePlace <=> /\ buf \cap RecordsOf(queue) = {} /\ buf \cap buffers = {}
                    /\ RecordsOf(queue) \cap buffers = {} /\ Apart(queue)
  BY DEF Queued, RecordsOf, Pending, OnePlace, Apart

\* The same, after a step.
LEMMA OnePlaceNextIs ==
    /\ Pending' = buf' \cup RecordsOf(queue') \cup buffers'
    /\ OnePlace' <=> /\ buf' \cap RecordsOf(queue') = {} /\ buf' \cap buffers' = {}
                     /\ RecordsOf(queue') \cap buffers' = {} /\ Apart(queue')
  BY DEF Queued, RecordsOf, Pending, OnePlace, Apart

\* The markers carry no records.
LEMMA MarkersAreEmpty ==
    ASSUME NEW x \in Items, x.kind # "batch"
    PROVE  x.msgs = {}
  BY DEF Items, Batch, FLUSH_MARKER, SHUTDOWN_MARKER

\* Only the fault "lost" takes from the lost replies that are left.
LEMMA SpendIs ==
    ASSUME TypeOK, NEW k \in FaultKinds, Spend(k)
    PROVE  /\ k # "lost" => Lost' = Lost
           /\ k = "lost" => Lost' = Lost - 1 /\ Lost > 0
  BY DEF TypeOK, Spend, Lost, FaultKinds

\* Every step is of one of the kinds.
LEMMA StepKinds ==
    ASSUME RefInv, [Next]_vars
    PROVE  Kinds
<1>0. /\ TypeOK /\ Shape /\ QueueAccounting /\ OnePlace
      /\ Pending \subseteq emitted
  BY DEF RefInv, IndInv, OnlyEmitted
<1>k. /\ "client" \in FaultKinds /\ "conn" \in FaultKinds /\ "lost" \in FaultKinds
      /\ "foreign" \in FaultKinds
  BY DEF FaultKinds
<1>s. ASSUME UNCHANGED <<buf, queue, buffers>> PROVE Pending' = Pending /\ OnePlace'
  BY <1>0, <1>s, OnePlaceIs, OnePlaceNextIs
<1>o. ASSUME UNCHANGED pc PROVE Open' <=> Open
  BY <1>o DEF Open
<1>f. ASSUME UNCHANGED faults PROVE Lost' = Lost
  BY <1>f DEF Lost
<1>1. ASSUME NEW m \in Msgs, EmitRaises(m) \/ EmitStartFails(m) PROVE Kinds
  <2>1. /\ pc = "run" /\ m \notin emitted \cup refused /\ refused' = refused \cup {m}
        /\ UNCHANGED <<pc, buf, queue, buffers, stored, emitted, dropped>>
    BY <1>1 DEF EmitRaises, EmitStartFails, Fresh
  <2>2. Lost' = Lost
    BY <1>0, <1>1, <1>f, <1>k, SpendIs DEF EmitRaises, EmitStartFails
  <2>3. Refuses(m)
    BY <1>s, <2>1, <2>2 DEF Refuses, Open
  <2> QED
    BY <2>3 DEF Kinds
<1>2. ASSUME NEW m \in Msgs, NEW late \in BOOLEAN, EmitBuffers(m, late) PROVE Kinds
  <2>1. /\ pc = "run" /\ m \notin emitted \cup refused /\ emitted' = emitted \cup {m}
        /\ UNCHANGED <<pc, buffers, stored, refused, dropped, faults>>
    BY <1>2 DEF EmitBuffers, Fresh
  <2>2. m \notin Pending
    BY <1>0, <2>1
  <2>3. \/ queue' = Append(queue, Batch(buf \cup {m})) /\ buf' = {}
        \/ queue' = queue /\ buf' = buf \cup {m}
    BY <1>2 DEF EmitBuffers, Put
  <2>4. Pending' = Pending \cup {m} /\ OnePlace'
    <3>1. CASE queue' = queue /\ buf' = buf \cup {m}
      BY <1>0, <2>1, <2>2, <3>1, OnePlaceIs, OnePlaceNextIs
    <3>2. CASE queue' = Append(queue, Batch(buf \cup {m})) /\ buf' = {}
      <4>1. /\ Batch(buf \cup {m}) \in Items /\ Batch(buf \cup {m}).msgs = buf \cup {m}
            /\ queue \in Seq(Items)
        BY <1>0, ItemTypes DEF TypeOK
      <4>2. RecordsOf(queue) \cap (buf \cup {m}) = {} /\ Apart(queue)
        BY <1>0, <2>2, OnePlaceIs
      <4>3. RecordsOf(queue') = RecordsOf(queue) \cup buf \cup {m} /\ Apart(queue')
        BY <3>2, <4>1, <4>2, RecordsAfterPut
      <4> QED
        BY <1>0, <2>1, <2>2, <3>2, <4>3, OnePlaceIs, OnePlaceNextIs
    <3> QED
      BY <2>3, <3>1, <3>2
  <2>5. Takes(m)
    BY <1>f, <2>1, <2>4 DEF Takes, Open
  <2> QED
    BY <2>5 DEF Kinds
<1>3. CASE LeaveIdle
  <2>1. /\ pc = "run" /\ shutdown /\ pc' = "left"
        /\ UNCHANGED <<buf, queue, buffers, stored, emitted, refused, dropped, faults>>
    BY <1>3 DEF LeaveIdle
  <2>2. buf = {} /\ queue = << >> /\ buffers = {}
    BY <1>0, <2>1 DEF Shape
  <2>3. Pending = {}
    BY <2>2, OnePlaceIs DEF RecordsOf
  <2>4. Switches
    BY <1>s, <1>f, <2>1, <2>3 DEF Switches, Open
  <2> QED
    BY <2>4 DEF Kinds
<1>4. CASE LeaveFlush
  <2>1. /\ pc = "run" /\ pc' = "mark" /\ queue' = Append(queue, Batch(buf)) /\ buf' = {}
        /\ UNCHANGED <<buffers, stored, emitted, refused, dropped, faults>>
    BY <1>4 DEF LeaveFlush, Put
  <2>2. Batch(buf) \in Items /\ Batch(buf).msgs = buf /\ queue \in Seq(Items)
    BY <1>0, ItemTypes DEF TypeOK
  <2>3. RecordsOf(queue) \cap buf = {} /\ Apart(queue)
    BY <1>0, OnePlaceIs
  <2>4. RecordsOf(queue') = RecordsOf(queue) \cup buf /\ Apart(queue')
    BY <2>1, <2>2, <2>3, RecordsAfterPut
  <2>5. Pending' = Pending /\ OnePlace'
    BY <1>0, <2>1, <2>4, OnePlaceIs, OnePlaceNextIs
  <2> QED
    BY <1>f, <2>1, <2>5 DEF Kinds, Moves, Open
<1>5. CASE PutFlushMarker \/ Close
  <2>1. PICK x \in {FLUSH_MARKER, SHUTDOWN_MARKER} : queue' = Append(queue, x)
    BY <1>5 DEF PutFlushMarker, Close, Put
  <2>2. UNCHANGED <<buf, buffers, stored, emitted, refused, dropped, faults>>
    BY <1>5 DEF PutFlushMarker, Close
  <2>3. x \in Items /\ x.msgs = {} /\ queue \in Seq(Items)
    <3>1. x \in Items /\ queue \in Seq(Items)
      BY <1>0, ItemTypes DEF TypeOK
    <3>2. x.msgs = {}
      BY DEF FLUSH_MARKER, SHUTDOWN_MARKER
    <3> QED
      BY <3>1, <3>2
  <2>4. RecordsOf(queue') = RecordsOf(queue) /\ Apart(queue')
    BY <1>0, <2>1, <2>3, OnePlaceIs, RecordsAfterPut
  <2>5. Pending' = Pending /\ OnePlace'
    BY <1>0, <2>2, <2>4, OnePlaceIs, OnePlaceNextIs
  <2>6. CASE PutFlushMarker
    BY <1>f, <2>2, <2>5, <2>6 DEF PutFlushMarker, Kinds, Moves, Open
  <2>7. CASE Close
    <3>1. pc = "flush" /\ unfinished = 0 /\ pc' = "close"
      BY <2>7 DEF Close
    <3>2. queue = << >> /\ ~task
      BY <1>0, <3>1 DEF QueueAccounting, TypeOK
    <3>3. buf = {} /\ buffers = {}
      BY <1>0, <3>1, <3>2 DEF Shape, FlushShape
    <3>4. Pending = {}
      BY <3>2, <3>3, OnePlaceIs DEF RecordsOf
    <3> QED
      BY <1>f, <2>2, <2>5, <3>1, <3>4 DEF Kinds, Switches, Open
  <2> QED
    BY <1>5, <2>6, <2>7
<1>6. CASE CloseJoined \/ ThreadJoined
  <2>1. /\ ~Open /\ ~Open'
        /\ UNCHANGED <<buf, queue, buffers, stored, emitted, refused, dropped, faults>>
    BY <1>6 DEF CloseJoined, ThreadJoined, Open
  <2> QED
    BY <1>s, <1>f, <2>1 DEF Kinds, Moves
<1>7. CASE JoinLog
  <2>1. /\ pc = "left" /\ pc' = "run" /\ buf' = {} /\ queue' = << >> /\ buffers' = {}
        /\ UNCHANGED <<stored, emitted, refused, dropped, faults>>
    BY <1>7 DEF JoinLog
  <2>2. buf = {} /\ queue = << >> /\ buffers = {}
    BY <1>0, <2>1 DEF Shape
  <2>3. Pending = {}
    BY <2>2, OnePlaceIs DEF RecordsOf
  <2>4. Switches
    BY <1>s, <1>f, <2>1, <2>2, <2>3 DEF Switches, Open
  <2> QED
    BY <2>4 DEF Kinds
<1>8. CASE GetBatch \/ GetFlush \/ GetShutdown
  <2>1. /\ queue # << >> /\ queue' = Tail(queue) /\ queue \in Seq(Items)
        /\ UNCHANGED <<pc, buf, stored, emitted, refused, dropped, faults>>
    BY <1>0, <1>8 DEF GetBatch, GetFlush, GetShutdown, TypeOK
  <2>2. buffers' = buffers \cup Head(queue).msgs
    <3>1. CASE GetBatch
      BY <3>1 DEF GetBatch
    <3>2. CASE GetFlush \/ GetShutdown
      <4>1. buffers' = buffers /\ Head(queue).kind # "batch" /\ Head(queue) \in Items
        BY <2>1, <3>2 DEF GetFlush, GetShutdown
      <4> QED
        BY <4>1, MarkersAreEmpty
    <3> QED
      BY <1>8, <3>1, <3>2
  <2>3. /\ RecordsOf(queue) = Head(queue).msgs \cup RecordsOf(queue')
        /\ Apart(queue') /\ Head(queue).msgs \cap RecordsOf(queue') = {}
    BY <1>0, <2>1, OnePlaceIs, RecordsAfterGet
  <2>4. Pending' = Pending /\ OnePlace'
    BY <1>0, <2>1, <2>2, <2>3, OnePlaceIs, OnePlaceNextIs
  <2> QED
    BY <1>o, <1>f, <2>1, <2>4 DEF Kinds, Moves
<1>9. CASE GetTimeout \/ SendReturns \/ CreateStream \/ PutInvalidToken \/ SendDies
           \/ ForeignPut \/ UNCHANGED vars
  <2>1. UNCHANGED <<pc, buf, queue, buffers, stored, emitted, refused, dropped>>
    BY <1>9 DEF GetTimeout, SendReturns, CreateStream, PutInvalidToken, SendDies,
       ForeignPut, vars
  <2>2. Lost' = Lost
    BY <1>0, <1>9, <1>f, <1>k, SpendIs DEF GetTimeout, SendReturns, CreateStream,
       PutInvalidToken, SendDies, ForeignPut, vars
  <2> QED
    BY <1>s, <1>o, <2>1, <2>2 DEF Kinds, Moves
<1>10. CASE PutAccepted \/ SendRefused
  <2>1. /\ buffers # {} /\ buffers' = {}
        /\ UNCHANGED <<pc, buf, queue, emitted, refused>>
    BY <1>10 DEF PutAccepted, SendRefused, Sending
  <2>2. Pending' = Pending \ buffers /\ OnePlace'
    BY <1>0, <2>1, OnePlaceIs, OnePlaceNextIs
  <2>3. Lost' = Lost
    BY <1>0, <1>10, <1>f, <1>k, SpendIs DEF PutAccepted, SendRefused
  <2>4. CASE PutAccepted
    BY <1>o, <2>1, <2>2, <2>3, <2>4 DEF PutAccepted, Kinds, Confirms
  <2>5. CASE SendRefused
    BY <1>o, <2>1, <2>2, <2>3, <2>5 DEF SendRefused, Kinds, GivesUp
  <2> QED
    BY <1>10, <2>4, <2>5
<1>11. CASE PutAlreadyAccepted
  <2>1. /\ buffers # {} /\ stored' = Stored(buffers)
        /\ UNCHANGED <<pc, buf, queue, buffers, emitted, refused, dropped>>
    BY <1>11 DEF PutAlreadyAccepted, Sending
  <2>2. Lost' = Lost - 1 /\ Lost > 0
    BY <1>0, <1>11, <1>k, SpendIs DEF PutAlreadyAccepted
  <2> QED
    BY <1>s, <1>o, <2>1, <2>2 DEF Kinds, Repeats
<1> QED
  BY <1>1, <1>2, <1>3, <1>4, <1>5, <1>6, <1>7, <1>8, <1>9, <1>10, <1>11
  DEF Next, Emit, Main, Loop, Send, Done

\* The invariant of the refinement holds at first.
LEMMA InitRefInv == Init => RefInv
<1> SUFFICES ASSUME Init PROVE RefInv
  OBVIOUS
<1>1. buf = {} /\ queue = << >> /\ buffers = {} /\ dropped = {} /\ emitted = {}
      /\ stored = [m \in Msgs |-> 0] /\ faults = Budget
  BY DEF Init
<1>2. Pending = {} /\ OnePlace
  BY <1>1, OnePlaceIs DEF RecordsOf, Apart
<1>3. OnlyEmitted
  BY <1>1, <1>2 DEF OnlyEmitted
<1>4. Budget["lost"] \in Nat
  BY DEF FaultKinds
<1>5. StoresCounted
  BY <1>1, <1>2, <1>4 DEF StoresCounted
<1> QED
  BY <1>2, <1>3, <1>5, InitIndInv DEF RefInv

\* Every step preserves it.
LEMMA NextRefInv == RefInv /\ [Next]_vars => RefInv'
<1> SUFFICES ASSUME RefInv, [Next]_vars PROVE RefInv'
  OBVIOUS
<1>1. IndInv'
  BY NextIndInv DEF RefInv
<1> QED
  BY <1>1, StepKinds, KindsKeep DEF RefInv, IndInv

\* It holds in every reachable state.
LEMMA RefInvAlways == Spec => []RefInv
  BY InitRefInv, NextRefInv, PTL DEF Spec

\* Transport.send_group: a record is stored once, and once more only for a lost
\* reply, however many tokens are refused and handlers follow one another.
THEOREM DuplicatesAreLostReplies == Spec => []DuplicatesNeedLostReply
<1>1. RefInv => DuplicatesNeedLostReply
  <2>1. ASSUME RefInv, NEW m \in Msgs
        PROVE  stored[m] <= 1 + (Budget["lost"] - faults["lost"])
    <3>1. /\ stored[m] \in Nat /\ faults["lost"] \in Nat /\ Budget["lost"] \in Nat
          /\ stored[m] <= (IF m \in Pending THEN 0 ELSE 1) + (Budget["lost"] - faults["lost"])
      BY <2>1 DEF RefInv, IndInv, TypeOK, StoresCounted, FaultKinds
    <3> QED
      BY <3>1
  <2> QED
    BY <2>1 DEF DuplicatesNeedLostReply
<1> QED
  BY <1>1, RefInvAlways, PTL

\* CloudWatchLogHandler with its Transport thread implements the outbox: every
\* record emit accepted is delivered or given up before the handler closes.
THEOREM HandlerImplementsOutbox == Spec => ImplementsOutbox
<1>1. Init => Outbox!Init
  <2>1. ASSUME Init PROVE Outbox!Init
    <3>1. pc = "run" /\ buf = {} /\ queue = << >> /\ buffers = {} /\ dropped = {}
          /\ stored = [m \in Msgs |-> 0] /\ refused = {}
      BY <2>1 DEF Init
    <3>2. Pending = {}
      BY <3>1, OnePlaceIs DEF RecordsOf
    <3>3. Open = TRUE
      BY <3>1 DEF Open
    <3> QED
      BY <3>1, <3>2, <3>3 DEF Outbox!Init
  <2> QED
    BY <2>1
<1>2. RefInv /\ [Next]_vars => [Outbox!Next]_(Outbox!outboxVars)
  BY StepKinds, KindsSimulate
<1> QED
  BY <1>1, <1>2, RefInvAlways, PTL DEF Spec, ImplementsOutbox, Outbox!Spec
=============================================================================
