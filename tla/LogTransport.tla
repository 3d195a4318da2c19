---------------------------- MODULE LogTransport ----------------------------
(***************************************************************************)
(* CloudWatch Logs delivery of a policy's log output (c7n/log.py), driven  *)
(* by the log output that attaches and detaches the handler                *)
(* (c7n/output.py LogOutput, c7n/resources/aws.py CloudWatchLogOutput).    *)
(*                                                                         *)
(* Two threads share one unbounded queue.  The policy's threads append     *)
(* records to the handler's buffer (emit runs under logging's handler      *)
(* lock, so it is one step) and hand full buffers over; the daemon         *)
(* Transport thread collects batches and puts them to the service.  The    *)
(* main thread detaches the handler, flushes it and closes it; both wait   *)
(* on queue.join(), i.e. on the count of unfinished tasks.                 *)
(*                                                                         *)
(* The only construction of the handler names one group and one stream, so *)
(* the transport's dictionaries have one key.  A batch is a set of records:*)
(* records are distinct and put_log_events receives them sorted by time,   *)
(* whatever order they were buffered in.                                   *)
(***************************************************************************)
EXTENDS Integers, Sequences, FiniteSets

CONSTANTS
    Msgs,          \* the log records of the run
    BatchMin,      \* CloudWatchLogHandler.batch_min_buffer (10 in the code)
    MaxSessions,   \* handlers created one after the other (one per policy)
    Budget         \* how many faults of each kind the environment has left

\* client: a ClientError that is not about the token; conn: an error that is
\* not a ClientError (no connection, no credentials); lost: a reply lost after
\* the service took the batch; foreign: another process puts to the stream.
FaultKinds == {"client", "conn", "lost", "foreign"}

ASSUME LogAssumption ==
    /\ IsFiniteSet(Msgs)
    /\ BatchMin \in Nat \ {0}
    /\ MaxSessions \in Nat \ {0}
    /\ Budget \in [FaultKinds -> Nat]

VARIABLES
    pc,            \* where the main thread is: see Phases
    session,       \* number of the current handler
    shutdown,      \* handler.shutdown
    buf,           \* handler.buf
    queue,         \* the items of handler.queue
    unfinished,    \* handler.queue.unfinished_tasks
    transport,     \* the transport and its thread: see TransportStates
    sending,       \* the thread is inside Transport.send
    task,          \* ... on behalf of a FLUSH_MARKER, so task_done follows
    buffers,       \* Transport.buffers
    sequence,      \* Transport.sequences[stream]: see Unknown and NoToken
    error,         \* Transport.error is set
    svcToken,      \* the token the service expects next (0: stream is empty)
    stored,        \* how many times the service holds each record
    faults,        \* what is left of Budget
    emitted,       \* history: records emit accepted
    refused,       \* history: records for which emit raised
    dropped        \* history: records the transport gave up on

handlerVars == <<shutdown, buf, queue, unfinished>>
transportVars == <<transport, sending, task, buffers, sequence, error>>
serviceVars == <<svcToken, stored, faults>>
historyVars == <<emitted, refused, dropped>>
vars == <<pc, session, handlerVars, transportVars, serviceVars, historyVars>>

\* run: the policy executes; mark: flush has handed the buffer over; flush and
\* close: waiting in queue.join(); reap: joining the thread; left: detached.
Phases == {"run", "mark", "flush", "close", "reap", "left"}

\* none: not started; loop: running; gone: returned; dead: killed by an
\* exception that loop() does not catch.
TransportStates == {"none", "loop", "gone", "dead"}

Unknown == -1      \* the stream is not in Transport.sequences
NoToken == 0       \* it is, with the value None

Batch(ms) == [kind |-> "batch", msgs |-> ms]
FLUSH_MARKER == [kind |-> "flush", msgs |-> {}]
SHUTDOWN_MARKER == [kind |-> "shutdown", msgs |-> {}]
Items == {Batch(ms) : ms \in SUBSET Msgs} \cup {FLUSH_MARKER, SHUTDOWN_MARKER}

Put(item) ==
    /\ queue' = Append(queue, item)
    /\ unfinished' = unfinished + 1

Spend(kind) ==
    /\ faults[kind] > 0
    /\ faults' = [faults EXCEPT ![kind] = @ - 1]

Init ==
    /\ pc = "run"
    /\ session = 1
    /\ shutdown = TRUE
    /\ buf = {}
    /\ queue = << >>
    /\ unfinished = 0
    /\ transport = "none"
    /\ sending = FALSE
    /\ task = FALSE
    /\ buffers = {}
    /\ sequence = Unknown
    /\ error = FALSE
    /\ svcToken \in {0, 1}
    /\ stored = [m \in Msgs |-> 0]
    /\ faults = Budget
    /\ emitted = {}
    /\ refused = {}
    /\ dropped = {}

-----------------------------------------------------------------------------
(***************************************************************************)
(* The handler, called by the policy's threads and the main thread.        *)
(***************************************************************************)
Fresh(m) == pc = "run" /\ m \notin emitted \cup refused

\* emit raises the error the transport met earlier.
EmitRaises(m) ==
    /\ Fresh(m)
    /\ transport # "none" /\ error
    /\ refused' = refused \cup {m}
    /\ UNCHANGED <<pc, session, handlerVars, transportVars, serviceVars,
                   emitted, dropped>>

\* The first emit starts the transport; building its client fails after
\* handler.shutdown was cleared.
EmitStartFails(m) ==
    /\ Fresh(m)
    /\ transport = "none"
    /\ Spend("conn")
    /\ shutdown' = FALSE
    /\ refused' = refused \cup {m}
    /\ UNCHANGED <<pc, session, buf, queue, unfinished, transportVars,
                   svcToken, stored, emitted, dropped>>

\* emit buffers the record and hands the buffer over when it is full, or when
\* the previous record is at least batch_interval old (late).
EmitBuffers(m, late) ==
    /\ Fresh(m)
    /\ ~error
    /\ transport' = IF transport = "none" THEN "loop" ELSE transport
    /\ shutdown' = IF transport = "none" THEN FALSE ELSE shutdown
    /\ emitted' = emitted \cup {m}
    /\ IF late \/ Cardinality(buf \cup {m}) >= BatchMin
         THEN Put(Batch(buf \cup {m})) /\ buf' = {}
         ELSE buf' = buf \cup {m} /\ UNCHANGED <<queue, unfinished>>
    /\ UNCHANGED <<pc, session, sending, task, buffers, sequence, error,
                   serviceVars, refused, dropped>>

\* leave_log on a handler that never started: flush and close return at once.
LeaveIdle ==
    /\ pc = "run" /\ shutdown
    /\ pc' = "left"
    /\ UNCHANGED <<session, handlerVars, transportVars, serviceVars, historyVars>>

\* Mutant: flush hands the buffer over only when it is full.
LeaveFlushUnforced ==
    /\ pc = "run" /\ ~shutdown
    /\ IF Cardinality(buf) >= BatchMin
         THEN Put(Batch(buf)) /\ buf' = {}
         ELSE UNCHANGED <<buf, queue, unfinished>>
    /\ pc' = "mark"
    /\ UNCHANGED <<session, shutdown, transportVars, serviceVars, historyVars>>

\* leave_log removes the handler from the logger and enters flush, which
\* first hands over the buffer, whatever its size.
LeaveFlush ==
    /\ pc = "run" /\ ~shutdown
    /\ Put(Batch(buf))
    /\ buf' = {}
    /\ pc' = "mark"
    /\ UNCHANGED <<session, shutdown, transportVars, serviceVars, historyVars>>

PutFlushMarker ==
    /\ pc = "mark"
    /\ Put(FLUSH_MARKER)
    /\ pc' = "flush"
    /\ UNCHANGED <<session, shutdown, buf, transportVars, serviceVars, historyVars>>

\* queue.join() of flush returns, leave_log goes on to close.
Close ==
    /\ pc = "flush" /\ unfinished = 0
    /\ shutdown' = TRUE
    /\ Put(SHUTDOWN_MARKER)
    /\ pc' = "close"
    /\ UNCHANGED <<session, buf, transportVars, serviceVars, historyVars>>

\* queue.join() of close returns; the threads are joined next.
CloseJoined ==
    /\ pc = "close" /\ unfinished = 0
    /\ pc' = "reap"
    /\ UNCHANGED <<session, handlerVars, transportVars, serviceVars, historyVars>>

ThreadJoined ==
    /\ pc = "reap" /\ transport \in {"gone", "dead"}
    /\ pc' = "left"
    /\ UNCHANGED <<session, handlerVars, transportVars, serviceVars, historyVars>>

\* The next policy's join_log builds and attaches a new handler.
JoinLog ==
    /\ pc = "left" /\ session < MaxSessions
    /\ pc' = "run"
    /\ session' = session + 1
    /\ shutdown' = TRUE
    /\ buf' = {}
    /\ queue' = << >>
    /\ unfinished' = 0
    /\ transport' = "none"
    /\ sending' = FALSE
    /\ task' = FALSE
    /\ buffers' = {}
    /\ sequence' = Unknown
    /\ error' = FALSE
    /\ UNCHANGED <<serviceVars, historyVars>>

Done ==
    /\ pc = "left" /\ session = MaxSessions
    /\ UNCHANGED vars

-----------------------------------------------------------------------------
(***************************************************************************)
(* Transport.loop.                                                         *)
(***************************************************************************)
Idle == transport = "loop" /\ ~sending

GetBatch ==
    /\ Idle /\ queue # << >> /\ Head(queue).kind = "batch"
    /\ queue' = Tail(queue)
    /\ buffers' = buffers \cup Head(queue).msgs
    /\ unfinished' = unfinished - 1
    /\ UNCHANGED <<pc, session, shutdown, buf, transport, sending, task,
                   sequence, error, serviceVars, historyVars>>

\* Mutant: the flush marker is acknowledged, nothing is sent.
GetFlushUnsent ==
    /\ Idle /\ queue # << >> /\ Head(queue).kind = "flush"
    /\ queue' = Tail(queue)
    /\ unfinished' = unfinished - 1
    /\ UNCHANGED <<pc, session, shutdown, buf, transportVars, serviceVars,
                   historyVars>>

GetFlush ==
    /\ Idle /\ queue # << >> /\ Head(queue).kind = "flush"
    /\ queue' = Tail(queue)
    /\ sending' = TRUE
    /\ task' = TRUE
    /\ UNCHANGED <<pc, session, shutdown, buf, unfinished, transport, buffers,
                   sequence, error, serviceVars, historyVars>>

\* The shutdown marker ends the thread; what is in buffers is not sent.
GetShutdown ==
    /\ Idle /\ queue # << >> /\ Head(queue).kind = "shutdown"
    /\ queue' = Tail(queue)
    /\ unfinished' = unfinished - 1
    /\ transport' = "gone"
    /\ UNCHANGED <<pc, session, shutdown, buf, sending, task, buffers,
                   sequence, error, serviceVars, historyVars>>

\* Mutant: the timeout only goes round the loop.
GetTimeoutIgnored ==
    /\ Idle /\ queue = << >>
    /\ UNCHANGED vars

\* queue.get timed out after batch_interval: send what has been collected.
GetTimeout ==
    /\ Idle /\ queue = << >>
    /\ sending' = TRUE
    /\ UNCHANGED <<pc, session, handlerVars, transport, task, buffers,
                   sequence, error, serviceVars, historyVars>>

\* Mutant: task_done also after a timeout, which took no item.
SendReturnsAlwaysDone ==
    /\ transport = "loop" /\ sending /\ buffers = {}
    /\ sending' = FALSE
    /\ task' = FALSE
    /\ unfinished' = unfinished - 1
    /\ UNCHANGED <<pc, session, shutdown, buf, queue, transport, buffers,
                   sequence, error, serviceVars, historyVars>>

\* Mutant: the flush marker is never acknowledged.
SendReturnsUndone ==
    /\ transport = "loop" /\ sending /\ buffers = {}
    /\ sending' = FALSE
    /\ task' = FALSE
    /\ UNCHANGED <<pc, session, handlerVars, transport, buffers, sequence,
                   error, serviceVars, historyVars>>

SendReturns ==
    /\ transport = "loop" /\ sending /\ buffers = {}
    /\ sending' = FALSE
    /\ task' = FALSE
    /\ unfinished' = IF task THEN unfinished - 1 ELSE unfinished
    /\ UNCHANGED <<pc, session, shutdown, buf, queue, transport, buffers,
                   sequence, error, serviceVars, historyVars>>

Sending == transport = "loop" /\ sending /\ buffers # {}

\* Transport.create_stream: created, or it exists already.
CreateStream ==
    /\ Sending /\ sequence = Unknown
    /\ sequence' = NoToken
    /\ UNCHANGED <<pc, session, handlerVars, transport, sending, task, buffers,
                   error, serviceVars, historyVars>>

\* The service would take the put: its token is the one it expects.
TokenValid == sequence # Unknown /\ sequence = svcToken

Stored(ms) == [m \in Msgs |-> IF m \in ms THEN stored[m] + 1 ELSE stored[m]]

\* Mutant: send does not reset the buffers.
PutAcceptedKept ==
    /\ Sending /\ TokenValid
    /\ stored' = Stored(buffers)
    /\ svcToken' = svcToken + 1
    /\ sequence' = svcToken + 1
    /\ UNCHANGED <<pc, session, handlerVars, transport, sending, task, buffers,
                   error, faults, historyVars>>

PutAccepted ==
    /\ Sending /\ TokenValid
    /\ stored' = Stored(buffers)
    /\ svcToken' = svcToken + 1
    /\ sequence' = svcToken + 1
    /\ buffers' = {}
    /\ UNCHANGED <<pc, session, handlerVars, transport, sending, task, error,
                   faults, historyVars>>

\* The put is taken but its reply is lost; the client library repeats it and
\* learns DataAlreadyAccepted.  send_group takes the next token from the error
\* and starts over with the same messages.
PutAlreadyAccepted ==
    /\ Sending /\ TokenValid
    /\ Spend("lost")
    /\ stored' = Stored(buffers)
    /\ svcToken' = svcToken + 1
    /\ sequence' = svcToken + 1
    /\ UNCHANGED <<pc, session, handlerVars, transport, sending, task, buffers,
                   error, historyVars>>

PutInvalidToken ==
    /\ Sending /\ sequence # Unknown /\ sequence # svcToken
    /\ sequence' = svcToken
    /\ UNCHANGED <<pc, session, handlerVars, transport, sending, task, buffers,
                   error, serviceVars, historyVars>>

\* Any other ClientError, from create_log_stream or put_log_events: it is kept
\* for the next emit, and send clears the buffers all the same.
SendRefused ==
    /\ Sending
    /\ Spend("client")
    /\ error' = TRUE
    /\ dropped' = dropped \cup buffers
    /\ buffers' = {}
    /\ UNCHANGED <<pc, session, handlerVars, transport, sending, task, sequence,
                   svcToken, stored, emitted, refused>>

\* An exception that is not a ClientError leaves loop(): the thread dies.
SendDies ==
    /\ Sending
    /\ Spend("conn")
    /\ transport' = "dead"
    /\ UNCHANGED <<pc, session, handlerVars, sending, task, buffers, sequence,
                   error, svcToken, stored, historyVars>>

\* Another process running the same policy puts to the same stream.
ForeignPut ==
    /\ Spend("foreign")
    /\ svcToken' = svcToken + 1
    /\ UNCHANGED <<pc, session, handlerVars, transportVars, stored, historyVars>>

-----------------------------------------------------------------------------
Emit ==
    \E m \in Msgs :
        \/ EmitRaises(m)
        \/ EmitStartFails(m)
        \/ \E late \in BOOLEAN : EmitBuffers(m, late)

Main ==
    \/ LeaveIdle \/ LeaveFlush \/ PutFlushMarker
    \/ Close \/ CloseJoined \/ ThreadJoined

Send ==
    \/ SendReturns \/ CreateStream \/ PutAccepted
    \/ PutAlreadyAccepted \/ PutInvalidToken \/ SendRefused \/ SendDies

Loop == GetBatch \/ GetFlush \/ GetShutdown \/ GetTimeout \/ Send

Next == Emit \/ Main \/ JoinLog \/ Loop \/ ForeignPut \/ Done

Spec == Init /\ [][Next]_vars

(***************************************************************************)
(* The main thread, once it is leaving, and the transport thread keep      *)
(* running: both are scheduled by the interpreter, and queue.get returns   *)
(* within batch_interval.  Emitting and leaving are up to the policy.      *)
(***************************************************************************)
Leaving == PutFlushMarker \/ Close \/ CloseJoined \/ ThreadJoined

Fairness == WF_vars(Leaving) /\ WF_vars(Loop)

FairSpec == Spec /\ Fairness

-----------------------------------------------------------------------------
(***************************************************************************)
(* Properties.                                                             *)
(***************************************************************************)
Queued == UNION {queue[i].msgs : i \in 1..Len(queue)}

\* The handler, the queue, the transport and the service are well typed: counts
\* never go negative, and the queue holds batches and markers only.
TypeOK ==
    /\ pc \in Phases
    /\ session \in 1..MaxSessions
    /\ shutdown \in BOOLEAN
    /\ buf \in SUBSET Msgs
    /\ queue \in Seq(Items)
    /\ unfinished \in Nat
    /\ transport \in TransportStates
    /\ sending \in BOOLEAN
    /\ task \in BOOLEAN
    /\ buffers \in SUBSET Msgs
    /\ sequence \in Nat \cup {Unknown}
    /\ error \in BOOLEAN
    /\ svcToken \in Nat
    /\ stored \in [Msgs -> Nat]
    /\ faults \in [FaultKinds -> Nat]
    /\ emitted \in SUBSET Msgs
    /\ refused \in SUBSET Msgs
    /\ dropped \in SUBSET Msgs

\* queue.join() counts what it should: the items in the queue, and the flush
\* marker the transport has taken and not yet acknowledged.
QueueAccounting == unfinished = Len(queue) + (IF task THEN 1 ELSE 0)

\* Once leave_log's flush has returned, every record emit accepted is with the
\* service or was given up with an error: none is left in the handler, in the
\* queue or in the transport (handler.flush: "Ensure all logging output has
\* been flushed").
FlushDelivers ==
    pc \in {"close", "reap", "left"} =>
        \A m \in emitted : stored[m] > 0 \/ m \in dropped

\* The transport ends on the shutdown marker without sending; nothing is
\* stranded in it or behind the marker.
ShutdownStrandsNothing ==
    transport = "gone" => queue = << >> /\ buffers = {} /\ buf = {}

\* A record is stored once, and once more only for every lost reply: resending
\* after InvalidSequenceToken or over a new handler's token duplicates nothing.
DuplicatesNeedLostReply ==
    \A m \in Msgs : stored[m] <= 1 + (Budget["lost"] - faults["lost"])

\* "use a sentinel value to avoid deadlocks" (CloudWatchLogHandler): a flush or
\* close that has begun returns, whatever errors, lost replies and refused tokens
\* there are, unless the transport was not started or was killed by an error that
\* is no ClientError.
Leaves == pc \notin {"run", "left"}
LeaveReturnsWithThread == Leaves ~> (pc = "left" \/ transport \in {"none", "dead"})

\* A record that was handed to the queue reaches the service or an error
\* without further logging, unless the thread dies: the transport's timeout
\* sends it.
QueuedIsSent ==
    \A m \in Msgs :
        (m \in Queued) ~> (stored[m] > 0 \/ m \in dropped \/ transport = "dead")
=============================================================================
