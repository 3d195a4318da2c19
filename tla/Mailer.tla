------------------------------- MODULE Mailer -------------------------------
(***************************************************************************)
(* The message mailer (tools/c7n_mailer): each execution drains the queue  *)
(* that the policies' notify actions fill, and offers every message to the *)
(* targets it names.  The three queue processors share the delivery code   *)
(* (target.py) and differ in what they do with a message afterwards and    *)
(* when delivering it raises:                                              *)
(*   aws    acknowledges after processing; an exception ends the execution *)
(*   azure  the same, but keeps a message whose mail was refused, until it *)
(*          was dequeued more than max_message_retry times                 *)
(*   gcp    acknowledges after processing; an exception returns the message*)
(*          to the subscription at once, and the execution goes on         *)
(* With --max-num-processes the aws processor hands messages to a pool.    *)
(* Executions follow one another on a schedule and may be cut short.       *)
(***************************************************************************)
EXTENDS Integers, Sequences, FiniteSets

CONSTANTS
    Msgs,              \* messages of the queue
    To,                \* the kinds of target each one names
    Setups,            \* the configurations: [provider, parallel, malformed]
    PageSize,          \* messages received at a time (3, 16 or 1000)
    max_message_retry, \* of the azure processor
    Budgets            \* how many faults of each kind there may be

Targets == {"email", "sns", "slack", "datadog", "splunk"}

\* render: the client of a target or a message for it cannot be made; send:
\* sending it fails; ack: the acknowledgement fails; crash: the execution is cut
\* short.
FaultKinds == {"render", "send", "ack", "crash"}

ASSUME MailerAssumption ==
    /\ IsFiniteSet(Msgs) /\ To \in [Msgs -> SUBSET Targets]
    /\ Setups \subseteq [provider : {"aws", "azure", "gcp"}, parallel : BOOLEAN,
                         malformed : SUBSET Msgs]
    /\ PageSize \in Nat \ {0} /\ max_message_retry \in Nat
    /\ Budgets \subseteq [FaultKinds -> Nat] /\ Budgets # {}

VARIABLES
    setup,         \* how the mailer is configured
    where,         \* each message: not sent, visible, hidden, deleted
    dequeue_count, \* message.dequeue_count, up to CountLimit
    running,       \* an execution is under way
    batch,         \* the messages it has received and not dealt with
    stage,         \* "next", or "deliver": the first of them is being delivered
    left,          \* the targets it has yet to be offered to
    refused,       \* SendGrid refused its mail
    offered,       \* history: the targets each message was offered to
    sent,          \* history: how often each target got it
    tries,         \* history: how often its delivery was begun
    interruptions, \* history: deliveries of well formed messages cut short
    faults         \* what is left of the budget

queueVars == <<where, dequeue_count>>
runVars == <<running, batch, stage, left, refused>>
historyVars == <<offered, sent, tries>>
vars == <<setup, queueVars, runVars, historyVars, interruptions, faults>>

\* Only whether a count exceeds max_message_retry matters: higher counts than
\* this are not told apart.
CountLimit == max_message_retry + 2

Spend(kind) == faults[kind] > 0 /\ faults' = [faults EXCEPT ![kind] = @ - 1]

Init ==
    /\ setup \in Setups
    /\ where = [m \in Msgs |-> "unsent"] /\ dequeue_count = [m \in Msgs |-> 0]
    /\ running = FALSE /\ batch = << >> /\ stage = "next" /\ left = {}
    /\ refused = FALSE
    /\ offered = [m \in Msgs |-> {}]
    /\ sent = [m \in Msgs |-> [t \in Targets |-> 0]]
    /\ tries = [m \in Msgs |-> 0] /\ interruptions = 0 /\ faults \in Budgets

-----------------------------------------------------------------------------
(***************************************************************************)
(* The queue service and the scheduler of the mailer.                      *)
(***************************************************************************)
Notify(m) ==
    /\ where[m] = "unsent"
    /\ where' = [where EXCEPT ![m] = "visible"]
    /\ UNCHANGED <<setup, dequeue_count, runVars, historyVars, interruptions, faults>>

InBatch(m) == \E i \in 1..Len(batch) : batch[i] = m

\* The visibility timeout of a message that was not deleted.  It may also end
\* while the message waits in the batch: nobody else receives it meanwhile.
Reappear(m) ==
    /\ where[m] = "hidden" /\ ~InBatch(m)
    /\ where' = [where EXCEPT ![m] = "visible"]
    /\ UNCHANGED <<setup, dequeue_count, runVars, historyVars, interruptions, faults>>

StartRun ==
    /\ ~running
    /\ running' = TRUE
    /\ UNCHANGED <<setup, queueVars, batch, stage, left, refused, historyVars,
                   interruptions, faults>>

\* The execution is over, with or without an exception.
Stop ==
    /\ running' = FALSE /\ batch' = << >> /\ stage' = "next" /\ left' = {}
    /\ refused' = FALSE

Crash ==
    /\ running /\ Spend("crash")
    /\ Stop
    /\ interruptions' = interruptions + 1
    /\ UNCHANGED <<setup, queueVars, historyVars>>

-----------------------------------------------------------------------------
(***************************************************************************)
(* The loop of the processors.                                             *)
(***************************************************************************)
Visible == {m \in Msgs : where[m] = "visible"}

Pages ==
    LET n == IF Cardinality(Visible) < PageSize THEN Cardinality(Visible) ELSE PageSize
    IN  {b \in [1..n -> Visible] : \A i, j \in 1..n : b[i] = b[j] => i = j}

Receive ==
    /\ running /\ batch = << >> /\ Visible # {}
    /\ \E b \in Pages :
           LET taken == {b[i] : i \in 1..Len(b)}
           IN  /\ batch' = b
               /\ where' = [m \in Msgs |-> IF m \in taken THEN "hidden" ELSE where[m]]
               /\ dequeue_count' = [m \in Msgs |->
                      IF m \in taken /\ dequeue_count[m] < CountLimit
                        THEN dequeue_count[m] + 1 ELSE dequeue_count[m]]
    /\ UNCHANGED <<setup, running, stage, left, refused, historyVars,
                   interruptions, faults>>

RunEnds ==
    /\ running /\ batch = << >> /\ Visible = {}
    /\ Stop
    /\ UNCHANGED <<setup, queueVars, historyVars, interruptions, faults>>

Current == Head(batch)

\* The message is dealt with; the processor goes on to the next one.
GoOn ==
    /\ batch' = Tail(batch) /\ stage' = "next" /\ left' = {} /\ refused' = FALSE
    /\ UNCHANGED running

\* Mutant: an exception discards the message, and no execution ends by one.
RaiseDropped ==
    /\ GoOn
    /\ where' = [where EXCEPT ![Current] = "deleted"]

\* Mutant: every processor returns the message to its queue and goes on.
RaiseReturns ==
    /\ GoOn
    /\ where' = [where EXCEPT ![Current] = "visible"]

\* Delivering the current message raises, which ends the execution.  gcp returns
\* the message (modifyAckDeadline with 0 seconds) and goes on, unless that
\* request fails too.
Raise ==
    \/ setup.provider = "gcp" /\ GoOn /\ where' = [where EXCEPT ![Current] = "visible"]
    \/ Stop /\ UNCHANGED where

\* handle_targets' order; the azure processor sends its mail after it, and only
\* aws publishes to sns.
Order ==
    CASE setup.provider = "aws"   -> <<"email", "sns", "slack", "datadog", "splunk">>
      [] setup.provider = "azure" -> <<"slack", "datadog", "splunk", "email">>
      [] setup.provider = "gcp"   -> <<"email", "slack", "datadog", "splunk">>

Before(t, u) == \E i, j \in 1..Len(Order) : i <= j /\ Order[i] = t /\ Order[j] = u

Wanted(m) == {t \in To[m] : \E i \in 1..Len(Order) : Order[i] = t}

Ready == running /\ batch # << >> /\ stage = "next"

Begin ==
    /\ Ready /\ ~setup.parallel /\ Current \notin setup.malformed
    /\ stage' = "deliver"
    /\ left' = Wanted(Current)
    /\ tries' = [tries EXCEPT ![Current] = @ + 1]
    /\ UNCHANGED <<setup, queueVars, running, batch, refused, offered, sent,
                   interruptions, faults>>

\* The body does not decode.
BeginMalformed ==
    /\ Ready /\ ~setup.parallel /\ Current \in setup.malformed
    /\ Raise
    /\ UNCHANGED <<setup, dequeue_count, historyVars, interruptions, faults>>

\* process_pool.apply_async unpacks the message as the arguments of
\* process_sqs_message; the pool keeps the resulting TypeError to itself.
BeginParallel ==
    /\ Ready /\ setup.parallel
    /\ stage' = "deliver"
    /\ tries' = [tries EXCEPT ![Current] = @ + 1]
    /\ UNCHANGED <<setup, queueVars, running, batch, left, refused, offered, sent,
                   interruptions, faults>>

\* The next target in the order.
Delivering(t) == stage = "deliver" /\ t \in left /\ \A u \in left : Before(t, u)

Offer(t) ==
    /\ offered' = [offered EXCEPT ![Current] = @ \cup {t}]
    /\ left' = left \ {t}

Got(t) == sent' = [sent EXCEPT ![Current][t] = @ + 1]

Deliver(t) ==
    /\ Delivering(t)
    /\ Offer(t) /\ Got(t)
    /\ UNCHANGED <<setup, queueVars, running, batch, stage, refused, tries,
                   interruptions, faults>>

\* A failing send is logged and the next target follows; some of the target's
\* recipients may have got it.  The azure processor catches everything that its
\* mail raises, and treats it the same.
DeliverFails(t) ==
    /\ Delivering(t) /\ Spend("send")
    /\ Offer(t) /\ (Got(t) \/ UNCHANGED sent)
    /\ UNCHANGED <<setup, queueVars, running, batch, stage, refused, tries,
                   interruptions>>

\* The aws and gcp processors make the client of EmailDelivery, and aws the one of
\* SnsDelivery, for every message, also for one that names no such target.
Connects(t) ==
    /\ <<setup.provider, t>> \in {<<"aws", "email">>, <<"aws", "sns">>, <<"gcp", "email">>}
    /\ stage = "deliver" /\ ~setup.parallel /\ t \notin Wanted(Current)
    /\ \A u \in left : Before(t, u)
    /\ \A u \in Wanted(Current) \ left : Before(u, t)

\* Making the client of a target and building its messages is not guarded, but
\* for the azure mail.
DeliverRaises(t) ==
    /\ Delivering(t) \/ Connects(t)
    /\ Spend("render")
    /\ ~(setup.provider = "azure" /\ t = "email")
    /\ Raise
    /\ interruptions' = interruptions + 1
    /\ UNCHANGED <<setup, dequeue_count, historyVars>>

\* sendgrid_handler meets UnauthorizedError or BadRequestsError, after any of
\* the recipients, and the azure processor learns of it.
MailRefused ==
    /\ Delivering("email") /\ setup.provider = "azure"
    /\ Offer("email") /\ (Got("email") \/ UNCHANGED sent)
    /\ refused' = TRUE
    /\ UNCHANGED <<setup, queueVars, running, batch, stage, tries, interruptions, faults>>

Delivered == stage = "deliver" /\ left = {}

\* Mutant: the last retry is one too many.
HandledLate == ~refused \/ dequeue_count[Current] > max_message_retry + 1

\* Handled, or the azure processor's retries are used up.
Handled == ~refused \/ dequeue_count[Current] > max_message_retry

Ack ==
    /\ Delivered /\ Handled
    /\ GoOn
    /\ where' = [where EXCEPT ![Current] = "deleted"]
    /\ UNCHANGED <<setup, dequeue_count, historyVars, interruptions, faults>>

AckFails ==
    /\ Delivered /\ Handled
    /\ Spend("ack")
    /\ Raise
    /\ interruptions' = interruptions + 1
    /\ UNCHANGED <<setup, dequeue_count, historyVars>>

\* The message stays hidden until its timeout.
KeepForRetry ==
    /\ Delivered /\ ~Handled
    /\ GoOn
    /\ UNCHANGED <<setup, queueVars, historyVars, interruptions, faults>>

-----------------------------------------------------------------------------
Run ==
    \/ Receive \/ RunEnds \/ Begin \/ BeginMalformed \/ BeginParallel
    \/ \E t \in Targets : Deliver(t) \/ DeliverFails(t) \/ DeliverRaises(t)
    \/ MailRefused
    \/ Ack \/ AckFails \/ KeepForRetry

Next ==
    \/ \E m \in Msgs : Notify(m) \/ Reappear(m)
    \/ StartRun \/ Run \/ Crash

Spec == Init /\ [][Next]_vars

\* The mailer is started again and again, an execution that is not cut short
\* goes on, and hidden messages reappear.
Fairness ==
    /\ WF_vars(StartRun) /\ WF_vars(Run)
    /\ \A m \in Msgs : WF_vars(Reappear(m))

FairSpec == Spec /\ Fairness

-----------------------------------------------------------------------------
\* The queue, the execution and the histories are well typed, and the messages
\* of the batch are still the execution's to deal with.
TypeOK ==
    /\ setup \in Setups
    /\ where \in [Msgs -> {"unsent", "visible", "hidden", "deleted"}]
    /\ dequeue_count \in [Msgs -> 0..CountLimit]
    /\ running \in BOOLEAN /\ batch \in Seq(Msgs) /\ stage \in {"next", "deliver"}
    /\ \A i \in 1..Len(batch) : where[batch[i]] = "hidden"
    /\ left \in SUBSET Targets /\ refused \in BOOLEAN
    /\ offered \in [Msgs -> SUBSET Targets]
    /\ sent \in [Msgs -> [Targets -> Nat]] /\ tries \in [Msgs -> Nat]
    /\ interruptions \in Nat /\ faults \in [FaultKinds -> Nat]

\* Without a pool, a message is deleted only after it was offered to every target
\* it names, whatever is raised, fails or is cut short: acknowledging comes last.
SequentialLosesNothing ==
    ~setup.parallel =>
        \A m \in Msgs : where[m] = "deleted" => offered[m] = Wanted(m)

\* Deliveries of a message that its processor may begin without being cut short.
Retries == IF setup.provider = "azure" THEN max_message_retry ELSE 0

\* A target gets a message again only for an interrupted delivery, or because
\* the azure processor retries a refused mail.
CopiesHaveReason ==
    \A m \in Msgs, t \in Targets : sent[m][t] <= 1 + interruptions + Retries

\* A delivery is begun again max_message_retry times for a refused mail, and once
\* more for every interruption: receiving counts, so an execution that was cut
\* short before it reached the message uses up a retry but never adds one.
RetriesBounded == \A m \in Msgs : tries[m] <= 1 + interruptions + Retries

\* The state is well typed, and every repetition, of a delivery or of what a
\* target got, is accounted for by an interruption or by the azure processor's
\* retries.
RepeatsHaveReason == TypeOK /\ CopiesHaveReason /\ RetriesBounded

\* Every message leaves the queue in the end, unless a malformed one is in it.
QueueDrains ==
    \A m \in Msgs :
        (where[m] # "unsent" /\ setup.malformed = {}) ~> where[m] = "deleted"

\* An execution ends, unless the gcp processor has a malformed message, which
\* it returns and receives for ever.
ExecutionEnds ==
    (running /\ ~(setup.provider = "gcp" /\ setup.malformed # {})) ~> ~running

\* The mailer catches up with its queue, and each of its executions ends.
CatchesUp == QueueDrains /\ ExecutionEnds
=============================================================================
