---------------------------- MODULE MailerProofs ----------------------------
(***************************************************************************)
(* Proofs about Mailer: for any messages, targets, configurations, page    *)
(* sizes, retry limits and faults, no message is lost without a pool, and  *)
(* every repetition has its reason.                                        *)
(***************************************************************************)
EXTENDS Mailer, FiniteSetTheorems, TLAPS

-----------------------------------------------------------------------------
(***************************************************************************)
(* The inductive invariant.                                                *)
(***************************************************************************)
InDelivery(m) == stage = "deliver" /\ m = Current

\* The messages of the batch are different ones, the first one is delivered, and
\* only the azure processor learns that its mail was refused.
BatchShape ==
    /\ \A i, j \in 1..Len(batch) : batch[i] = batch[j] => i = j
    /\ batch # << >> => running
    /\ stage = "deliver" => batch # << >>
    /\ stage = "next" => left = {} /\ ~refused
    /\ refused => setup.provider = "azure"

\* What a message was offered to and what is left of it are its targets.
OffersAddUp ==
    ~setup.parallel =>
        /\ \A m \in Msgs : offered[m] \subseteq Wanted(m)
        /\ stage = "deliver" => offered[Current] \cup left = Wanted(Current)

\* Every dequeue allows one retry, as far as the processor retries at all.
RetriesFor(n) == IF n < Retries THEN n ELSE Retries

\* The dequeue that brought a message to the batch is used up by its delivery.
TriesHaveReason(m) ==
    /\ ~InBatch(m) /\ where[m] # "deleted" =>
           tries[m] <= interruptions + RetriesFor(dequeue_count[m])
    /\ InBatch(m) =>
           /\ dequeue_count[m] > 0
           /\ tries[m] <= interruptions + RetriesFor(dequeue_count[m] - 1)
                          + (IF InDelivery(m) THEN 1 ELSE 0)

\* Every try sends at most once to each target.
OneCopyPerTry(m) ==
    \A t \in Targets :
        sent[m][t] + (IF InDelivery(m) /\ t \in left THEN 1 ELSE 0) <= tries[m]

IndInv ==
    /\ TypeOK /\ BatchShape /\ OffersAddUp
    /\ SequentialLosesNothing /\ RetriesBounded
    /\ \A m \in Msgs : TriesHaveReason(m) /\ OneCopyPerTry(m)

-----------------------------------------------------------------------------
\* The first message of the batch and the others.
LEMMA BatchParts ==
    ASSUME batch \in Seq(Msgs), batch # << >>
    PROVE  /\ Len(batch) \in Nat \ {0}
           /\ Current = batch[1] /\ Current \in Msgs
           /\ Tail(batch) \in Seq(Msgs) /\ Len(Tail(batch)) = Len(batch) - 1
           /\ \A i \in 1..Len(Tail(batch)) : Tail(batch)[i] = batch[i + 1]
  BY DEF Current

\* When the first message is dealt with, exactly the others stay in the batch.
LEMMA GoOnBatch ==
    ASSUME TypeOK, BatchShape, batch # << >>, GoOn
    PROVE  /\ batch' \in Seq(Msgs) /\ Current \in Msgs /\ InBatch(Current)
           /\ \A m \in Msgs : InBatch(m)' <=> InBatch(m) /\ m # Current
           /\ \A i, j \in 1..Len(batch') : batch'[i] = batch'[j] => i = j
<1>1. /\ Len(batch) \in Nat \ {0}
      /\ Current = batch[1] /\ Current \in Msgs
      /\ Tail(batch) \in Seq(Msgs) /\ Len(Tail(batch)) = Len(batch) - 1
      /\ \A i \in 1..Len(Tail(batch)) : Tail(batch)[i] = batch[i + 1]
  BY BatchParts DEF TypeOK
<1>2. batch' = Tail(batch)
  BY DEF GoOn
<1>3. \A i, j \in 1..Len(batch) : batch[i] = batch[j] => i = j
  BY DEF BatchShape
<1>4. InBatch(Current)
  BY <1>1 DEF InBatch
<1>5. ASSUME NEW m \in Msgs, InBatch(m)' PROVE InBatch(m) /\ m # Current
  <2>1. PICK i \in 1..Len(Tail(batch)) : Tail(batch)[i] = m
    BY <1>2, <1>5 DEF InBatch
  <2>2. i + 1 \in 1..Len(batch) /\ batch[i + 1] = m /\ 1 \in 1..Len(batch) /\ i + 1 # 1
    BY <1>1, <2>1
  <2> QED
    BY <1>1, <1>3, <2>2 DEF InBatch
<1>6. ASSUME NEW m \in Msgs, InBatch(m), m # Current PROVE InBatch(m)'
  <2>1. PICK i \in 1..Len(batch) : batch[i] = m
    BY <1>6 DEF InBatch
  <2>2. i - 1 \in 1..Len(Tail(batch))
    BY <1>1, <1>6, <2>1
  <2>3. Tail(batch)[i - 1] = m
    BY <1>1, <2>1, <2>2
  <2> QED
    BY <1>2, <2>2, <2>3 DEF InBatch
<1>7. \A i, j \in 1..Len(Tail(batch)) : Tail(batch)[i] = Tail(batch)[j] => i = j
  <2> SUFFICES ASSUME NEW i \in 1..Len(Tail(batch)), NEW j \in 1..Len(Tail(batch)),
                      Tail(batch)[i] = Tail(batch)[j]
               PROVE  i = j
    OBVIOUS
  <2>1. i + 1 \in 1..Len(batch) /\ j + 1 \in 1..Len(batch) /\ batch[i + 1] = batch[j + 1]
    BY <1>1
  <2> QED
    BY <1>3, <2>1
<1> QED
  BY <1>1, <1>2, <1>4, <1>5, <1>6, <1>7

\* A processor that stops has an empty batch.
LEMMA StopBatch ==
    ASSUME Stop
    PROVE  /\ batch' \in Seq(Msgs) /\ batch' = << >>
           /\ \A m \in Msgs : ~InBatch(m)'
           /\ \A i, j \in 1..Len(batch') : batch'[i] = batch'[j] => i = j
<1>1. batch' = << >>
  BY DEF Stop
<1>2. Len(batch') = 0 /\ batch' \in Seq(Msgs)
  BY <1>1
<1> QED
  BY <1>1, <1>2 DEF InBatch

\* A page has at most as many messages as are visible, each once.
LEMMA PageParts ==
    ASSUME TypeOK, NEW b \in Pages
    PROVE  /\ b \in Seq(Msgs) /\ Len(b) \in Nat
           /\ \A i \in 1..Len(b) : b[i] \in Msgs /\ where[b[i]] = "visible"
           /\ \A i, j \in 1..Len(b) : b[i] = b[j] => i = j
<1> USE MailerAssumption
<1> DEFINE n == IF Cardinality(Visible) < PageSize THEN Cardinality(Visible) ELSE PageSize
<1>1. Cardinality(Visible) \in Nat
  <2>1. IsFiniteSet(Visible)
    BY FS_Subset DEF Visible
  <2> QED
    BY <2>1, FS_CardinalityType
<1>2. n \in Nat
  BY <1>1
<1>3. b \in [1..n -> Visible] /\ \A i, j \in 1..n : b[i] = b[j] => i = j
  BY DEF Pages
<1> HIDE DEF n
<1>4. b \in Seq(Msgs) /\ Len(b) = n
  <2>1. b \in [1..n -> Msgs]
    BY <1>3 DEF Visible
  <2> QED
    BY <1>2, <2>1
<1> QED
  BY <1>2, <1>3, <1>4 DEF Visible

\* What the configuration and its messages consist of.
LEMMA SetupParts ==
    ASSUME TypeOK
    PROVE  /\ setup.provider \in {"aws", "azure", "gcp"} /\ setup.parallel \in BOOLEAN
           /\ \A m \in Msgs : Wanted(m) \subseteq Targets
           /\ Retries \in Nat
  BY MailerAssumption DEF TypeOK, Wanted, Retries

\* The configuration never changes.
LEMMA SetupStays == [Next]_vars => UNCHANGED setup
  BY DEF Next, Run, Notify, Reappear, StartRun, Crash, Receive, RunEnds, Begin, BeginMalformed,
         BeginParallel, Deliver, DeliverFails, DeliverRaises, MailRefused, Ack, AckFails,
         KeepForRetry, vars

\* The inductive invariant holds at first.
LEMMA InitIndInv == Init => IndInv
<1> SUFFICES ASSUME Init PROVE IndInv
  OBVIOUS
<1> USE MailerAssumption
<1>0. batch = << >> /\ batch \in Seq(Msgs) /\ Len(batch) = 0
  BY DEF Init
<1>1. TypeOK
  <2>1. sent \in [Msgs -> [Targets -> Nat]] /\ tries \in [Msgs -> Nat]
    BY DEF Init
  <2>2. dequeue_count \in [Msgs -> 0..CountLimit] /\ offered \in [Msgs -> SUBSET Targets]
    BY DEF Init, CountLimit
  <2>3. faults \in [FaultKinds -> Nat] /\ where \in [Msgs -> {"unsent", "visible", "hidden", "deleted"}]
    BY DEF Init
  <2>4. /\ setup \in Setups /\ running \in BOOLEAN /\ stage \in {"next", "deliver"}
        /\ left \in SUBSET Targets /\ refused \in BOOLEAN /\ interruptions \in Nat
    BY DEF Init
  <2>5. \A i \in 1..Len(batch) : where[batch[i]] = "hidden"
    BY <1>0
  <2> QED
    BY <1>0, <2>1, <2>2, <2>3, <2>4, <2>5 DEF TypeOK
<1>2. BatchShape /\ OffersAddUp /\ SequentialLosesNothing
  BY <1>0 DEF Init, BatchShape, OffersAddUp, SequentialLosesNothing
<1>3. Retries \in Nat
  BY <1>1, SetupParts
<1>4. RetriesBounded
  BY <1>3 DEF Init, RetriesBounded
<1>5. \A m \in Msgs : TriesHaveReason(m)
  BY <1>0, <1>3 DEF Init, TriesHaveReason, InBatch, RetriesFor
<1>6. \A m \in Msgs : OneCopyPerTry(m)
  BY DEF Init, OneCopyPerTry, InDelivery
<1> QED
  BY <1>1, <1>2, <1>4, <1>5, <1>6 DEF IndInv

-----------------------------------------------------------------------------
(***************************************************************************)
(* The kinds of step.                                                      *)
(***************************************************************************)
\* A page is hidden message by message, or place by place.
LEMMA HiddenInBatch ==
    ASSUME batch \in Seq(Msgs)
    PROVE  (\A i \in 1..Len(batch) : where[batch[i]] = "hidden")
           <=> \A m \in Msgs : InBatch(m) => where[m] = "hidden"
<1>1. \A i \in 1..Len(batch) : batch[i] \in Msgs
  OBVIOUS
<1> QED
  BY <1>1 DEF InBatch

\* The first message is in the batch, and it is not deleted.
LEMMA CurrentIsHidden ==
    ASSUME TypeOK, batch # << >>
    PROVE  Current \in Msgs /\ InBatch(Current) /\ where[Current] = "hidden"
<1>1. /\ Len(batch) \in Nat \ {0}
      /\ Current = batch[1] /\ Current \in Msgs
  BY BatchParts DEF TypeOK
<1> QED
  BY <1>1 DEF InBatch, TypeOK

\* The end of the first message, or of the execution.
Ends == Stop \/ (batch # << >> /\ GoOn)

\* When a message is done with, the batch is the rest of it, or empty.
LEMMA EndsParts ==
    ASSUME TypeOK, BatchShape, Ends, UNCHANGED setup
    PROVE  /\ batch' \in Seq(Msgs) /\ BatchShape'
           /\ running' \in BOOLEAN /\ stage' = "next" /\ left' = {} /\ refused' = FALSE
           /\ \A m \in Msgs : InBatch(m)' => InBatch(m) /\ m # Current
<1>1. CASE Stop
  <2>1. /\ batch' \in Seq(Msgs) /\ batch' = << >>
        /\ \A m \in Msgs : ~InBatch(m)'
        /\ \A i, j \in 1..Len(batch') : batch'[i] = batch'[j] => i = j
    BY <1>1, StopBatch
  <2> QED
    BY <1>1, <2>1 DEF Stop, BatchShape
<1>2. CASE batch # << >> /\ GoOn
  <2>1. /\ batch' \in Seq(Msgs)
        /\ \A m \in Msgs : InBatch(m)' <=> InBatch(m) /\ m # Current
        /\ \A i, j \in 1..Len(batch') : batch'[i] = batch'[j] => i = j
    BY <1>2, GoOnBatch
  <2> QED
    BY <1>2, <2>1 DEF GoOn, BatchShape, TypeOK
<1> QED
  BY <1>1, <1>2 DEF Ends

\* An exception ends one or the other, and may make the message visible.
LEMMA RaiseEnds ==
    ASSUME TypeOK, batch # << >>, Raise
    PROVE  /\ Ends
           /\ where' \in [Msgs -> {"unsent", "visible", "hidden", "deleted"}]
           /\ \A m \in Msgs : /\ m # Current => where'[m] = where[m]
                              /\ where'[m] = "deleted" => where[m] = "deleted"
<1>1. Current \in Msgs /\ where[Current] = "hidden"
  BY CurrentIsHidden
<1> QED
  BY <1>1 DEF Raise, Ends, TypeOK

\* The steps that offer a message to a target.
Offers(t) ==
    /\ stage = "deliver" /\ t \in left /\ Offer(t)
    /\ Got(t) \/ UNCHANGED sent
    /\ UNCHANGED <<setup, queueVars, running, batch, stage, tries, interruptions>>
    /\ refused' = refused \/ setup.provider = "azure"
    /\ refused' \in BOOLEAN /\ faults' \in [FaultKinds -> Nat]

\* The steps that begin a delivery.
Begins == Begin \/ BeginParallel

\* The steps that leave the execution and the histories alone.
Quiet ==
    /\ UNCHANGED <<setup, dequeue_count, batch, stage, left, refused, historyVars,
                   interruptions, faults>>
    /\ running' \in {running, TRUE}
    /\ where' \in [Msgs -> {"unsent", "visible", "hidden", "deleted"}]
    /\ \A m \in Msgs : /\ InBatch(m) => where'[m] = where[m]
                       /\ where'[m] = "deleted" <=> where[m] = "deleted"

\* The steps that end a delivery, or an execution.
Finishes ==
    /\ Ends /\ UNCHANGED <<setup, dequeue_count, historyVars>>
    /\ faults' \in [FaultKinds -> Nat]
    /\ where' \in [Msgs -> {"unsent", "visible", "hidden", "deleted"}]
    /\ \A m \in Msgs : m # Current \/ batch = << >> => where'[m] = where[m]
    /\ \/ interruptions' = interruptions + 1
       \/ interruptions' = interruptions /\ stage = "next"
       \/ interruptions' = interruptions /\ Delivered /\ (where'[Current] = "deleted" \/ ~Handled)
    /\ \A m \in Msgs : where'[m] = "deleted" =>
           where[m] = "deleted" \/ (m = Current /\ Delivered)

\* Every step is of one of these kinds, or receives a page.
LEMMA Kinds ==
    ASSUME TypeOK, BatchShape, [Next]_vars
    PROVE  Quiet \/ Receive \/ Begins \/ (\E t \in Targets : Offers(t)) \/ Finishes
<1>0. \A k \in FaultKinds : Spend(k) => faults' \in [FaultKinds -> Nat]
  BY DEF Spend, TypeOK
<1>k. {"render", "send", "ack", "crash"} \subseteq FaultKinds
  BY DEF FaultKinds
<1>f. /\ faults \in [FaultKinds -> Nat]
      /\ where \in [Msgs -> {"unsent", "visible", "hidden", "deleted"}]
      /\ refused \in BOOLEAN /\ running \in BOOLEAN
  BY DEF TypeOK
<1>d. stage = "deliver" => batch # << >>
  BY DEF BatchShape
<1>1. ASSUME NEW m \in Msgs, Notify(m) \/ Reappear(m) PROVE Quiet
  <2>1. ~InBatch(m) /\ where[m] \in {"unsent", "hidden"}
    <3>1. \A x \in Msgs : InBatch(x) => where[x] = "hidden"
      BY HiddenInBatch DEF TypeOK
    <3> QED
      BY <1>1, <3>1 DEF Notify, Reappear
  <2> QED
    BY <1>1, <1>f, <2>1 DEF Notify, Reappear, Quiet, runVars
<1>2. ASSUME StartRun PROVE Quiet
  BY <1>2, <1>f DEF StartRun, Quiet, queueVars
<1>3. ASSUME Crash PROVE Finishes
  BY <1>3, <1>0, <1>k, <1>f DEF Crash, Finishes, Ends, queueVars
<1>4. ASSUME RunEnds PROVE Finishes
  BY <1>4, <1>f DEF RunEnds, Finishes, Ends, queueVars, BatchShape, TypeOK
<1>5. ASSUME BeginMalformed PROVE Finishes
  <2>1. batch # << >> /\ stage = "next" /\ Raise
    BY <1>5 DEF BeginMalformed, Ready
  <2> QED
    BY <1>5, <1>f, <2>1, RaiseEnds DEF BeginMalformed, Finishes
<1>6. ASSUME NEW t \in Targets, DeliverRaises(t) PROVE Finishes
  <2>1. batch # << >> /\ Raise
    BY <1>6, <1>d DEF DeliverRaises, Delivering, Connects
  <2> QED
    BY <1>6, <1>0, <1>k, <2>1, RaiseEnds DEF DeliverRaises, Finishes
<1>7. ASSUME AckFails PROVE Finishes
  <2>1. batch # << >> /\ Raise
    BY <1>7, <1>d DEF AckFails, Delivered
  <2> QED
    BY <1>7, <1>0, <1>k, <2>1, RaiseEnds DEF AckFails, Finishes
<1>8. ASSUME Ack PROVE Finishes
  <2>1. batch # << >> /\ Current \in Msgs
    BY <1>8, <1>d, CurrentIsHidden DEF Ack, Delivered
  <2> QED
    BY <1>8, <1>f, <2>1 DEF Ack, Finishes, Ends
<1>9. ASSUME KeepForRetry PROVE Finishes
  <2>1. batch # << >>
    BY <1>9, <1>d DEF KeepForRetry, Delivered
  <2> QED
    BY <1>9, <1>f, <2>1 DEF KeepForRetry, Finishes, Ends, queueVars
<1>10. ASSUME NEW t \in Targets, Deliver(t) \/ DeliverFails(t) PROVE Offers(t)
  BY <1>10, <1>0, <1>k, <1>f DEF Deliver, DeliverFails, Delivering, Offers
<1>11. ASSUME MailRefused PROVE "email" \in Targets /\ Offers("email")
  BY <1>11, <1>f DEF MailRefused, Delivering, Offers, Targets
<1>12. ASSUME UNCHANGED vars PROVE Quiet
  BY <1>12, <1>f DEF vars, queueVars, runVars, Quiet
<1> QED
  BY <1>1, <1>2, <1>3, <1>4, <1>5, <1>6, <1>7, <1>8, <1>9, <1>10, <1>11, <1>12
  DEF Next, Run, Begins

-----------------------------------------------------------------------------
(***************************************************************************)
(* What each kind of step keeps.                                           *)
(***************************************************************************)
\* A page makes the batch.
LEMMA ReceiveParts ==
    ASSUME TypeOK, BatchShape, Receive
    PROVE  /\ batch = << >> /\ batch' \in Seq(Msgs)
           /\ \A i, j \in 1..Len(batch') : batch'[i] = batch'[j] => i = j
           /\ where' \in [Msgs -> {"unsent", "visible", "hidden", "deleted"}]
           /\ \A m \in Msgs : ~InBatch(m)
           /\ dequeue_count' \in [Msgs -> 0..CountLimit]
           /\ \A m \in Msgs : InBatch(m)' =>
                  /\ where'[m] = "hidden" /\ where[m] = "visible"
                  /\ dequeue_count'[m] \in {dequeue_count[m] + 1, CountLimit}
                  /\ dequeue_count'[m] > 0 /\ dequeue_count'[m] >= dequeue_count[m]
           /\ \A m \in Msgs : ~InBatch(m)' =>
                  where'[m] = where[m] /\ dequeue_count'[m] = dequeue_count[m]
<1> USE MailerAssumption
<1>1. PICK b \in Pages :
           LET taken == {b[i] : i \in 1..Len(b)}
           IN  /\ batch' = b
               /\ where' = [m \in Msgs |-> IF m \in taken THEN "hidden" ELSE where[m]]
               /\ dequeue_count' = [m \in Msgs |->
                      IF m \in taken /\ dequeue_count[m] < CountLimit
                        THEN dequeue_count[m] + 1 ELSE dequeue_count[m]]
  BY DEF Receive
<1> DEFINE taken == {b[i] : i \in 1..Len(b)}
<1>2. /\ b \in Seq(Msgs) /\ Len(b) \in Nat
      /\ \A i \in 1..Len(b) : b[i] \in Msgs /\ where[b[i]] = "visible"
      /\ \A i, j \in 1..Len(b) : b[i] = b[j] => i = j
  BY PageParts
<1>3. \A m \in Msgs : InBatch(m)' <=> m \in taken
  BY <1>1 DEF InBatch
<1>4. batch = << >> /\ \A m \in Msgs : ~InBatch(m)
  <2>1. batch = << >> /\ Len(batch) = 0
    BY DEF Receive
  <2> QED
    BY <2>1 DEF InBatch
<1>5. \A m \in taken : where[m] = "visible"
  BY <1>2
<1>6. CountLimit \in Nat \ {0} /\ dequeue_count \in [Msgs -> 0..CountLimit]
  BY DEF CountLimit, TypeOK
<1>7. where \in [Msgs -> {"unsent", "visible", "hidden", "deleted"}]
  BY DEF TypeOK
<1>8. where' = [m \in Msgs |-> IF m \in taken THEN "hidden" ELSE where[m]]
  BY <1>1
<1>9. dequeue_count' = [m \in Msgs |->
          IF m \in taken /\ dequeue_count[m] < CountLimit
            THEN dequeue_count[m] + 1 ELSE dequeue_count[m]]
  BY <1>1
<1> HIDE DEF taken
<1>10. where' \in [Msgs -> {"unsent", "visible", "hidden", "deleted"}]
  BY <1>7, <1>8
<1>11. dequeue_count' \in [Msgs -> 0..CountLimit]
  BY <1>6, <1>9
<1>12. ASSUME NEW m \in Msgs, InBatch(m)'
       PROVE  /\ where'[m] = "hidden" /\ where[m] = "visible"
              /\ dequeue_count'[m] \in {dequeue_count[m] + 1, CountLimit}
              /\ dequeue_count'[m] > 0 /\ dequeue_count'[m] >= dequeue_count[m]
  BY <1>3, <1>5, <1>6, <1>8, <1>9, <1>12
<1>13. ASSUME NEW m \in Msgs, ~InBatch(m)'
       PROVE  where'[m] = where[m] /\ dequeue_count'[m] = dequeue_count[m]
  BY <1>3, <1>8, <1>9, <1>13
<1> QED
  BY <1>1, <1>2, <1>4, <1>10, <1>11, <1>12, <1>13

\* A target that gets the message.
LEMMA GotParts ==
    ASSUME TypeOK, batch # << >>, NEW t \in Targets, Got(t)
    PROVE  /\ sent' \in [Msgs -> [Targets -> Nat]]
           /\ \A m \in Msgs, u \in Targets :
                  sent'[m][u] = IF m = Current /\ u = t THEN sent[m][u] + 1 ELSE sent[m][u]
<1>1. Current \in Msgs
  BY CurrentIsHidden
<1> DEFINE new == [sent[Current] EXCEPT ![t] = @ + 1]
<1>2. /\ new \in [Targets -> Nat]
      /\ \A u \in Targets : new[u] = IF u = t THEN sent[Current][u] + 1 ELSE sent[Current][u]
  BY <1>1 DEF TypeOK
<1>3. sent' = [sent EXCEPT ![Current] = new]
  BY <1>1 DEF Got, TypeOK
<1> HIDE DEF new
<1> QED
  BY <1>1, <1>2, <1>3 DEF TypeOK

\* Every step keeps the types.
LEMMA NextTypes == IndInv /\ [Next]_vars => TypeOK'
<1> SUFFICES ASSUME IndInv, [Next]_vars PROVE TypeOK'
  OBVIOUS
<1> USE MailerAssumption
<1>0. TypeOK /\ BatchShape
  BY DEF IndInv
<1>h. ASSUME batch' \in Seq(Msgs), \A m \in Msgs : InBatch(m)' => where'[m] = "hidden"
      PROVE  \A i \in 1..Len(batch') : where'[batch'[i]] = "hidden"
  <2>1. \A i \in 1..Len(batch') : batch'[i] \in Msgs
    BY <1>h
  <2> QED
    BY <1>h, <2>1 DEF InBatch
<1>p. \A m \in Msgs : InBatch(m) => where[m] = "hidden"
  BY <1>0, HiddenInBatch DEF TypeOK
<1>1. ASSUME Quiet PROVE TypeOK'
  <2>1. \A m \in Msgs : InBatch(m)' => where'[m] = "hidden"
    BY <1>1, <1>p DEF Quiet, InBatch
  <2>2. batch' \in Seq(Msgs) /\ \A i \in 1..Len(batch') : where'[batch'[i]] = "hidden"
    BY <1>0, <1>1, <1>h, <2>1 DEF Quiet, TypeOK
  <2>3. running' \in BOOLEAN
    BY <1>0, <1>1 DEF Quiet, TypeOK
  <2> QED
    BY <1>0, <1>1, <2>2, <2>3 DEF Quiet, TypeOK, historyVars
<1>2. ASSUME Receive PROVE TypeOK'
  <2>1. \A i \in 1..Len(batch') : where'[batch'[i]] = "hidden"
    BY <1>0, <1>2, <1>h, ReceiveParts
  <2> QED
    BY <1>0, <1>2, <2>1, ReceiveParts DEF Receive, TypeOK, historyVars
<1>3. ASSUME Begins PROVE TypeOK'
  <2>1. Current \in Msgs
    BY <1>0, <1>3, CurrentIsHidden DEF Begins, Begin, BeginParallel, Ready
  <2>2. tries' \in [Msgs -> Nat]
    <3>1. tries' = [tries EXCEPT ![Current] = @ + 1]
      BY <1>3 DEF Begins, Begin, BeginParallel
    <3>2. tries \in [Msgs -> Nat]
      BY <1>0 DEF TypeOK
    <3> QED
      BY <2>1, <3>1, <3>2
  <2>3. left' \in SUBSET Targets
    BY <1>0, <1>3, <2>1, SetupParts DEF Begins, Begin, BeginParallel, TypeOK
  <2> QED
    BY <1>0, <1>3, <2>2, <2>3 DEF Begins, Begin, BeginParallel, TypeOK, queueVars
<1>4. ASSUME NEW t \in Targets, Offers(t) PROVE TypeOK'
  <2>1. batch # << >> /\ Current \in Msgs
    BY <1>0, <1>4, CurrentIsHidden DEF Offers, BatchShape
  <2>2. sent' \in [Msgs -> [Targets -> Nat]]
    BY <1>0, <1>4, <2>1, GotParts DEF Offers, TypeOK
  <2>3. offered' \in [Msgs -> SUBSET Targets] /\ left' \in SUBSET Targets
    BY <1>0, <1>4, <2>1 DEF Offers, Offer, TypeOK
  <2> QED
    BY <1>0, <1>4, <2>2, <2>3 DEF Offers, TypeOK, queueVars
<1>5. ASSUME Finishes PROVE TypeOK'
  <2>1. /\ batch' \in Seq(Msgs)
        /\ running' \in BOOLEAN /\ stage' = "next" /\ left' = {} /\ refused' = FALSE
        /\ \A m \in Msgs : InBatch(m)' => InBatch(m) /\ m # Current
    BY <1>0, <1>5, EndsParts DEF Finishes
  <2>2. \A i \in 1..Len(batch') : where'[batch'[i]] = "hidden"
    BY <1>5, <1>h, <1>p, <2>1 DEF Finishes
  <2>3. interruptions' \in Nat
    BY <1>0, <1>5 DEF Finishes, TypeOK
  <2> QED
    BY <1>0, <1>5, <2>1, <2>2, <2>3 DEF Finishes, TypeOK, historyVars
<1> QED
  BY <1>0, <1>1, <1>2, <1>3, <1>4, <1>5, Kinds

\* The batch keeps its shape.
LEMMA NextShape == IndInv /\ [Next]_vars => BatchShape'
<1> SUFFICES ASSUME IndInv, [Next]_vars PROVE BatchShape'
  OBVIOUS
<1>0. TypeOK /\ BatchShape
  BY DEF IndInv
<1>1. ASSUME Quiet PROVE BatchShape'
  <2>1. running => running'
    BY <1>0, <1>1 DEF Quiet, TypeOK
  <2>2. UNCHANGED <<setup, batch, stage, left, refused>>
    BY <1>1 DEF Quiet
  <2> QED
    BY <1>0, <2>1, <2>2 DEF BatchShape
<1>2. ASSUME Receive PROVE BatchShape'
  BY <1>0, <1>2, ReceiveParts DEF Receive, BatchShape
<1>3. ASSUME Begins PROVE BatchShape'
  BY <1>0, <1>3 DEF Begins, Begin, BeginParallel, Ready, BatchShape
<1>4. ASSUME NEW t \in Targets, Offers(t) PROVE BatchShape'
  BY <1>0, <1>4 DEF Offers, Offer, BatchShape, TypeOK
<1>5. ASSUME Finishes PROVE BatchShape'
  BY <1>0, <1>5, EndsParts DEF Finishes
<1> QED
  BY <1>0, <1>1, <1>2, <1>3, <1>4, <1>5, Kinds

\* No message is deleted before it was offered to its targets.
LEMMA NextOffers == IndInv /\ [Next]_vars => OffersAddUp' /\ SequentialLosesNothing'
<1> SUFFICES ASSUME IndInv, [Next]_vars PROVE OffersAddUp' /\ SequentialLosesNothing'
  OBVIOUS
<1>0. TypeOK /\ BatchShape /\ OffersAddUp /\ SequentialLosesNothing
  BY DEF IndInv
<1>w. ASSUME UNCHANGED setup PROVE \A m : Wanted(m)' = Wanted(m)
  BY <1>w DEF Wanted, Order
<1>1. ASSUME Quiet PROVE OffersAddUp' /\ SequentialLosesNothing'
  <2>1. UNCHANGED <<setup, batch, stage, left, offered>> /\ Current' = Current
    BY <1>1 DEF Quiet, historyVars, Current
  <2> QED
    BY <1>0, <1>1, <1>w, <2>1 DEF Quiet, OffersAddUp, SequentialLosesNothing
<1>2. ASSUME Receive PROVE OffersAddUp' /\ SequentialLosesNothing'
  <2>1. UNCHANGED <<setup, stage, left, offered>> /\ stage = "next"
    BY <1>0, <1>2 DEF Receive, historyVars, BatchShape, TypeOK
  <2>2. \A m \in Msgs : where'[m] = "deleted" => where[m] = "deleted"
    BY <1>0, <1>2, ReceiveParts
  <2> QED
    BY <1>0, <1>w, <2>1, <2>2 DEF OffersAddUp, SequentialLosesNothing
<1>3. ASSUME Begins PROVE OffersAddUp' /\ SequentialLosesNothing'
  <2>1. UNCHANGED <<setup, where, batch, offered>> /\ Current' = Current /\ Current \in Msgs
    BY <1>0, <1>3, CurrentIsHidden
    DEF Begins, Begin, BeginParallel, Ready, Current, queueVars
  <2>2. ~setup.parallel => left' = Wanted(Current)
    BY <1>3 DEF Begins, Begin, BeginParallel
  <2> QED
    BY <1>0, <1>w, <2>1, <2>2 DEF OffersAddUp, SequentialLosesNothing
<1>4. ASSUME NEW t \in Targets, Offers(t) PROVE OffersAddUp' /\ SequentialLosesNothing'
  <2>1. /\ UNCHANGED <<setup, where, batch, stage>> /\ Current' = Current
        /\ Current \in Msgs /\ where[Current] = "hidden" /\ stage = "deliver"
    BY <1>0, <1>4, CurrentIsHidden DEF Offers, BatchShape, Current, queueVars
  <2>2. /\ t \in left /\ left' = left \ {t}
        /\ offered' = [offered EXCEPT ![Current] = offered[Current] \cup {t}]
    BY <1>4 DEF Offers, Offer
  <2>3. ASSUME ~setup.parallel
        PROVE  /\ \A m \in Msgs : offered'[m] \subseteq Wanted(m)
               /\ offered'[Current] \cup left' = Wanted(Current)
    <3>1. offered[Current] \cup left = Wanted(Current) /\ \A m \in Msgs : offered[m] \subseteq Wanted(m)
      BY <1>0, <2>1, <2>3 DEF OffersAddUp
    <3>2. offered'[Current] = offered[Current] \cup {t}
          /\ \A m \in Msgs : m # Current => offered'[m] = offered[m]
      BY <1>0, <2>1, <2>2 DEF TypeOK
    <3> QED
      BY <2>2, <3>1, <3>2
  <2>4. \A m \in Msgs : where'[m] = "deleted" => where[m] = "deleted" /\ offered'[m] = offered[m]
    BY <1>0, <2>1, <2>2 DEF TypeOK
  <2> QED
    BY <1>0, <1>w, <2>1, <2>3, <2>4 DEF OffersAddUp, SequentialLosesNothing
<1>5. ASSUME Finishes PROVE OffersAddUp' /\ SequentialLosesNothing'
  <2>1. UNCHANGED <<setup, offered>> /\ stage' = "next"
    BY <1>0, <1>5, EndsParts DEF Finishes, historyVars
  <2>2. ASSUME NEW m \in Msgs, ~setup.parallel, where'[m] = "deleted"
        PROVE  offered[m] = Wanted(m)
    <3>1. CASE where[m] = "deleted"
      BY <1>0, <2>2, <3>1 DEF SequentialLosesNothing
    <3>2. CASE m = Current /\ Delivered
      BY <1>0, <2>2, <3>2 DEF OffersAddUp, Delivered
    <3> QED
      BY <1>5, <2>2, <3>1, <3>2 DEF Finishes
  <2> QED
    BY <1>0, <1>w, <2>1, <2>2 DEF OffersAddUp, SequentialLosesNothing
<1> QED
  BY <1>0, <1>1, <1>2, <1>3, <1>4, <1>5, Kinds

\* Retries in terms of dequeues.
LEMMA RetriesForParts ==
    ASSUME TypeOK
    PROVE  /\ Retries \in Nat
           /\ \A n \in Nat : RetriesFor(n) \in 0..Retries
           /\ \A n, k \in Nat : n <= k => RetriesFor(n) <= RetriesFor(k)
           /\ \A n \in Nat : n <= Retries => RetriesFor(n) = n
           /\ \A n \in Nat : n >= Retries => RetriesFor(n) = Retries
           /\ UNCHANGED setup => Retries' = Retries /\ \A n \in Nat : RetriesFor(n)' = RetriesFor(n)
<1>1. Retries \in Nat
  BY SetupParts
<1>2. \A n \in Nat : RetriesFor(n) = IF n < Retries THEN n ELSE Retries
  BY DEF RetriesFor
<1>3. UNCHANGED setup => Retries' = Retries /\ \A n \in Nat : RetriesFor(n)' = RetriesFor(n)
  BY DEF Retries, RetriesFor
<1> HIDE DEF Retries
<1> QED
  BY <1>1, <1>2, <1>3

\* Every try is accounted for by a dequeue that allowed it or by an interruption.
LEMMA NextTries == IndInv /\ [Next]_vars => \A m \in Msgs : TriesHaveReason(m)'
<1> SUFFICES ASSUME IndInv, [Next]_vars, NEW m \in Msgs PROVE TriesHaveReason(m)'
  OBVIOUS
<1> USE MailerAssumption
<1>0. TypeOK /\ BatchShape /\ TriesHaveReason(m)
  BY DEF IndInv
<1>t. /\ tries[m] \in Nat /\ interruptions \in Nat /\ dequeue_count[m] \in 0..CountLimit
      /\ CountLimit \in Nat /\ CountLimit = max_message_retry + 2
  BY <1>0 DEF TypeOK, CountLimit
<1>r. /\ Retries \in Nat /\ Retries <= max_message_retry
      /\ \A n \in Nat : RetriesFor(n) \in 0..Retries
      /\ \A n, k \in Nat : n <= k => RetriesFor(n) <= RetriesFor(k)
      /\ \A n \in Nat : n <= Retries => RetriesFor(n) = n
      /\ \A n \in Nat : n >= Retries => RetriesFor(n) = Retries
  <2>1. Retries <= max_message_retry
    BY DEF Retries
  <2> QED
    BY <1>0, <2>1, RetriesForParts
<1>u. setup' = setup
  BY SetupStays
<1>v. \A n \in Nat : RetriesFor(n)' = RetriesFor(n)
  BY <1>0, <1>u, RetriesForParts
<1>b. /\ ~InBatch(m) /\ where[m] # "deleted" =>
             tries[m] <= interruptions + RetriesFor(dequeue_count[m])
      /\ InBatch(m) =>
             /\ dequeue_count[m] > 0
             /\ tries[m] <= interruptions + RetriesFor(dequeue_count[m] - 1) + 1
             /\ ~InDelivery(m) => tries[m] <= interruptions + RetriesFor(dequeue_count[m] - 1)
  <2>1. RetriesFor(dequeue_count[m] - 1) \in Nat \/ dequeue_count[m] = 0
    BY <1>t, <1>r
  <2> QED
    BY <1>0, <1>t, <2>1 DEF TriesHaveReason
<1>s. ASSUME /\ ~InBatch(m)' /\ where'[m] # "deleted" =>
                    tries'[m] <= interruptions' + RetriesFor(dequeue_count'[m])
             /\ InBatch(m)' =>
                    /\ dequeue_count'[m] > 0
                    /\ tries'[m] <= interruptions' + RetriesFor(dequeue_count'[m] - 1)
                                    + (IF InDelivery(m)' THEN 1 ELSE 0),
             dequeue_count'[m] \in Nat
      PROVE  TriesHaveReason(m)'
  <2>1. dequeue_count'[m] > 0 => dequeue_count'[m] - 1 \in Nat
    BY <1>s
  <2> QED
    BY <1>s, <1>v, <2>1 DEF TriesHaveReason
<1>1. ASSUME Quiet PROVE TriesHaveReason(m)'
  <2>1. /\ UNCHANGED <<tries, interruptions, dequeue_count>>
        /\ InBatch(m)' = InBatch(m) /\ InDelivery(m)' = InDelivery(m)
        /\ where'[m] # "deleted" => where[m] # "deleted"
    BY <1>1 DEF Quiet, historyVars, InBatch, InDelivery, Current
  <2> QED
    BY <1>0, <1>s, <1>t, <2>1 DEF TriesHaveReason
<1>2. ASSUME Receive PROVE TriesHaveReason(m)'
  <2>1. /\ ~InBatch(m) /\ UNCHANGED <<tries, interruptions>> /\ ~InDelivery(m)'
        /\ dequeue_count'[m] \in 0..CountLimit
    BY <1>0, <1>2, ReceiveParts DEF Receive, historyVars, InDelivery, BatchShape, TypeOK
  <2>2. CASE InBatch(m)'
    <3>1. /\ where[m] = "visible" /\ dequeue_count'[m] > 0
          /\ dequeue_count'[m] \in {dequeue_count[m] + 1, CountLimit}
      BY <1>0, <1>2, <2>2, ReceiveParts
    <3>2. RetriesFor(dequeue_count'[m] - 1) >= RetriesFor(dequeue_count[m])
      <4>1. CASE dequeue_count'[m] = dequeue_count[m] + 1
        BY <1>t, <1>r, <4>1
      <4>2. CASE dequeue_count'[m] = CountLimit
        <5>1. CountLimit - 1 \in Nat /\ CountLimit - 1 >= Retries
          BY <1>t, <1>r
        <5>2. RetriesFor(CountLimit - 1) = Retries /\ RetriesFor(dequeue_count[m]) \in 0..Retries
          BY <1>t, <1>r, <5>1
        <5> QED
          BY <1>r, <4>2, <5>2
      <4> QED
        BY <3>1, <4>1, <4>2
    <3>3. /\ RetriesFor(dequeue_count'[m] - 1) \in Nat /\ RetriesFor(dequeue_count[m]) \in Nat
          /\ tries[m] <= interruptions + RetriesFor(dequeue_count[m])
      BY <1>t, <1>r, <1>b, <2>1, <3>1
    <3>4. tries[m] <= interruptions + RetriesFor(dequeue_count'[m] - 1)
      BY <1>t, <3>2, <3>3
    <3> QED
      BY <1>s, <1>t, <2>1, <2>2, <3>1, <3>3, <3>4
  <2>3. CASE ~InBatch(m)'
    <3>1. where'[m] = where[m] /\ dequeue_count'[m] = dequeue_count[m]
      BY <1>0, <1>2, <2>3, ReceiveParts
    <3> QED
      BY <1>s, <1>b, <1>t, <2>1, <2>3, <3>1
  <2> QED
    BY <2>2, <2>3
<1>3. ASSUME Begins PROVE TriesHaveReason(m)'
  <2>0. /\ batch # << >> /\ stage = "next" /\ stage' = "deliver"
        /\ UNCHANGED <<where, interruptions, dequeue_count, batch>>
        /\ tries' = [tries EXCEPT ![Current] = @ + 1]
    BY <1>3 DEF Begins, Begin, BeginParallel, Ready, queueVars
  <2>1. /\ InBatch(m)' = InBatch(m) /\ Current \in Msgs /\ InBatch(Current)
        /\ ~InDelivery(m) /\ InDelivery(m)' = (m = Current)
    BY <1>0, <2>0, CurrentIsHidden DEF InBatch, InDelivery, Current
  <2>2. tries'[m] = IF m = Current THEN tries[m] + 1 ELSE tries[m]
    BY <1>0, <2>0, <2>1 DEF TypeOK
  <2>3. InBatch(m) => RetriesFor(dequeue_count[m] - 1) \in Nat
    BY <1>b, <1>r, <1>t
  <2>4. CASE InBatch(m)
    <3>1. tries[m] <= interruptions + RetriesFor(dequeue_count[m] - 1) /\ dequeue_count[m] > 0
      BY <1>b, <2>1, <2>4
    <3>2. tries'[m] <= interruptions + RetriesFor(dequeue_count[m] - 1)
                       + (IF m = Current THEN 1 ELSE 0)
      BY <1>t, <2>2, <2>3, <2>4, <3>1
    <3>3. dequeue_count'[m] = dequeue_count[m] /\ interruptions' = interruptions /\ InBatch(m)'
      BY <2>0, <2>1, <2>4
    <3>4. tries'[m] <= interruptions' + RetriesFor(dequeue_count'[m] - 1)
                       + (IF InDelivery(m)' THEN 1 ELSE 0)
      BY <2>1, <3>2, <3>3
    <3> QED
      BY <1>s, <1>t, <3>1, <3>3, <3>4
  <2>5. CASE ~InBatch(m)
    <3>1. m # Current /\ tries'[m] = tries[m] /\ ~InBatch(m)'
      BY <2>1, <2>2, <2>5
    <3> QED
      BY <1>s, <1>b, <1>t, <2>0, <2>5, <3>1
  <2> QED
    BY <2>4, <2>5
<1>4. ASSUME NEW t \in Targets, Offers(t) PROVE TriesHaveReason(m)'
  <2>1. /\ UNCHANGED <<tries, where, interruptions, dequeue_count>>
        /\ InBatch(m)' = InBatch(m) /\ InDelivery(m)' = InDelivery(m)
    BY <1>4 DEF Offers, queueVars, InBatch, InDelivery, Current
  <2> QED
    BY <1>0, <1>s, <1>t, <2>1 DEF TriesHaveReason
<1>5. ASSUME Finishes PROVE TriesHaveReason(m)'
  <2>1. /\ UNCHANGED <<tries, dequeue_count>> /\ ~InDelivery(m)'
        /\ InBatch(m)' => InBatch(m) /\ m # Current
    BY <1>0, <1>5, EndsParts DEF Finishes, historyVars, InDelivery
  <2>2. InBatch(m) => /\ dequeue_count[m] - 1 \in Nat
                      /\ RetriesFor(dequeue_count[m] - 1) \in Nat
                      /\ RetriesFor(dequeue_count[m] - 1) <= RetriesFor(dequeue_count[m])
    BY <1>b, <1>r, <1>t
  <2>3. RetriesFor(dequeue_count[m]) \in Nat
    BY <1>r, <1>t
  <2>4. InBatch(m) => where[m] # "deleted"
    BY <1>0, HiddenInBatch DEF TypeOK
  <2>5. ~InBatch(m) /\ where'[m] # "deleted" => where[m] # "deleted"
    <3>1. CASE batch = << >>
      BY <1>5, <3>1 DEF Finishes
    <3>2. CASE batch # << >>
      <4>1. InBatch(Current)
        BY <1>0, <3>2, CurrentIsHidden
      <4> QED
        BY <1>5, <3>2, <4>1 DEF Finishes
    <3> QED
      BY <3>1, <3>2
  <2>6. CASE interruptions' = interruptions + 1
    BY <1>s, <1>b, <1>t, <2>1, <2>2, <2>3, <2>5, <2>6
  <2>7. CASE interruptions' = interruptions /\ ~InDelivery(m)
    BY <1>s, <1>b, <1>t, <2>1, <2>2, <2>3, <2>5, <2>7
  <2>8. CASE interruptions' = interruptions /\ InDelivery(m) /\ where'[m] = "deleted"
    BY <1>s, <1>t, <2>1, <2>8 DEF InDelivery
  <2>9. CASE interruptions' = interruptions /\ InDelivery(m) /\ ~Handled
    <3>1. refused /\ dequeue_count[m] <= max_message_retry /\ m = Current
      BY <1>0, <1>t, <2>9 DEF Handled, InDelivery, TypeOK
    <3>2. Retries = max_message_retry /\ InBatch(m)
      BY <1>0, <2>9, <3>1, CurrentIsHidden DEF BatchShape, Retries, InDelivery
    <3>3. RetriesFor(dequeue_count[m] - 1) + 1 = RetriesFor(dequeue_count[m])
      <4>1. dequeue_count[m] \in Nat /\ dequeue_count[m] - 1 \in Nat /\ dequeue_count[m] <= Retries
        BY <1>t, <2>2, <3>1, <3>2
      <4>2. RetriesFor(dequeue_count[m]) = dequeue_count[m]
            /\ RetriesFor(dequeue_count[m] - 1) = dequeue_count[m] - 1
        BY <1>r, <4>1
      <4> QED
        BY <4>1, <4>2
    <3>4. tries[m] <= interruptions + RetriesFor(dequeue_count[m])
      BY <1>b, <1>t, <2>2, <2>3, <3>2, <3>3
    <3> QED
      BY <1>s, <1>t, <2>1, <2>9, <3>1, <3>4
  <2> QED
    BY <1>5, <2>6, <2>7, <2>8, <2>9 DEF Finishes, InDelivery, Delivered
<1> QED
  BY <1>0, <1>1, <1>2, <1>3, <1>4, <1>5, Kinds

\* The bound on the tries stays when a message is deleted.
LEMMA NextRetriesBounded == IndInv /\ [Next]_vars => RetriesBounded'
<1> SUFFICES ASSUME IndInv, [Next]_vars, NEW m \in Msgs
             PROVE  tries'[m] <= 1 + interruptions' + Retries'
  BY DEF RetriesBounded
<1>0. TypeOK /\ BatchShape /\ RetriesBounded
  BY DEF IndInv
<1>1. TypeOK' /\ TriesHaveReason(m)'
  BY NextTypes, NextTries
<1>u. Retries' = Retries /\ Retries \in Nat
  BY <1>0, SetupStays, SetupParts DEF Retries
<1>2. /\ tries'[m] \in Nat /\ interruptions' \in Nat /\ interruptions \in Nat
      /\ dequeue_count'[m] \in Nat
  <2>1. CountLimit \in Nat
    BY MailerAssumption DEF CountLimit
  <2> QED
    BY <1>0, <1>1, <2>1 DEF TypeOK
<1>3. CASE InBatch(m)'
  <2>1. /\ dequeue_count'[m] > 0
        /\ tries'[m] <= interruptions' + (IF dequeue_count'[m] - 1 < Retries'
                                            THEN dequeue_count'[m] - 1 ELSE Retries')
                        + (IF InDelivery(m)' THEN 1 ELSE 0)
    BY <1>1, <1>3 DEF TriesHaveReason, RetriesFor
  <2> QED
    BY <1>2, <1>u, <2>1
<1>4. CASE ~InBatch(m)'
  <2>1. tries'[m] = tries[m] /\ interruptions' \in {interruptions, interruptions + 1}
    <3>1. ASSUME Quiet \/ (\E t \in Targets : Offers(t)) \/ Receive \/ Finishes
          PROVE  tries'[m] = tries[m] /\ interruptions' \in {interruptions, interruptions + 1}
      BY <3>1 DEF Quiet, Offers, Receive, Finishes, historyVars
    <3>2. ASSUME Begins
          PROVE  tries'[m] = tries[m] /\ interruptions' \in {interruptions, interruptions + 1}
      <4>1. batch # << >> /\ UNCHANGED <<batch, interruptions>>
            /\ tries' = [tries EXCEPT ![Current] = @ + 1]
        BY <3>2 DEF Begins, Begin, BeginParallel, Ready
      <4>2. Current \in Msgs /\ InBatch(Current)
        BY <1>0, <4>1, CurrentIsHidden
      <4>3. m # Current
        BY <1>4, <4>1, <4>2 DEF InBatch
      <4> QED
        BY <1>0, <4>1, <4>2, <4>3 DEF TypeOK
    <3> QED
      BY <1>0, <3>1, <3>2, Kinds
  <2>2. tries[m] <= 1 + interruptions + Retries
    BY <1>0 DEF RetriesBounded
  <2> QED
    BY <1>2, <1>u, <2>1, <2>2
<1> QED
  BY <1>3, <1>4

\* A try sends to each target once.
LEMMA NextCopies == IndInv /\ [Next]_vars => \A m \in Msgs : OneCopyPerTry(m)'
<1> SUFFICES ASSUME IndInv, [Next]_vars, NEW m \in Msgs, NEW u \in Targets
             PROVE  sent'[m][u] + (IF InDelivery(m)' /\ u \in left' THEN 1 ELSE 0) <= tries'[m]
  BY DEF OneCopyPerTry
<1>0. TypeOK /\ BatchShape
  BY DEF IndInv
<1>c. sent[m][u] + (IF InDelivery(m) /\ u \in left THEN 1 ELSE 0) <= tries[m]
  BY DEF IndInv, OneCopyPerTry
<1>t. sent[m][u] \in Nat /\ tries[m] \in Nat
  BY <1>0 DEF TypeOK
<1> DEFINE Goal == sent'[m][u] + (IF InDelivery(m)' /\ u \in left' THEN 1 ELSE 0) <= tries'[m]
<1>1. ASSUME Quiet PROVE Goal
  <2>1. UNCHANGED <<sent, tries, left>> /\ InDelivery(m)' = InDelivery(m)
    BY <1>1 DEF Quiet, historyVars, InDelivery, Current
  <2> QED
    BY <1>c, <2>1
<1>2. ASSUME Receive \/ Finishes PROVE Goal
  <2>1. UNCHANGED <<sent, tries>>
    BY <1>2 DEF Receive, Finishes, historyVars
  <2>2. ~InDelivery(m)'
    <3>1. ASSUME Receive PROVE stage' = "next"
      BY <1>0, <3>1 DEF Receive, BatchShape, TypeOK
    <3>2. ASSUME Finishes PROVE stage' = "next"
      BY <1>0, <3>2, EndsParts DEF Finishes
    <3> QED
      BY <1>2, <3>1, <3>2 DEF InDelivery
  <2> QED
    BY <1>c, <1>t, <2>1, <2>2
<1>3. ASSUME Begins PROVE Goal
  <2>1. /\ batch # << >> /\ stage = "next" /\ UNCHANGED <<batch, sent>>
        /\ tries' = [tries EXCEPT ![Current] = @ + 1]
    BY <1>3 DEF Begins, Begin, BeginParallel, Ready
  <2>2. Current \in Msgs /\ Current' = Current /\ ~InDelivery(m)
    BY <1>0, <2>1, CurrentIsHidden DEF InDelivery, Current
  <2>3. tries'[m] = IF m = Current THEN tries[m] + 1 ELSE tries[m]
    BY <1>0, <2>1, <2>2 DEF TypeOK
  <2>4. InDelivery(m)' => m = Current
    BY <2>2 DEF InDelivery
  <2> QED
    BY <1>c, <1>t, <2>1, <2>2, <2>3, <2>4
<1>4. ASSUME NEW t \in Targets, Offers(t) PROVE Goal
  <2>1. /\ batch # << >> /\ UNCHANGED <<tries, batch, stage>> /\ stage = "deliver"
        /\ t \in left /\ left' = left \ {t}
    BY <1>0, <1>4 DEF Offers, Offer, BatchShape
  <2>2. InDelivery(m)' = InDelivery(m) /\ (InDelivery(m) <=> m = Current)
    BY <2>1 DEF InDelivery, Current
  <2>3. CASE Got(t)
    <3>1. sent'[m][u] = IF m = Current /\ u = t THEN sent[m][u] + 1 ELSE sent[m][u]
      BY <1>0, <2>1, <2>3, GotParts
    <3> QED
      BY <1>c, <1>t, <2>1, <2>2, <3>1
  <2>4. CASE UNCHANGED sent
    BY <1>c, <1>t, <2>1, <2>2, <2>4
  <2> QED
    BY <1>4, <2>3, <2>4 DEF Offers
<1> QED
  BY <1>0, <1>1, <1>2, <1>3, <1>4, Kinds

-----------------------------------------------------------------------------
\* Every step keeps the inductive invariant.
LEMMA IndInvHolds == Spec => []IndInv
<1>1. IndInv /\ [Next]_vars => IndInv'
  BY NextTypes, NextShape, NextOffers, NextTries, NextRetriesBounded, NextCopies DEF IndInv
<1> QED
  BY <1>1, InitIndInv, PTL DEF Spec

\* Without a pool, no processor deletes a message that was not offered to all of
\* its targets (process_sqs_message and its azure and gcp counterparts), whatever
\* the messages, the page size and the faults.
THEOREM NothingIsLost == Spec => []SequentialLosesNothing
<1>1. IndInv => SequentialLosesNothing
  BY DEF IndInv
<1> QED
  BY <1>1, IndInvHolds, PTL

\* A target gets a message, and a delivery is begun, once more at the most for
\* each interruption and each of the azure processor's max_message_retry.
THEOREM RepeatsAreAccountedFor == Spec => []RepeatsHaveReason
<1>1. IndInv => RepeatsHaveReason
  <2> SUFFICES ASSUME IndInv PROVE RepeatsHaveReason
    OBVIOUS
  <2>1. TypeOK /\ RetriesBounded /\ \A m \in Msgs : OneCopyPerTry(m)
    BY DEF IndInv
  <2>2. ASSUME NEW m \in Msgs, NEW t \in Targets
        PROVE  sent[m][t] <= 1 + interruptions + Retries
    <3>1. sent[m][t] \in Nat /\ tries[m] \in Nat /\ interruptions \in Nat /\ Retries \in Nat
      BY <2>1, SetupParts DEF TypeOK
    <3>2. sent[m][t] <= tries[m]
      BY <2>1, <3>1 DEF OneCopyPerTry
    <3>3. tries[m] <= 1 + interruptions + Retries
      BY <2>1 DEF RetriesBounded
    <3> QED
      BY <3>1, <3>2, <3>3
  <2> QED
    BY <2>1, <2>2 DEF RepeatsHaveReason, CopiesHaveReason
<1> QED
  BY <1>1, IndInvHolds, PTL
=============================================================================
