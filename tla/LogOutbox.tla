------------------------------ MODULE LogOutbox ------------------------------
(***************************************************************************)
(* What the CloudWatch log handler promises its user, without the buffer,  *)
(* the queue, the transport thread and the sequence tokens that implement  *)
(* it (LogTransport, mapped by LogRefinement).                             *)
(*                                                                         *)
(* The outbox takes records while it is open.  A record it took stays      *)
(* pending until the service confirms it or it is given up, in whatever    *)
(* order; a delivery whose confirmation is lost leaves it pending, so it   *)
(* may be delivered again.  The outbox closes only when nothing is         *)
(* pending.                                                                *)
(***************************************************************************)
EXTENDS Integers

CONSTANT Msgs

VARIABLES
    open,          \* records may be taken
    pending,       \* taken, neither confirmed nor given up
    stored,        \* how many times the service holds each record
    refused,       \* records that were not taken
    givenUp        \* records that were abandoned with an error

outboxVars == <<open, pending, stored, refused, givenUp>>

Init ==
    /\ open = TRUE
    /\ pending = {}
    /\ stored = [m \in Msgs |-> 0]
    /\ refused = {}
    /\ givenUp = {}

\* A record the outbox has never seen.
New(m) == m \notin pending \cup refused \cup givenUp /\ stored[m] = 0

Take(m) ==
    /\ open /\ New(m)
    /\ pending' = pending \cup {m}
    /\ UNCHANGED <<open, stored, refused, givenUp>>

Refuse(m) ==
    /\ open /\ New(m)
    /\ refused' = refused \cup {m}
    /\ UNCHANGED <<open, pending, stored, givenUp>>

\* The service takes a batch of pending records, and only of those.
Deliver(ms) ==
    /\ ms # {}
    /\ stored' = [m \in Msgs |-> IF m \in ms THEN stored[m] + 1 ELSE stored[m]]
    /\ pending' = pending \ ms
    /\ UNCHANGED <<open, refused, givenUp>>

DeliverUnconfirmed(ms) ==
    /\ ms # {}
    /\ stored' = [m \in Msgs |-> IF m \in ms THEN stored[m] + 1 ELSE stored[m]]
    /\ UNCHANGED <<open, pending, refused, givenUp>>

GiveUp(ms) ==
    /\ ms # {}
    /\ givenUp' = givenUp \cup ms
    /\ pending' = pending \ ms
    /\ UNCHANGED <<open, stored, refused>>

Close ==
    /\ open /\ pending = {}
    /\ open' = FALSE
    /\ UNCHANGED <<pending, stored, refused, givenUp>>

\* The next policy's handler.
Reopen ==
    /\ ~open
    /\ open' = TRUE
    /\ UNCHANGED <<pending, stored, refused, givenUp>>

Next ==
    \/ \E m \in Msgs : Take(m) \/ Refuse(m)
    \/ \E ms \in SUBSET pending : Deliver(ms) \/ DeliverUnconfirmed(ms) \/ GiveUp(ms)
    \/ Close
    \/ Reopen

Spec == Init /\ [][Next]_outboxVars
=============================================================================
