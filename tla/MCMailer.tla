------------------------------ MODULE MCMailer ------------------------------
(***************************************************************************)
(* Instances of Mailer for TLC: two messages, every provider.              *)
(***************************************************************************)
EXTENDS Mailer

CONSTANTS m1, m2

MCTo == [m \in Msgs |-> IF m = m1 THEN {"email", "slack"} ELSE {"sns", "datadog"}]

Setup(p, parallel, bad) == [provider |-> p, parallel |-> parallel, malformed |-> bad]

\* Each processor, with and without a malformed message, and the aws pool.
AllSetups ==
    {Setup(p, FALSE, bad) : p \in {"aws", "azure", "gcp"}, bad \in {{}, {m2}}}
        \cup {Setup("aws", TRUE, {})}

\* At most two faults, of different kinds.
TwoFaults == {[k \in FaultKinds |-> IF k \in {i, j} THEN 1 ELSE 0] : i, j \in FaultKinds}
=============================================================================
