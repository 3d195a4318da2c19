--------------------------- MODULE MCLogTransport ---------------------------
(***************************************************************************)
(* Instances of LogTransport for TLC: a few records, a small batch, two    *)
(* handlers in a row, and one fault of each kind.                          *)
(***************************************************************************)
EXTENDS LogRefinement

CONSTANTS m1, m2, m3

MCMsgs == {m1, m2, m3}

AllFaults == [k \in FaultKinds |-> 1]
=============================================================================
