--------------------------- MODULE MCResourceCache ---------------------------
(***************************************************************************)
(* Instances of ResourceCache for TLC: two processes that share one        *)
(* file, with different cache periods.                                     *)
(***************************************************************************)
EXTENDS ResourceCache

CONSTANTS p1, p2, k1

TwoProcs == {p1, p2}
OneKey == {k1}

\* One process keeps results for longer than the other.
MCPeriod == [q \in Procs |-> IF q = p1 THEN 1 ELSE 2]
=============================================================================
