---------------------------- MODULE MCTagActions ----------------------------
(***************************************************************************)
(* Instances of TagActions for TLC: three resources in batches of two, room *)
(* for two tags, one other key.                                            *)
(***************************************************************************)
EXTENDS TagActions

CONSTANTS r1, r2, r3, v1, v2, x

MCFound == <<r1, r2, r3>>

T(o, n, rest) == [old |-> o, new |-> n, rest |-> rest]

\* With the old key, with and without room for another, with the new key only,
\* and with both.
MCEnumerated ==
    {[r \in Matched |-> CASE r = r1 -> t1 [] r = r2 -> t2 [] r = r3 -> t3] :
        t1 \in {T(v1, NoTag, {}), T(v1, NoTag, {x})},
        t2 \in {T(v1, NoTag, {x}), T(NoTag, v2, {})},
        t3 \in {T(v2, NoTag, {}), T(v1, v2, {})}}

\* Everything removed, another value under the old key, no room left, and a value
\* of their own under the new key.
MCEdits == {T(NoTag, NoTag, {}), T(v2, NoTag, {}), T(v1, NoTag, {x}), T(NoTag, v2, {})}

\* At most two faults, of different kinds.
TwoFaults == {[k \in FaultKinds |-> IF k \in {i, j} THEN 1 ELSE 0] : i, j \in FaultKinds}
=============================================================================
