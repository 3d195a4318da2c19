------------------------------ MODULE MCOrgRun ------------------------------
(***************************************************************************)
(* Instances of OrgRun for TLC: two accounts that share a region, the first *)
(* with a chain of roles, the second with a region lookup, on two workers. *)
(***************************************************************************)
EXTENDS OrgRun

CONSTANTS a1, a2, w1, w2

MCAccounts == <<a1, a2>>
MCRegionsOf == [a \in {a1, a2} |-> IF a = a2 THEN {"east", "west"} ELSE {"east"}]
MCPolicies == <<"p", "q">>

\* At most two faults, of different kinds.
TwoFaults == {[k \in FaultKinds |-> IF k \in {i, j} THEN 1 ELSE 0] : i, j \in FaultKinds}
=============================================================================
