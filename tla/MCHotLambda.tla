----------------------------- MODULE MCHotLambda -----------------------------
(***************************************************************************)
(* Instances of HotLambda for TLC: the lambda's account and two members,   *)
(* and two regions.                                                        *)
(***************************************************************************)
EXTENDS HotLambda

CONSTANTS home, a1, a2, r1, r2

MCAccounts == {home, a1, a2}
MCRegions == {r1, r2}

\* Security hub findings about regional resources of the lambda's own account and
\* of two members.
RegionalPlaces == {[account |-> home, region |-> r1], [account |-> a1, region |-> r1],
                   [account |-> a2, region |-> r1], [account |-> a2, region |-> r2]}
=============================================================================
