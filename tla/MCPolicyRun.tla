----------------------------- MODULE MCPolicyRun -----------------------------
(***************************************************************************)
(* Instances of PolicyRun for TLC.                                         *)
(***************************************************************************)
EXTENDS PolicyRun

Pull(n, amount, percent, op) ==
    [mode |-> "pull", actions |-> n, amount |-> amount, percent |-> percent,
     op |-> op]

\* A policy with both limits, and one to provision.
TwoPolicies ==
    << Pull(2, 1, 50, "and"),
       [Pull(1, Unset, Unset, "or") EXCEPT !.mode = "serverless"] >>
=============================================================================
