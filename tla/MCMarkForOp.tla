---------------------------- MODULE MCMarkForOp -----------------------------
(***************************************************************************)
(* Instances of MarkForOp for TLC: days of three hours.                   *)
(***************************************************************************)
EXTENDS MarkForOp

Config(d, h, zone, offset, skew) ==
    [days |-> d, hours |-> h, zone |-> zone, offset |-> offset, skew |-> skew]

\* Days, hours, both or neither, in UTC and in zones on both sides of it, with
\* and without skew.
MCConfigs ==
    {Config(d, h, z[1], z[2], s) :
        d \in {None, 1}, h \in {None, 2}, z \in {<<"utc", 0>>, <<"other", 1>>, <<"other", -1>>},
        s \in {0, 1}}
=============================================================================
