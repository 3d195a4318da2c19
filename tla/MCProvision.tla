----------------------------- MODULE MCProvision -----------------------------
(***************************************************************************)
(* Instances of Provision for TLC: the versions of a policy file.          *)
(***************************************************************************)
EXTENDS Provision

Version(kind, group, spec, conf, concurrency, arch) ==
    [kind |-> kind, group |-> group, spec |-> spec, conf |-> conf,
     concurrency |-> concurrency, arch |-> arch]

\* Versions that differ in their event, in their settings, and in everything.
OfKind(kind, group) ==
    {Version(kind, group, "s1", "c1", 0, "x86_64"),
     Version(kind, group, "s1", "c2", 5, "arm64"),
     Version(kind, group, "s2", "c1", 5, "x86_64")}

Scheduling(group) == Version("schedule", group, "s1", "c1", 0, "x86_64")

SameKind == {OfKind(kind, Default) : kind \in Kinds}
Regrouped == {{Scheduling(Default), Scheduling("g1"), Scheduling("g2")}}

\* periodic mode to schedule mode and back.
Rescheduled == {{Version("rule", Default, "s1", "c1", 0, "x86_64"),
                 Version("schedule", Default, "s2", "c2", 0, "arm64")}}

Edited == SameKind \cup Regrouped \cup Rescheduled
=============================================================================
