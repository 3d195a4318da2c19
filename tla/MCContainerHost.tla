--------------------------- MODULE MCContainerHost ---------------------------
(***************************************************************************)
(* Instances of ContainerHost for TLC: a file at the top of the container  *)
(* and one in a subdirectory, two versions each, and three messages.      *)
(***************************************************************************)
EXTENDS ContainerHost

CONSTANTS m1, m2, m3, e1, bad

Pol(n, mode, rev) == [name |-> n, mode |-> mode, rev |-> rev]

\* Version 1 of a.yml has a periodic and an event policy; version 2 turns the
\* first into an event policy and has an invalid one behind it.
A1 == <<Pol("p", "periodic", 1), Pol("q", "event", 1)>>
A2 == <<Pol("p", "event", 2), Pol("q", "invalid", 2)>>

\* Version 1 of the other has a policy with a wrong schedule, which hides the one
\* behind it; version 2 comes from a client that stores no md5.
B1 == <<Pol("r", "event", 1), Pol("s", "unscheduled", 1), Pol("t", "event", 1)>>
B2 == <<Pol("r", "event", 2)>>

MCVersions == [f \in Names |->
                 IF f = "a.yml" THEN {A1, A2} ELSE {B1, B2}]
MCUnhashable == {B2}

MCEventOf == [m \in Msgs |-> IF m = m2 THEN bad ELSE e1]

Budget(edit, event, download, queue, restart) ==
    [edit |-> edit, event |-> event, download |-> download, queue |-> queue,
     restart |-> restart]

\* Many edits with a failing download; three messages and a failing call; two
\* edits and a message with a restart.
MCBudgets == {Budget(4, 0, 1, 0, 0), Budget(1, 3, 0, 1, 0), Budget(2, 1, 0, 0, 1)}
=============================================================================
