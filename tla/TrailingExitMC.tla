-------------------------- MODULE TrailingExitMC --------------------------
(* Instances of TrailingExit for TLC. *)
EXTENDS TrailingExit

CONSTANT up

One == {up}

Clean     == [faults |-> {}, trades |-> 3, tasks |-> 3]
Faulty(f) == [faults |-> {f}, trades |-> 2, tasks |-> 2]

MCScenarios == {Clean} \cup {Faulty(f) : f \in FaultNames}

\* A stop loss that may start beside a trailing exit.
StopOverlaps == {Faulty("sells_overlap")}
=============================================================================
