------------------------------ MODULE MCSweep -------------------------------
(* Values for the constants of Sweep that a configuration file cannot write. *)
EXTENDS Sweep

CONSTANTS r1, r2, t1, t2, t3

\* Two places; a tree may be built again at the first one.
TwoPlaces == [t \in Trees |-> IF t = t2 THEN 2 ELSE 1]
EveryScope == [r \in Runs |-> Places]
OneCommand == [r \in Runs |-> IF r \in Sessions THEN 0 ELSE 1]
SessionAtOne == [r \in Runs |-> IF r \in Sessions THEN {1} ELSE Places]
NoCommands == [r \in Runs |-> 0]
=============================================================================
