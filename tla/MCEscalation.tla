---------------------------- MODULE MCEscalation ----------------------------
(* Values for the constants of Escalation that a configuration file cannot  *)
(* write.  Path order and tier order differ: the first tree is of tier 1.   *)
EXTENDS Escalation

TierOf == <<1, 0, 2>>
SizeOf == <<2, 1, 2>>
CommandsAt == [k \in Tiers |-> IF k = 2 THEN 1 ELSE 0]
=============================================================================
