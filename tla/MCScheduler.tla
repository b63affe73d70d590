---------------------------- MODULE MCScheduler -----------------------------
(* Two configurations that load and one that does not, both managers.        *)
EXTENDS Scheduler

CONSTANTS c1, c2
=============================================================================
