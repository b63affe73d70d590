---------------------------- MODULE MCHeartbeat -----------------------------
(* Two sessions: one renames a new file into place, names no pid and is      *)
(* matched by an orphaned_only rule; the other rewrites its file in place,   *)
(* declares an interval of zero, names its job's pid and its workspace bears *)
(* its id.                                                                   *)
EXTENDS Heartbeat, TLC

CONSTANTS s1, s2

MCSessions == {s1, s2}
MCDeclared == s1 :> 1 @@ s2 :> 0
=============================================================================
