----------------------------- MODULE RemovePass -----------------------------
(***************************************************************************)
(* What the executor counts on when it removes an entry of the quarantine: *)
(* the contract of remove_tree, in the terms module Executor uses.  A pass *)
(* over a tree ends clean only when nothing of it is left; it ends with an *)
(* error, or leaves something, only when the tree is obstructed or another *)
(* pass was at work on it meanwhile, and in the latter case nothing is     *)
(* left all the same.                                                      *)
(***************************************************************************)
CONSTANT Removers       \* the processes that may remove the tree

VARIABLES
    tree,       \* "whole", "part" or "gone"
    obstructed, \* whether something in the tree cannot be removed
    pass,       \* pass[p]: what process p has to say about its pass
    raced       \* raced[p]: whether another pass overlapped that of p

vars == <<tree, obstructed, pass, raced>>

Init ==
    /\ tree = "whole"
    /\ obstructed \in BOOLEAN
    /\ pass = [p \in Removers |-> "none"]
    /\ raced = [p \in Removers |-> FALSE]

Walking(p) == pass[p] = "walking"

Begin(p) ==
    /\ ~Walking(p)
    /\ pass' = [pass EXCEPT ![p] = "walking"]
    /\ raced' = [q \in Removers |->
                   IF q = p THEN \E o \in Removers : Walking(o)
                   ELSE raced[q] \/ Walking(q)]
    /\ UNCHANGED <<tree, obstructed>>

RemoveSome ==
    /\ \E p \in Removers : Walking(p)
    /\ tree = "whole"
    /\ tree' = "part"
    /\ UNCHANGED <<obstructed, pass, raced>>

\* The last of the tree goes; passes under way may still have names to try.
RemoveLast ==
    /\ \E p \in Removers : Walking(p)
    /\ tree # "gone"
    /\ tree' = "gone"
    /\ UNCHANGED <<obstructed, pass, raced>>

EndClean(p) ==
    /\ Walking(p)
    /\ tree = "gone"
    /\ pass' = [pass EXCEPT ![p] = "clean"]
    /\ UNCHANGED <<tree, obstructed, raced>>

EndFailed(p) ==
    /\ Walking(p)
    /\ obstructed \/ (raced[p] /\ tree = "gone")
    /\ pass' = [pass EXCEPT ![p] = "failed"]
    /\ UNCHANGED <<tree, obstructed, raced>>

Kill(p) ==
    /\ Walking(p)
    /\ pass' = [pass EXCEPT ![p] = "none"]
    /\ UNCHANGED <<tree, obstructed, raced>>

\* A process that still works inside the tree puts something new there, or takes a
\* directory away and puts a link in its place.
Obstruct ==
    /\ tree # "gone"
    /\ tree' \in {tree, "part"}
    /\ obstructed' = TRUE
    /\ UNCHANGED <<pass, raced>>

Next ==
    \/ RemoveSome \/ RemoveLast \/ Obstruct
    \/ \E p \in Removers :
          Begin(p) \/ EndClean(p) \/ EndFailed(p) \/ Kill(p)

Spec == Init /\ [][Next]_vars
=============================================================================
