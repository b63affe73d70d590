---------------------------- MODULE MCRemoveTree ----------------------------
(* A tree with a link out of it and a directory that may become a link to   *)
(* where two of its paths name something too.                               *)
EXTENDS RemoveTree, TLC

CONSTANTS p1, p2, top, sub, file, new, out, other, stray

ParentOf ==
    [n \in Nodes \ {Top} |->
       CASE n \in {sub, out} -> top
         [] n \in {file, new} -> sub
         [] OTHER -> other]
MayRefuse == {<<sub, "list">>, <<sub, "read">>, <<file, "remove">>}
BelowSub == sub :> {file, new}
TargetOf == out :> other
=============================================================================
