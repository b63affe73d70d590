---------------------------- MODULE Reclamation -----------------------------
(***************************************************************************)
(* What the program promises about a tree, with no processes, manifest or  *)
(* quarantine directory in sight.  A tree is built, may be taken out of    *)
(* its root whole, in one step, and is then erased; it never comes back.   *)
(* Only a tree at a granted place is taken, and a place is granted only    *)
(* while a tree stands there that no pin marker protects.                  *)
(* Sources of the promise: the head of executor.rs and docs/safety-model.  *)
(***************************************************************************)
CONSTANTS Trees, Home

VARIABLES
    loc,        \* loc[t]: where tree t is
    pinned,     \* places below a .reap-keep marker
    granted     \* places some armed run has judged removable and not yet tried

vars == <<loc, pinned, granted>>

Places == {Home[t] : t \in Trees}

Grantable == {p \in Places \ pinned : \E t \in Trees : loc[t] = "root" /\ Home[t] = p}

Init ==
    /\ loc \in [Trees -> {"unborn", "root"}]
    /\ pinned = {}
    /\ granted = {}

Build(t) ==
    /\ loc[t] = "unborn"
    /\ loc' = [loc EXCEPT ![t] = "root"]
    /\ UNCHANGED <<pinned, granted>>

Pin ==
    /\ pinned' \in SUBSET Places
    /\ UNCHANGED <<loc, granted>>

\* Runs judge places, give places up, finish and die.
Judge ==
    /\ granted' \in SUBSET (granted \cup Grantable)
    /\ UNCHANGED <<loc, pinned>>

Take(t) ==
    /\ loc[t] = "root"
    /\ Home[t] \in granted
    /\ loc' = [loc EXCEPT ![t] = "quarantine"]
    /\ granted' \in {granted, granted \ {Home[t]}}
    /\ UNCHANGED pinned

Erase(t) ==
    /\ loc[t] = "quarantine"
    /\ loc' = [loc EXCEPT ![t] = "gone"]
    /\ UNCHANGED <<pinned, granted>>

Next ==
    \/ Pin
    \/ Judge
    \/ \E t \in Trees : Build(t) \/ Take(t) \/ Erase(t)

\* The promise about safety, and the one about progress added to it.
Safe == Init /\ [][Next]_vars
Spec == Safe /\ \A t \in Trees : WF_vars(Erase(t))
=============================================================================
