------------------------------ MODULE Processes ------------------------------
(***************************************************************************)
(* What the liveness guard knows of other processes: the inspectors of     *)
(* crates/reap-platform (linux.rs, macos.rs) behind the cache of one run   *)
(* (cache.rs).  Two questions are asked, each at most once until it has    *)
(* been answered: where processes work, and what they hold open.  For each *)
(* the processes are listed and then looked at one by one, while they      *)
(* start, move, open, close and exit.                                      *)
(***************************************************************************)
EXTENDS Naturals, FiniteSets

CONSTANTS
    Procs,      \* processes that may be inspected; others' are passed over
    CanWork     \* directories in which they may be, 0 being elsewhere

ASSUME ProcessesOK == CanWork \subseteq Nat \ {0}

Questions == {"live_cwds", "open_paths"}
Places == CanWork \cup {0}

VARIABLES
    alive,      \* the processes there are
    cwd,        \* cwd[p]: where p works
    open,       \* open[p]: where p has a file open
    scan,       \* the question being worked on, processes left to look at, what
                \* has been seen
    answers     \* CachedProcessInspector: answers[q] is {}, or {the answer}

processVars == <<alive, cwd, open>>
inspectorVars == <<scan, answers>>

NoScan == [of |-> "none", left |-> {}, seen |-> {}]

Seen(q, p) == IF p \notin alive THEN 0 ELSE IF q = "live_cwds" THEN cwd[p] ELSE open[p]

\* Who is where now, as far as question q goes.
Now(q) == {<<p, Seen(q, p)>> : p \in Procs} \cap (Procs \X CanWork)

InitProcesses ==
    /\ alive \in SUBSET Procs
    /\ cwd \in [Procs -> Places] /\ open \in [Procs -> Places]
    /\ \A p \in Procs : cwd[p] = 0 \/ (open[p] = 0 /\ p \in alive)
    /\ \A p \in Procs \ alive : open[p] = 0
    /\ scan = NoScan
    /\ answers = [q \in Questions |-> {}]

-----------------------------------------------------------------------------
(* A question. *)

\* The numeric entries of /proc, or proc_listpids, name some processes or all.
List(q, named) ==
    /\ answers[q] = {} /\ scan = NoScan
    /\ scan' = [of |-> q, left |-> named, seen |-> {}]
    /\ UNCHANGED <<processVars, answers>>

\* Mutant: the failure is kept as if nobody were there.
ListFails_Cached(q) ==
    /\ answers[q] = {} /\ scan = NoScan
    /\ answers' = [answers EXCEPT ![q] = {{}}]
    /\ UNCHANGED <<processVars, scan>>

\* proc_listpids fails, and nothing is kept of it.  (On Linux a failure is dropped
\* where it occurs, and is a listing that names fewer, or nobody.)
ListFails(q) ==
    /\ answers[q] = {} /\ scan = NoScan
    /\ UNCHANGED <<processVars, inspectorVars>>

\* One process, which may have gone in the meantime, or be where a path of other
\* names leads.
LookAt(p, real) ==
    /\ p \in scan.left
    /\ scan' = [scan EXCEPT !.left = @ \ {p},
                            !.seen = @ \cup ({Seen(scan.of, p)} \cap real)]
    /\ UNCHANGED <<processVars, answers>>

\* The answer is there, kept from before or just complete, and is kept.
Answered(q, places) ==
    /\ \/ answers[q] = {places}
       \/ scan.of = q /\ scan.left = {} /\ places = scan.seen
    /\ answers' = [answers EXCEPT ![q] = {places}]
    /\ scan' = NoScan
    /\ UNCHANGED processVars

-----------------------------------------------------------------------------
(* What processes do. *)

Move(p) ==
    /\ p \in alive
    /\ \E d \in Places \ {cwd[p]} : cwd' = [cwd EXCEPT ![p] = d]
    /\ UNCHANGED <<alive, open>>

OpenOrClose(p) ==
    /\ p \in alive
    /\ \E d \in Places \ {open[p]} : open' = [open EXCEPT ![p] = d]
    /\ UNCHANGED <<alive, cwd>>

Exit(p) ==
    /\ p \in alive
    /\ alive' = alive \ {p}
    /\ cwd' = [cwd EXCEPT ![p] = 0] /\ open' = [open EXCEPT ![p] = 0]

StartIn(p) ==
    /\ p \notin alive
    /\ alive' = alive \cup {p}
    /\ \E d \in Places : cwd' = [cwd EXCEPT ![p] = d]
    /\ UNCHANGED open

ProcessStep == \E p \in Procs : Move(p) \/ OpenOrClose(p) \/ Exit(p) \/ StartIn(p)
=============================================================================
