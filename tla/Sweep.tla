------------------------------- MODULE Sweep --------------------------------
(***************************************************************************)
(* One invocation of `reap sweep` or `reap gc-session` from end to end     *)
(* (commands/sweep.rs execute, commands/gc_session.rs run, select.rs,      *)
(* context.rs, commands/commands_runner.rs), several of them at once, over *)
(* the executor of module Executor; and the world they run in: builds that *)
(* put trees back, supervisors and users who claim places, an edited       *)
(* configuration, and processes killed at any point.                       *)
(***************************************************************************)
EXTENDS Executor

CONSTANTS
    Scope,      \* Scope[r]: places a rule of run r's tiers matches; for a
                \* gc-session, those of them that belong to the session
    Commands,   \* Commands[r]: number of command rules in run r's tiers
    Sessions,   \* the runs that are gc-sessions
    Timer,      \* the runs the installed timer starts, always with --apply
    Stubborn,   \* trees that cannot be removed whole until repaired
    CanClaim,   \* places a heartbeat may come to claim
    CanPin,     \* places a pin marker may be put on
    CanEdit,    \* whether dry_run is edited while runs are under way
    MaxCrashes  \* bound on the processes killed

ASSUME ScopesOK ==
    /\ Scope \in [Runs -> SUBSET Places]
    /\ Commands \in [Runs -> Nat]
    /\ Sessions \subseteq Runs
    /\ \A r \in Sessions : Commands[r] = 0
    /\ Timer \subseteq Runs
    /\ Stubborn \subseteq Trees
    /\ CanClaim \subseteq Places
    /\ CanPin \subseteq Places
    /\ CanEdit \in BOOLEAN
    /\ MaxCrashes \in Nat

VARIABLES
    dryRun,     \* dry_run in the configuration file
    claimed,    \* places a live heartbeat names
    pinned,     \* places at or below a pin marker
    crashes     \* processes killed so far

worldVars == <<dryRun, claimed, pinned, crashes>>
vars == <<fsVars, run, worldVars>>

Init ==
    /\ loc \in [Trees -> {"unborn", "root"}]
    /\ \A t, u \in Trees : InRoot(t) /\ InRoot(u) /\ Home[t] = Home[u] => t = u
    /\ torn = {}
    /\ stubborn = Stubborn
    /\ scratch = [s \in Scratches |-> "none"]
    /\ litter = FALSE
    /\ manifest = <<>>
    /\ run = [r \in Runs |-> FreshRun]
    /\ dryRun \in BOOLEAN
    /\ claimed \in SUBSET CanClaim
    /\ pinned = {}
    /\ crashes = 0

-----------------------------------------------------------------------------
(* A run. *)

\* sweep::gate: the two opt-ins.
Gate(apply) ==
    IF ~apply THEN "not-requested" ELSE IF dryRun THEN "config-dry" ELSE "armed"

Armed(r) == run[r].gate = "armed"

\* Mutant: heartbeats once read are believed in every later run.
Load_BeatsKept(r, apply) ==
    /\ run[r].pc \in {"idle", "done"}
    /\ Become(r, [FreshRun EXCEPT !.pc = "select", !.gate = Gate(apply),
                                  !.beats = run[r].beats \cup claimed,
                                  !.roots = NRoots, !.cmds = Commands[r]])
    /\ UNCHANGED <<fsVars, worldVars>>

\* Context::with_config: configuration, heartbeats and roots are read once.
Load(r, apply) ==
    /\ run[r].pc \in {"idle", "done"}
    /\ Become(r, [FreshRun EXCEPT !.pc = "select", !.gate = Gate(apply),
                                  !.beats = claimed, !.roots = NRoots,
                                  !.cmds = Commands[r]])
    /\ UNCHANGED <<fsVars, worldVars>>

\* What plan proposes, and what the guards let through: heartbeats as they were
\* when the run began, everything else as it is now.
Candidates(r) == {p \in Scope[r] : \E t \in Trees : InRoot(t) /\ Home[t] = p}

\* Mutant: the pin marker is not looked for.
Selected_PinIgnored(r) == Candidates(r) \ run[r].beats

Selected(r) == Candidates(r) \ (run[r].beats \cup pinned)

\* Mutant: execute forgets to ask the gate.
Select_GateIgnored(r) ==
    /\ At(r, "select")
    /\ Become(r, [run[r] EXCEPT !.pc = "open", !.sel = Selected(r), !.todo = Selected(r)])
    /\ UNCHANGED <<fsVars, worldVars>>

\* select::select, narrowed by gc-session, which stops when nothing is its own.
Select(r) ==
    /\ At(r, "select")
    /\ \E walkError \in MayFail("walk") :
          Become(r, [run[r] EXCEPT
              !.pc = IF r \in Sessions /\ Candidates(r) = {} THEN "done"
                     ELSE IF Armed(r) THEN "open" ELSE "report",
              !.code = IF r \in Sessions /\ Candidates(r) = {} THEN ExitNothing ELSE @,
              !.sel  = Selected(r),
              !.todo = IF Armed(r) THEN Selected(r) ELSE {},
              !.errs = walkError])
    /\ UNCHANGED <<fsVars, worldVars>>

\* run_command_rules: a rule that fails is reported and the next one tried.
RunCommand(r) ==
    /\ At(r, "command")
    /\ run[r].cmds > 0
    /\ ~run[r].late
    /\ \E failed \in MayFail("command") :
          Become(r, [run[r] EXCEPT !.cmds = @ - 1, !.errs = @ \/ failed])
    /\ UNCHANGED <<fsVars, worldVars>>

CommandsEnd(r) ==
    /\ At(r, "command")
    /\ run[r].cmds = 0 \/ run[r].late
    /\ Goto(r, "report")
    /\ UNCHANGED <<fsVars, worldVars>>

ExitCode(r) ==
    IF run[r].gate = "config-dry" THEN ExitConfig
    ELSE IF Armed(r) /\ run[r].errs THEN ExitPartial
    ELSE IF run[r].sel = {} /\ Commands[r] = 0 THEN ExitNothing
    ELSE ExitSuccess

Report(r) ==
    /\ At(r, "report")
    /\ Become(r, [run[r] EXCEPT !.pc = "done", !.code = ExitCode(r)])
    /\ UNCHANGED <<fsVars, worldVars>>

RunStep(r) ==
    \/ Select(r)
    \/ ExecutorStep(r) /\ UNCHANGED worldVars
    \/ RunCommand(r) \/ CommandsEnd(r) \/ Report(r)

-----------------------------------------------------------------------------
(* The world. *)

\* The process is killed.  Its memory is lost, the file system is not: a scratch
\* directory in the quarantine is left to the next recovery, and one in a root
\* is left there, since no run ever looks for it.
Crash(r) ==
    /\ run[r].pc \notin {"idle", "done"}
    /\ crashes < MaxCrashes
    /\ crashes' = crashes + 1
    /\ Become(r, FreshRun)
    /\ IF run[r].pc \in {"verifyRename", "verifyUndo"}
       THEN litter' = TRUE /\ scratch' = [scratch EXCEPT ![run[r].cur] = "none"]
       ELSE UNCHANGED <<litter, scratch>>
    /\ UNCHANGED <<loc, torn, stubborn, manifest, dryRun, claimed, pinned>>

\* A build puts a tree at a place where there is none.
Build(t) ==
    /\ loc[t] = "unborn"
    /\ \A u \in Trees : InRoot(u) => Home[u] # Home[t]
    /\ loc' = [loc EXCEPT ![t] = "root"]
    /\ UNCHANGED <<torn, stubborn, scratch, litter, manifest, run, worldVars>>

\* A supervisor begins or ends a session's heartbeat for a place.
Heartbeat(p) ==
    /\ p \in CanClaim
    /\ claimed' \in {claimed \cup {p}, claimed \ {p}}
    /\ UNCHANGED <<fsVars, run, dryRun, pinned, crashes>>

\* The user creates or removes a pin marker.
PinMarker(p) ==
    /\ p \in CanPin
    /\ pinned' \in {pinned \cup {p}, pinned \ {p}}
    /\ UNCHANGED <<fsVars, run, dryRun, claimed, crashes>>

\* The user edits dry_run.
EditConfig ==
    /\ CanEdit
    /\ dryRun' = ~dryRun
    /\ UNCHANGED <<fsVars, run, claimed, pinned, crashes>>

\* The user repairs the permissions inside a tree, or what wrote into it ends.
Repair(t) ==
    /\ t \in stubborn
    /\ stubborn' = stubborn \ {t}
    /\ UNCHANGED <<loc, torn, scratch, litter, manifest, run, worldVars>>

World ==
    \/ \E r \in Runs : Crash(r)
    \/ \E t \in Trees : Build(t) \/ Repair(t)
    \/ \E p \in Places : Heartbeat(p) \/ PinMarker(p)
    \/ EditConfig

\* The installed timer units pass --apply; people pass it or not.
Start(r) == \E apply \in BOOLEAN : (r \in Timer => apply) /\ Load(r, apply)

Next ==
    \/ \E r \in Runs : Start(r) \/ RunStep(r)
    \/ World

Spec == Init /\ [][Next]_vars

-----------------------------------------------------------------------------
(* Properties. *)

\* The state has the shape the code gives it.
TypeOK ==
    /\ loc \in [Trees -> TreeLoc]
    /\ torn \subseteq Trees
    /\ stubborn \subseteq Trees
    /\ scratch \in [Scratches -> {"none", "root", "quarantine"}]
    /\ litter \in BOOLEAN
    /\ manifest \in Seq(Trees \cup {NL})
    /\ run \in [Runs -> RunState]
    /\ dryRun \in BOOLEAN
    /\ claimed \subseteq Places
    /\ pinned \subseteq Places
    /\ crashes \in Nat

\* There is no state in which a build directory is half removed: whatever has
\* lost a part is already out of its root, whoever crashed or failed on the way.
NeverHalfRemoved == \A t \in torn : Staged(t) \/ loc[t] = "gone"

\* A tree that is out of its root was staged once: no two live runs both hold it
\* as theirs to drain, however their selections overlap.
OneOwner ==
    \A q, r \in Runs : q # r => run[q].staged \cap run[r].staged = {}

\* Leftovers first: a run that has reached its own work has removed everything
\* its listing of the quarantine found, or is going to say that it could not.
LeftoversFirst ==
    \A r \in Runs :
        run[r].pc \in {"verify", "verifyRename", "verifyUndo", "verifyClean", "stage",
                       "append", "newline"}
        => \A t \in run[r].seen : loc[t] = "gone" \/ run[r].errs

\* An armed run that exits 0 did everything: each selected place was staged
\* unless time ran out, and what it staged and what it found staged is erased,
\* also when another run was removing the same entries.
SuccessIsComplete ==
    \A r \in Runs :
        run[r].pc = "done" /\ Armed(r) /\ run[r].code = ExitSuccess
        => /\ \A t \in run[r].staged \cup run[r].seen : loc[t] = "gone"
           /\ run[r].late \/ run[r].sel = {Home[t] : t \in run[r].staged}

\* A run that exits 3 took nothing out of any root (if it was armed, its rename
\* tests made scratch directories there and renamed them away), and one that was
\* not given both opt-ins took nothing and did not look into the quarantine either.
IdleExitsTouchNothing ==
    \A r \in Runs :
        run[r].pc = "done" /\ (run[r].code = ExitNothing \/ ~Armed(r))
        => run[r].staged = {} /\ (~Armed(r) => ~run[r].found)

\* A run that is alone and exits 0 leaves an empty quarantine and an empty
\* manifest, whatever the runs before it left behind; but for the scratch
\* directories of its own rename tests, if their removal failed.
SuccessLeavesNothingStaged ==
    \A r \in Runs :
        Runs = {r} /\ run[r].pc = "done" /\ Armed(r) /\ run[r].code = ExitSuccess
        => /\ \A e \in QuarantineEntries : e \in Scratches /\ "cleanup" \in Faults
           /\ manifest = <<>>

\* Trees are taken the way the specification Reclamation allows.
GrantLabels == ArmedLabels \ {"drain", "drainRemove", "drainTruncate", "command"}
Granted == UNION {run[r].todo : r \in {q \in Runs : run[q].pc \in GrantLabels}}
R == INSTANCE Reclamation WITH granted <- Granted
TakenAsPromised == R!Safe

-----------------------------------------------------------------------------
(* Progress. *)

\* The scheduler runs every process, the timer keeps firing, and whoever owns a
\* tree with something unremovable in it sees to that some day.
Fairness ==
    /\ \A r \in Runs : WF_vars(RunStep(r))
    /\ \A r \in Timer : WF_vars(Start(r))
    /\ \A t \in Trees : WF_vars(Repair(t))

FairSpec == Spec /\ Fairness

StaysArmed == <>[](~dryRun)

\* An interruption is made good: a tree that was staged, or a scratch directory
\* that a killed run left in the quarantine, is erased by some run, if the
\* configuration does not go back to dry for ever.
StagedIsErased ==
    StaysArmed => \A e \in Entry : Present(e) ~> ~Present(e)

\* A tree that stays where a rule of the timer's matches it and that nobody
\* claims or pins any more is reclaimed.
EligibleIsReclaimed ==
    StaysArmed =>
        \A t \in Trees :
            (/\ \E r \in Timer : Home[t] \in Scope[r]
             /\ <>[](Home[t] \notin claimed \cup pinned))
            => (InRoot(t) ~> loc[t] = "gone")

\* Every run comes to an end, with one exception: its recovery reads the listing
\* of the quarantine as it goes and has no time limit, so that it goes on for as
\* long as others keep putting entries there.  Nothing else keeps a run, not a
\* process that removes the same entries nor a place that is built again.
Fed(r) ==
    /\ run[r].pc \in {"recover", "recoverRemove"}
    /\ QuarantineEntries' \ QuarantineEntries # {}

RunsEnd ==
    \A r \in Runs :
        \/ run[r].pc = "select" ~> run[r].pc \in {"done", "idle"}
        \/ []<><<Fed(r)>>_vars
=============================================================================
