----------------------------- MODULE Escalation -----------------------------
(***************************************************************************)
(* `reap sweep --until-free`, the command the installed timer runs:        *)
(* until_free and combine of commands/sweep.rs with the free-space         *)
(* accounting of context.rs.  Free space is measured, tier 0 is swept,     *)
(* free space is measured again, then tier 1, and so on.  A pass of        *)
(* execute is coarser here than in module Sweep: one process, and one step *)
(* per tree staged or command run, because what matters is what the passes *)
(* hand on to each other and what the disk does meanwhile.                 *)
(***************************************************************************)
EXTENDS Integers, FiniteSets, Functions

CONSTANTS
    Trees,      \* candidate trees, numbered in path order
    Tier,       \* Tier[t]: the tier of the rule that matches t
    Size,       \* Size[t]: what removing t frees
    Stubborn,   \* trees that drain cannot remove
    CanPin,     \* trees the user may pin or unpin meanwhile
    Commands,   \* Commands[k]: command rules of tier k
    Yields,     \* what a command may free
    Total,      \* size of the filesystem
    TargetPct,  \* the --until-free percentage
    Slack,      \* apfs_snapshot_slack_gb
    MaxRun,     \* max_run_seconds; 0 is no limit
    Faults,     \* steps that may fail: a subset of FaultKinds
    MaxUse      \* bound on the space other programs take during the run

MaxTier == 2
Tiers == 0..MaxTier
FaultKinds == {"stat", "walk", "open", "rename", "command"}

ASSUME EscalationOK ==
    /\ Trees \subseteq Nat /\ IsFiniteSet(Trees)
    /\ Tier \in [Trees -> Tiers]
    /\ Size \in [Trees -> Nat]
    /\ Stubborn \subseteq Trees
    /\ CanPin \subseteq Trees
    /\ Commands \in [Tiers -> Nat]
    /\ Yields \subseteq Nat /\ Yields # {}
    /\ Total \in Nat /\ SumFunction(Size) <= Total
    /\ TargetPct \in 0..100
    /\ Slack \in Nat
    /\ MaxRun \in Nat
    /\ Faults \subseteq FaultKinds
    /\ MaxUse \in Nat

VARIABLES
    pc,         \* where the run is
    gate,       \* what sweep::gate says, from --apply and dry_run
    tier,       \* the tier of the pass under way
    slack,      \* Context.snapshots, a OnceCell: the slack they allow, or Unread
    met,        \* the last answer of met(): "yes", "no" or "none"
    sel,        \* what the guards let through in this pass
    todo,       \* selected and not yet tried
    cmds,       \* command rules not yet run in this pass
    spent,      \* time on the budget of this pass
    errs,       \* the errors of this pass are not empty
    overall,    \* the code combined so far, and the exit code at the end
    free,       \* free space on the filesystem
    snapshots,  \* whether local snapshots hold purgeable space
    loc,        \* loc[t]: "root", "quarantine" or "gone"
    pinned,     \* pinned trees
    used        \* space other programs have taken

runVars == <<pc, gate, tier, slack, met, sel, todo, cmds, spent, errs, overall>>

\* What happened so far, for the properties.
VARIABLES
    tried,      \* trees some pass tried to stage
    late,       \* whether a pass ran out of its budget
    spared,     \* trees a pass left out because they were pinned
    ran         \* whether a command rule ran

history == <<tried, late, spared, ran>>
vars == <<runVars, free, snapshots, loc, pinned, used, history>>

Unread == -1

ExitSuccess == 0
ExitInternal == 1
ExitConfig == 2
ExitNothing == 3
ExitPartial == 4
Codes == ExitSuccess..ExitPartial

\* What the runtime exits with after a panic; no code of the program's own.
ExitPanic == 101

Armed == gate = "armed"
In(place) == {t \in Trees : loc[t] = place}

Init ==
    /\ pc = "first"
    /\ gate \in {"armed", "not_requested", "config_dry"}
    /\ tier = 0
    /\ slack = Unread
    /\ met = "none"
    /\ sel = {} /\ todo = {}
    /\ cmds = 0
    /\ spent = 0
    /\ errs = FALSE
    /\ overall = ExitNothing
    /\ free \in 0..(Total - SumFunction(Size))
    /\ snapshots \in BOOLEAN
    /\ loc \in [Trees -> {"root", "quarantine"}]
    /\ pinned \in SUBSET CanPin
    /\ used = 0
    /\ tried = {} /\ late = FALSE /\ spared = {} /\ ran = FALSE

-----------------------------------------------------------------------------
(* Context::pressure. *)

SlackNow == IF snapshots THEN Slack ELSE 0

\* The snapshots are asked for once per run.
SlackRead == IF slack = Unread THEN SlackNow ELSE slack

Lesser(a, b) == IF a < b THEN a ELSE b

\* Mutant: the raw figure, with no allowance for purgeable space.
Effective_Raw(allowed) == free

Effective(allowed) == Lesser(free + allowed, Total)

\* effective_pct >= target_pct.
Met(allowed) == 100 * Effective(allowed) >= TargetPct * Total

\* met(): `answer` is what it returns; a filesystem that cannot be asked, or is
\* of no size, is "none".
Measure(answer) ==
    \/ /\ "stat" \in Faults \/ Total = 0
       /\ answer = "none"
       /\ UNCHANGED slack
    \/ /\ Total > 0
       /\ answer = IF Met(SlackRead) THEN "yes" ELSE "no"
       /\ slack' = SlackRead

-----------------------------------------------------------------------------
(* until_free. *)

\* Precedence, most to least significant.
Rank(c) ==
    CASE c = ExitConfig -> 4
      [] c = ExitInternal -> 3
      [] c = ExitPartial -> 2
      [] c = ExitSuccess -> 1
      [] OTHER -> 0

\* Mutant: the code of the last pass.
Combine_KeepsTheLast(a, b) == b

Combine(a, b) == IF Rank(b) > Rank(a) THEN b ELSE a

\* An error that ends the run: the codes of earlier passes are lost with it.
Abort ==
    /\ pc' = "done"
    /\ overall' = ExitInternal

\* To say that nothing is to be done, the filesystem is measured a second time, and
\* is expected to answer.
First ==
    /\ pc = "first"
    /\ \E answer \in {"yes", "no", "none"} :
          /\ Measure(answer)
          /\ met' = answer
          /\ \/ answer = "none" /\ Abort
             \/ /\ answer = "yes" /\ pc' = "done"
                /\ \/ overall' = ExitNothing
                   \/ "stat" \in Faults /\ overall' = ExitPanic
             \/ answer = "no" /\ pc' = "select" /\ UNCHANGED overall
    /\ UNCHANGED <<gate, tier, sel, todo, cmds, spent, errs>>
    /\ UNCHANGED <<free, snapshots, loc, pinned, used, history>>

\* Mutant: the loop stops short of the last tier.
LastTier_OffByOne == MaxTier - 1

LastTier == MaxTier

\* A dry run ends with its first pass; an armed one when the target is met,
\* cannot be measured, or no tier is left.
NextTier ==
    /\ pc = "next"
    /\ \/ /\ ~Armed
          /\ pc' = "done"
          /\ UNCHANGED <<met, slack, tier>>
       \/ /\ Armed
          /\ \E answer \in {"yes", "no", "none"} :
                /\ Measure(answer)
                /\ met' = answer
                /\ IF answer = "no" /\ tier < LastTier
                   THEN pc' = "select" /\ tier' = tier + 1
                   ELSE pc' = "done" /\ UNCHANGED tier
    /\ UNCHANGED <<gate, sel, todo, cmds, spent, errs, overall>>
    /\ UNCHANGED <<free, snapshots, loc, pinned, used, history>>

-----------------------------------------------------------------------------
(* One pass: plan, guards and sweep::execute for the tiers up to this one. *)

InScope(t) == Tier[t] <= tier

\* Mutant: every pass plans for all tiers.
Planned_AllTiers == In("root")

Planned == {t \in In("root") : InScope(t)}

\* The command rules of the pass, those of the lower tiers among them again.
CommandsOf(k) == SumFunctionOnSet(Commands, 0..k)

Select ==
    /\ pc = "select"
    /\ sel' = Planned \ pinned
    /\ todo' = Planned \ pinned
    /\ cmds' = CommandsOf(tier)
    /\ errs' \in IF "walk" \in Faults THEN BOOLEAN ELSE {FALSE}
    /\ pc' = IF Armed THEN "open" ELSE "report"
    /\ spared' = spared \cup (Planned \cap pinned)
    /\ UNCHANGED <<gate, tier, slack, met, spent, overall>>
    /\ UNCHANGED <<free, snapshots, loc, pinned, used, tried, late, ran>>

\* The trees of S are removed, those that can be.
Removed(S) ==
    /\ loc' = [t \in Trees |-> IF t \in S \ Stubborn THEN "gone" ELSE loc[t]]
    /\ free' = free + SumFunctionOnSet(Size, S \ Stubborn)

\* Executor::open, recover and the rename tests; the budget starts after them.
Open ==
    /\ pc = "open"
    /\ \/ /\ Removed(In("quarantine"))
          /\ errs' = (errs \/ In("quarantine") \cap Stubborn # {})
          /\ spent' = 0
          /\ pc' = "stage"
          /\ UNCHANGED overall
       \/ /\ "open" \in Faults
          /\ Abort
          /\ Removed(In("quarantine")) \/ UNCHANGED <<loc, free>>
          /\ UNCHANGED <<errs, spent>>
    /\ UNCHANGED <<gate, tier, slack, met, sel, todo, cmds>>
    /\ UNCHANGED <<snapshots, pinned, used, history>>

Exhausted == MaxRun > 0 /\ spent >= MaxRun

\* An item takes some time, or next to none.
Takes(d) == spent' = spent + d

\* The next candidate in path order.
NextTree(t) == t \in todo /\ \A u \in todo : t <= u

StageFail ==
    /\ pc = "stage" /\ ~Exhausted
    /\ "rename" \in Faults
    /\ \E t \in todo :
          /\ NextTree(t)
          /\ todo' = todo \ {t}
          /\ tried' = tried \cup {t}
    /\ errs' = TRUE
    /\ \E d \in 0..1 : Takes(d)
    /\ UNCHANGED <<gate, pc, tier, slack, met, sel, cmds, overall>>
    /\ UNCHANGED <<free, snapshots, loc, pinned, used, late, spared, ran>>

Stage ==
    /\ pc = "stage" /\ ~Exhausted
    /\ \E t \in todo :
          /\ NextTree(t)
          /\ todo' = todo \ {t}
          /\ tried' = tried \cup {t}
          /\ loc' = [loc EXCEPT ![t] = "quarantine"]
    /\ \E d \in 0..1 : Takes(d)
    /\ UNCHANGED <<gate, pc, tier, slack, met, sel, cmds, errs, overall>>
    /\ UNCHANGED <<free, snapshots, pinned, used, late, spared, ran>>

\* The loop is over, or broken off; drain removes what is staged.
Drain ==
    /\ pc = "stage"
    /\ todo = {} \/ Exhausted
    /\ late' = (late \/ todo # {})
    /\ todo' = {}
    /\ Removed(In("quarantine"))
    /\ errs' = (errs \/ In("quarantine") \cap Stubborn # {})
    /\ pc' = "command"
    /\ \E d \in 0..1 : Takes(d)
    /\ UNCHANGED <<gate, tier, slack, met, sel, cmds, overall>>
    /\ UNCHANGED <<snapshots, pinned, used, tried, spared, ran>>

Command ==
    /\ pc = "command" /\ cmds > 0 /\ ~Exhausted
    /\ cmds' = cmds - 1
    /\ \/ \E y \in Yields : free' = Lesser(free + y, Total) /\ UNCHANGED errs
       \/ "command" \in Faults /\ errs' = TRUE /\ UNCHANGED free
    /\ ran' = TRUE
    /\ \E d \in 0..1 : Takes(d)
    /\ UNCHANGED <<gate, pc, tier, slack, met, sel, todo, overall>>
    /\ UNCHANGED <<snapshots, loc, pinned, used, tried, late, spared>>

CommandsEnd ==
    /\ pc = "command"
    /\ cmds = 0 \/ Exhausted
    /\ pc' = "report"
    /\ UNCHANGED <<gate, tier, slack, met, sel, todo, cmds, spent, errs, overall>>
    /\ UNCHANGED <<free, snapshots, loc, pinned, used, history>>

PassCode ==
    IF gate = "config_dry" THEN ExitConfig
    ELSE IF Armed /\ errs THEN ExitPartial
    ELSE IF sel = {} /\ CommandsOf(tier) = 0 THEN ExitNothing
    ELSE ExitSuccess

Report ==
    /\ pc = "report"
    /\ overall' = Combine(overall, PassCode)
    /\ pc' = "next"
    /\ UNCHANGED <<gate, tier, slack, met, sel, todo, cmds, spent, errs>>
    /\ UNCHANGED <<free, snapshots, loc, pinned, used, tried, late, spared, ran>>

Step ==
    \/ First \/ Select \/ Open \/ Stage \/ StageFail \/ Drain
    \/ Command \/ CommandsEnd \/ Report \/ NextTier

-----------------------------------------------------------------------------
(* Meanwhile. *)

\* Other programs fill the disk.
Use ==
    /\ used < MaxUse /\ free > 0
    /\ used' = used + 1
    /\ free' = free - 1
    /\ UNCHANGED <<runVars, snapshots, loc, pinned, history>>

\* The system takes snapshots and thins them.
Snapshot ==
    /\ snapshots' = ~snapshots
    /\ UNCHANGED <<runVars, free, loc, pinned, used, history>>

\* The user creates or removes a pin marker.
Pin(t) ==
    /\ pinned' \in {pinned \cup {t}, pinned \ {t}}
    /\ UNCHANGED <<runVars, free, snapshots, loc, used, history>>

Next == Step \/ Use \/ Snapshot \/ \E t \in CanPin : Pin(t)

Spec == Init /\ [][Next]_vars

-----------------------------------------------------------------------------
(* Properties. *)

TypeOK ==
    /\ pc \in {"first", "select", "open", "stage", "command", "report", "next", "done"}
    /\ gate \in {"armed", "not_requested", "config_dry"}
    /\ tier \in Tiers
    /\ slack \in {Unread, 0, Slack}
    /\ met \in {"yes", "no", "none"}
    /\ todo \subseteq sel /\ sel \subseteq Trees
    /\ cmds \in Nat /\ spent \in Nat
    /\ errs \in BOOLEAN /\ late \in BOOLEAN /\ ran \in BOOLEAN
    /\ overall \in Codes \/ (pc = "done" /\ overall = ExitPanic)
    /\ free \in 0..Total
    /\ snapshots \in BOOLEAN
    /\ loc \in [Trees -> {"root", "quarantine", "gone"}]
    /\ pinned \subseteq CanPin
    /\ used \in 0..MaxUse
    /\ tried \subseteq Trees /\ spared \subseteq CanPin

\* The exit code speaks for every pass, not for the last: "nothing to do" only
\* if no pass tried a tree or ran a command, and success only if each tree any
\* pass tried is gone.
CodeCoversEveryPass ==
    pc = "done" /\ Armed =>
        /\ overall = ExitNothing => tried = {} /\ ~ran
        /\ overall = ExitSuccess => \A t \in tried : loc[t] = "gone"

\* A run that gives up short of its target has tried everything that was not
\* pinned when it looked, in every tier, unless a pass ran out of time or the
\* whole run was refused.
GivesUpOnlyWhenNothingIsLeft ==
    pc = "done" /\ Armed /\ met = "no" /\ overall # ExitInternal
    => late \/ \A t \in In("root") : t \in tried \cup spared

\* What is expensive to rebuild is not touched before everything cheaper was
\* tried, unless the pass for the cheaper tier ran out of time.
CheapestFirst ==
    late \/ \A t, u \in Trees :
                Tier[u] < Tier[t] /\ t \in tried
                => u \in tried \cup spared \/ loc[u] # "root"

\* The target is met once what snapshots will give back is counted in.
EnoughSpace == 100 * (free + SlackRead) >= TargetPct * Total

\* No tier above 0 is entered while the space there is, with what snapshots will
\* give back counted in, is enough: others may only have taken space since.
EscalatesOnlyWhenShort ==
    [][\A t \in Trees :
          tier > 0 /\ loc[t] = "root" /\ loc'[t] = "quarantine" => ~EnoughSpace]_vars
=============================================================================
