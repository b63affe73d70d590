# A verification project for reap

`reap` finds build directories that can be made again, decides which of them
nobody needs right now, moves each one out of its root with a single `rename(2)`
into a quarantine directory, and erases it there. This directory holds TLA+
models of that program, TLC configurations that check them on small instances,
and TLAPS proofs of the most important facts about the core for every instance.

    tlc -workers 2 -config MCSweepSolo.cfg MCSweep      a run
    tlapm SweepProofs.tla                               the proofs: the modules
                                                        named ...Proofs

`PROJECT.json` lists the components, the runs, what each definition models
(file and lines), a mutation of the model that each property rules out, the
hazards the properties are for, and the theorems.

## 1. Inventory: the parts of the system

| Part | State it keeps | Operations | Talks to |
| --- | --- | --- | --- |
| **Executor and quarantine** `executor.rs`, `quarantine.rs` | quarantine directory, `manifest.jsonl`, the list of trees staged by this process, the time budget | open, recover, rename test, stage, append, drain, truncate | file system; called by sweep; other processes through the same directory |
| **`remove_tree`** `executor.rs` | a stack of paths, collected errors | stat, unlink, list, rmdir | file system |
| **Runs** `commands/sweep.rs`, `gc_session.rs`, `select.rs`, `context.rs`, `commands_runner.rs`, `main.rs`, `exit.rs` | context read once (config, heartbeats, roots), selection, errors, exit code | gate, select, execute, command rules, report | planner, guards, executor |
| **Escalation** `sweep.rs until_free`, `context.rs pressure` | tier, combined exit code, cached snapshot list, measurement | measure, one pass per tier, combine | runs; disk |
| **Planner** `plan.rs` | none beyond a plan | walk every root, match, prune; `explain` | config, file system |
| **Guard stack** `guard.rs`, `fsmeta.rs` | canonical roots, cached process list | eight guards in order | file system, git, `/proc`, heartbeat index |
| **Heartbeats** `heartbeat.rs` | index of one file per session | load, `is_live` | supervisors, through files; clock; pids |
| **Configuration** `config.rs`, `error.rs` | the resolved configuration | load, overlay, validate | every run, once; whoever edits the file |
| **Platform** `reap-platform` | a per-run cache of two answers | list processes, look at each, volumes, git | `/proc`, the system calls of macOS, git |
| **doctor** `commands/doctor.rs` | one scratch directory | inspect the roots, make the quarantine, test a rename | the directories a sweep works in |
| **init** `commands/init.rs`, `catalog.rs` | the text it is about to write | detect, render, check, write | home directory, the configuration file |
| **install, uninstall** `commands/install.rs`, `scheduler.rs` | unit files | render, write, remove, call the service manager | the service manager, which keeps the units in memory and starts runs with `--apply` |
| **report, output, cli, schema** | none | parse, print | reads the others |

Hard behaviours, in the order of what they may cost:

* *Processes without a lock.* The timer's sweep and a supervisor's `gc-session`
  work in one quarantine; each one's recovery takes what the other has staged.
* *Kills* between any two system calls, with only a directory listing to
  recover from; the manifest is not consulted.
* *Partial failure*: every system call of the executor may fail, most failures
  are collected and stepped over, and must show in the exit code.
* *Stale reads*: heartbeats and canonical roots are read once per run, processes
  when first needed, git, links and markers at judgement, structure and idle age
  at the walk; staging comes last.
* *Order*: recovery before staging, tier before tier, the first of several roots;
  and the plan before recovery, so that what was planned may be gone.
* *One directory structure*: roots may nest, and the quarantine may lie in one of
  them, around one, or in a match; a doctor tries a rename where a sweep recovers.
* *Races inside one file or tree*: a heartbeat being rewritten as it is read; a
  tree being written to, or removed by another process, as it is removed; a
  directory replaced by a link between the look at it and its listing.
* *Dropped errors*: listings that break off (`flatten`), a cleanup that fails, a
  `/proc` that cannot be read pass for answers.
* *Liveness*: whatever is interrupted depends on a later run, and that on a
  timer which survives logins, second installs and interrupted ones.

What makes each part correct: the executor never half-removes a build
directory in place, gives a tree to one owner, forgets nothing it staged, and
exits 0 only when that is the truth. `remove_tree` touches nothing outside its
tree, unless a directory it is just in becomes a link, and ends without errors
only if the tree is gone. A run without both
opt-ins changes nothing. Escalation enters no tier without need and speaks in
its exit code for every pass. Planner and guards select the same set whatever the
order of the walk, never overlapping, never against a standing protection, and
`explain` gives the same answer. A session at work is protected; a dead one is
not for ever. A configuration comes from the first file there is and is accepted
exactly if it is well formed on this machine. What `init` writes is found by the next
command, arms nothing however little of it is there.
Wherever roots and quarantine lie, only what a rule matches below a root is taken, and the
quarantine stays; a doctor that finds all well is right about what it looks at, and leaves
nothing behind. After an install that exits 0 the
manager has the units just written and goes on starting runs; after an
uninstall that met no resistance it starts none.

`PROJECT.json`, `hazards`, has each place in the code where these could fail.

## 2. The modules

```
            Reclamation  (abstract)          RemovePass  (abstract)
                 ^ refined by                     ^ refined by
    Executor --> Sweep --> MCSweep           RemoveTree --> MCRemoveTree
                       --> SweepProofs                  --> RemoveTreeProofs

    Processes --> Selection --> MCSelection        Placement --> MCPlacement
                            --> SelectionProofs              --> PlacementProofs
    Configuration --> Setup --> MCConfiguration
                            --> ConfigurationProofs

    Escalation --> MCEscalation    Heartbeat --> MCHeartbeat    Scheduler --> MCScheduler
               --> EscalationProofs          --> HeartbeatProofs          --> SchedulerProofs
```

An arrow reads "is extended by". The specifications join at interfaces:
Executor assumes of a removal what RemovePass says and RemoveTree does; Sweep
and Escalation take from the planner the places in scope and from the guards a
decision, which Selection works out; Selection takes from the heartbeats a set
of live claims, which Heartbeat works out; Placement puts the directories of planner
and executor into one structure and takes from the guards the directories they hold back;
all of them take the shape of a
configuration that `resolve` returned, which Configuration works out; the fairness
of the timer's runs in Sweep is what Scheduler shows of an installed timer.

**Executor** - the processes' work on the quarantine, one action per system call
that another process can observe. `loc[t]` is where tree `t` is, `torn` are the
trees something has been removed from, `manifest` is the text of the file as a
sequence of records and newlines (a record and its newline are two writes, and a
torn line makes the reader drop both neighbours), `run[r]` holds the program
counter and the local variables of process `r`: `staged` and `todo`, the listing
being recovered, the errors. Actions are named after the functions:
`ListQuarantine`, `RecoverEntry`, `RecoverEnd`, `RecoverTruncate`, `Verify...` (the
rename test), `StageRename`, `AppendRecord`, `AppendNewline`, `DrainEntry`, and so on.
A removal under way is `RemoveSome`, `RemoveAll` or `RemoveBlocked`.
The listing of the quarantine is read as recovery goes: what was there when it was
opened is returned, what appears meanwhile may be, and with the fault "listing" it
breaks off anywhere without a word (`entries.flatten()`).
Each rename test makes a scratch directory under a name never used before (`Unused`;
`NScratch` bounds how many exist at a time), renames it (`VerifyRename`), and removes it:
from the quarantine (`VerifyClean`), or from the root after a rename that failed
(`VerifyUndo`). Both removals may fail, and the code drops the error (fault
"cleanup"); one left in the quarantine is recovered by a later run, one left in a root
stays for good, since no run looks for it, and `litter` says that there is one.

**Sweep** - whole runs: `Start` (a process loads its context), `Select`, the
executor's steps, command rules, `Report` with the exit code; and the world:
`Crash` (which leaves the scratch directory where it is), `Build`, `Heartbeat`, `PinMarker`, `EditConfig`, `Repair`. `stubborn` are
trees that cannot be removed whole for now.

**Reclamation** - what is promised about trees: a tree is built, is taken out of
its root in one step only if its place was granted, is erased, and never comes
back. A place is granted only while a tree stands there and no pin protects it.

**RemovePass**, **RemoveTree** - the contract of one removal, and `remove_tree`
itself with its explicit stack, two processes in one tree, links out of the tree,
refused calls, listings that break off, kills, and a process that still writes, or moves
a directory away and puts a link in its place (`Swap`). A node is a path: once a
directory is a link, the paths below it name what is where the link leads
(`elsewhere`), and every call but that on the link itself goes there. `FoundDirectory` is
what `symlink_metadata` said, and `List` reads what is there by then. `caught` records
that a directory was replaced while a walk was in it.

**Escalation** - `sweep --until-free`: `First` (measure), `Select` and a pass for each
tier, `Report`, `NextTier`. To say that nothing is to be done the code measures a second time
and panics if that fails (`ExitPanic`). Space is a number; other programs use it, and snapshots
come and go while the list of snapshots stays cached.

**Selection** - `NextRoot`, `Visit` (one entry of the walk), `PlanEnd`, then
`Reject`, `Inspect` or `InspectFails` for each candidate; meanwhile files, links,
processes and modification times change. A directory entry is a number in path
order and a path is an entry with the spelling it is reached by (plain, or through
a link above the root). Each guard is an operator that says when it rejects.
`Explain` is `plan::explain` with the guards behind it.

**Processes** - the process inspectors behind the cache of a run: `List` takes the
processes there are, `LookAt` asks one of them where it works or what it has open, and
`Answered` puts what was seen in the cache, while processes move, open, close, start and
exit. A listing that fails is an error on macOS, which the guard turns into a rejection and
the cache does not keep (`ListFails`). On Linux it is none: a `/proc` that cannot be read, or
not to its end, is a list of fewer processes, or of nobody, and is kept for the run. With the
fault "proc", `List` may name any part of what is alive (`Namings` in Selection).

**Placement** - `sweep::execute` and `doctor` over one tree of directories, `up[d]`
saying what directory `d` is in now. A sweep goes `Select`, `Open`, `ListQuarantine`,
`RecoverEntry`, `Verify`, `Stage`, `Drain`, `Report`: what it selected is a path, and is
staged by that path after recovery has removed what it may lie in. A doctor goes
`Consult`, `Look`, `EnsureQuarantine`, `Mkdir`, `Rename`, `Clean`, `Verdict`. `mode[d]` is
what can be done with a directory; that of the quarantine may be "jammed": the run manifest
in it cannot be opened, so that `Open` refuses, and a doctor does not notice. A site
of `Sites` is an arrangement of roots, quarantine, matches, marker and mount point.

**Setup** - `init` beside the loads and edits of Configuration: `InitRender` looks at
the home directory and the toolchains and has the text, `InitCheck` asks whether the file is
there, `InitTruncate`, `InitWritePart` and `InitWriteRest` write it, so that a load
in between reads an empty file or a beginning; `DetectRoots`, `Detect` and
`Catalog` are the functions and the table of those names. `Parsed` is what the text says to
the parser: paths are written without escapes, so a name of `Awkward` (with a quote or a
backslash) spoils the file or is read as another name (`Misread`). Of a directory only the
first 500 entries are looked at (`Limit`); `place` is the entry's position in the listing.

**Heartbeat** - supervisors begin, rewrite (by rename or in place), touch and
abandon their files; the clock ticks and may be set back; a run lists the
directory, reads each file's mtime and then its text, fixes its own time, and
asks the guard about every session's workspace.

**Scheduler** - `Begin` (load, build the plan), then one step for each half of a
file write (`OpenUnit` truncates, `WriteUnit` fills), each command of the service
manager (`RunCommand`) and each removal (`RemoveUnit`); every one of them may fail
and the program may be killed in between. `file` is what stands on disk, `loaded` what
the manager has in memory, `linked` and `active` whether the timer is armed for the
next login and now. `Done` and `Failed` say what systemctl and launchctl do. `Fire`
starts a run.

**Configuration** - `Probe` asks for one location of the search path after the
other, `Read` reads the file found; `Edit` replaces, removes or creates files
meanwhile. `Accepts` and `Config` are `resolve`: the overlay of this machine, the
defaults, the checks of the settings, and the loops over roots and rules, each a
recursive function of the number of entries looked at, which has failed for good with the
first entry it refuses. `held` and `lacked` are for the properties: at which locations there
was a file, and at which there was none, at some moment of the load.

## 3. The runs

All run with two workers in under three minutes each. `Deadlock` is checked except in the
Selection configurations, where the single run modelled ends for good (a process
that has judged its last candidate), and in Placement, where one sweep and one doctor
do (when nothing is left that may be built, removed or closed).

| Run | Question | Bounds |
| --- | --- | --- |
| `sweep_solo` | Does one process, failing and killed anywhere, keep trees whole, keep the order of its phases and tell the truth when it exits? Does it implement Reclamation? | one process run repeatedly, three trees at two places (one place is rebuilt), two scratch directories at a time, every fallible call of `Faults` except the listing and truncation, the cleanup whose error is dropped among them, one kill, a pin on one place, one obstructed tree, one command rule, dry and armed |
| `sweep_pair` | Do two processes in one quarantine own each tree alone, and is exit 0 true? | a timer's sweep and a gc-session over overlapping scopes, two trees, one obstructed, failing truncations, listings that fail or break off |
| `sweep_live` | Is every interruption made good, and everything that stays eligible reclaimed? | timer always firing, one kill, one obstructed tree, a heartbeat, `dry_run` edited |
| `sweep_live_pair` | Can two processes at the same entries block each other, and what can keep a run from its end? | two processes that repeat, two trees one after the other at one place, which is so built again and staged again, scratch directories under ever new names |
| `remove_tree` | Is nothing outside a tree touched, does a clean end mean gone, is RemovePass implemented, does every call end? | two processes, a directory with a link out and a subdirectory with a file and a file created meanwhile; the subdirectory may become a link to where both names occur; the list of the subdirectory may be refused or break off, the unlink of the file be refused |
| `escalation` | Does the run give up only when nothing is left, enter a tier only when it must, in tier order, with a truthful code? | three trees in three tiers whose path order is another than their tier order, the one of tier 1 obstructed and pinned or not, a command that yields space or not, budget 2 per pass, other programs take one unit, all faults |
| `selection` | Is what is selected what a declarative definition says; disjoint; protected; the same as `explain` says; is a process that stays always seen? | six directories five deep (a match within a match), two rules that overlap with different tiers, caps and requirements; six lists of roots: one, nested either way, tight outside, inside a match either way, respelled; links, files, markers, four heartbeat indexes; one process, which may work or have a file open in one directory; two changes during the run; failures of git, of inspection, of macOS' listing, and a `/proc` not read or not to its end |
| `heartbeat` | Is a session at work protected whatever its file goes through, and a dead one not for ever? | a session that replaces or touches its file and names no pid, one that rewrites in place and declares interval 0; multiplier 3; one time unit of reading; one setback of the clock; a directory that may fail |
| `scheduler` | Is what install and uninstall say true, however earlier calls of them ended, and does an installed timer go on firing? | both managers, two configurations that load and one that does not; any number of commands, kills, failures, logins and edits |
| `configuration` | Which file is taken, while files change? Is exactly what is well formed accepted? Is what `init` writes read by the next command, harmless in any beginning of it, and complete? | the eight environments with three or four contents at each of the four locations (a directory, an unreadable file, one that does not parse, one that is refused, a good one) and any number of edits; some thousands of texts that differ from a good one in the tables (global, this machine under both names, another), in up to two roots, or in one key or two of a rule alone or after another, with a home and without; homes with hidden, linked, closed and conventional directories and projects at several depths, two of them behind the 500th entry or not, with various toolchains; a name that ends the string in TOML and one that is read as another; texts cut after one, three or six rules |
| `placement` | What may be taken, and is the quarantine safe, wherever it lies? What does a failure mean, and what is a doctor's answer worth? | fourteen sites over six directories four deep: the quarantine apart, in a root, a root itself, around a root, in a match; nested roots, a root in a match; a marker, a mount point, what cannot be unlinked, no git; one directory built again, one removed, one change of permissions or kind, or of the manifest; a sweep and a doctor at once, each killed |
| `pin_inside` | what a document says and the code does otherwise (section 6) | smallest instance that shows it |

Why the bounds are enough. Two processes give every pairwise race on an entry;
executor state is per process and per entry, and a third process adds no new
kind of meeting (the safety part is proved for any number). Three trees at two
places give a tree rebuilt where one was staged, next to another. One kill
suffices for what a kill leaves to the next run; a second one only repeats it,
and again the proofs have no bound. Two scratch directories at a time are enough for one
that was left behind beside one in use (of several names nobody has in hand the lowest is taken, since
they are alike). In `remove_tree` a depth of two has a
directory whose children are not yet listed, listed, and gone, and that may become a link at
each of these moments. Three tiers are
all there are. In `selection` two changes let something go and come back, or
two different things happen between walk and judgement. In `heartbeat` the
bound (3) is larger than interval plus reading time (2), so that both
staleness and timeliness occur; ages beyond the bound are one value. In
`scheduler` nothing is bounded but the number of configurations: two are
enough for an installed unit to be the one before. In `configuration` two roots
or rules are what a check of one against those before needs; a home three levels deep
is as deep as `init` looks, and one level more. In `placement` every pair of root,
match and quarantine stands in each relation it can (apart, above, below, the same), and
one change is enough to separate what was planned from what is there.

Named bounds: `MaxCrashes`, `NRoots`, `MaxUse`, `MaxRun`, `MaxChanges`, `MaxLoad`,
`MaxBack`, `MaxCloses`, `Cuts`, `NScratch`; `Trees`, `Entries`, `Sessions`, `Nodes` are the finite sets.

`SuccessLeavesNothingStaged` is of runs whose listing and truncation do not fail:
the code takes a failed listing for an empty quarantine (`executor.rs:171`) and
only logs a failed truncation, so exit 0 promises nothing then. `sweep_pair`, where
both fail, has the weaker `SuccessIsComplete`. The theorem `SuccessLeavesNothing` has
the same restriction as its hypothesis `Reliable`. It excepts the scratch directories of the
run's own rename tests, where their removal failed unheard.

### Liveness and fairness

* `WF(RunStep(r))`: a process is scheduled. `RunStep` is the disjunction of all steps
  of the process, so which fault strikes is not constrained.
* `RunsEnd` has one exception, which is in the code: recovery reads the listing of the
  quarantine as it goes, and no time budget applies to it, so that a run goes on for as long
  as others put entries there (`Fed`). Nothing else keeps a run.
* `WF(Start(r))` only for the runs of the timer: `install` sets up a unit that fires
  for ever, with `--apply` in its command line (`scheduler.rs:86-97`).
* `WF(Repair(t))`: whatever obstructs a tree goes away some day. Without it the
  program cannot promise removal. `StagedIsErased` and `EligibleIsReclaimed`
  also suppose that `dry_run` is false from some time on, the latter that the place
  is not claimed or pinned for ever after some time.
* `remove_tree`: `WF(Step(p))`, nothing about calls being permitted or writers
  stopping (a writer creates a bounded number of entries).
* `scheduler`: `WF(Fire)` and `WF(JobEnds)`: the manager keeps time while a timer is
  armed, and a run ends (`RunsEnd`). No command, login or kill is forced.
* `heartbeat`: time goes on (`SF(Tick)`, since a tick waits for supervisors that are
  due and for a run that has used its time), a supervisor that is alive rewrites
  in time, runs are repeated and make progress. Deaths, ends of sessions and
  setbacks of the clock are never forced.

## 4. What is proved

Every safety property the passing runs check, invariant, action property or
refinement, is a theorem, but `DoctorLeavesNothing`. `SweepProofs.tla` proves with TLAPS, for every number of
processes, trees, places, roots, command rules and kills and every set of faults:

| Theorem | Property |
| --- | --- |
| `InvAlways` | the inductive invariant `Inv` |
| `TypeCorrect` | `TypeOK` |
| `NoTreeHalfRemoved` | `NeverHalfRemoved` |
| `TreesHaveOneOwner` | `OneOwner` |
| `LeftoversGoFirst` | `LeftoversFirst` |
| `SuccessMeansComplete` | `SuccessIsComplete` |
| `IdleRunsTouchNothing` | `IdleExitsTouchNothing` |
| `SuccessLeavesNothing` | `SuccessLeavesNothingStaged`, where listing and truncation do not fail (`Reliable`) |
| `TakingIsAsPromised` | `Sweep` implements `Reclamation` (safety part) |

`RemoveTreeProofs.tla`, for every tree, wherever its links point, every number of
processes in it, every set of refused calls, of late writes and of directories that become
links:

| Theorem | Property |
| --- | --- |
| `WalkInv` | the inductive invariant `Inv` |
| `WalkTypes` | `TypeOK` |
| `NothingOutside` | `OutsideUntouched` |
| `CleanIsGone` | `CleanMeansGone` |
| `WalkImplementsPass` | `RemoveTree` implements `RemovePass` (`KeepsContract`) |

`SelectionProofs.tla`, for any directories, rules, lists of roots, processes and changes:

| Theorem | Property |
| --- | --- |
| `SelectionInv` | the inductive invariant `Inv` |
| `StandingProtection` | `StandingProtectionHolds` |
| `StandingProcess` | `StandingProcessIsSeen` |
| `WalkInv` | the invariant `Walk`: what is planned from a root lies apart |
| `CalmInv` | the invariant `Calm` of runs under which nothing changes |
| `SelectionsLieApart` | `SelectionsDisjoint` |
| `TheFirstRootDecides` | `FirstRootDecides` |
| `ExplainTellsTheTruth` | `ExplainAgreesOnCandidates` |

`PlacementProofs.tla`, for every tree of directories, every arrangement of roots, matches,
markers, mount points and quarantine in it, and whatever else is built, removed,
closed or killed:

| Theorem | Property |
| --- | --- |
| `PlacementTypes` | `TypeOK` |
| `NothingElseTaken` | `OnlyMatchesTaken` |
| `NothingTakesTheQuarantine` | `QuarantineStays` |
| `DoctorIsJust` | `DoctorFailsForCause` |
| `SweepIsJust` | `FailsForCause` |
| `DoctorKnows` | `DoctorForetells` |

`ConfigurationProofs.tla`, about Configuration and Setup, for every text, environment
and machine, every home directory, and whatever is edited meanwhile:

| Theorem | Property |
| --- | --- |
| `FilesStand` | the inductive invariant `Inv` |
| `ConfigurationTypes` | `TypeOK` of Configuration |
| `TheFirstFileWins` | `FirstFileWins` |
| `WhatIsAcceptedIsWellFormed` | `AcceptedIffWellFormed` |
| `TheFirstConfigurationIsObeyed` | `InitIsObeyed` |
| `WhatInitWritesArmsNothing` | `InitNeverArms` |
| `EveryProjectIsCovered` | `EveryProjectHasItsRoot` |

`EscalationProofs.tla`, for any trees, sizes, tiers, command rules, faults and budgets:

| Theorem | Property |
| --- | --- |
| `EscalationInv` | the inductive invariant `Inv` |
| `CodeSpeaksForAll` | `CodeCoversEveryPass` |
| `NothingIsLeft` | `GivesUpOnlyWhenNothingIsLeft` |
| `CheapFirst` | `CheapestFirst` |
| `ExpensiveWhenShort` | `EscalatesOnlyWhenShort` |

`HeartbeatProofs.tla`, for any number of sessions, any intervals and any number of
setbacks of the clock:

| Theorem | Property |
| --- | --- |
| `HeartbeatInv` | the inductive invariant `Inv` |
| `LiveClaimsProtect` | `LiveClaimProtects` |
| `HeartbeatTypeCorrect` | `TypeOK` |

`SchedulerProofs.tla`, for both managers and any configurations:

| Theorem | Property |
| --- | --- |
| `SchedulerInv` | the inductive invariant `Inv` |
| `InstallIsTrue` | `InstallTellsTheTruth` |
| `UninstallIsFinal` | `UninstallEndsFiring` |
| `SchedulerTypeCorrect` | `TypeOK` |

Assumptions: `EscalationOK` and `SchedulerOK` (types of the constants; trees are finitely
many and fit on the disk; `Broken` is not a configuration that loads, and texts are told
apart); `HeartbeatOK` (types) and
`InTime`, that a session's interval and the time a run takes to read the directory stay
below the staleness bound. The code does not check `InTime` (the multiplier need only be
at least one); without it a session that is in time can be taken for dead.
TLC evaluates each in the run of that module.

Assumptions of the RemoveTree theorems: `SwapOK` (of the directories that may become links
none lies below another, and what `Under` and `Elsewhere` are), `TreeOK` (links are not
directories, every node but the top stands in a directory, inside the tree exactly if that
directory is, and a late writer does not write the top itself) and `RootedOK` (the
tree has no cycles, said without a path: of any part of it below the top something stands
outside that part; and what stands in a late directory is late), which only
`WalkImplementsPass` needs. `SelectionOK` of the Selection theorems gives the constants
their types and says that a directory's ancestors are a chain in path order;
`ProcessesOK` numbers the places where processes work. TLC evaluates them in the runs
`remove_tree` and `selection`.

Assumptions of the Placement theorems: `PlacementOK` numbers the directories so that each
is made in one before it, and gives the sites their types. Of the Configuration and Setup
theorems: `ConfigurationOK` says that what stands at a location, at first or after an edit, is a
text the parser accepts (`Text`, with no key twice) or one of the four marks for what is
none; `SetupOK` gives home directories their types, each directory standing in one
numbered before it, and names are told apart; `WordsOK` lists the names that occur; and
`CachesApart` says that no directory `init` may take for one with projects has the name of
a cache of the catalogue, which lie in hidden directories or in `Library`, where it does not
look. TLC evaluates them in the runs `placement` and `configuration`.

Assumptions of the Sweep theorems: `ConstantsOK` and `ScopesOK`, the named assumptions in Executor and
Sweep (types of the constants; a gc-session has no command rules; processes
and trees are different things). TLC evaluates them in every Sweep run.

The argument for Sweep. None of the properties is inductive. "Exit 0 means everything
this run staged is gone" needs to know at the last step what was true since the drain began, with another process at work on the same entries. `Inv` says, for each
process by its program counter: which fields are in use (`ShapeOf`), that armed
steps imply the gate (`GateHeld`), that what it staged has left its root and is
among what it has still to drain, gone, or accounted for by an error (`Owned`,
`Drained`), the same for what recovery listed (`Recovered`), that what it selected is still
to do, staged, late, or an error (`Judged`), and what the exit code says once it is
done (`Concluded`). Between processes it says only that what they hold staged is
disjoint, and `torn` trees are out of their roots. The step that makes it
inductive is that `loc` only moves forward, root to quarantine to gone
(`StepAdvances`): a fact another process established about a tree that is out of
its root stays true, so every process's local part is preserved by the steps of the others
(`BystanderLocal`), and each action needs a lemma about its own process only
(`...Local`, one for each action). `NextRefines` maps every step to a step of
Reclamation or to none, where `granted` is what armed runs have still to try. What a
run that is alone leaves behind needs more, as earlier runs were killed anywhere: `Emptied`
says that during recovery the quarantine holds only what has been listed and is still to do,
from then on only what this run has staged, and after the drain nothing, nor the manifest
anything; in each case unless an error says otherwise. It is about one process, so it has no
bystanders.

The argument for RemoveTree. What is unlinked must not be the top, and what is
listed must stand in the tree: both follow from what the code knows of the path in
its hand (`StatOK`: `symlink_metadata` said "directory" of a path that was one
and "no directory" of a link, one put in the place of a directory included), together
with the type of the stack, whose frames are such paths of the tree. That a clean end means gone needs what a walk without an error
still owes (`Owes`): the top is gone, or in its hand, or the bottom of its
stack. Popping and pushing leave the bottom alone (`Bottom`, `Stacks`), only a
recorded error can drop it, and nobody puts the top back, so what others do
cannot break it (`Bystander`).

That nothing is removed behind a link put in the place of a directory is about where a walk
is. A path below a directory is in a walk's hand only while that directory is on its
stack (`Chained`, `HeldBelow`), and unless a walk was caught in it, a directory that became a link is on
no stack (`Apart`), nor comes onto one, since the next `symlink_metadata` finds the link. What it
removes is then a path of the tree (`OutsideStep`).

The argument for RemovePass. A walk may end with errors only for cause, so
`PassInv` says what a walk has before it where nothing obstructs the tree. The
frames and the path in hand form one way down from the top (`Hangs`); whatever
is left in a directory on the stack is still to do there or is on that way (`Covers`), as long
as no listing breaks off and no directory becomes a link, which are causes;
hence the rmdir of the innermost frame finds it empty, and no other frame is that same
directory. A walk that met no other finds all it has seen (`Alone`) and so notes no
error; one that met another is marked `raced` (`BothRaced`), and what others take away is
no longer there to be covered (`LocalOfOthers`). `Connected`, with `RootedOK`, says
that nothing is left once the top is gone, so that nobody can write there any more
(`NothingLeft`). Each step is then one of RemovePass or none (`...Refines`).

The argument for Selection. The world changes while the planner walks and the guards
judge, so the two properties are about what has been so all along. `kept` records
that; `Inv` says that what is kept is so now (`StillSo`), that an inspector's answer,
finished or under way, holds every process that was named and has stayed since it was asked
(`Complete`, `Underway`, `Answers`), that what is asked about the candidate in hand has been
answered freely so far (`InHand`), and that nothing kept speaks against what was let through
(`LetThrough`). The changes of the world only make less kept (`LessIsKept`), so that only the
guards' own steps have to be looked at (`GuardsHold`, `NobodyThere`).

That selections lie apart rests on the walk alone: what a root has proposed, and what the
walk has still to yield of it, lie apart (`WalkApart`), since what it prunes it does not
enter; `Walk` holds whatever changes. What a calm run selects needs both directions: what is
proposed is what the rules name below a root (`Sound`), and what they name has been
proposed or has a directory above it still to be visited (`Thorough`); answers about
processes are then exact (`Exact`), and each candidate is let through exactly if
nothing speaks against it (`Right`). The declared definition and `explain` say the
same of the same sets. Where two roots see a candidate, containment lets only the
first declared one pass, so that calm selections of nested roots lie apart too.

The argument for Placement. What lies above a directory is a recursive function of where
directories are made, or of where they are now. `Collects` is what one says of such a
function, and a set that has with each directory the one above it (`Follows`) has all of
them; the numbers of the directories go down on the way up, so that the least number
against a claim refutes it. `WorldOK` says that each directory is where it was made, in the
quarantine or gone, that the way to the quarantine is never taken (`Path`), and that
what is lost lay below a match (`Excused`); `Promised` says of each planned candidate what
the walk saw above it. The three properties about doctor and sweep are about runs during
which nobody else changes anything (`quiet`): `DoctorWell` and `SweepWell` say what each
step has found there, `DoctorSaw` what the doctor knows of the roots it has tested, and
`Reason` why a sweep is refused, which is there as long as nothing else changes.

The argument for Configuration and Setup. A loop of `resolve` that has not failed has
accepted all entries before, none of them twice: `RootsAfter` and `RulesAfter` say that in
closed form, and `LoopIs` shows by the least number at which they differ that the recursive
functions are these. `WellFormedIs` takes the declared definition to the same form. `SearchInv`
says that a search has passed a location only after there was no file at it (`lacked`), and
stands at one where there was one (`held`). `Honest` ties what a load returned to the text it read, not to what stands there
now. For `init`: every rule and root it can render has the shape that is accepted
(`ShapeIs`, `RootsMade`, `RenderIs`), what the parser makes of it is that text if no name that
was detected needs escapes, and otherwise nothing or that text with other roots (`ParsedIs`), also
when only a beginning of it is there (`BeginningsStand`); `Undisturbed` and `OursOff` follow its file through the edits of
others. `EveryProjectIsCovered` is about the function `DetectRoots` on any tree: from a
project one goes up to the directory that claims it, and two claimed directories never lie
in one another.

The argument for Escalation. What the exit code says is about all passes, so the
invariant says what a pass still owes: until its report, what it has tried lies within what
it selected (`NothingYet`); a tree that was tried is gone, staged, or the pass has an error
(`TriedIsGone`); what stands in a root and is of a tier behind the pass, or of
the pass's own and no longer to do, was tried or spared (`Behind`). Combining codes
never makes one better (`CombinedCode`). Free space plays no part in these.

That a tier above 0 stages anything only while space is short is about space, measured
before each tier and used by others since. `Short` says that from the answer that led to
the tier until its last tree is staged too little is free, even with what snapshots give back: others
only take (`StaysShort`), staging gives nothing back yet, and the recovery at the
beginning of the pass finds in the quarantine only what cannot be removed, since the drain of
the pass before has removed the rest (`RemovedSpace`). That a sum of sizes is a number, and 0
for no tree (`SumOfSizes`), is shown for finite sets by the least number of members for which
it would fail.

The argument for Heartbeat. `KnownClaims` bounds the age a run holds of a session at
work by the interval plus the time it has been reading: at the stat the file's age is
within the interval, since a supervisor in time lets no tick pass that would break
it (`InOrder`); each tick adds one to both sides (`PassStep`), a setback takes from
the left only, and reading the declared time can only make it less. `InTime` then puts it
below the bound when the run fixes its time (`LoadedStep`), and `JudgeStep` is the one step
at which it counts.

The argument for Scheduler. `Inv` says for each program point what is on disk and what the
manager has: the units before the one being written hold the plan (`Writing`);
while install runs its commands without a failure so far, all files are written and the
manager has read them, or has still to (`Activating`); `Deactivating` and
`Removing` are the same backwards, for an uninstall that was refused nothing. One
lemma for each command (`Reload`, `Enable`, `Disable`, `Bootstrap`, `Bootout`) says what
comes of it, done or failed. Under launchd the invariant needs `Agent`: what is armed is
loaded, so a `bootout` that has nothing to do leaves nothing armed.

Out of the prover's reach and left to TLC: the liveness properties. The induction
theorems of the library take an operator as parameter, which the provers cannot
instantiate; where a proof needs induction (what is above a directory, a loop over
entries, a sum) it takes the least number that would refute the claim (`LeastNumber`, from
the well-foundedness of the natural numbers), and what the recursive function is at the
number before it.

## 5. What is only checked, and what is not modelled

Only checked: liveness, that is `StagedIsErased`, `EligibleIsReclaimed`, `RunsEnd` and what the
other runs say must happen some day; and `DoctorLeavesNothing`.

The type invariants: `TypeOK` of Sweep is checked in `sweep_solo` and proved; those of
RemoveTree, Heartbeat, Scheduler, Placement and Configuration are proved, and no run repeats
them. Those of Escalation and Selection say how their variables are to be read and
hold on the instances of their runs, of which they are not a standing part: their
stronger invariants are.

Abstracted: names are model values and a glob is a name that matches; sizes are
left out but where escalation counts space; wording, JSON and logging are left
out. A `stage` whose target name is taken tries another one in the code; trees
and scratch directories have unique names here. What a path below a replaced directory is, file or
directory, is taken to be the same on both sides of the new link. The time budget is a nondeterministic expiry in
Executor and a counter in Escalation. That `find_worktree` looks above the
roots is in Selection (entry 0); symbolic links there do not move.

Of the configuration, TOML and what a glob matches are left out, and so are the keys that
are neither checked nor expanded; a value of which only a kind is asked (bare,
slashed, empty) is that kind. Of the units, only which configuration they were
made from: not the paths of binary and configuration, `ReadWritePaths`, the log
directory or the wording.
`install --dry-run` changes nothing and is no step. A path is a form
(absolute, under home, relative) and a place.

Of `init`, comments in the text are left out, and `--print`, which returns before any
effect; a name that needs escapes is known by what the parser makes of it. Of `doctor`, the checks that only read and print. In Placement a path that has been
built again while its old tree is still staged is one directory, so the instances do
not build it before the old one is gone. In Processes there is one process; that
another one is looked at before or after it adds nothing, as each is looked at alone.

Not modelled: parsing of the command line, the format in which git, `/proc` and
macOS answer, the report and its layout. They keep no state
and decide nothing. `PROJECT.json` has the reasons
for each part.

The clock is never set forward and the machine never sleeps in Heartbeat: then a
supervisor is late by no fault of its own, and only its pid protects it.

## 6. Where the documents and the code differ

With a run that shows it:

* `pin_inside`: a marker below a match does not protect its directory
  (`docs/configuration.md:35`).

Met while modelling, without a run of their own:

* A process killed between rename and append leaves a staged tree no record
  describes; `docs/safety-model.md:215` says the manifest says where each came
  from. Nothing is lost: recovery goes by the listing.
* Recovery removes everything below the quarantine, a root that lies there
  included, which the configuration accepts; `docs/safety-model.md:217-220` and
  `executor.rs:162-164` speak of leftovers of earlier runs only.
* A directory replaced by a link between `symlink_metadata` (`executor.rs:88`) and `read_dir`
  (`executor.rs:106`), which follows links, or while its entries are being removed, lets
  the removal go through the link; `docs/safety-model.md:235-236` says removal never follows
  one. `OutsideUntouched` says when this cannot happen, and that only what lies behind that
  new link is exposed.
* On Linux a `/proc` that cannot be read is an empty list, not an error
  (`linux.rs:13-16`), which the cache keeps (`cache.rs:36`): nothing is rejected for it, where
  `docs/safety-model.md:184-186` and `guard.rs:488-489` say that what cannot be listed
  rejects. `StandingProcessIsSeen` speaks only of processes that were named.
* A rename test that fails and whose cleanup fails too leaves an empty directory in
  the root; so does a kill between `create_dir` and `rename`. Nothing looks for it (`litter`).
* A candidate that contains the quarantine cannot be renamed into it: every run over it
  exits 4 (`FailsForCause` names the case).
* A doctor that finds no root it can test, or a manifest that cannot be opened
  (`executor.rs:139`), exits 0 where a sweep then refuses; `DoctorForetells` names the second. Its scratch directory may be met by a sweep's recovery, which
  then exits 4. Of a heartbeat directory that cannot be read it says that it does
  not exist.
* A process that moves from where it is listed open to where it works between
  the two questions is seen by neither.
* `init` never gives a root to a project that stands right in the home directory; its
  conventional names include both `Projects` and `projects`, one directory on a
  case-insensitive file system; a conventional directory may be a link, which
  the planner then passes over and doctor complains of; the rule for
  browsers on Linux has no root that could match it, though `init.rs` says it emits only
  rules that can match something; an `extra_root` is given whatever the system.
  Between its check and its write somebody else's file can be overwritten.
  Paths are written into the text without escapes (`init.rs:229-233`), so that a directory with a
  quote or a backslash in its name gives a file the next command refuses, or another root.
  Of what a directory lists, projects after the 500th entry, files counted, are not seen
  (`init.rs:104`). `InitIsObeyed` and `EveryProjectHasItsRoot` say so.
* `--until-free` panics (exit 101, a code the program does not document) if the second of two
  measurements fails where the first did not (`sweep.rs:79`).
* `--until-free` starts a new time budget for each tier (`sweep.rs:240`), so "any single
  run" (`README.md:811`) is bounded by three times `max_run_seconds`, drains not counted.
* `explain` exits 0 for a match inside another match that is itself held back, which no
  sweep reaches (`explain.rs:154`).
* `uninstall` drops failures of the deactivation commands, removes the unit files and exits
  0; `install.rs:177` says it deactivates first so that the scheduler is not left holding
  a reference to something that no longer exists.
* `install --config` with a relative path (or, under systemd, one with a blank) writes it
  into the unit as given, and no scheduled run finds the file; the path of the binary is
  canonicalized.
* A `deny` path that is not absolute is accepted and refuses nothing, where
  `docs/configuration.md:58` says that a path there refuses itself and what is below.
* After the recovery of a run left something behind, its drain empties the
  manifest all the same (`executor.rs:241`, against the comment at 264).
* Heartbeats are read once per run: a session that begins afterwards is not
  protected from that run, through all passes of `--until-free`.
* `--until-free` without `--apply` shows tier 0 only (`sweep.rs:119-124`).
* A heartbeat rewritten in place and read half-written is "treated as live", but has
  no paths, so it protects only a directory named after its session, also for
  `orphaned_only` rules. If its writer dies just then it protects that for ever.
* With nested roots, containment asks for the first declared root around the
  candidate and `explain` for the innermost: with the outer root first they disagree,
  and what only the inner walk reaches is never reclaimed.
* A root inside a directory that a rule matches from another root, or a root
  declared under two spellings, gives overlapping selections; the second rename fails.
* `explain` does not ask whether the path is a directory, and looks at rules of all
  tiers, so a rule of tier 1 before one of tier 0 shadows it.
* Below a root that is spelled through a link, working directories (real
  paths) are not recognised by the liveness guard.
* The plan is made before recovery: a root that contains the quarantine yields
  candidates inside leftovers.
* A second `install` under launchd bootstraps a label that is loaded already, fails, and
  leaves the new plist on disk with the old one in memory (exit 4).
* `uninstall` loads the configuration, so a broken one keeps the scheduler installed.
* `heartbeat_dir` may be relative, and then is another directory in every place a run is
  started from; a rule's `max_depth` may be 0, which a root's may not.

## 7. Plan

Done, in this order: Executor and Sweep with Reclamation; their proofs;
RemoveTree with RemovePass, and its invariant proved; Escalation; Selection; Heartbeat;
Scheduler; Configuration; Placement, where planner and executor meet; Processes; Setup;
the proofs about Scheduler, Heartbeat, Escalation and Selection; that RemoveTree
implements RemovePass; the proofs about Placement, Configuration and Setup, that selections
lie apart and are what is declared, that escalation waits for space to be short, and that
a run that is alone leaves nothing.

Then what interferes from outside: scratch directories under fresh names whose cleanup may
fail or be cut short, listings that break off, directories that become links during their
removal, a `/proc` that names nobody, names that need escapes, a manifest that cannot be opened.

Left, models: what stands on both sides of a replaced directory where it is a file on one and a
directory on the other; a chain of links above the quarantine that changes during a run.

Left, theorems: `DoctorLeavesNothing`, the type invariants of Escalation and Selection in full (parts of
them are in the inductive invariants), and what Processes promises as an abstract
specification of its own.
