------------------------------ MODULE Placement -------------------------------
(***************************************************************************)
(* Roots and quarantine in one directory structure, wherever the           *)
(* configuration puts them: apart, one inside the other, one and the same. *)
(* An armed `reap sweep` (commands/sweep.rs execute) plans first, recovers *)
(* what stands in the quarantine, tests the roots, and stages by path what *)
(* it had planned; `reap doctor` (commands/doctor.rs) looks at the same    *)
(* directories and makes the same test, perhaps at the same time.  Users   *)
(* build, remove and close directories meanwhile, and a sweep or a doctor  *)
(* may be killed.                                                          *)
(*                                                                         *)
(* A directory is named by the path it is made at.  The guards enter as    *)
(* the directories they hold back; what one removal does between its       *)
(* system calls is in RemoveTree, the manifest in Executor.                *)
(***************************************************************************)
EXTENDS Naturals, FiniteSets

CONSTANTS
    Dirs,       \* the directories there may be, numbered in path order
    Home,       \* Home[d]: the directory d is made in; 0 for the top
    Scratch,    \* the scratch directory of a doctor
    Gone,       \* where a directory is that does not exist
    Sites,      \* the configurations and machines considered
    CanBuild,   \* directories somebody may make again
    CanVanish,  \* directories somebody else may remove
    CanClose,   \* directories whose permissions or kind may change
    MaxCloses   \* bound on these changes

Nodes == Dirs \cup {Scratch}

\* "sealed": nothing can be made, renamed or removed in it.  "shut": it cannot be
\* listed.  "link": its path is a symbolic link to the directory.  "jammed": the run
\* manifest in it cannot be opened (a directory, or a file of somebody else's).
Modes == {"open", "sealed", "shut", "link", "jammed"}

HomeAbove[d \in Dirs] == IF Home[d] = 0 THEN {} ELSE {Home[d]} \cup HomeAbove[Home[d]]

ASSUME PlacementOK ==
    /\ Dirs \subseteq Nat \ {0} /\ Scratch \notin Dirs \cup {0} /\ Gone \notin Nodes \cup {0}
    /\ Home \in [Dirs -> Dirs \cup {0}] /\ \A d \in Dirs : Home[d] < d
    /\ \A s \in Sites :
          /\ s.quarantine \in Dirs
          /\ s.roots \cup s.match \cup s.pinned \cup s.foreign \cup s.stubborn \subseteq Dirs
          /\ s.git \in BOOLEAN
    /\ CanBuild \cup CanVanish \cup CanClose \subseteq Dirs
    /\ MaxCloses \in Nat

VARIABLES
    site,       \* quarantine and roots, declared in path order; match: what the rules
                \* match; pinned: what the guards hold back with all below it; foreign:
                \* mount points; stubborn: what cannot be unlinked; git: there is a git
                \* (all candidates lie in repositories)
    up,         \* up[n]: the directory n stands in now
    mode,       \* mode[n]
    closes,     \* changes of mode so far
    sweep,      \* the sweep: where it is; the roots it could resolve; its candidates;
                \* what it has still to do, what it has staged
    doctor      \* the doctor: where it is, in which root; the roots it can use

\* For the properties: what somebody else has removed, or nobody has made yet; and
\* who has worked without the world changing under it.
VARIABLES lost, quiet

vars == <<site, up, mode, closes, sweep, doctor, lost, quiet>>

Q == site.quarantine

IdleSweep == [pc |-> "idle", sees |-> {}, cands |-> {}, todo |-> {}, staged |-> {},
              errors |-> FALSE, exit |-> "none"]
IdleDoctor == [pc |-> "idle", root |-> 0, todo |-> {}, usable |-> {}, failed |-> FALSE,
               exit |-> "none"]

-----------------------------------------------------------------------------
(* Paths. *)

Above[n \in Nodes] == IF up[n] \in {0, Gone} THEN {} ELSE {up[n]} \cup Above[up[n]]

\* A directory stands where it was made: its path leads to it.
Stands(d) == up[d] = Home[d] /\ \A a \in HomeAbove[d] : up[a] = Home[a]

Tree(n) == {n} \cup {m \in Nodes : n \in Above[m]}

\* remove_tree: what cannot be listed or unlinked stays, with what is above it.
Stuck(n) ==
    \/ n \in site.stubborn \cup site.foreign
    \/ mode[n] = "shut"
    \/ up[n] \in Nodes /\ mode[up[n]] = "sealed"
Remains(n) ==
    {m \in Tree(n) :
        \/ \E k \in Tree(m) : Stuck(k)
        \/ \E a \in Above[m] \cap Tree(n) : mode[a] = "shut"}
RemoveFrom(n) == [m \in Nodes |-> IF m \in Tree(n) \ Remains(n) THEN Gone ELSE up[m]]

Missing == {d \in {Q} \cup HomeAbove[Q] : ~Stands(d)}

\* Quarantine::ensure: create_dir_all.
CannotEnsure == \E d \in Missing : Home[d] \in Dirs \ Missing /\ mode[Home[d]] = "sealed"
Ensure ==
    /\ ~CannotEnsure
    /\ up' = [n \in Nodes |-> IF n \in Missing THEN Home[n] ELSE up[n]]
    /\ mode' = [n \in Nodes |-> IF n \in Missing THEN "open" ELSE mode[n]]
    /\ lost' = lost \ Missing

\* rename from directory d into the quarantine.
MountsOn(d) == (Above[d] \cup {d}) \cap site.foreign
CanRename(d) ==
    /\ Stands(Q) /\ mode[Q] # "sealed" /\ mode[d] # "sealed"
    /\ MountsOn(d) = MountsOn(Q)

-----------------------------------------------------------------------------
(* What is planned and judged. *)

Between(r, d) == (Above[d] \cup {d}) \ (Above[r] \cup {r})

\* The planner does not walk a root that is missing or a link.
Walked == {r \in site.roots : Stands(r) /\ mode[r] # "link"}

\* What the walk of root r yields: not below a match, a link, or what it cannot list.
Reached(r) ==
    {d \in Dirs :
        /\ r \in Above[d]
        /\ Between(r, d) \cap site.match \subseteq {d}
        /\ \A a \in Between(r, d) : mode[a] # "link"
        /\ \A a \in (Between(r, d) \cup {r}) \ {d} : mode[a] # "shut"}

WalkError ==
    \E r \in Walked : \E d \in (Reached(r) \ site.match) \cup {r} : mode[d] = "shut"

\* The first of the resolved roots that contains d is the one it was found under.
Contained(r, d) ==
    /\ r \in sweep.sees /\ r \in Above[d]
    /\ \A s \in sweep.sees \cap Above[d] : r <= s

\* Mutant: the marker is looked for in the candidate alone.
Proposed_PinHere(r) ==
    {d \in Reached(r) \cap site.match : Contained(r, d) /\ d \notin site.pinned /\ site.git}

\* Matched below root r, and let through by the guards.
Proposed(r) ==
    {d \in Reached(r) \cap site.match :
        /\ Contained(r, d)
        /\ (Between(r, d) \cup {r}) \cap site.pinned = {}
        /\ site.git}

\* A candidate is a path: a directory and those above it as they are now.
Planned == {[node |-> d, chain |-> Above[d]] : d \in UNION {Proposed(r) : r \in Walked}}

-----------------------------------------------------------------------------
(* The sweep, with both opt-ins. *)

At(pc) == sweep.pc = pc

WorldSame == UNCHANGED <<site, mode, closes, lost>>

\* Mutant: every declared root is kept, whether it resolves or not.
Load_AllRoots ==
    /\ sweep.pc \in {"idle", "done"}
    /\ sweep' = [IdleSweep EXCEPT !.pc = "plan", !.sees = site.roots]
    /\ quiet' = quiet \cup {"sweep"}
    /\ UNCHANGED <<up, doctor>> /\ WorldSame

\* Context::with_config: the roots that can be canonicalized.
Load ==
    /\ sweep.pc \in {"idle", "done"}
    /\ sweep' = [IdleSweep EXCEPT !.pc = "plan", !.sees = {r \in site.roots : Stands(r)}]
    /\ quiet' = quiet \cup {"sweep"}
    /\ UNCHANGED <<up, doctor>> /\ WorldSame

Select ==
    /\ At("plan")
    /\ sweep' = [sweep EXCEPT !.pc = "open", !.cands = Planned, !.errors = WalkError]
    /\ UNCHANGED <<up, doctor, quiet>> /\ WorldSame

Refuse == sweep' = [sweep EXCEPT !.pc = "done", !.exit = "INTERNAL"]

\* Executor::open: the quarantine, and the manifest in it.  In a sealed quarantine
\* the manifest may be there already.
Open ==
    /\ At("open")
    /\ \/ /\ Ensure /\ ~(Stands(Q) /\ mode[Q] = "jammed")
          /\ sweep' = [sweep EXCEPT !.pc = "list"]
       \/ /\ CannotEnsure \/ (Stands(Q) /\ mode[Q] \in {"sealed", "jammed"})
          /\ Refuse
          /\ UNCHANGED <<up, mode, lost>>
    /\ UNCHANGED <<site, closes, doctor, quiet>>

\* Executor::recover: read_dir.  A listing that fails is taken for an empty one.
ListQuarantine ==
    /\ At("list")
    /\ sweep' = [sweep EXCEPT !.pc = "recover",
                     !.todo = IF Stands(Q) /\ mode[Q] # "shut"
                              THEN {n \in Nodes : up[n] = Q} ELSE {}]
    /\ UNCHANGED <<up, doctor, quiet>> /\ WorldSame

\* Every entry goes, whatever it is.  A doctor at work on the same scratch
\* directory may make the removal fail.
RecoverEntry ==
    /\ At("recover")
    /\ \E n \in sweep.todo, raced \in BOOLEAN :
          LET there == up[n] = Q IN
          /\ raced => there /\ n = Scratch /\ doctor.pc = "clean"
          /\ up' = IF there THEN RemoveFrom(n) ELSE up
          /\ sweep' = [sweep EXCEPT !.todo = @ \ {n},
                           !.errors = @ \/ raced \/ (there /\ Remains(n) # {})]
          /\ quiet' = IF raced THEN quiet \ {"sweep"} ELSE quiet
    /\ UNCHANGED doctor /\ WorldSame

\* Executor::verify_rename: one root in which no scratch directory can be made, or
\* from which it cannot be renamed, ends the run.
Verify ==
    /\ At("recover") /\ sweep.todo = {}
    /\ IF \A r \in sweep.sees : Stands(r) /\ CanRename(r)
       THEN sweep' = [sweep EXCEPT !.pc = "stage", !.todo = sweep.cands]
       ELSE Refuse
    /\ UNCHANGED <<up, doctor, quiet>> /\ WorldSame

\* rename: the path still leads there, to nothing the quarantine is in.
CanStage(c) ==
    /\ up[c.node] # Gone /\ Above[c.node] = c.chain
    /\ CanRename(up[c.node])
    /\ c.node \notin site.foreign /\ Q \notin Tree(c.node)

\* Mutant: what cannot be renamed is removed in place.
Stage_InPlace ==
    /\ At("stage")
    /\ \E c \in sweep.todo :
          /\ \A d \in sweep.todo : c.node <= d.node
          /\ up' = IF CanStage(c) THEN [up EXCEPT ![c.node] = Q] ELSE RemoveFrom(c.node)
          /\ sweep' = [sweep EXCEPT !.todo = @ \ {c},
                          !.staged = IF CanStage(c) THEN @ \cup {c.node} ELSE @]
    /\ UNCHANGED <<doctor, quiet>> /\ WorldSame

\* Executor::stage: in path order; a failure is collected.
Stage ==
    /\ At("stage")
    /\ \E c \in sweep.todo :
          /\ \A d \in sweep.todo : c.node <= d.node
          /\ IF CanStage(c)
             THEN /\ up' = [up EXCEPT ![c.node] = Q]
                  /\ sweep' = [sweep EXCEPT !.todo = @ \ {c}, !.staged = @ \cup {c.node}]
             ELSE /\ sweep' = [sweep EXCEPT !.todo = @ \ {c}, !.errors = TRUE]
                  /\ UNCHANGED up
    /\ UNCHANGED <<doctor, quiet>> /\ WorldSame

StageEnd ==
    /\ At("stage") /\ sweep.todo = {}
    /\ sweep' = [sweep EXCEPT !.pc = "drain", !.todo = sweep.staged]
    /\ UNCHANGED <<up, doctor, quiet>> /\ WorldSame

Drain ==
    /\ At("drain")
    /\ \E n \in sweep.todo :
          LET there == up[n] = Q IN
          /\ up' = IF there THEN RemoveFrom(n) ELSE up
          /\ sweep' = [sweep EXCEPT !.todo = @ \ {n},
                                    !.errors = @ \/ (there /\ Remains(n) # {})]
    /\ UNCHANGED <<doctor, quiet>> /\ WorldSame

Report ==
    /\ At("drain") /\ sweep.todo = {}
    /\ sweep' = [sweep EXCEPT !.pc = "done",
                     !.exit = IF sweep.errors THEN "PARTIAL"
                              ELSE IF sweep.cands = {} THEN "NOTHING_TO_DO" ELSE "SUCCESS"]
    /\ UNCHANGED <<up, doctor, quiet>> /\ WorldSame

Sweep ==
    \/ Load \/ Select \/ Open \/ ListQuarantine \/ RecoverEntry \/ Verify
    \/ Stage \/ StageEnd \/ Drain \/ Report

-----------------------------------------------------------------------------
(* The doctor. *)

Asks(pc) == doctor.pc = pc

\* One doctor at a time, and one scratch directory left behind by a killed one.
Consult ==
    /\ doctor.pc \in {"idle", "done"} /\ up[Scratch] = Gone
    /\ doctor' = [IdleDoctor EXCEPT !.pc = "look"]
    /\ quiet' = quiet \cup {"doctor"}
    /\ UNCHANGED <<up, sweep>> /\ WorldSame

\* Mutant: a root that is missing is a failure.
Look_Strict ==
    /\ Asks("look")
    /\ LET usable == {r \in site.roots : Stands(r) /\ mode[r] \notin {"link", "shut"}} IN
       doctor' = [doctor EXCEPT !.pc = "ensure", !.usable = usable,
                                !.failed = usable # site.roots]
    /\ UNCHANGED <<up, sweep, quiet>> /\ WorldSame

\* Each root: missing on this machine; a link, or not readable; usable.
Look ==
    /\ Asks("look")
    /\ LET usable == {r \in site.roots : Stands(r) /\ mode[r] \notin {"link", "shut"}} IN
       doctor' = [doctor EXCEPT !.pc = "ensure", !.usable = usable,
                      !.failed = \E r \in site.roots \ usable : Stands(r)]
    /\ UNCHANGED <<up, sweep, quiet>> /\ WorldSame

\* The quarantine is made if it is not there, as a sweep would make it.
EnsureQuarantine ==
    /\ Asks("ensure")
    /\ \/ Ensure /\ doctor' = [doctor EXCEPT !.pc = "test", !.todo = doctor.usable]
       \/ /\ CannotEnsure
          /\ doctor' = [doctor EXCEPT !.pc = "test", !.failed = TRUE]
          /\ UNCHANGED <<up, mode, lost>>
    /\ UNCHANGED <<site, closes, sweep, quiet>>

\* Quarantine::test_rename: create_dir.
Mkdir ==
    /\ Asks("test")
    /\ \E r \in doctor.todo :
          /\ \A s \in doctor.todo : r <= s
          /\ IF Stands(r) /\ mode[r] # "sealed"
             THEN /\ up' = [up EXCEPT ![Scratch] = r]
                  /\ doctor' = [doctor EXCEPT !.pc = "rename", !.root = r, !.todo = @ \ {r}]
             ELSE /\ doctor' = [doctor EXCEPT !.failed = TRUE, !.todo = @ \ {r}]
                  /\ UNCHANGED up
    /\ UNCHANGED <<sweep, quiet>> /\ WorldSame

\* What the doctor calls its scratch directory leads to it.
ScratchThere == up[Scratch] = doctor.root /\ Stands(doctor.root)

\* Mutant: a rename that fails is not reported.
Rename_Quiet ==
    /\ Asks("rename")
    /\ \/ /\ ScratchThere /\ CanRename(doctor.root)
          /\ up' = [up EXCEPT ![Scratch] = Q]
       \/ /\ ~(ScratchThere /\ CanRename(doctor.root))
          /\ UNCHANGED up
    /\ doctor' = [doctor EXCEPT !.pc = "clean", !.root = IF up'[Scratch] = Q THEN Q ELSE @]
    /\ UNCHANGED <<sweep, quiet>> /\ WorldSame

\* Mutant: the scratch directory is cleaned up where it was made.
Rename_OldName ==
    /\ Asks("rename")
    /\ \/ /\ ScratchThere /\ CanRename(doctor.root)
          /\ up' = [up EXCEPT ![Scratch] = Q]
          /\ doctor' = [doctor EXCEPT !.pc = "clean"]
       \/ /\ ~(ScratchThere /\ CanRename(doctor.root))
          /\ doctor' = [doctor EXCEPT !.pc = "clean", !.failed = TRUE]
          /\ UNCHANGED up
    /\ UNCHANGED <<sweep, quiet>> /\ WorldSame

\* test_rename: rename.  From here on the scratch directory is known by the name
\* under which it survived.
Rename ==
    /\ Asks("rename")
    /\ \/ /\ ScratchThere /\ CanRename(doctor.root)
          /\ up' = [up EXCEPT ![Scratch] = Q]
          /\ doctor' = [doctor EXCEPT !.pc = "clean", !.root = Q]
       \/ /\ ~(ScratchThere /\ CanRename(doctor.root))
          /\ doctor' = [doctor EXCEPT !.pc = "clean", !.failed = TRUE]
          /\ UNCHANGED up
    /\ UNCHANGED <<sweep, quiet>> /\ WorldSame

\* test_rename: cleanup, whose errors are ignored.
Clean ==
    /\ Asks("clean")
    /\ up' = IF ScratchThere THEN RemoveFrom(Scratch) ELSE up
    /\ doctor' = [doctor EXCEPT !.pc = "test", !.root = 0]
    /\ UNCHANGED <<sweep, quiet>> /\ WorldSame

Verdict ==
    /\ Asks("test") /\ doctor.todo = {}
    /\ doctor' = [doctor EXCEPT !.pc = "done",
                      !.exit = IF doctor.failed \/ ~site.git THEN "PARTIAL" ELSE "SUCCESS"]
    /\ UNCHANGED <<up, sweep, quiet>> /\ WorldSame

Doctor == Consult \/ Look \/ EnsureQuarantine \/ Mkdir \/ Rename \/ Clean \/ Verdict

-----------------------------------------------------------------------------
(* The world. *)

\* A directory is made again.
Build(d) ==
    /\ up[d] = Gone
    /\ Home[d] # 0 => Stands(Home[d])
    /\ up' = [up EXCEPT ![d] = Home[d]]
    /\ mode' = [mode EXCEPT ![d] = "open"]
    /\ lost' = lost \ {d}
    /\ quiet' = {}
    /\ UNCHANGED <<site, closes, sweep, doctor>>

\* Somebody else removes a directory with all that is in it.
Vanish(d) ==
    /\ Stands(d)
    /\ up' = [n \in Nodes |-> IF n \in Tree(d) THEN Gone ELSE up[n]]
    /\ lost' = lost \cup (Tree(d) \cap Dirs)
    /\ quiet' = {}
    /\ UNCHANGED <<site, mode, closes, sweep, doctor>>

\* Permissions change, or the path becomes a link, or the manifest is spoiled.
Close(d) ==
    /\ Stands(d) /\ closes < MaxCloses
    /\ \E m \in Modes \ {mode[d]} :
          /\ m = "jammed" => d = Q
          /\ mode' = [mode EXCEPT ![d] = m]
    /\ closes' = closes + 1
    /\ quiet' = {}
    /\ UNCHANGED <<site, up, sweep, doctor, lost>>

CrashSweep ==
    /\ sweep.pc \notin {"idle", "done"}
    /\ sweep' = IdleSweep
    /\ UNCHANGED <<site, up, mode, closes, doctor, lost, quiet>>

CrashDoctor ==
    /\ doctor.pc \notin {"idle", "done"}
    /\ doctor' = IdleDoctor
    /\ UNCHANGED <<site, up, mode, closes, sweep, lost, quiet>>

World ==
    \/ \E d \in CanBuild : Build(d)
    \/ \E d \in CanVanish : Vanish(d)
    \/ \E d \in CanClose : Close(d)
    \/ CrashSweep \/ CrashDoctor

\* Nothing has been staged yet, and the quarantine may not have been made.
Init ==
    /\ site \in Sites
    /\ \E absent \in {{}, {Q}} :
          /\ \A d \in Dirs : Q \in HomeAbove[d] => absent = {}
          /\ up = [n \in Nodes |-> IF n \in absent \cup {Scratch} THEN Gone ELSE Home[n]]
          /\ lost = absent
    /\ mode = [n \in Nodes |-> "open"]
    /\ closes = 0
    /\ sweep = IdleSweep /\ doctor = IdleDoctor
    /\ quiet = {}

Next == Sweep \/ Doctor \/ World

Spec == Init /\ [][Next]_vars

-----------------------------------------------------------------------------
(* Properties. *)

\* Whatever is staged stood strictly below a root; what a step has still to do is
\* what it may do.
TypeOK ==
    /\ up \in [Nodes -> Nodes \cup {0, Gone}]
    /\ \A d \in Dirs : up[d] \in {Home[d], Q, Gone}
    /\ sweep.pc \in {"idle", "plan", "open", "list", "recover", "stage", "drain", "done"}
    /\ sweep.sees \subseteq site.roots
    /\ \A c \in sweep.cands : c.chain \cap sweep.sees # {}
    /\ sweep.staged \subseteq {c.node : c \in sweep.cands}
    /\ sweep.todo \subseteq CASE At("recover") -> Nodes
                              [] At("stage") -> sweep.cands
                              [] At("drain") -> sweep.staged
                              [] OTHER -> Nodes
    /\ doctor.pc \in {"idle", "look", "ensure", "test", "rename", "clean", "done"}
    /\ doctor.usable \subseteq site.roots
    /\ quiet \subseteq {"sweep", "doctor"} /\ lost \subseteq Dirs

\* Nothing outside the quarantine is taken away but what a rule matches strictly
\* below a root, with no marker from the root down to the match: however roots
\* nest, wherever the quarantine is, however often sweeps are killed.
OnlyMatchesTaken ==
    \A d \in Dirs \ lost :
        up[d] # Home[d] /\ Q \notin HomeAbove[d] \cup {d} =>
            \E m \in ({d} \cup HomeAbove[d]) \cap site.match :
                \E r \in HomeAbove[m] \cap site.roots :
                    site.pinned \cap (({m} \cup HomeAbove[m]) \ HomeAbove[r]) = {}

\* The quarantine and what it stands in are never staged or removed, even when a
\* candidate contains it.
QuarantineStays == \A d \in ({Q} \cup HomeAbove[Q]) \ lost : Stands(d)

\* The arrangement docs/configuration.md describes: roots apart, the quarantine
\* not one of them nor above one, though it may be inside one; and nothing shut.
Tidy ==
    /\ \A r \in site.roots : HomeAbove[r] \cap site.roots = {} /\ Q \notin HomeAbove[r] \cup {r}
    /\ site.foreign = {} /\ site.stubborn = {}
    /\ \A d \in Dirs : mode[d] = "open"

\* There, a sweep under which nothing changes fails only over a candidate inside
\* the quarantine, which recovery has removed by then, or one around it.
FailsForCause ==
    At("done") /\ sweep.exit \in {"INTERNAL", "PARTIAL"} /\ "sweep" \in quiet /\ Tidy
    => \E c \in sweep.cands : Q \in c.chain \/ c.node \in Above[Q] \cup {Q}

\* When a doctor that had a root to test has found all well, and nobody but the two
\* of them changes anything, the sweep is refused for two reasons only, which the
\* doctor does not look at: the manifest in the quarantine cannot be opened
\* (executor.rs:139), or a root lies inside the quarantine, where recovery takes it
\* away.
DoctorForetells ==
    /\ At("done") /\ sweep.exit = "INTERNAL"
    /\ Asks("done") /\ doctor.exit = "SUCCESS" /\ doctor.usable # {}
    => \/ quiet # {"sweep", "doctor"}
       \/ mode[Q] = "jammed"
       \/ \E r \in site.roots : Q \in HomeAbove[r]

\* The doctor has a failure to report only when there is one, even while a sweep
\* renames and removes around its scratch directory.
DoctorFailsForCause ==
    Asks("done") /\ doctor.exit = "PARTIAL" /\ "doctor" \in quiet /\ Tidy => ~site.git

\* A doctor that comes to its verdict leaves no scratch directory behind, in a root or
\* in the quarantine, whatever failed and wherever the quarantine is: but one that a
\* sweep has carried into the quarantine with the tree it was made in.
DoctorLeavesNothing ==
    Asks("done") /\ "doctor" \in quiet /\ up[Scratch] # Gone =>
        Q \in Above[up[Scratch]]
=============================================================================
