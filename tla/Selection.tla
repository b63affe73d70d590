----------------------------- MODULE Selection ------------------------------
(***************************************************************************)
(* How a run decides what to remove: the planner (crates/reap-core/src/    *)
(* plan.rs), the guard stack (guard.rs) and the one path through both that *)
(* report, sweep and gc-session share (reap-cli/src/select.rs); and        *)
(* `reap explain`, which answers for a single path.  The declared roots    *)
(* are walked one entry at a time, then every candidate is judged, while   *)
(* the tree goes on changing.  Roots may nest, and a root may be spelled   *)
(* through a symbolic link above it.                                       *)
(*                                                                         *)
(* A directory entry is a number, in path order, 0 being what all roots    *)
(* lie below.  A path is an entry together with the spelling it is reached *)
(* by.  What lies behind a symbolic link looks like what was there before. *)
(* How the processes come to be known is in Processes.                     *)
(***************************************************************************)
EXTENDS Processes, Sequences

CONSTANTS
    Entries,    \* the directory entries that may be there
    Above,      \* Above[n]: the directories n lies strictly below
    Name,       \* Name[n]
    Files,      \* names of marker files: require_sibling, pin marker, .git
    PinMarker,  \* the configured pin marker, one of Files
    GitDir,     \* .git
    NoFile,     \* for a rule that requires no file
    Rules,      \* the path rules active on this platform, in order
    MaxTier,    \* the highest tier of this run
    RootLists,  \* the lists of declared roots considered
    Floor,      \* paths the hardcoded floor refuses
    Deny,       \* paths of the user's deny list
    Kinds,      \* initial values of kind
    Contents,   \* initial values of has
    Tracked,    \* entries git does not consider ignored
    Indexes,    \* what loading the heartbeats may have yielded
    CanChange,  \* pairs <<d, f>>: file f may come and go in directory d
    CanSwap,    \* entries that may turn into a link, or vanish, and back
    CanTouch,   \* directories that may be modified
    Faults,     \* a subset of {"git", "inspect", "proc"}
    MaxChanges  \* bound on the changes during one run

Spellings == {"real", "link"}
Path == [node : Entries, via : Spellings]
Root == [dir : Entries, via : Spellings, cap : Nat]
Rule == [tier : 0..2, name : {Name[n] : n \in Entries}, sibling : Files \cup {NoFile},
         ancestor : Files \cup {NoFile}, cap : Nat \cup {NoFile},
         orphaned : BOOLEAN, idle : BOOLEAN]
Claim == [session : STRING, paths : SUBSET Path, unreadable : BOOLEAN]

ASSUME SelectionOK ==
    /\ Entries \subseteq Nat \ {0}
    /\ Above \in [Entries -> SUBSET (Entries \cup {0})]
    /\ \A n \in Entries :
          /\ 0 \in Above[n]
          /\ \A a \in Above[n] \ {0} : a < n /\ Above[a] \subseteq Above[n]
          /\ \A a, b \in Above[n] \ {0} : a < b => a \in Above[b]
    /\ {PinMarker, GitDir} \subseteq Files /\ NoFile \notin Files \cup Nat
    /\ Rules \in Seq(Rule) /\ Rules # <<>>
    /\ MaxTier \in 0..2 /\ \E i \in DOMAIN Rules : Rules[i].tier <= MaxTier
    /\ RootLists \subseteq Seq(Root)
    /\ \A list \in RootLists : \A i, j \in DOMAIN list :
          list[i].dir = list[j].dir /\ list[i].via = list[j].via => i = j
    /\ Floor \subseteq Path /\ Deny \subseteq Path
    /\ Kinds \subseteq [Entries -> {"dir", "link", "file", "none"}]
    /\ Contents \subseteq [Entries \cup {0} -> SUBSET Files]
    /\ Tracked \subseteq Entries
    /\ Indexes \subseteq [readable : BOOLEAN, live : SUBSET Claim]
    /\ CanChange \subseteq Entries \X Files
    /\ CanSwap \cup CanWork \cup CanTouch \subseteq Entries
    /\ Faults \subseteq {"git", "inspect", "proc"}
    /\ MaxChanges \in Nat

VARIABLES
    kind,       \* kind[n]: what entry n is now
    has,        \* has[d]: the marker files in directory d
    fresh,      \* directories modified within min_idle
    changes     \* changes during the run so far

treeVars == <<kind, has, fresh>>
worldVars == <<treeVars, processVars, changes>>

VARIABLES
    pc,         \* "walk", "judge", one of the two questions, or "done"
    roots,      \* config.roots
    resolved,   \* ctx.roots: the declared roots that resolved at the start, each
                \* by the number it is declared under
    index,      \* ctx.heartbeats
    root,       \* the number of the root being walked
    todo,       \* listed entries the walk has still to yield
    cands,      \* plan.candidates
    judged,     \* those the guards have judged
    selected    \* and those they let through

planVars == <<roots, resolved, index, root, todo, cands>>
runVars == <<pc, planVars, judged, selected, inspectorVars>>

\* For the properties: what has been so ever since the run began, or the question
\* was asked, and whether nothing has changed or failed.
VARIABLES kept, quiet

vars == <<worldVars, runVars, kept, quiet>>

-----------------------------------------------------------------------------
(* Paths. *)

\* Path::parent.
Parent(n) == CHOOSE a \in Above[n] : \A b \in Above[n] : b <= a

\* The entries strictly between directory d and entry n, and n itself.
Region(d, n) == (Above[n] \cup {n}) \ (Above[d] \cup {d})

Depth(d, n) == Cardinality(Region(d, n))

\* Path::starts_with: p is q or lies below it, in the same spelling.
StartsWith(p, q) == p.via = q.via /\ (p.node = q.node \/ q.node \in Above[p.node])

\* Whether the system finds something by the name n, and lists it.
Resolves(n) ==
    kind[n] # "none" /\ \A a \in Above[n] \ {0} : kind[a] \in {"dir", "link"}

\* canonicalize: behind the last symbolic link on the way, if there is one.
LastOf(S) == CHOOSE b \in S \cup {0} : \A a \in S : a <= b
Behind(n) == LastOf({a \in (Above[n] \cup {n}) \ {0} : kind[a] = "link"})
Canonical(n) == [node |-> n, behind |-> Behind(n)]

StrictlyInside(p, q) == p.behind = q.behind /\ q.node \in Above[p.node]

Links == {n \in Entries : kind[n] = "link"}

\* walkdir's read of directory d, with the type each entry has by then.
Listing(d) ==
    IF Resolves(d) /\ kind[d] \in {"dir", "link"}
    THEN {[node |-> n, is |-> kind[n]] :
             n \in {m \in Entries : Parent(m) = d /\ kind[m] # "none"}}
    ELSE {}

-----------------------------------------------------------------------------
(* Rules. *)

Cap(rule, r) == IF rule.cap = NoFile THEN r.cap ELSE rule.cap

StructureOk(rule, n, r) ==
    /\ rule.sibling = NoFile \/ rule.sibling \in has[Parent(n)]
    /\ rule.ancestor = NoFile
       \/ \E d \in (Region(r.dir, n) \ {n}) \cup {r.dir} : rule.ancestor \in has[d]

RuleHits(rule, n, r) ==
    /\ Depth(r.dir, n) <= Cap(rule, r)
    /\ rule.name = Name[n]
    /\ StructureOk(rule, n, r)

\* The rules, of those up to tier k, that name entry n under root r.
HitsUpTo(k, n, r) == {i \in DOMAIN Rules : Rules[i].tier <= k /\ RuleHits(Rules[i], n, r)}
Hits(n, r) == HitsUpTo(MaxTier, n, r)

FirstOf(S) == CHOOSE i \in S : \A j \in S : i <= j

\* How deep the deepest rule needs the walk to go.
WalkDepth(r) ==
    CHOOSE d \in {Cap(Rules[i], r) : i \in {j \in DOMAIN Rules : Rules[j].tier <= MaxTier}} :
        \A i \in DOMAIN Rules : Rules[i].tier <= MaxTier => Cap(Rules[i], r) <= d

\* A candidate, with the idle time as measured now.
CandidateOf(i, n, r) ==
    [node |-> n, root |-> r, rule |-> i, idle |-> ~Rules[i].idle \/ n \notin fresh]

PathOf(c) == [node |-> c.node, via |-> c.root.via]

-----------------------------------------------------------------------------
(* The guards, each as the condition under which it rejects candidate c. *)

DenyFloor(c) ==
    \/ PathOf(c) \in Floor \/ [node |-> c.node, via |-> "real"] \in Floor
    \/ \E d \in Deny : StartsWith(PathOf(c), d)

\* The first resolved root that strictly contains what the path resolves to.
ContainingRoots(n) == {i \in DOMAIN resolved : StrictlyInside(Canonical(n), resolved[i])}

\* Mutant: any root that contains the path will do.
Containment_AnyRoot(c) ==
    \/ ~Resolves(c.node)
    \/ \E d \in Region(c.root.dir, c.node) : kind[d] = "link"
    \/ ContainingRoots(c.node) = {}

\* It does not resolve, a link is on the way, or it is not the first root that
\* contains it which it was found under.
Containment(c) ==
    \/ ~Resolves(c.node)
    \/ \E d \in Region(c.root.dir, c.node) : kind[d] = "link"
    \/ ~\E i \in ContainingRoots(c.node) :
          /\ \A j \in ContainingRoots(c.node) : i <= j
          /\ resolved[i] = Canonical(c.root.dir)

DepthGuard(c) == Depth(c.root.dir, c.node) > Cap(Rules[c.rule], c.root)

PinnedUnder(r, n, pins) == (Region(r.dir, n) \cup {r.dir}) \cap pins # {}

Pins == {d \in Entries : PinMarker \in has[d]}

\* Mutant: the marker is looked for in the candidate alone.
PinGuard_NoAncestors(c) == c.node \in Pins

PinGuard(c) == PinnedUnder(c.root, c.node, Pins)

Overlaps(p, q) == StartsWith(p, q) \/ StartsWith(q, p)

\* A claim that cannot be read protects what it names, or else the directory
\* that bears its name.
Claims(h, c) ==
    IF h.unreadable
    THEN h.paths # {} \/ h.session = Name[c.node]
    ELSE h.session = Name[c.node] \/ \E p \in h.paths : Overlaps(PathOf(c), p)

HeartbeatGuard(c) ==
    \/ \E h \in index.live : Claims(h, c)
    \/ Rules[c.rule].orphaned /\ ~index.readable

Gits == {d \in Entries \cup {0} : GitDir \in has[d]}
InWorktree(n) == (Above[n] \cup {n}) \cap Gits # {}

GitGuard(c, answered) == InWorktree(c.node) /\ (c.node \in Tracked \/ ~answered)

IdleGuard(c) == ~c.idle

LivenessGuard(c, places) ==
    \E d \in places : StartsWith([node |-> d, via |-> "real"], PathOf(c))

\* The kernel names what processes work in or hold open by its real path.
Real == {d \in CanWork : Behind(d) = 0}
There(q) == {pr \in Now(q) : pr[2] \in Real}
Working == {pr[2] : pr \in There("live_cwds") \cup There("open_paths")}

\* guard::evaluate as far as the seventh guard.
HeldBack(c, answered) ==
    \/ DenyFloor(c) \/ Containment(c) \/ DepthGuard(c) \/ PinGuard(c)
    \/ HeartbeatGuard(c) \/ GitGuard(c, answered) \/ IdleGuard(c)

-----------------------------------------------------------------------------
(* A run. *)

\* Context::with_config has read the heartbeats and resolved the roots.
Init ==
    /\ kind \in Kinds
    /\ has \in Contents
    /\ fresh \in SUBSET CanTouch
    /\ InitProcesses
    /\ changes = 0
    /\ pc = "walk"
    /\ roots \in RootLists
    /\ resolved = [i \in {j \in DOMAIN roots : Resolves(roots[j].dir)} |->
                     Canonical(roots[i].dir)]
    /\ index \in Indexes
    /\ root = 0
    /\ todo = {}
    /\ cands = {} /\ judged = {} /\ selected = {}
    /\ kept = [pins |-> Pins, gits |-> Gits, links |-> Links,
               live_cwds |-> {}, open_paths |-> {}]
    /\ quiet = TRUE

\* The next root: one that is missing, a link or not a directory is skipped.
NextRoot ==
    /\ pc = "walk" /\ todo = {} /\ root < Len(roots)
    /\ root' = root + 1
    /\ LET d == roots[root + 1].dir IN
       todo' = IF Resolves(d) /\ kind[d] = "dir" THEN Listing(d) ELSE {}
    /\ UNCHANGED <<worldVars, pc, roots, resolved, index, cands, judged, selected,
                   inspectorVars, kept, quiet>>

\* Mutant: the walk goes on below a match.
Visit_NoSkip ==
    /\ pc = "walk"
    /\ \E e \in todo :
          /\ \A f \in todo : e.node <= f.node
          /\ LET n == e.node
                 r == roots[root]
             IN
             /\ todo' = (todo \ {e}) \cup
                        IF e.is = "dir" /\ Depth(r.dir, n) < WalkDepth(r)
                        THEN Listing(n) ELSE {}
             /\ cands' = IF e.is = "dir" /\ Hits(n, r) # {}
                         THEN cands \cup {CandidateOf(FirstOf(Hits(n, r)), n, r)}
                         ELSE cands
    /\ UNCHANGED <<worldVars, pc, roots, resolved, index, root, judged, selected,
                   inspectorVars, kept, quiet>>

\* The walk yields its next entry: a match is proposed whole, any other
\* directory is entered as far down as some rule may reach.
Visit ==
    /\ pc = "walk"
    /\ \E e \in todo :
          /\ \A f \in todo : e.node <= f.node
          /\ LET n == e.node
                 r == roots[root]
                 match == e.is = "dir" /\ Hits(n, r) # {}
             IN
             /\ todo' = (todo \ {e}) \cup
                        IF e.is = "dir" /\ ~match /\ Depth(r.dir, n) < WalkDepth(r)
                        THEN Listing(n) ELSE {}
             /\ cands' = IF match
                         THEN cands \cup {CandidateOf(FirstOf(Hits(n, r)), n, r)}
                         ELSE cands
    /\ UNCHANGED <<worldVars, pc, roots, resolved, index, root, judged, selected,
                   inspectorVars, kept, quiet>>

PlanEnd ==
    /\ pc = "walk" /\ todo = {} /\ root = Len(roots)
    /\ pc' = "judge"
    /\ UNCHANGED <<worldVars, planVars, judged, selected, inspectorVars, kept, quiet>>

\* The next candidate: the sort by path is stable.
Position(r, list) == CHOOSE i \in DOMAIN list : list[i] = r
Leading(S, list) ==
    CHOOSE c \in S : \A d \in S :
        c.node < d.node \/ (c.node = d.node /\ Position(c.root, list) <= Position(d.root, list))
Current == Leading(cands \ judged, roots)

\* What git answers about it.
MayJudge(c, answered) ==
    /\ pc = "judge"
    /\ judged # cands /\ c = Current
    /\ answered \/ (InWorktree(c.node) /\ "git" \in Faults)

\* One of the first seven guards holds it back.
Reject(c, answered) ==
    /\ MayJudge(c, answered)
    /\ HeldBack(c, answered)
    /\ judged' = judged \cup {c}
    /\ quiet' = (quiet /\ answered)
    /\ UNCHANGED <<worldVars, pc, planVars, selected, inspectorVars, kept>>

\* The eighth asks first where processes work, then what they hold open.
Pass(c, answered) ==
    /\ MayJudge(c, answered)
    /\ ~HeldBack(c, answered)
    /\ pc' = "live_cwds"
    /\ quiet' = (quiet /\ answered)
    /\ UNCHANGED <<worldVars, planVars, judged, selected, inspectorVars, kept>>

\* What the system may name then.  Where /proc cannot be read, or not to its end,
\* linux.rs:13-18 drops the error: what has been listed, and that may be nothing,
\* passes for all there are, and the answer is kept.
Namings == IF "proc" \in Faults THEN SUBSET alive ELSE {alive}

Ask ==
    /\ pc \in Questions
    /\ \E named \in Namings :
          /\ List(pc, named)
          /\ kept' = [kept EXCEPT ![pc] = {pr \in There(pc) : pr[1] \in named}]
          /\ quiet' = (quiet /\ named = alive)
    /\ UNCHANGED <<treeVars, changes, pc, planVars, judged, selected>>

\* The processes cannot be listed (macOS): the next candidate asks again.
AskFails ==
    /\ pc \in Questions /\ "inspect" \in Faults
    /\ ListFails(pc)
    /\ judged' = judged \cup {Current}
    /\ pc' = "judge"
    /\ kept' = [kept EXCEPT ![pc] = There(pc)]
    /\ quiet' = FALSE
    /\ UNCHANGED <<treeVars, changes, planVars, selected>>

Look ==
    /\ pc \in Questions
    /\ \E p \in Procs : LookAt(p, Real)
    /\ UNCHANGED <<treeVars, changes, pc, planVars, judged, selected, kept, quiet>>

\* A process is there: the candidate is held back.
Held ==
    /\ pc \in Questions
    /\ \E places \in SUBSET CanWork :
          Answered(pc, places) /\ LivenessGuard(Current, places)
    /\ judged' = judged \cup {Current}
    /\ pc' = "judge"
    /\ UNCHANGED <<treeVars, changes, planVars, selected, kept, quiet>>

\* Nobody is there: the other question, and then the candidate is selected.
Free ==
    /\ pc \in Questions
    /\ \E places \in SUBSET CanWork :
          Answered(pc, places) /\ ~LivenessGuard(Current, places)
    /\ \/ /\ pc = "live_cwds"
          /\ pc' = "open_paths"
          /\ UNCHANGED <<judged, selected>>
       \/ /\ pc = "open_paths"
          /\ pc' = "judge"
          /\ judged' = judged \cup {Current}
          /\ selected' = selected \cup {Current}
    /\ UNCHANGED <<treeVars, changes, planVars, kept, quiet>>

JudgeEnd ==
    /\ pc = "judge" /\ judged = cands
    /\ pc' = "done"
    /\ UNCHANGED <<worldVars, planVars, judged, selected, inspectorVars, kept, quiet>>

Judge(c) == \E answered \in BOOLEAN : Reject(c, answered) \/ Pass(c, answered)

-----------------------------------------------------------------------------
(* The world, while the run is at it. *)

Changed ==
    /\ pc # "done" /\ changes < MaxChanges
    /\ changes' = changes + 1
    /\ quiet' = FALSE
    /\ kept' = [pins |-> kept.pins \cap Pins', gits |-> kept.gits \cap Gits',
                links |-> kept.links \cap Links',
                live_cwds |-> kept.live_cwds \cap There("live_cwds")',
                open_paths |-> kept.open_paths \cap There("open_paths")']
    /\ UNCHANGED runVars

\* A pin marker, or a file some rule requires, is created or removed.
ChangeFile(d, f) ==
    /\ has' = [has EXCEPT ![d] = IF f \in @ THEN @ \ {f} ELSE @ \cup {f}]
    /\ UNCHANGED <<kind, fresh, processVars>>
    /\ Changed

\* A directory is removed, made again, or replaced by a link.
Swap(n) ==
    /\ kind' \in {[kind EXCEPT ![n] = k] : k \in {"dir", "link", "none"} \ {kind[n]}}
    /\ UNCHANGED <<has, fresh, processVars>>
    /\ Changed

\* A process starts, moves, opens or closes a file, or exits.
Work ==
    /\ ProcessStep
    /\ UNCHANGED treeVars
    /\ Changed

\* Something is written.
Touch(n) ==
    /\ n \notin fresh
    /\ fresh' = fresh \cup {n}
    /\ UNCHANGED <<kind, has, processVars>>
    /\ Changed

World ==
    \/ \E p \in CanChange : ChangeFile(p[1], p[2])
    \/ \E n \in CanSwap : Swap(n)
    \/ Work
    \/ \E n \in CanTouch : Touch(n)

Next ==
    \/ NextRoot \/ Visit \/ PlanEnd
    \/ \E c \in cands : Judge(c)
    \/ Ask \/ AskFails \/ Look \/ Held \/ Free \/ JudgeEnd
    \/ World

Spec == Init /\ [][Next]_vars

-----------------------------------------------------------------------------
(* plan::explain and explain::run, for the path p. *)

\* The innermost declared root that contains the path.
RootsOver(p) == {i \in DOMAIN roots : roots[i].via = p.via /\ roots[i].dir \in Above[p.node]}
Innermost(p) ==
    CHOOSE i \in RootsOver(p) : \A j \in RootsOver(p) : roots[j].dir <= roots[i].dir

\* Mutant: the candidate is that of the last rule that matches.
ExplainRule_Last(S) == CHOOSE i \in S : \A j \in S : j <= i

\* The candidate is that of the first rule that matches, whatever its tier.
ExplainRule(S) == FirstOf(S)

\* Exit code 0: this path would be reclaimed by a sweep.
Explain(p) ==
    /\ RootsOver(p) # {}
    /\ LET r == roots[Innermost(p)]
           S == HitsUpTo(2, p.node, r)
           c == CandidateOf(ExplainRule(S), p.node, r)
       IN S # {} /\ ~HeldBack(c, TRUE) /\ ~LivenessGuard(c, Working)

-----------------------------------------------------------------------------
(* Properties. *)

Candidate == [node : Entries, root : Root, rule : DOMAIN Rules, idle : BOOLEAN]

\* What a walk has yet to yield lies below its root, as deep as rules may reach.
TypeOK ==
    /\ pc \in {"walk", "judge", "done"} \cup Questions
    /\ pc \in Questions => cands \ judged # {}
    /\ root \in 0..Len(roots)
    /\ todo \subseteq [node : Entries, is : {"dir", "link", "file"}]
    /\ \A e \in todo : Depth(roots[root].dir, e.node) \in 1..WalkDepth(roots[root])
    /\ selected \subseteq judged /\ judged \subseteq cands /\ cands \subseteq Candidate
    /\ scan.of \in {"none", pc} /\ scan.left \subseteq Procs /\ scan.seen \subseteq CanWork
    /\ \A q \in Questions : answers[q] \subseteq SUBSET CanWork

\* No root is declared under two spellings; none lies inside another.
OneSpelling == \A i, j \in DOMAIN roots : roots[i].dir = roots[j].dir => i = j
RootsApart == OneSpelling /\ \A i, j \in DOMAIN roots : roots[i].dir \notin Above[roots[j].dir]

\* No root lies at or below a directory that is proposed from another root.
RootsClear ==
    OneSpelling /\ \A i, j \in DOMAIN roots :
        roots[i].dir \in Above[roots[j].dir] =>
            \A d \in Region(roots[i].dir, roots[j].dir) : Hits(d, roots[i]) = {}

\* What a run removes never overlaps: no directory is selected from two roots,
\* and none below another, or the second rename would find nothing.
SelectionsDisjoint ==
    RootsApart \/ (quiet /\ RootsClear)
    => \A c, d \in selected : c # d => c.node # d.node /\ c.node \notin Above[d.node]

\* When nothing changes meanwhile, what is selected is what this says, with no
\* walk and no order in it: of the roots that contain a directory the first one
\* declared decides, by its own cap, its own matches above, its own pin markers.
ReachedFrom(r, n) ==
    /\ kind[r.dir] = "dir"
    /\ \A d \in Region(r.dir, n) : kind[d] = "dir"
    /\ \A d \in Region(r.dir, n) \ {n} : Hits(d, r) = {}

Wanted(n) ==
    \E i \in DOMAIN roots :
        LET r == roots[i]
            c == CandidateOf(FirstOf(Hits(n, r)), n, r)
        IN
        /\ StrictlyInside(Canonical(n), Canonical(r.dir))
        /\ \A j \in 1..(i - 1) : ~StrictlyInside(Canonical(n), Canonical(roots[j].dir))
        /\ Resolves(r.dir) /\ ReachedFrom(r, n)
        /\ Hits(n, r) # {}
        /\ ~(DenyFloor(c) \/ PinnedUnder(r, n, Pins) \/ HeartbeatGuard(c))
        /\ InWorktree(n) => n \notin Tracked
        /\ Rules[c.rule].idle => n \notin fresh
        /\ r.via = "real" => \A d \in Working : d # n /\ n \notin Above[d]

FirstRootDecides ==
    pc = "done" /\ quiet /\ OneSpelling
    => {c.node : c \in selected} = {n \in Entries : Wanted(n)}

\* About whatever a sweep of all tiers proposes explain says what the sweep does.
ExplainAgreesOnCandidates ==
    pc = "done" /\ quiet /\ RootsApart /\ MaxTier = 2
    => \A c \in cands : Explain(PathOf(c)) <=> c \in selected

\* A directory is kept that has been protected ever since the run began, however
\* the tree changed between the walk and the judgement: by a marker above it, a link
\* on the way to it, a repository that does not ignore it, whether git answers or not.
StandingProtectionHolds ==
    \A c \in selected :
        /\ ~PinnedUnder(c.root, c.node, kept.pins)
        /\ Region(c.root.dir, c.node) \cap kept.links = {}
        /\ c.node \in Tracked => (Above[c.node] \cup {c.node}) \cap kept.gits = {}

\* So is one in which a process has worked, or held a file open, ever since that
\* was asked, if the system named the process then: however often asking failed
\* before, whatever else the process did meanwhile, and though the answer may be
\* that of an earlier candidate.  Nothing is said of a process that was not named:
\* on Linux a /proc that cannot be read names nobody (linux.rs:13-16), nothing is
\* rejected for it, and the empty answer is kept for the whole run (cache.rs:36).
StandingProcessIsSeen ==
    \A c \in selected : \A q \in Questions :
        c.root.via = "real" =>
            \A pr \in kept[q] :
                pr[2] # c.node /\ c.node \notin Above[pr[2]]

-----------------------------------------------------------------------------
(* What the documentation says and the code does not keep. *)

\* docs/configuration.md, pin_marker: a file with this name protects its
\* directory and everything below it.
PinProtectsItsDirectory ==
    \A c \in selected : \A d \in kept.pins :
        d # c.node /\ d \notin Above[c.node] /\ c.node \notin Above[d]
=============================================================================
