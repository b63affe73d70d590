--------------------------- MODULE SelectionProofs ---------------------------
(***************************************************************************)
(* Proofs about module Selection, for any tree, rules, roots and processes *)
(* and whatever changes while the run plans and judges.                    *)
(*                                                                         *)
(* What has been protected ever since the run began is not selected, nor   *)
(* is a directory in which a process has stayed: that rests on what the    *)
(* guards ask and on the cache of the process inspector, whatever the walk *)
(* yields (Inv).  What is selected lies apart: that rests on the walk, and *)
(* on its pruning (Walk).  That a run under which nothing changes selects  *)
(* what a declaration says, and that explain says the same, rests on both  *)
(* (Calm).                                                                 *)
(***************************************************************************)
EXTENDS Selection, FiniteSetTheorems, WellFoundedInduction, NaturalsInduction, TLAPS

-----------------------------------------------------------------------------
(* The inductive invariant. *)

Kept == [pins : SUBSET Entries, gits : SUBSET (Entries \cup {0}), links : SUBSET Entries,
         live_cwds : SUBSET (Procs \X CanWork), open_paths : SUBSET (Procs \X CanWork)]

Types ==
    /\ pc \in {"walk", "judge", "done"} \cup Questions
    /\ answers \in [Questions -> SUBSET SUBSET CanWork]
    /\ scan \in [of : Questions \cup {"none"}, left : SUBSET Procs, seen : SUBSET CanWork]
    /\ kept \in Kept
    /\ alive \in SUBSET Procs

\* What has been so ever since is so now.
StillSo ==
    /\ kept.pins \subseteq Pins /\ kept.gits \subseteq Gits /\ kept.links \subseteq Links
    /\ \A q \in Questions : kept[q] \subseteq There(q)

\* An answer has everybody in it who was named when it was asked for and has stayed.
Complete == \A q \in Questions : \A places \in answers[q] : \A pr \in kept[q] : pr[2] \in places

\* While the processes are looked at, each of them has been seen or is to come.
Underway ==
    scan.of \in Questions =>
        /\ pc = scan.of /\ answers[scan.of] = {}
        /\ \A pr \in kept[scan.of] : pr[1] \in scan.left \/ pr[2] \in scan.seen

\* Nothing that stands by k speaks against candidate c, nor a process of question q.
Spared(c, k) ==
    /\ ~PinnedUnder(c.root, c.node, k.pins)
    /\ Region(c.root.dir, c.node) \cap k.links = {}
    /\ c.node \in Tracked => (Above[c.node] \cup {c.node}) \cap k.gits = {}

Cleared(q, c, k) ==
    c.root.via = "real" => \A pr \in k[q] : pr[2] # c.node /\ c.node \notin Above[pr[2]]

\* Nothing is selected before both questions have been answered, for good.
Answers ==
    /\ selected # {} => \A q \in Questions : answers[q] # {}
    /\ pc = "open_paths" => answers["live_cwds"] # {}

\* The candidate at the eighth guard has passed the seven before, and the first
\* question once it is at the second.
InHand ==
    /\ pc \in Questions => Spared(Current, kept)
    /\ pc = "open_paths" => Cleared("live_cwds", Current, kept)

LetThrough ==
    \A c \in selected : Spared(c, kept) /\ \A q \in Questions : Cleared(q, c, kept)

Inv == Types /\ StillSo /\ Complete /\ Underway /\ Answers /\ InHand /\ LetThrough

-----------------------------------------------------------------------------
(* What is known of the world. *)

LEMMA TwoQuestions ==
    /\ "live_cwds" \in Questions /\ "open_paths" \in Questions
    /\ \A q \in Questions : q = "live_cwds" \/ q = "open_paths"
    /\ "walk" \notin Questions /\ "judge" \notin Questions /\ "done" \notin Questions
    /\ "none" \notin Questions
BY DEF Questions

LEMMA ThereType == \A q \in Questions : There(q) \in SUBSET (Procs \X CanWork)
BY DEF There, Now

LEMMA RealType == Real \in SUBSET CanWork
BY DEF Real

\* The state of a record of what is kept, by its questions.
LEMMA KeptByQuestion ==
    ASSUME NEW k \in Kept
    PROVE  /\ k["live_cwds"] = k.live_cwds /\ k["open_paths"] = k.open_paths
           /\ \A q \in Questions : k[q] \in SUBSET (Procs \X CanWork)
BY TwoQuestions DEF Kept

\* What is spared and cleared stays so when less is kept.
LEMMA LessIsKept ==
    ASSUME NEW k, NEW l, NEW c,
           l.pins \subseteq k.pins, l.gits \subseteq k.gits, l.links \subseteq k.links,
           Spared(c, k)
    PROVE  Spared(c, l)
BY DEF Spared, PinnedUnder

\* While the world stands still, so does what is derived from it.
LEMMA WorldStands ==
    ASSUME UNCHANGED worldVars
    PROVE  /\ Pins' = Pins /\ Gits' = Gits /\ Links' = Links
           /\ Real' = Real /\ \A q \in Questions : There(q)' = There(q)
<1>1. kind' = kind /\ has' = has /\ alive' = alive /\ cwd' = cwd /\ open' = open
  BY DEF worldVars, treeVars, processVars
<1>2. Pins' = Pins /\ Gits' = Gits /\ Links' = Links
  BY <1>1 DEF Pins, Gits, Links
<1>3. Real' = Real
  BY <1>1 DEF Real, Behind
<1>4. ASSUME NEW q \in Questions PROVE There(q)' = There(q)
  BY <1>1, <1>3 DEF There, Now, Seen
<1> QED BY <1>2, <1>3, <1>4

\* The candidate in hand changes only with what is judged.
LEMMA SameInHand ==
    ASSUME cands' = cands, judged' = judged, roots' = roots
    PROVE  Current' = Current
BY DEF Current

-----------------------------------------------------------------------------
(* The inductive step. *)

\* A step of the run on which no question, answer or selection changes.
LEMMA BesideTheQuestions ==
    ASSUME Inv, UNCHANGED <<worldVars, inspectorVars, kept, selected>>,
           pc \notin Questions, pc' \in {"walk", "judge", "done"}
    PROVE  Inv'
<1> USE DEF Inv
<1>1. scan' = scan /\ answers' = answers /\ kept' = kept /\ selected' = selected
  BY DEF inspectorVars
<1>2. scan.of \notin Questions /\ pc' \notin Questions /\ pc' # "open_paths"
  BY TwoQuestions DEF Underway
<1>3. Types'
  BY <1>1 DEF Types, Kept, worldVars, processVars
<1>4. StillSo'
  BY <1>1, WorldStands DEF StillSo
<1>5. Complete' /\ Underway' /\ LetThrough'
  BY <1>1, <1>2 DEF Complete, Underway, LetThrough
<1>6. Answers' /\ InHand'
  BY <1>1, <1>2 DEF Answers, InHand
<1> QED BY <1>3, <1>4, <1>5, <1>6

\* What the seven guards let through nothing standing speaks against.
LEMMA GuardsHold ==
    ASSUME Inv, NEW c, NEW answered \in BOOLEAN, ~HeldBack(c, answered)
    PROVE  Spared(c, kept)
<1>1. kept.pins \subseteq Pins /\ kept.gits \subseteq Gits /\ kept.links \subseteq Links
  BY DEF Inv, StillSo
<1>2. ~PinnedUnder(c.root, c.node, kept.pins)
  BY <1>1 DEF HeldBack, PinGuard, PinnedUnder
<1>3. \A d \in Region(c.root.dir, c.node) : kind[d] # "link"
  BY DEF HeldBack, Containment
<1>4. Region(c.root.dir, c.node) \cap kept.links = {}
  BY <1>1, <1>3 DEF Links
<1>5. ASSUME c.node \in Tracked PROVE (Above[c.node] \cup {c.node}) \cap kept.gits = {}
  BY <1>1, <1>5 DEF HeldBack, GitGuard, InWorktree
<1> QED BY <1>2, <1>4, <1>5 DEF Spared

LEMMA PassStep ==
    ASSUME Inv, NEW c, NEW answered \in BOOLEAN, Pass(c, answered)
    PROVE  Inv'
<1> USE DEF Inv
<1>1. /\ pc = "judge" /\ pc' = "live_cwds" /\ c = Current
      /\ UNCHANGED <<worldVars, scan, answers, kept, selected, cands, judged, roots>>
  BY DEF Pass, MayJudge, planVars, inspectorVars
<1>2. scan.of \notin Questions /\ pc' \in Questions /\ pc' # "open_paths"
  BY <1>1, TwoQuestions DEF Underway
<1>3. Types'
  BY <1>1, <1>2 DEF Types, Kept, worldVars, processVars
<1>4. StillSo'
  BY <1>1, WorldStands DEF StillSo
<1>5. Complete' /\ Underway' /\ LetThrough' /\ Answers'
  BY <1>1, <1>2 DEF Complete, Underway, LetThrough, Answers
<1>6. Spared(Current, kept)
  BY <1>1, GuardsHold DEF Pass
<1>7. InHand'
  BY <1>1, <1>2, <1>6, SameInHand DEF InHand
<1> QED BY <1>3, <1>4, <1>5, <1>7

\* A question is asked, whoever of those there the system names.
LEMMA AskedAnew ==
    ASSUME Inv, pc \in Questions, answers[pc] = {}, answers' = answers,
           NEW K, K \subseteq There(pc), kept' = [kept EXCEPT ![pc] = K],
           UNCHANGED <<worldVars, selected>>
    PROVE  /\ kept' \in Kept /\ StillSo' /\ Complete' /\ selected = {} /\ LetThrough'
           /\ kept'[pc] = K
           /\ \A q \in Questions \ {pc} : kept'[q] = kept[q]
           /\ \A c : Spared(c, kept) => Spared(c, kept')
<1> USE DEF Inv
<1>1. /\ kept' \in Kept /\ kept'.pins = kept.pins /\ kept'.gits = kept.gits
      /\ kept'.links = kept.links /\ kept'[pc] = K
      /\ \A q \in Questions \ {pc} : kept'[q] = kept[q]
  <2>1. kept \in Kept /\ K \in SUBSET (Procs \X CanWork)
    BY ThereType DEF Types
  <2>2. CASE pc = "live_cwds"
    BY <2>1, <2>2, TwoQuestions DEF Kept
  <2>3. CASE pc = "open_paths"
    BY <2>1, <2>3, TwoQuestions DEF Kept
  <2> QED BY <2>2, <2>3, TwoQuestions
<1>2. selected = {}
  BY DEF Answers
<1>3. StillSo'
  BY <1>1, WorldStands DEF StillSo
<1>4. Complete'
  BY <1>1 DEF Complete
<1>5. LetThrough'
  BY <1>2 DEF LetThrough
<1>6. \A c : Spared(c, kept) => Spared(c, kept')
  BY <1>1 DEF Spared
<1> QED BY <1>1, <1>2, <1>3, <1>4, <1>5, <1>6

LEMMA AskStep ==
    ASSUME Inv, Ask, ProcessesOK
    PROVE  Inv'
<1> USE DEF Inv
<1>0. PICK named \in Namings :
          /\ List(pc, named)
          /\ kept' = [kept EXCEPT ![pc] = {pr \in There(pc) : pr[1] \in named}]
  BY DEF Ask
<1> DEFINE K == {pr \in There(pc) : pr[1] \in named}
<1>1. /\ pc \in Questions /\ pc' = pc /\ answers[pc] = {} /\ answers' = answers
      /\ scan' = [of |-> pc, left |-> named, seen |-> {}]
      /\ kept' = [kept EXCEPT ![pc] = K]
      /\ UNCHANGED <<worldVars, selected, cands, judged, roots>>
  BY <1>0 DEF Ask, List, worldVars, planVars
<1>2. /\ kept' \in Kept /\ StillSo' /\ Complete' /\ selected = {} /\ LetThrough'
      /\ kept'[pc] = K
      /\ \A q \in Questions \ {pc} : kept'[q] = kept[q]
      /\ \A c : Spared(c, kept) => Spared(c, kept')
  BY <1>1, AskedAnew
<1>3. named \in SUBSET Procs
  BY DEF Namings, Types
<1>4. Underway'
  BY <1>1, <1>2 DEF Underway
<1>5. Types'
  BY <1>1, <1>2, <1>3 DEF Types, worldVars, processVars
<1>6. Answers'
  BY <1>1, <1>2 DEF Answers
<1>7. InHand'
  BY <1>1, <1>2, SameInHand, TwoQuestions DEF InHand, Cleared
<1> QED BY <1>2, <1>4, <1>5, <1>6, <1>7

LEMMA AskFailsStep ==
    ASSUME Inv, AskFails
    PROVE  Inv'
<1> USE DEF Inv
<1>1. /\ pc \in Questions /\ pc' = "judge" /\ answers[pc] = {} /\ answers' = answers
      /\ scan' = scan /\ scan = NoScan
      /\ kept' = [kept EXCEPT ![pc] = There(pc)]
      /\ UNCHANGED <<worldVars, selected>>
  BY DEF AskFails, ListFails, worldVars, inspectorVars
<1>2. /\ kept' \in Kept /\ StillSo' /\ Complete' /\ selected = {} /\ LetThrough'
  BY <1>1, AskedAnew
<1>3. Underway'
  BY <1>1, TwoQuestions DEF Underway, NoScan
<1>4. Types'
  BY <1>1, <1>2 DEF Types, worldVars, processVars
<1>5. Answers' /\ InHand'
  BY <1>1, <1>2, TwoQuestions DEF Answers, InHand
<1> QED BY <1>2, <1>3, <1>4, <1>5

\* One process is looked at: if it has stayed, where it is goes into the answer.
LEMMA LookStep ==
    ASSUME Inv, Look
    PROVE  Inv'
<1> USE DEF Inv
<1>1. PICK p \in Procs : LookAt(p, Real)
  BY DEF Look
<1>2. /\ UNCHANGED <<worldVars, kept, selected, answers, cands, judged, roots>>
      /\ pc' = pc /\ pc \in Questions /\ p \in scan.left
      /\ scan' = [scan EXCEPT !.left = @ \ {p},
                              !.seen = @ \cup ({Seen(scan.of, p)} \cap Real)]
  BY <1>1 DEF Look, LookAt, worldVars, planVars
<1>3. /\ scan \in [of : Questions \cup {"none"}, left : SUBSET Procs, seen : SUBSET CanWork]
      /\ scan'.of = scan.of /\ scan'.left = scan.left \ {p}
      /\ scan'.seen = scan.seen \cup ({Seen(scan.of, p)} \cap Real)
  BY <1>2 DEF Types
<1>4. Types'
  BY <1>2, <1>3, RealType DEF Types, worldVars, processVars
<1>5. StillSo'
  BY <1>2, WorldStands DEF StillSo
<1>6. Complete' /\ Answers' /\ LetThrough'
  BY <1>2 DEF Complete, Answers, LetThrough
<1>7. InHand'
  BY <1>2, SameInHand DEF InHand
<1>8. ASSUME scan.of \in Questions, NEW pr \in kept[scan.of]
      PROVE  pr[1] \in scan'.left \/ pr[2] \in scan'.seen
  <2>1. pr[1] \in scan.left \/ pr[2] \in scan.seen
    BY <1>8 DEF Underway
  <2>2. pr \in There(scan.of)
    BY <1>8 DEF StillSo
  <2>3. pr[2] = Seen(scan.of, pr[1]) /\ pr[2] \in Real
    BY <2>2 DEF There, Now
  <2> QED BY <1>3, <2>1, <2>3
<1>9. Underway'
  BY <1>2, <1>3, <1>8 DEF Underway
<1> QED BY <1>4, <1>5, <1>6, <1>7, <1>9

\* An answer that has come has everybody in it who was named and has stayed.
LEMMA AnswerKnown ==
    ASSUME Inv, NEW places \in SUBSET CanWork, pc \in Questions, Answered(pc, places),
           kept' = kept
    PROVE  /\ answers' \in [Questions -> SUBSET SUBSET CanWork]
           /\ answers'[pc] = {places} /\ \A q \in Questions \ {pc} : answers'[q] = answers[q]
           /\ \A pr \in kept[pc] : pr[2] \in places
           /\ Complete' /\ scan' = NoScan
<1> USE DEF Inv
<1>1. /\ answers' \in [Questions -> SUBSET SUBSET CanWork]
      /\ answers'[pc] = {places} /\ \A q \in Questions \ {pc} : answers'[q] = answers[q]
      /\ scan' = NoScan
  BY DEF Answered, Types
<1>2. \A pr \in kept[pc] : pr[2] \in places
  <2>1. CASE answers[pc] = {places}
    BY <2>1 DEF Complete
  <2>2. CASE scan.of = pc /\ scan.left = {} /\ places = scan.seen
    BY <2>2 DEF Underway
  <2> QED BY <2>1, <2>2 DEF Answered
<1>3. Complete'
  BY <1>1, <1>2 DEF Complete
<1> QED BY <1>1, <1>2, <1>3

LEMMA HeldStep ==
    ASSUME Inv, Held
    PROVE  Inv'
<1> USE DEF Inv
<1>1. PICK places \in SUBSET CanWork : Answered(pc, places)
  BY DEF Held
<1>2. /\ UNCHANGED <<worldVars, kept, selected>> /\ pc \in Questions /\ pc' = "judge"
  BY <1>1 DEF Held, Answered, worldVars
<1>3. /\ answers' \in [Questions -> SUBSET SUBSET CanWork]
      /\ answers'[pc] = {places} /\ \A q \in Questions \ {pc} : answers'[q] = answers[q]
      /\ Complete' /\ scan' = NoScan
  BY <1>1, <1>2, AnswerKnown
<1>4. Types'
  BY <1>2, <1>3 DEF Types, NoScan, worldVars, processVars
<1>5. StillSo'
  BY <1>2, WorldStands DEF StillSo
<1>6. Underway' /\ InHand' /\ LetThrough'
  BY <1>2, <1>3, TwoQuestions DEF Underway, NoScan, InHand, LetThrough
<1>7. Answers'
  BY <1>2, <1>3, TwoQuestions DEF Answers
<1> QED BY <1>3, <1>4, <1>5, <1>6, <1>7

\* Where an answer has nobody at or below the candidate nobody has stayed there.
LEMMA NobodyThere ==
    ASSUME NEW c, NEW places, NEW k, NEW q, ~LivenessGuard(c, places),
           \A pr \in k[q] : pr[2] \in places
    PROVE  Cleared(q, c, k)
BY DEF LivenessGuard, StartsWith, PathOf, Cleared

LEMMA FreeStep ==
    ASSUME Inv, Free
    PROVE  Inv'
<1> USE DEF Inv
<1>1. PICK places \in SUBSET CanWork :
          Answered(pc, places) /\ ~LivenessGuard(Current, places)
  BY DEF Free
<1>2. /\ UNCHANGED <<worldVars, kept, cands, roots>> /\ pc \in Questions
  BY <1>1 DEF Free, Answered, worldVars, planVars
<1>3. /\ answers' \in [Questions -> SUBSET SUBSET CanWork]
      /\ answers'[pc] = {places} /\ \A q \in Questions \ {pc} : answers'[q] = answers[q]
      /\ \A pr \in kept[pc] : pr[2] \in places
      /\ Complete' /\ scan' = NoScan
  BY <1>1, <1>2, AnswerKnown
<1>4. Spared(Current, kept) /\ Cleared(pc, Current, kept)
  BY <1>1, <1>2, <1>3, NobodyThere DEF InHand
<1>5. StillSo'
  BY <1>2, WorldStands DEF StillSo
<1>6. Underway'
  BY <1>3, TwoQuestions DEF Underway, NoScan
<1>7. CASE pc = "live_cwds" /\ pc' = "open_paths" /\ UNCHANGED <<judged, selected>>
  <2>1. Types'
    BY <1>2, <1>3, <1>7, TwoQuestions DEF Types, NoScan, worldVars, processVars
  <2>2. Answers'
    BY <1>3, <1>7, TwoQuestions DEF Answers
  <2>3. InHand' /\ LetThrough'
    BY <1>2, <1>4, <1>7, SameInHand DEF InHand, LetThrough
  <2> QED BY <1>3, <1>5, <1>6, <2>1, <2>2, <2>3
<1>8. CASE pc = "open_paths" /\ pc' = "judge" /\ selected' = selected \cup {Current}
  <2>1. Types'
    BY <1>2, <1>3, <1>8 DEF Types, NoScan, worldVars, processVars
  <2>2. \A q \in Questions : Cleared(q, Current, kept)
    BY <1>4, <1>8, TwoQuestions DEF InHand
  <2>3. Answers'
    BY <1>3, <1>8, TwoQuestions DEF Answers
  <2>4. InHand' /\ LetThrough'
    BY <1>2, <1>4, <1>8, <2>2, TwoQuestions DEF InHand, LetThrough
  <2> QED BY <1>3, <1>5, <1>6, <2>1, <2>3, <2>4
<1> QED BY <1>7, <1>8 DEF Free

\* Whatever changes meanwhile, less is kept and what is kept is so.
LEMMA WorldStep ==
    ASSUME Inv, World
    PROVE  Inv'
<1> USE DEF Inv
<1>1. /\ Changed /\ alive' \in SUBSET Procs
  BY DEF World, ChangeFile, Swap, Work, Touch, ProcessStep, Move, OpenOrClose, Exit, StartIn,
         processVars, Types
<1>2. /\ UNCHANGED <<pc, scan, answers, selected, cands, judged, roots>>
      /\ kept' = [pins |-> kept.pins \cap Pins', gits |-> kept.gits \cap Gits',
                  links |-> kept.links \cap Links',
                  live_cwds |-> kept.live_cwds \cap There("live_cwds")',
                  open_paths |-> kept.open_paths \cap There("open_paths")']
  BY <1>1 DEF Changed, runVars, planVars, inspectorVars
<1>3. kept \in Kept /\ kept' \in Kept
  BY <1>2 DEF Types, Kept
<1>4. /\ kept'.pins \subseteq kept.pins /\ kept'.gits \subseteq kept.gits
      /\ kept'.links \subseteq kept.links
      /\ \A q \in Questions : kept'[q] \subseteq kept[q] /\ kept'[q] \subseteq There(q)'
  BY <1>2, <1>3, TwoQuestions, KeptByQuestion
<1>5. Types'
  BY <1>1, <1>2, <1>3 DEF Types
<1>6. StillSo'
  BY <1>2, <1>4 DEF StillSo
<1>7. Complete' /\ Underway' /\ Answers'
  BY <1>2, <1>4 DEF Complete, Underway, Answers
<1>8. \A c : Spared(c, kept) => Spared(c, kept')
  BY <1>4, LessIsKept
<1>9. \A c : \A q \in Questions : Cleared(q, c, kept) => Cleared(q, c, kept')
  BY <1>4 DEF Cleared
<1>10. InHand' /\ LetThrough'
  BY <1>2, <1>8, <1>9, SameInHand, TwoQuestions DEF InHand, LetThrough
<1> QED BY <1>5, <1>6, <1>7, <1>10

\* The run begins with nothing asked and nothing selected.
LEMMA InvInit ==
    ASSUME Init
    PROVE  Inv
<1>1. /\ pc = "walk" /\ selected = {} /\ alive \in SUBSET Procs
      /\ scan = NoScan /\ answers = [q \in Questions |-> {}]
      /\ kept = [pins |-> Pins, gits |-> Gits, links |-> Links,
                 live_cwds |-> {}, open_paths |-> {}]
  BY DEF Init, InitProcesses
<1>2. Types
  BY <1>1, TwoQuestions DEF Types, Kept, NoScan, Pins, Gits, Links
<1>3. \A q \in Questions : kept[q] = {}
  BY <1>1, TwoQuestions
<1>4. StillSo
  BY <1>1, <1>3 DEF StillSo
<1>5. Complete /\ Underway /\ Answers /\ InHand /\ LetThrough
  BY <1>1, <1>3, TwoQuestions DEF Complete, Underway, Answers, InHand, LetThrough, NoScan
<1> QED BY <1>2, <1>4, <1>5 DEF Inv

LEMMA InvStep ==
    ASSUME Inv, [Next]_vars
    PROVE  Inv'
<1>1. CASE NextRoot \/ Visit
  BY <1>1, BesideTheQuestions, TwoQuestions DEF NextRoot, Visit
<1>2. CASE PlanEnd \/ JudgeEnd
  BY <1>2, BesideTheQuestions, TwoQuestions DEF PlanEnd, JudgeEnd
<1>3. ASSUME NEW c \in cands, Judge(c) PROVE Inv'
  <2>1. PICK answered \in BOOLEAN : Reject(c, answered) \/ Pass(c, answered)
    BY <1>3 DEF Judge
  <2>2. CASE Reject(c, answered)
    BY <2>2, BesideTheQuestions, TwoQuestions DEF Reject, MayJudge
  <2>3. CASE Pass(c, answered)
    BY <2>3, PassStep
  <2> QED BY <2>1, <2>2, <2>3
<1>4. CASE Ask
  BY <1>4, AskStep, ProcessesOK
<1>5. CASE AskFails
  BY <1>5, AskFailsStep
<1>6. CASE Look
  BY <1>6, LookStep
<1>7. CASE Held
  BY <1>7, HeldStep
<1>8. CASE Free
  BY <1>8, FreeStep
<1>9. CASE World
  BY <1>9, WorldStep
<1>10. CASE UNCHANGED vars
  <2>1. UNCHANGED <<worldVars, scan, answers, kept, selected, cands, judged, roots, pc>>
    BY <1>10 DEF vars, runVars, planVars, inspectorVars
  <2>2. Types' /\ StillSo'
    BY <2>1, WorldStands DEF Inv, Types, StillSo, worldVars, processVars
  <2>3. Complete' /\ Underway' /\ Answers' /\ LetThrough'
    BY <2>1 DEF Inv, Complete, Underway, Answers, LetThrough
  <2>4. InHand'
    BY <2>1, SameInHand DEF Inv, InHand
  <2> QED BY <2>2, <2>3, <2>4 DEF Inv
<1> QED BY <1>1, <1>2, <1>3, <1>4, <1>5, <1>6, <1>7, <1>8, <1>9, <1>10 DEF Next

-----------------------------------------------------------------------------
(* The theorems. *)

\* The inductive invariant of a run of planner and guards: what is kept is so, an
\* answer has everybody in it whom the system named and who has stayed, and nothing
\* kept speaks against what the guards have let through (guard.rs, evaluate; cache.rs).
THEOREM SelectionInv == Spec => []Inv
<1>1. Init => Inv
  BY InvInit
<1>2. Inv /\ [Next]_vars => Inv'
  BY InvStep
<1> QED BY <1>1, <1>2, PTL DEF Spec

\* No directory is selected that a marker, a link or a repository has protected ever
\* since the run began, for any tree and rules and however the tree changes between
\* the walk and the judgement (guard.rs, the pin, containment and git guards).
THEOREM StandingProtection == Spec => []StandingProtectionHolds
<1>1. Inv => StandingProtectionHolds
  BY DEF Inv, LetThrough, Spared, StandingProtectionHolds
<1> QED BY <1>1, SelectionInv, PTL

\* No directory is selected in which a process has stayed since it was asked for, if
\* the system named that process then, for any number of processes and however often
\* asking failed before (guard.rs, the liveness guard; cache.rs).  A process that an
\* unreadable /proc leaves unnamed is in no answer, and is not spoken of here.
THEOREM StandingProcess == Spec => []StandingProcessIsSeen
<1>1. Inv => StandingProcessIsSeen
  BY DEF Inv, LetThrough, Cleared, StandingProcessIsSeen
<1> QED BY <1>1, SelectionInv, PTL

-----------------------------------------------------------------------------
(* Numbers.  What would be an induction is argued with the least number that   *)
(* speaks against it.                                                          *)

LEMMA LeastNumber ==
    ASSUME NEW T, T \subseteq Nat, T # {}
    PROVE  \E x \in T : \A y \in T : x <= y
<1> DEFINE R == OpToRel(<, Nat)
<1>1. IsWellFoundedOn(R, Nat)
  BY NatLessThanWellFounded
<1>2. \A x, y \in Nat : y < x => <<y, x>> \in R
  BY DEF OpToRel
<1> HIDE DEF R
<1>3. PICK x \in T : \A y \in T : ~ (<<y, x>> \in R)
  BY <1>1, WFMin
<1>4. \A y \in T : ~ (y < x)
  BY <1>2, <1>3
<1> QED BY <1>4

LEMMA GreatestNumber ==
    ASSUME NEW T, T \subseteq Nat, T # {}, NEW B \in Nat, \A x \in T : x <= B
    PROVE  \E x \in T : \A y \in T : y <= x
<1> DEFINE Rest == {B - x : x \in T}
<1>1. \A x \in T : x \in Nat /\ B - x \in Nat
  OBVIOUS
<1>2. Rest \subseteq Nat /\ Rest # {}
  BY <1>1
<1>3. PICK l \in Rest : \A m \in Rest : l <= m
  BY <1>2, LeastNumber
<1>4. PICK x \in T : l = B - x
  BY <1>3
<1>5. ASSUME NEW y \in T PROVE y <= x
  <2>1. B - y \in Rest
    OBVIOUS
  <2>2. B - x <= B - y
    BY <1>3, <1>4, <2>1
  <2> QED BY <1>1, <2>2
<1> QED BY <1>5

\* Finitely many numbers have a bound.
LEMMA Bounded ==
    ASSUME NEW k \in Nat, NEW f, \A i \in 1..k : f[i] \in Nat
    PROVE  \E B \in Nat : \A i \in 1..k : f[i] <= B
<1> DEFINE Has(j) == \E B \in Nat : \A i \in 1..j : f[i] <= B
           Bad == {j \in 0..k : ~Has(j)}
<1> SUFFICES ASSUME ~Has(k) PROVE FALSE
  OBVIOUS
<1>1. Bad \subseteq Nat /\ k \in Bad
  OBVIOUS
<1>2. PICK j \in Bad : \A i \in Bad : j <= i
  <2> HIDE DEF Bad
  <2> QED BY <1>1, LeastNumber
<1>3. j \in 0..k /\ ~Has(j)
  BY <1>2
<1>4. Has(0)
  <2>1. \A i \in 1..0 : f[i] <= 0
    OBVIOUS
  <2> QED BY <2>1
<1>5. j - 1 \in 0..k /\ j - 1 \notin Bad
  <2>1. j # 0
    BY <1>3, <1>4
  <2>2. j - 1 \in 0..k /\ ~(j <= j - 1)
    BY <1>3, <2>1
  <2> HIDE DEF Bad
  <2> QED BY <1>2, <2>2
<1>6. PICK B \in Nat : \A i \in 1..(j - 1) : f[i] <= B
  BY <1>5
<1>7. j \in 1..k /\ f[j] \in Nat
  BY <1>3, <1>5
<1>8. \A i \in 1..j : i = j \/ i \in 1..(j - 1)
  BY <1>7
<1>9. CASE f[j] <= B
  <2>1. \A i \in 1..j : f[i] <= B
    BY <1>6, <1>8, <1>9
  <2> QED BY <1>3, <2>1
<1>10. CASE ~ (f[j] <= B)
  <2>1. \A i \in 1..j : f[i] \in Nat
    BY <1>7
  <2>2. \A i \in 1..j : f[i] <= f[j]
    <3> TAKE i \in 1..j
    <3>1. CASE i = j
      BY <1>7, <3>1
    <3>2. CASE i \in 1..(j - 1)
      <4>1. f[i] <= B /\ f[i] \in Nat
        BY <1>6, <2>1, <3>2
      <4> QED BY <1>7, <1>10, <4>1
    <3> QED BY <1>8, <3>1, <3>2
  <2> QED BY <1>3, <1>7, <2>2
<1> QED BY <1>9, <1>10

LEMMA First ==
    ASSUME NEW S, S \subseteq Nat, S # {}
    PROVE  FirstOf(S) \in S /\ \A j \in S : FirstOf(S) <= j
BY LeastNumber DEF FirstOf

-----------------------------------------------------------------------------
(* The tree of entries. *)

\* What lies above an entry is a chain, and what lies above a member of it the rest.
LEMMA Chain ==
    ASSUME NEW n \in Entries
    PROVE  /\ n \in Nat /\ n # 0 /\ n \notin Above[n] /\ 0 \in Above[n]
           /\ \A a \in Above[n] : a \in Nat /\ a < n /\ (a # 0 => a \in Entries)
           /\ \A a \in Above[n] : a # 0 => Above[a] \subseteq Above[n]
           /\ \A a, b \in Above[n] :
                 a # 0 /\ b # 0 => a = b \/ (a < b /\ a \in Above[b]) \/ (b < a /\ b \in Above[a])
<1>1. Above[n] \subseteq Entries \cup {0} /\ Entries \subseteq Nat \ {0} /\ 0 \in Above[n]
  BY SelectionOK
<1>2. \A a \in Above[n] \ {0} : a < n /\ Above[a] \subseteq Above[n]
  BY SelectionOK
<1>3. \A a, b \in Above[n] \ {0} : a < b => a \in Above[b]
  BY SelectionOK
<1>4. \A a \in Above[n] : a \in Nat /\ a < n /\ (a # 0 => a \in Entries)
  BY <1>1, <1>2
<1>5. \A a, b \in Above[n] :
          a # 0 /\ b # 0 => a = b \/ (a < b /\ a \in Above[b]) \/ (b < a /\ b \in Above[a])
  BY <1>3, <1>4
<1> QED BY <1>1, <1>2, <1>4, <1>5

LEMMA ParentIs ==
    ASSUME NEW n \in Entries
    PROVE  Parent(n) \in Above[n] /\ \A b \in Above[n] : b <= Parent(n)
<1>1. \E a \in Above[n] : \A b \in Above[n] : b <= a
  <2>1. Above[n] \subseteq Nat /\ Above[n] # {} /\ n \in Nat /\ \A a \in Above[n] : a <= n
    BY Chain
  <2> QED BY <2>1, GreatestNumber
<1> QED BY <1>1 DEF Parent

LEMMA ChildAbove ==
    ASSUME NEW d \in Entries, NEW m \in Entries, Parent(m) = d
    PROVE  Above[m] = Above[d] \cup {d}
<1>1. d \in Above[m] /\ \A b \in Above[m] : b <= d
  BY ParentIs
<1>2. d # 0 /\ 0 \in Above[d] /\ d \in Nat
  BY Chain
<1>3. Above[d] \subseteq Above[m]
  BY <1>1, <1>2, Chain
<1>4. ASSUME NEW b \in Above[m], b # d PROVE b \in Above[d]
  <2>1. b \in Nat /\ b < d
    BY <1>1, <1>2, <1>4, Chain
  <2> QED BY <1>1, <1>2, <2>1, Chain
<1> QED BY <1>1, <1>3, <1>4

\* From a directory above an entry one step leads towards it.
LEMMA StepDown ==
    ASSUME NEW d \in Entries, NEW n \in Entries, d \in Above[n]
    PROVE  \E m \in Entries : Parent(m) = d /\ m \in Above[n] \cup {n}
<1> DEFINE T == {m \in Above[n] \cup {n} : m # 0 /\ d \in Above[m]}
<1>1. T \subseteq Entries /\ T \subseteq Nat /\ n \in T
  BY Chain
<1> HIDE DEF T
<1>2. PICK m \in T : \A x \in T : m <= x
  BY <1>1, LeastNumber
<1>3. m \in Entries /\ m \in Above[n] \cup {n} /\ d \in Above[m] /\ d # 0
  BY <1>1, <1>2, Chain DEF T
<1>4. Parent(m) \in Above[m] /\ d <= Parent(m)
  BY <1>3, ParentIs
<1>5. ASSUME Parent(m) # d PROVE FALSE
  <2>1. Parent(m) # 0 /\ d \in Above[Parent(m)] /\ Parent(m) < m /\ Parent(m) \in Nat
    BY <1>3, <1>4, <1>5, Chain
  <2>2. Parent(m) \in Above[n]
    BY <1>3, <1>4, Chain
  <2>3. Parent(m) \in T
    BY <2>1, <2>2 DEF T
  <2> QED BY <1>1, <1>2, <2>1, <2>3
<1> QED BY <1>3, <1>5

\* Between a directory and an entry below it lies what is above the one and below
\* the other.
LEMMA RegionIs ==
    ASSUME NEW d \in Entries, NEW n \in Entries, d \in Above[n]
    PROVE  /\ Region(d, n) \subseteq Entries
           /\ \A m : m \in Region(d, n) <=> (m \in Entries /\ m \in Above[n] \cup {n} /\ d \in Above[m])
<1>1. ASSUME NEW m \in Region(d, n)
      PROVE  m \in Entries /\ m \in Above[n] \cup {n} /\ d \in Above[m]
  <2>1. m \in Above[n] \cup {n} /\ m # d /\ m \notin Above[d] /\ m # 0
    BY Chain DEF Region
  <2>2. d # 0
    BY Chain
  <2> QED BY <2>1, <2>2, Chain
<1>2. ASSUME NEW m \in Entries, m \in Above[n] \cup {n}, d \in Above[m] PROVE m \in Region(d, n)
  <2>1. d < m /\ d \in Nat /\ m \in Nat
    BY <1>2, Chain
  <2>2. m # d /\ m \notin Above[d]
    BY <2>1, Chain
  <2> QED BY <1>2, <2>2 DEF Region
<1> QED BY <1>1, <1>2

\* What lies below something deeper lies deeper.
LEMMA Deeper ==
    ASSUME NEW d \in Entries, NEW n \in Entries, d \in Above[n]
    PROVE  /\ Depth(d, n) \in Nat
           /\ \A m \in Above[n] : d \in Above[m] /\ m # 0 => Depth(d, m) \in Nat /\ Depth(d, m) < Depth(d, n)
<1>1. ASSUME NEW m \in Entries PROVE IsFiniteSet(Region(d, m))
  <2>1. Region(d, m) \subseteq 0..m
    BY Chain DEF Region
  <2>2. IsFiniteSet(0..m)
    BY FS_Interval, Chain
  <2> QED BY <2>1, <2>2, FS_Subset
<1>2. \A m \in Entries : Depth(d, m) \in Nat
  BY <1>1, FS_CardinalityType DEF Depth
<1>3. ASSUME NEW m \in Above[n], d \in Above[m], m # 0 PROVE Depth(d, m) < Depth(d, n)
  <2>1. m \in Entries /\ Above[m] \subseteq Above[n] /\ n \notin Above[m] /\ n # m
    BY <1>3, Chain
  <2>2. Region(d, m) \subseteq Region(d, n) /\ n \notin Region(d, m) /\ n \in Region(d, n)
    BY <2>1, Chain, RegionIs DEF Region
  <2>3. Region(d, m) # Region(d, n)
    BY <2>2
  <2>4. Cardinality(Region(d, m)) <= Cardinality(Region(d, n))
        /\ Cardinality(Region(d, n)) # Cardinality(Region(d, m))
    BY <1>1, <2>2, <2>3, FS_Subset
  <2>5. Cardinality(Region(d, m)) \in Nat /\ Cardinality(Region(d, n)) \in Nat
    BY <1>1, <2>1, FS_CardinalityType
  <2> QED BY <2>4, <2>5 DEF Depth
<1> QED BY <1>2, <1>3, Chain

\* The walk goes as deep as any rule of the run reaches.
LEMMA DeepEnough ==
    ASSUME NEW r \in Root
    PROVE  \A i \in DOMAIN Rules : Rules[i].tier <= MaxTier =>
               /\ Cap(Rules[i], r) \in Nat /\ WalkDepth(r) \in Nat /\ Cap(Rules[i], r) <= WalkDepth(r)
<1> DEFINE Caps == {Cap(Rules[i], r) : i \in {j \in DOMAIN Rules : Rules[j].tier <= MaxTier}}
           f == [i \in DOMAIN Rules |-> Cap(Rules[i], r)]
<1>1. /\ DOMAIN Rules = 1..Len(Rules) /\ Len(Rules) \in Nat
      /\ \A i \in DOMAIN Rules : Rules[i] \in Rule
  BY SelectionOK
<1>2. \A i \in DOMAIN Rules : Cap(Rules[i], r) \in Nat
  <2>1. \A rule \in Rule : Cap(rule, r) \in Nat
    BY DEF Rule, Root, Cap
  <2> QED BY <1>1, <2>1
<1>3. PICK B \in Nat : \A i \in 1..Len(Rules) : f[i] <= B
  BY <1>1, <1>2, Bounded
<1>4. Caps \subseteq Nat /\ \A x \in Caps : x <= B
  BY <1>1, <1>2, <1>3
<1>5. Caps # {}
  BY SelectionOK
<1> HIDE DEF Caps
<1>6. \E x \in Caps : \A y \in Caps : y <= x
  BY <1>4, <1>5, GreatestNumber
<1> USE DEF Caps
<1>7. \E x \in Caps : \A i \in DOMAIN Rules : Rules[i].tier <= MaxTier => Cap(Rules[i], r) <= x
  BY <1>6
<1>8. WalkDepth(r) \in Caps /\ \A i \in DOMAIN Rules : Rules[i].tier <= MaxTier => Cap(Rules[i], r) <= WalkDepth(r)
  BY <1>7 DEF WalkDepth
<1> QED BY <1>2, <1>4, <1>8

-----------------------------------------------------------------------------
(* The walk. *)

\* Neither lies at or below the other.
Apart(m, n) == m # n /\ m \notin Above[n] /\ n \notin Above[m]

\* What the walk has proposed from one root, and has still to yield, lies below that
\* root, and apart.
WalkTypes ==
    /\ roots \in RootLists /\ root \in 0..Len(roots)
    /\ todo # {} => root # 0
    /\ pc # "walk" => root = Len(roots) /\ todo = {}
    /\ \A e \in todo : e.node \in Entries /\ roots[root].dir \in Above[e.node]
    /\ \A c \in cands :
          c.node \in Entries /\ \E i \in 1..root : c.root = roots[i] /\ roots[i].dir \in Above[c.node]

WalkApart ==
    /\ \A e, f \in todo : e # f => Apart(e.node, f.node)
    /\ \A e \in todo, c \in cands : c.root = roots[root] => Apart(e.node, c.node)
    /\ \A c, d \in cands : c.root = d.root /\ c # d => Apart(c.node, d.node)

\* The judged are candidates, and the selected are judged.
Judging ==
    /\ selected \subseteq judged /\ judged \subseteq cands
    /\ pc \in Questions => Current \in cands
    /\ pc = "done" => judged = cands

Walk == WalkTypes /\ WalkApart /\ Judging

LEMMA RootsAre ==
    ASSUME roots \in RootLists
    PROVE  /\ Len(roots) \in Nat /\ DOMAIN roots = 1..Len(roots)
           /\ \A i \in 1..Len(roots) :
                 /\ roots[i] \in Root /\ roots[i].dir \in Entries /\ roots[i].dir # 0
                 /\ roots[i].via \in Spellings /\ roots[i].cap \in Nat
           /\ \A i, j \in 1..Len(roots) : roots[i] = roots[j] => i = j
<1>1. roots \in Seq(Root)
  BY SelectionOK
<1>2. Len(roots) \in Nat /\ DOMAIN roots = 1..Len(roots) /\ \A i \in 1..Len(roots) : roots[i] \in Root
  BY <1>1
<1>3. \A i \in 1..Len(roots) : roots[i].dir \in Entries /\ roots[i].via \in Spellings /\ roots[i].cap \in Nat
  BY <1>2 DEF Root
<1>4. 0 \notin Entries
  BY SelectionOK
<1>5. \A i, j \in 1..Len(roots) : roots[i] = roots[j] => i = j
  BY <1>2, SelectionOK
<1> QED BY <1>2, <1>3, <1>4, <1>5

\* What is listed of a directory lies right below it.
LEMMA Listed ==
    ASSUME NEW d, NEW e \in Listing(d)
    PROVE  /\ e.node \in Entries /\ Parent(e.node) = d /\ e.is = kind[e.node]
           /\ kind[e.node] # "none" /\ Resolves(d) /\ kind[d] \in {"dir", "link"}
           /\ e = [node |-> e.node, is |-> kind[e.node]]
BY DEF Listing

LEMMA ListedApart ==
    ASSUME NEW d \in Entries
    PROVE  \A e, f \in Listing(d) : e # f => Apart(e.node, f.node)
<1> TAKE e, f \in Listing(d)
<1>1. /\ e.node \in Entries /\ Above[e.node] = Above[d] \cup {d}
      /\ f.node \in Entries /\ Above[f.node] = Above[d] \cup {d}
  BY Listed, ChildAbove
<1>2. e.node \notin Above[e.node] /\ f.node \notin Above[f.node]
  BY <1>1, Chain
<1>3. e # f => e.node # f.node
  BY Listed
<1> QED BY <1>1, <1>2, <1>3 DEF Apart

\* What lies apart from a directory lies apart from what is in it.
LEMMA ApartBelow ==
    ASSUME NEW d \in Entries, NEW n \in Entries, Parent(n) = d, NEW x \in Entries, Apart(d, x)
    PROVE  Apart(n, x) /\ Apart(x, n)
<1>1. Above[n] = Above[d] \cup {d}
  BY ChildAbove
<1>2. x \notin Above[n]
  BY <1>1 DEF Apart
<1>3. d \in Above[n] /\ d # 0
  BY <1>1, Chain
<1>4. n \notin Above[x]
  <2>1. n # 0 /\ (n \in Above[x] => Above[n] \subseteq Above[x])
    BY Chain
  <2> QED BY <1>3, <2>1 DEF Apart
<1>5. n # x
  BY <1>3 DEF Apart
<1> QED BY <1>2, <1>4, <1>5 DEF Apart

LEMMA WalkInit ==
    ASSUME Init
    PROVE  Walk
<1>1. /\ pc = "walk" /\ roots \in RootLists /\ root = 0 /\ todo = {} /\ cands = {}
      /\ judged = {} /\ selected = {}
  BY DEF Init
<1>2. 0 \in 0..Len(roots)
  BY <1>1, RootsAre
<1> QED BY <1>1, <1>2, TwoQuestions DEF Walk, WalkTypes, WalkApart, Judging

LEMMA WalkNextRoot ==
    ASSUME Walk, NextRoot
    PROVE  Walk'
<1> USE DEF Walk
<1>1. /\ pc = "walk" /\ pc' = pc /\ todo = {} /\ root < Len(roots) /\ root' = root + 1
      /\ UNCHANGED <<roots, cands, judged, selected>>
      /\ todo' \subseteq Listing(roots[root + 1].dir)
  BY DEF NextRoot
<1>2. /\ Len(roots) \in Nat /\ root \in 0..Len(roots) /\ root + 1 \in 1..Len(roots)
      /\ roots[root + 1].dir \in Entries
      /\ \A i \in 1..root : i \in 1..Len(roots) /\ i # root + 1
  BY <1>1, RootsAre DEF WalkTypes
<1>3. \A i \in 1..root : roots[i] # roots[root + 1]
  BY <1>2, RootsAre DEF WalkTypes
<1>4. \A i \in 1..root : i \in 1..(root + 1)
  BY <1>2
<1>5. ASSUME NEW e \in todo' PROVE e.node \in Entries /\ roots[root + 1].dir \in Above[e.node]
  BY <1>1, <1>2, Listed, ParentIs
<1>6. WalkTypes'
  BY <1>1, <1>2, <1>4, <1>5 DEF WalkTypes
<1>7. \A e, f \in todo' : e # f => Apart(e.node, f.node)
  BY <1>1, <1>2, ListedApart
<1>8. \A c \in cands : c.root # roots[root + 1]
  BY <1>3 DEF WalkTypes
<1>9. WalkApart'
  BY <1>1, <1>7, <1>8 DEF WalkApart, Apart
<1>10. Judging'
  BY <1>1, TwoQuestions DEF Judging
<1> QED BY <1>6, <1>9, <1>10

LEMMA WalkVisit ==
    ASSUME Walk, Visit
    PROVE  Walk'
<1> USE DEF Walk
<1>1. PICK e \in todo :
          /\ todo' \subseteq (todo \ {e}) \cup Listing(e.node)
          /\ \/ cands' = cands
             \/ /\ cands' = cands \cup {CandidateOf(FirstOf(Hits(e.node, roots[root])), e.node, roots[root])}
                /\ todo' \subseteq todo \ {e}
  BY DEF Visit
<1>2. /\ pc = "walk" /\ pc' = pc /\ UNCHANGED <<root, roots, judged, selected>>
  BY DEF Visit
<1>3. /\ e.node \in Entries /\ roots[root].dir \in Above[e.node] /\ root # 0
      /\ root \in 1..Len(roots) /\ roots[root].dir \in Entries
  <2>1. e.node \in Entries /\ roots[root].dir \in Above[e.node] /\ root # 0
    BY DEF WalkTypes
  <2>2. root \in 0..Len(roots) /\ Len(roots) \in Nat
    BY RootsAre DEF WalkTypes
  <2>3. root \in 1..Len(roots)
    BY <2>1, <2>2
  <2> QED BY <2>1, <2>3, RootsAre DEF WalkTypes
<1>4. ASSUME NEW f \in Listing(e.node)
      PROVE  f.node \in Entries /\ roots[root].dir \in Above[f.node] /\ Parent(f.node) = e.node
  BY <1>3, Listed, ChildAbove
<1>5. \A f \in todo' : f.node \in Entries /\ roots[root].dir \in Above[f.node]
  BY <1>1, <1>4 DEF WalkTypes
<1> DEFINE new == CandidateOf(FirstOf(Hits(e.node, roots[root])), e.node, roots[root])
<1>6. new.node = e.node /\ new.root = roots[root]
  BY DEF CandidateOf
<1> HIDE DEF new
<1>7. \A c \in cands' :
          c.node \in Entries /\ \E i \in 1..root : c.root = roots[i] /\ roots[i].dir \in Above[c.node]
  <2>1. root \in 1..root
    BY <1>3, RootsAre DEF WalkTypes
  <2> QED BY <1>1, <1>3, <1>6, <2>1 DEF WalkTypes, new
<1>8. WalkTypes'
  BY <1>2, <1>3, <1>5, <1>7 DEF WalkTypes
<1>9. \A f, g \in todo' : f # g => Apart(f.node, g.node)
  <2>1. \A f \in Listing(e.node), g \in todo \ {e} : Apart(f.node, g.node) /\ Apart(g.node, f.node)
    BY <1>3, <1>4, ApartBelow DEF WalkTypes, WalkApart
  <2> QED BY <1>1, <1>3, <2>1, ListedApart DEF WalkApart
<1>10. \A f \in todo', c \in cands : c.root = roots[root] => Apart(f.node, c.node)
  <2>1. \A f \in Listing(e.node), c \in cands : c.root = roots[root] => Apart(f.node, c.node)
    BY <1>3, <1>4, ApartBelow DEF WalkTypes, WalkApart
  <2> QED BY <1>1, <2>1 DEF WalkApart
<1>11. CASE cands' = cands
  <2>1. WalkApart'
    BY <1>2, <1>9, <1>10, <1>11 DEF WalkApart, Apart
  <2>2. Judging'
    BY <1>2, <1>11, TwoQuestions DEF Judging
  <2> QED BY <1>8, <2>1, <2>2
<1>12. CASE cands' = cands \cup {new} /\ todo' \subseteq todo \ {e}
  <2>1. \A f \in todo' : Apart(f.node, new.node)
    BY <1>6, <1>12 DEF WalkApart
  <2>2. \A c \in cands : c.root = roots[root] => Apart(new.node, c.node) /\ Apart(c.node, new.node)
    BY <1>6 DEF WalkApart, Apart
  <2>3. WalkApart'
    BY <1>2, <1>6, <1>9, <1>10, <1>12, <2>1, <2>2 DEF WalkApart, Apart
  <2>4. Judging'
    BY <1>2, <1>12, TwoQuestions DEF Judging
  <2> QED BY <1>8, <2>3, <2>4
<1> QED BY <1>1, <1>11, <1>12 DEF new

\* The candidate in hand is one when it is passed on, and stays so.
LEMMA WalkStep ==
    ASSUME Walk, [Next]_vars
    PROVE  Walk'
<1> USE DEF Walk
<1>1. CASE NextRoot
  BY <1>1, WalkNextRoot
<1>2. CASE Visit
  BY <1>2, WalkVisit
<1>3. ASSUME UNCHANGED <<roots, root, todo, cands>>, pc' = "walk" <=> pc = "walk"
      PROVE  WalkTypes' /\ WalkApart'
  BY <1>3 DEF WalkTypes, WalkApart, Apart
<1>4. CASE PlanEnd
  <2>1. WalkTypes' /\ WalkApart'
    BY <1>4 DEF PlanEnd, WalkTypes, WalkApart, Apart, planVars
  <2>2. Judging'
    BY <1>4, TwoQuestions DEF PlanEnd, Judging, planVars
  <2> QED BY <2>1, <2>2
<1>5. ASSUME NEW c \in cands, NEW answered \in BOOLEAN, Reject(c, answered) \/ Pass(c, answered)
      PROVE  Walk'
  <2>1. /\ UNCHANGED <<roots, root, todo, cands, selected>> /\ pc = "judge" /\ c = Current
        /\ \/ pc' = "live_cwds" /\ judged' = judged
           \/ pc' = pc /\ judged' = judged \cup {c}
    BY <1>5 DEF Reject, Pass, MayJudge, planVars
  <2>2. WalkTypes' /\ WalkApart'
    BY <1>3, <2>1
  <2>3. Judging'
    BY <2>1, SameInHand, TwoQuestions DEF Judging
  <2> QED BY <2>2, <2>3
<1>6. CASE Ask \/ Look
  <2>1. UNCHANGED <<roots, root, todo, cands, judged, selected, pc>>
    BY <1>6 DEF Ask, Look, planVars
  <2> QED BY <1>3, <2>1, SameInHand DEF Judging
<1>7. CASE AskFails \/ Held
  <2>1. /\ UNCHANGED <<roots, root, todo, cands, selected>> /\ pc \in Questions
        /\ judged' = judged \cup {Current} /\ pc' = "judge"
    BY <1>7 DEF AskFails, Held, planVars
  <2> QED BY <1>3, <2>1, TwoQuestions DEF Judging
<1>8. CASE Free
  <2>1. /\ UNCHANGED <<roots, root, todo, cands>> /\ pc \in Questions
        /\ \/ pc' = "open_paths" /\ UNCHANGED <<judged, selected>>
           \/ /\ judged' = judged \cup {Current} /\ pc' = "judge"
              /\ selected' = selected \cup {Current}
    BY <1>8 DEF Free, planVars
  <2> QED BY <1>3, <2>1, SameInHand, TwoQuestions DEF Judging
<1>9. CASE JudgeEnd
  <2>1. UNCHANGED <<roots, root, todo, cands, judged, selected>> /\ pc = "judge" /\ pc' = "done" /\ judged = cands
    BY <1>9 DEF JudgeEnd, planVars
  <2> QED BY <1>3, <2>1, TwoQuestions DEF Judging
<1>10. CASE World \/ UNCHANGED vars
  <2>1. UNCHANGED <<roots, root, todo, cands, judged, selected, pc>>
    BY <1>10 DEF World, ChangeFile, Swap, Work, Touch, Changed, vars, runVars, planVars
  <2> QED BY <1>3, <2>1, SameInHand DEF Judging
<1> QED BY <1>1, <1>2, <1>4, <1>5, <1>6, <1>7, <1>8, <1>9, <1>10 DEF Next, Judge

\* What is still to be visited below a root, and what has been proposed from it, lie
\* apart; what is judged was proposed and what is selected was judged (plan.rs, walk;
\* select.rs).
THEOREM WalkInv == Spec => []Walk
<1>1. Init => Walk
  BY WalkInit
<1>2. Walk /\ [Next]_vars => Walk'
  BY WalkStep
<1> QED BY <1>1, <1>2, PTL DEF Spec

-----------------------------------------------------------------------------
(* A run during which nothing changes and nothing fails. *)

\* The walk comes to n below root r; and finds it, and proposes it.
Entered(r, n) ==
    /\ Resolves(r.dir) /\ kind[r.dir] = "dir" /\ r.dir \in Above[n]
    /\ \A d \in Region(r.dir, n) \ {n} : kind[d] = "dir" /\ Hits(d, r) = {}
Found(r, n) == Entered(r, n) /\ kind[n] = "dir" /\ Hits(n, r) # {}
Proposal(r, n) == CandidateOf(FirstOf(Hits(n, r)), n, r)

Sound ==
    /\ \A e \in todo : Entered(roots[root], e.node) /\ e.is = kind[e.node]
    /\ \A c \in cands : Found(c.root, c.node) /\ c = Proposal(c.root, c.node)

\* What is to be found below the roots walked so far has been proposed, or the walk
\* has a directory on the way to it still to yield.
Thorough ==
    \A i \in 1..root : \A n \in Entries : Found(roots[i], n) =>
        \/ Proposal(roots[i], n) \in cands
        \/ i = root /\ \E e \in todo : e.node \in Above[n] \cup {n}

Whole == resolved = [i \in {j \in DOMAIN roots : Resolves(roots[j].dir)} |-> Canonical(roots[i].dir)]

\* An answer says where processes are and nothing else.
PlacesOf(q) == {pr[2] : pr \in There(q)}
Exact ==
    /\ \A q \in Questions : \A places \in answers[q] : places = PlacesOf(q)
    /\ scan.of \in Questions =>
          /\ scan.seen \subseteq PlacesOf(scan.of)
          /\ \A pr \in There(scan.of) : pr[1] \in scan.left \/ pr[2] \in scan.seen

Alone(q, c) == ~LivenessGuard(c, PlacesOf(q))
Fit(c) == ~HeldBack(c, TRUE) /\ Alone("live_cwds", c) /\ Alone("open_paths", c)

\* The candidate in hand has passed the seven guards, and then the first question.
Passing ==
    /\ pc \in Questions => ~HeldBack(Current, TRUE)
    /\ pc = "open_paths" => Alone("live_cwds", Current)

Right ==
    /\ \A c \in selected : Fit(c)
    /\ \A c \in judged \ selected : ~Fit(c)

Calm == Sound /\ Thorough /\ Whole /\ Exact /\ Passing /\ Right

LEMMA TreeStands ==
    ASSUME UNCHANGED <<kind, has, fresh>>
    PROVE  /\ \A n : Resolves(n)' = Resolves(n) /\ Canonical(n)' = Canonical(n)
           /\ \A r, n : Entered(r, n)' = Entered(r, n)
           /\ \A r, n : Found(r, n)' = Found(r, n)
           /\ \A r, n : Proposal(r, n)' = Proposal(r, n)
<1>1. \A n : Resolves(n)' = Resolves(n) /\ Canonical(n)' = Canonical(n)
  BY DEF Resolves, Canonical, Behind
<1>2. \A n, r : Hits(n, r)' = Hits(n, r)
  BY DEF Hits, HitsUpTo, RuleHits, StructureOk
<1>3. \A r, n : Entered(r, n)' = Entered(r, n)
  BY <1>1, <1>2 DEF Entered
<1>4. \A r, n : Found(r, n)' = Found(r, n)
  BY <1>2, <1>3 DEF Found
<1>5. \A r, n : Proposal(r, n)' = Proposal(r, n)
  BY <1>2 DEF Proposal, CandidateOf
<1> QED BY <1>1, <1>3, <1>4, <1>5

\* While the tree stands, what has been walked stays as sound and as thorough.
LEMMA WalkStands ==
    ASSUME UNCHANGED <<kind, has, fresh, roots, root, todo, cands, resolved>>, Sound, Thorough, Whole
    PROVE  Sound' /\ Thorough' /\ Whole'
<1>1. Sound'
  BY TreeStands DEF Sound
<1>2. Thorough'
  BY TreeStands DEF Thorough
<1>3. Whole'
  BY TreeStands DEF Whole
<1> QED BY <1>1, <1>2, <1>3

LEMMA GuardsStand ==
    ASSUME UNCHANGED <<worldVars, resolved, index>>
    PROVE  /\ \A c : HeldBack(c, TRUE)' = HeldBack(c, TRUE)
           /\ \A q \in Questions : PlacesOf(q)' = PlacesOf(q) /\ There(q)' = There(q)
           /\ \A q \in Questions : \A c : Alone(q, c)' = Alone(q, c)
           /\ \A c : Fit(c)' = Fit(c)
<1>1. kind' = kind /\ has' = has /\ fresh' = fresh
  BY DEF worldVars, treeVars
<1>2. \A c : HeldBack(c, TRUE)' = HeldBack(c, TRUE)
  <2>1. \A c : Containment(c)' = Containment(c)
    BY <1>1, TreeStands DEF Containment, ContainingRoots
  <2>2. Pins' = Pins /\ Gits' = Gits
    BY WorldStands
  <2>3. \A c : GitGuard(c, TRUE)' = GitGuard(c, TRUE) /\ PinGuard(c)' = PinGuard(c)
    BY <2>2 DEF GitGuard, PinGuard, PinnedUnder, InWorktree
  <2>4. \A c : HeartbeatGuard(c)' = HeartbeatGuard(c)
    BY DEF HeartbeatGuard
  <2>5. \A c : DenyFloor(c)' = DenyFloor(c) /\ DepthGuard(c)' = DepthGuard(c) /\ IdleGuard(c)' = IdleGuard(c)
    OBVIOUS
  <2> QED BY <2>1, <2>3, <2>4, <2>5 DEF HeldBack
<1>3. \A q \in Questions : There(q)' = There(q)
  BY WorldStands
<1>4. \A q \in Questions : PlacesOf(q)' = PlacesOf(q)
  BY <1>3 DEF PlacesOf
<1>5. \A q \in Questions : \A c : Alone(q, c)' = Alone(q, c)
  BY <1>4 DEF Alone, LivenessGuard
<1>6. \A c : Fit(c)' = Fit(c)
  BY <1>2, <1>5, TwoQuestions DEF Fit
<1> QED BY <1>2, <1>3, <1>4, <1>5, <1>6

\* Where the walk comes to, what it comes to can be read.
LEMMA WayIn ==
    ASSUME NEW r, NEW n \in Entries, r.dir \in Entries, Entered(r, n)
    PROVE  \A a \in Above[n] \ {0} :
               /\ a \in Entries /\ kind[a] \in {"dir", "link"}
               /\ kind[a] # "none" => Resolves(a)
<1>1. r.dir \in Above[n] /\ r.dir # 0 /\ Resolves(r.dir) /\ kind[r.dir] = "dir"
  BY Chain DEF Entered
<1>2. ASSUME NEW a \in Above[n] \ {0} PROVE a \in Entries /\ kind[a] \in {"dir", "link"}
  <2>1. a \in Entries /\ a # n
    BY Chain
  <2>2. CASE a = r.dir
    BY <1>1, <2>1, <2>2
  <2>3. CASE a \in Above[r.dir]
    BY <1>1, <2>1, <2>3 DEF Resolves
  <2>4. CASE r.dir \in Above[a]
    <3>1. a \in Region(r.dir, n) \ {n}
      BY <1>1, <2>1, <2>4, RegionIs
    <3> QED BY <2>1, <3>1 DEF Entered
  <2> QED BY <1>1, <2>2, <2>3, <2>4, Chain
<1>3. \A a \in Above[n] \ {0} : Above[a] \subseteq Above[n]
  BY Chain
<1>4. \A a \in Above[n] \ {0} : kind[a] # "none" => Resolves(a)
  BY <1>2, <1>3 DEF Resolves
<1> QED BY <1>2, <1>4

\* Between a root and what is right inside d lies what lies between it and d, and d.
LEMMA RegionGrows ==
    ASSUME NEW d \in Entries, NEW m \in Entries, Parent(m) = d
    PROVE  /\ Region(d, m) = {m}
           /\ \A b \in Entries : b \in Above[d] => Region(b, m) = Region(b, d) \cup {m}
<1>1. Above[m] = Above[d] \cup {d} /\ m \notin Above[m]
  BY ChildAbove, Chain
<1>2. Region(d, m) = {m}
  BY <1>1 DEF Region
<1>3. ASSUME NEW b \in Entries, b \in Above[d] PROVE Region(b, m) = Region(b, d) \cup {m}
  <2>1. Above[b] \subseteq Above[d] /\ b # 0
    BY <1>3, Chain
  <2> QED BY <1>1, <1>3, <2>1 DEF Region
<1> QED BY <1>2, <1>3

\* From a directory the walk reads, one step leads towards what is to be found.
LEMMA OneStepOn ==
    ASSUME NEW r, NEW n \in Entries, r.dir \in Entries, Found(r, n),
           NEW d \in Entries, d \in Above[n], d = r.dir \/ r.dir \in Above[d]
    PROVE  \E f \in Listing(d) : f.node \in Above[n] \cup {n}
<1>1. PICK m \in Entries : Parent(m) = d /\ m \in Above[n] \cup {n}
  BY StepDown
<1>2. Resolves(d) /\ kind[d] \in {"dir", "link"}
  <2>1. d # 0
    BY Chain
  <2> QED BY <2>1, WayIn DEF Found
<1>3. d \in Above[m]
  BY <1>1, ParentIs
<1>4. r.dir \in Above[m]
  <2>1. d # 0 /\ (d \in Above[m] => Above[d] \subseteq Above[m])
    BY Chain
  <2> QED BY <1>3, <2>1
<1>5. m \in Region(r.dir, n)
  BY <1>1, <1>4, RegionIs DEF Found, Entered
<1>6. kind[m] = "dir"
  BY <1>5 DEF Found, Entered
<1>7. [node |-> m, is |-> kind[m]] \in Listing(d)
  BY <1>1, <1>2, <1>6 DEF Listing
<1> QED BY <1>1, <1>7

LEMMA SoundNextRoot ==
    ASSUME Walk, NextRoot, Sound, Thorough
    PROVE  Sound' /\ Thorough'
<1>1. /\ todo = {} /\ root < Len(roots) /\ root' = root + 1
      /\ UNCHANGED <<roots, cands, kind, has, fresh>>
      /\ todo' = IF Resolves(roots[root + 1].dir) /\ kind[roots[root + 1].dir] = "dir"
                 THEN Listing(roots[root + 1].dir) ELSE {}
  BY DEF NextRoot, worldVars, treeVars
<1> DEFINE r == roots[root + 1]
<1>2. /\ root + 1 \in 1..Len(roots) /\ r.dir \in Entries
      /\ \A i \in 1..(root + 1) : i \in 1..root \/ i = root + 1
  <2>1. Len(roots) \in Nat /\ root \in 0..Len(roots)
    BY RootsAre DEF Walk, WalkTypes
  <2>2. root + 1 \in 1..Len(roots)
    BY <1>1, <2>1
  <2>3. r.dir \in Entries
    BY <2>2, RootsAre DEF Walk, WalkTypes
  <2> QED BY <2>1, <2>2, <2>3
<1>3. ASSUME NEW e \in todo' PROVE Entered(r, e.node) /\ e.is = kind[e.node]
  <2>1. e \in Listing(r.dir) /\ Resolves(r.dir) /\ kind[r.dir] = "dir"
    BY <1>1
  <2>2. e.node \in Entries /\ Parent(e.node) = r.dir /\ e.is = kind[e.node]
    BY <2>1, Listed
  <2>3. Region(r.dir, e.node) = {e.node} /\ r.dir \in Above[e.node]
    BY <1>2, <2>2, RegionGrows, ParentIs
  <2> QED BY <2>1, <2>2, <2>3 DEF Entered
<1>4. Sound'
  BY <1>1, <1>3, TreeStands DEF Sound
<1>5. ASSUME NEW i \in 1..(root + 1), NEW n \in Entries, Found(roots[i], n)
      PROVE  \/ Proposal(roots[i], n) \in cands
             \/ i = root + 1 /\ \E e \in todo' : e.node \in Above[n] \cup {n}
  <2>1. CASE i \in 1..root
    BY <1>1, <1>5, <2>1 DEF Thorough
  <2>2. CASE i = root + 1
    <3>1. Found(r, n) /\ r.dir \in Above[n] /\ Resolves(r.dir) /\ kind[r.dir] = "dir"
      BY <1>5, <2>2 DEF Found, Entered
    <3>2. todo' = Listing(r.dir)
      BY <1>1, <3>1
    <3>3. \E f \in Listing(r.dir) : f.node \in Above[n] \cup {n}
      BY <1>2, <3>1, OneStepOn
    <3> QED BY <2>2, <3>2, <3>3
  <2> QED BY <1>2, <2>1, <2>2
<1>6. Thorough'
  BY <1>1, <1>5, TreeStands DEF Thorough
<1> QED BY <1>4, <1>6

LEMMA SoundVisit ==
    ASSUME Walk, Visit, Sound, Thorough
    PROVE  Sound' /\ Thorough'
<1> DEFINE r == roots[root]
           match(e) == e.is = "dir" /\ Hits(e.node, r) # {}
<1>1. PICK e \in todo :
          /\ todo' = (todo \ {e}) \cup
                     IF e.is = "dir" /\ ~match(e) /\ Depth(r.dir, e.node) < WalkDepth(r)
                     THEN Listing(e.node) ELSE {}
          /\ cands' = IF match(e) THEN cands \cup {Proposal(r, e.node)} ELSE cands
  BY DEF Visit, Proposal
<1>2. UNCHANGED <<root, roots, kind, has, fresh>>
  BY DEF Visit, worldVars, treeVars
<1>3. /\ e.node \in Entries /\ r.dir \in Above[e.node] /\ r \in Root /\ r.dir \in Entries
  <2>1. e.node \in Entries /\ r.dir \in Above[e.node] /\ root # 0
    BY DEF Walk, WalkTypes
  <2>2. root \in 0..Len(roots) /\ Len(roots) \in Nat
    BY RootsAre DEF Walk, WalkTypes
  <2>3. root \in 1..Len(roots)
    BY <2>1, <2>2
  <2> QED BY <2>1, <2>3, RootsAre DEF Walk, WalkTypes
<1>4. Entered(r, e.node) /\ e.is = kind[e.node]
  BY DEF Sound
<1>5. ASSUME NEW f \in todo' PROVE Entered(r, f.node) /\ f.is = kind[f.node]
  <2>1. CASE f \in todo
    BY <2>1 DEF Sound
  <2>2. CASE f \notin todo
    <3>1. f \in Listing(e.node) /\ kind[e.node] = "dir" /\ Hits(e.node, r) = {}
      BY <1>1, <1>4, <2>2
    <3>2. f.node \in Entries /\ Parent(f.node) = e.node /\ f.is = kind[f.node]
      BY <3>1, Listed
    <3>3. Region(r.dir, f.node) = Region(r.dir, e.node) \cup {f.node}
      BY <1>3, <3>2, RegionGrows
    <3>4. r.dir \in Above[f.node]
      BY <1>3, <3>2, ChildAbove
    <3> QED BY <1>4, <3>1, <3>2, <3>3, <3>4 DEF Entered
  <2> QED BY <2>1, <2>2
<1>6. ASSUME NEW c \in cands' PROVE Found(c.root, c.node) /\ c = Proposal(c.root, c.node)
  <2>1. CASE c \in cands
    BY <2>1 DEF Sound
  <2>2. CASE c = Proposal(r, e.node) /\ match(e)
    <3>1. c.root = r /\ c.node = e.node
      BY <2>2 DEF Proposal, CandidateOf
    <3> QED BY <1>4, <2>2, <3>1 DEF Found
  <2> QED BY <1>1, <2>1, <2>2
<1>7. Sound'
  BY <1>2, <1>5, <1>6, TreeStands DEF Sound
<1>8. ASSUME NEW i \in 1..root, NEW n \in Entries, Found(roots[i], n)
      PROVE  \/ Proposal(roots[i], n) \in cands'
             \/ i = root /\ \E f \in todo' : f.node \in Above[n] \cup {n}
  <2>1. CASE Proposal(roots[i], n) \in cands
    BY <1>1, <2>1
  <2>2. CASE i = root /\ \E f \in todo \ {e} : f.node \in Above[n] \cup {n}
    BY <1>1, <2>2
  <2>3. CASE i = root /\ e.node = n
    BY <1>1, <1>4, <1>8, <2>3 DEF Found
  <2>4. CASE i = root /\ e.node \in Above[n]
    <3>1. Found(r, n) /\ r.dir \in Above[n]
      BY <1>8, <2>4 DEF Found, Entered
    <3>2. e.node \in Region(r.dir, n) \ {n}
      BY <1>3, <2>4, <3>1, RegionIs, Chain
    <3>3. kind[e.node] = "dir" /\ Hits(e.node, r) = {}
      BY <3>1, <3>2 DEF Found, Entered
    <3>4. Depth(r.dir, e.node) < WalkDepth(r)
      <4>1. PICK k \in DOMAIN Rules : Rules[k].tier <= MaxTier /\ Depth(r.dir, n) <= Cap(Rules[k], r)
        BY <3>1 DEF Found, Hits, HitsUpTo, RuleHits
      <4>2. Cap(Rules[k], r) \in Nat /\ WalkDepth(r) \in Nat /\ Cap(Rules[k], r) <= WalkDepth(r)
        BY <1>3, <4>1, DeepEnough
      <4>3. e.node # 0
        BY <1>3, Chain
      <4>4. Depth(r.dir, n) \in Nat /\ Depth(r.dir, e.node) \in Nat /\ Depth(r.dir, e.node) < Depth(r.dir, n)
        BY <1>3, <2>4, <3>1, <4>3, Deeper
      <4> QED BY <4>1, <4>2, <4>4
    <3>5. Listing(e.node) \subseteq todo'
      BY <1>1, <1>4, <3>3, <3>4
    <3>6. \E f \in Listing(e.node) : f.node \in Above[n] \cup {n}
      BY <1>3, <2>4, <3>1, OneStepOn
    <3> QED BY <2>4, <3>5, <3>6
  <2> QED BY <1>8, <2>1, <2>2, <2>3, <2>4 DEF Thorough
<1>9. Thorough'
  BY <1>2, <1>8, TreeStands DEF Thorough
<1> QED BY <1>7, <1>9

LEMMA CalmInit ==
    ASSUME Init
    PROVE  Calm
<1>1. /\ pc = "walk" /\ root = 0 /\ todo = {} /\ cands = {} /\ judged = {} /\ selected = {}
      /\ scan = NoScan /\ answers = [q \in Questions |-> {}] /\ Whole
  BY DEF Init, InitProcesses, Whole
<1>2. 1..0 = {}
  OBVIOUS
<1>3. Sound /\ Thorough
  BY <1>1, <1>2 DEF Sound, Thorough
<1>4. Exact /\ Passing /\ Right
  BY <1>1, TwoQuestions DEF Exact, Passing, Right, NoScan
<1> QED BY <1>1, <1>3, <1>4 DEF Calm

\* The walk asks and judges nothing.
LEMMA CalmWalk ==
    ASSUME Walk, Calm, NextRoot \/ Visit
    PROVE  Calm'
<1>1. /\ pc = "walk" /\ pc' = pc
      /\ UNCHANGED <<worldVars, roots, resolved, index, judged, selected, scan, answers>>
  BY DEF NextRoot, Visit, inspectorVars
<1>2. Sound' /\ Thorough'
  BY SoundNextRoot, SoundVisit DEF Calm
<1>3. kind' = kind /\ has' = has /\ fresh' = fresh
  BY <1>1 DEF worldVars, treeVars
<1>4. Whole'
  BY <1>1, <1>3, TreeStands DEF Calm, Whole
<1>5. Exact'
  BY <1>1, GuardsStand DEF Calm, Exact
<1>6. Passing'
  BY <1>1, TwoQuestions DEF Passing
<1>7. Right'
  BY <1>1, GuardsStand DEF Calm, Right
<1> QED BY <1>2, <1>4, <1>5, <1>6, <1>7 DEF Calm

\* Asking and judging leave what was proposed as it is.
LEMMA CalmBeside ==
    ASSUME Calm, UNCHANGED <<worldVars, planVars>>
    PROVE  Sound' /\ Thorough' /\ Whole'
BY WalkStands DEF Calm, worldVars, treeVars, planVars

\* The candidate in hand when the next is judged, or nothing is.
LEMMA CalmJudge ==
    ASSUME Calm, pc \notin Questions, UNCHANGED <<worldVars, planVars, selected, inspectorVars>>,
           \/ pc' \notin Questions /\ judged' = judged
           \/ \E c : pc' \notin Questions /\ judged' = judged \cup {c} /\ HeldBack(c, TRUE)
           \/ pc' = "live_cwds" /\ judged' = judged /\ ~HeldBack(Current, TRUE)
    PROVE  Calm'
<1>1. UNCHANGED <<worldVars, roots, resolved, index, cands, scan, answers, selected>>
  BY DEF planVars, inspectorVars
<1>2. Exact'
  BY <1>1, GuardsStand DEF Calm, Exact
<1>3. Passing'
  <2>1. CASE pc' \notin Questions
    BY <2>1, TwoQuestions DEF Passing
  <2>2. CASE pc' = "live_cwds" /\ judged' = judged /\ ~HeldBack(Current, TRUE)
    <3>1. Current' = Current
      BY <1>1, <2>2, SameInHand
    <3>2. HeldBack(Current, TRUE)' = HeldBack(Current, TRUE)
      BY <1>1, <3>1, GuardsStand
    <3> QED BY <2>2, <3>1, <3>2 DEF Passing
  <2> QED BY <2>1, <2>2
<1>4. Right'
  BY <1>1, GuardsStand DEF Calm, Right, Fit
<1> QED BY <1>2, <1>3, <1>4, CalmBeside DEF Calm

LEMMA CalmAsk ==
    ASSUME Inv, Calm, Ask \/ Look, quiet'
    PROVE  Calm'
<1>1. /\ pc' = pc /\ UNCHANGED <<worldVars, planVars, cands, judged, selected, roots, resolved, index, answers>>
  BY DEF Ask, Look, List, LookAt, worldVars, planVars
<1>2. \A q \in Questions : \A places \in answers[q] : places = PlacesOf(q)'
  BY <1>1, GuardsStand DEF Calm, Exact
<1>3. scan'.of \in Questions =>
          /\ scan'.seen \subseteq PlacesOf(scan'.of)
          /\ \A pr \in There(scan'.of) : pr[1] \in scan'.left \/ pr[2] \in scan'.seen
  <2>1. CASE Ask
    <3>1. scan' = [of |-> pc, left |-> alive, seen |-> {}]
      BY <2>1 DEF Ask, List
    <3>2. \A q : \A pr \in There(q) : pr[1] \in alive
      BY ProcessesOK DEF There, Now, Seen
    <3> QED BY <3>1, <3>2
  <2>2. CASE Look
    <3>1. PICK p \in Procs : LookAt(p, Real)
      BY <2>2 DEF Look
    <3>2. /\ scan'.of = scan.of /\ scan'.left = scan.left \ {p}
          /\ scan'.seen = scan.seen \cup ({Seen(scan.of, p)} \cap Real)
      BY <3>1 DEF LookAt, Inv, Types
    <3>3. ASSUME scan.of \in Questions, NEW x \in {Seen(scan.of, p)} \cap Real
          PROVE  x \in PlacesOf(scan.of)
      <4>1. <<p, x>> \in There(scan.of)
        BY <3>3, RealType DEF There, Now
      <4> QED BY <4>1 DEF PlacesOf
    <3>4. ASSUME NEW pr \in There(scan.of), pr[1] = p PROVE pr[2] \in {Seen(scan.of, p)} \cap Real
      BY <3>4 DEF There, Now
    <3> QED BY <3>2, <3>3, <3>4 DEF Calm, Exact
  <2> QED BY <2>1, <2>2
<1>4. \A q \in Questions : PlacesOf(q)' = PlacesOf(q) /\ There(q)' = There(q)
  BY <1>1, GuardsStand
<1>5. Exact'
  BY <1>1, <1>2, <1>3, <1>4 DEF Exact
<1>6. Current' = Current
  BY <1>1, SameInHand
<1>7. Passing'
  <2>1. HeldBack(Current, TRUE)' = HeldBack(Current, TRUE)
    BY <1>1, <1>6, GuardsStand
  <2>2. Alone("live_cwds", Current)' = Alone("live_cwds", Current)
    BY <1>1, <1>6, GuardsStand, TwoQuestions
  <2> QED BY <1>1, <2>1, <2>2 DEF Calm, Passing
<1>8. Right'
  BY <1>1, GuardsStand DEF Calm, Right
<1> QED BY <1>1, <1>5, <1>7, <1>8, CalmBeside DEF Calm

\* An answer that has come is exact.
LEMMA CalmAnswer ==
    ASSUME Inv, Calm, pc \in Questions, NEW places \in SUBSET CanWork, Answered(pc, places),
           UNCHANGED <<worldVars, planVars>>
    PROVE  Exact' /\ places = PlacesOf(pc)
<1>1. /\ \A q \in Questions : answers'[q] = IF q = pc THEN {places} ELSE answers[q]
      /\ scan' = NoScan
  BY DEF Answered, Inv, Types
<1>2. places = PlacesOf(pc)
  <2>1. CASE answers[pc] = {places}
    BY <2>1 DEF Calm, Exact
  <2>2. CASE scan.of = pc /\ scan.left = {} /\ places = scan.seen
    BY <2>2 DEF Calm, Exact, PlacesOf
  <2> QED BY <2>1, <2>2 DEF Answered
<1>3. \A q \in Questions : PlacesOf(q)' = PlacesOf(q)
  BY GuardsStand DEF planVars
<1>4. Exact'
  BY <1>1, <1>2, <1>3, TwoQuestions DEF Calm, Exact, NoScan
<1> QED BY <1>2, <1>4

LEMMA CalmHeld ==
    ASSUME Inv, Calm, Held
    PROVE  Calm'
<1>1. PICK places \in SUBSET CanWork : Answered(pc, places) /\ LivenessGuard(Current, places)
  BY DEF Held
<1>2. /\ pc \in Questions /\ pc' = "judge" /\ judged' = judged \cup {Current} /\ selected' = selected
      /\ UNCHANGED <<worldVars, planVars, resolved, index>>
  BY <1>1 DEF Held, Answered, worldVars, planVars
<1>3. Exact' /\ places = PlacesOf(pc)
  BY <1>1, <1>2, CalmAnswer
<1>4. ~Fit(Current)
  BY <1>1, <1>2, <1>3, TwoQuestions DEF Fit, Alone
<1>5. Right'
  BY <1>2, <1>4, GuardsStand DEF Calm, Right
<1>6. Passing'
  BY <1>2, TwoQuestions DEF Passing
<1> QED BY <1>2, <1>3, <1>5, <1>6, CalmBeside DEF Calm

LEMMA CalmFree ==
    ASSUME Inv, Calm, Free
    PROVE  Calm'
<1>1. PICK places \in SUBSET CanWork : Answered(pc, places) /\ ~LivenessGuard(Current, places)
  BY DEF Free
<1>2. pc \in Questions /\ UNCHANGED <<worldVars, planVars, resolved, index, roots, cands>>
  BY <1>1 DEF Free, Answered, worldVars, planVars
<1>3. Exact' /\ places = PlacesOf(pc)
  BY <1>1, <1>2, CalmAnswer
<1>4. Alone(pc, Current) /\ ~HeldBack(Current, TRUE)
  BY <1>1, <1>2, <1>3 DEF Alone, Calm, Passing
<1>5. CASE pc = "live_cwds" /\ pc' = "open_paths" /\ UNCHANGED <<judged, selected>>
  <2>1. Current' = Current
    BY <1>2, <1>5, SameInHand
  <2>2. ~HeldBack(Current, TRUE)' /\ Alone("live_cwds", Current)'
    BY <1>2, <1>4, <1>5, <2>1, GuardsStand, TwoQuestions
  <2>3. Passing'
    BY <1>5, <2>2 DEF Passing
  <2>4. Right'
    BY <1>2, <1>5, GuardsStand DEF Calm, Right
  <2> QED BY <1>2, <1>3, <2>3, <2>4, CalmBeside DEF Calm
<1>6. CASE /\ pc = "open_paths" /\ pc' = "judge" /\ judged' = judged \cup {Current}
           /\ selected' = selected \cup {Current}
  <2>1. Fit(Current)
    BY <1>4, <1>6 DEF Fit, Calm, Passing
  <2>2. Right'
    BY <1>2, <1>6, <2>1, GuardsStand DEF Calm, Right
  <2>3. Passing'
    BY <1>6, TwoQuestions DEF Passing
  <2> QED BY <1>2, <1>3, <2>2, <2>3, CalmBeside DEF Calm
<1> QED BY <1>5, <1>6 DEF Free

LEMMA CalmStep ==
    ASSUME Inv, Walk, quiet => Calm, [Next]_vars, quiet'
    PROVE  Calm'
<1>1. CASE NextRoot \/ Visit
  BY <1>1, CalmWalk DEF NextRoot, Visit
<1>2. CASE PlanEnd \/ JudgeEnd
  BY <1>2, CalmJudge, TwoQuestions DEF PlanEnd, JudgeEnd
<1>3. ASSUME NEW c \in cands, NEW answered \in BOOLEAN, Reject(c, answered)
      PROVE  Calm'
  <2>1. quiet /\ answered = TRUE /\ pc = "judge" /\ pc' = pc /\ HeldBack(c, TRUE)
    BY <1>3 DEF Reject, MayJudge
  <2> QED BY <1>3, <2>1, CalmJudge, TwoQuestions DEF Reject
<1>4. ASSUME NEW c \in cands, NEW answered \in BOOLEAN, Pass(c, answered)
      PROVE  Calm'
  <2>1. /\ quiet /\ answered = TRUE /\ pc = "judge" /\ pc' = "live_cwds" /\ c = Current
        /\ ~HeldBack(c, TRUE)
    BY <1>4 DEF Pass, MayJudge
  <2> QED BY <1>4, <2>1, CalmJudge, TwoQuestions DEF Pass
<1>5. CASE Ask \/ Look
  BY <1>5, CalmAsk DEF Ask, Look
<1>6. CASE AskFails
  BY <1>6 DEF AskFails
<1>7. CASE Held
  BY <1>7, CalmHeld DEF Held
<1>8. CASE Free
  BY <1>8, CalmFree DEF Free
<1>9. CASE World
  BY <1>9 DEF World, ChangeFile, Swap, Work, Touch, Changed
<1>10. CASE UNCHANGED vars
  <2>1. UNCHANGED <<worldVars, planVars, cands, judged, selected, roots, resolved, index, answers, scan, pc, quiet>>
    BY <1>10 DEF vars, runVars, planVars, inspectorVars
  <2>2. Exact' /\ Right'
    BY <2>1, GuardsStand DEF Calm, Exact, Right
  <2>3. Current' = Current
    BY <2>1, SameInHand
  <2>4. HeldBack(Current, TRUE)' = HeldBack(Current, TRUE)
    BY <2>1, <2>3, GuardsStand
  <2>5. Alone("live_cwds", Current)' = Alone("live_cwds", Current)
    BY <2>1, <2>3, GuardsStand, TwoQuestions
  <2>6. Passing'
    BY <2>1, <2>4, <2>5 DEF Calm, Passing
  <2> QED BY <2>1, <2>2, <2>6, CalmBeside DEF Calm
<1> QED BY <1>1, <1>2, <1>3, <1>4, <1>5, <1>6, <1>7, <1>8, <1>9, <1>10 DEF Next, Judge

\* A run during which nothing changes and no question fails proposes what the rules
\* name below each root, no more and no less, and lets through what no guard and no
\* process speaks against (plan.rs, plan; guard.rs, evaluate; select.rs).
THEOREM CalmInv == Spec => [](quiet => Calm)
<1>1. Init => (quiet => Calm)
  BY CalmInit
<1>2. Inv /\ Walk /\ (quiet => Calm) /\ [Next]_vars => (quiet' => Calm')
  BY CalmStep
<1>3. Inv /\ Walk /\ (quiet => Calm) /\ [Next]_vars => (quiet => Calm)'
  BY <1>2
<1> QED BY <1>1, <1>3, SelectionInv, WalkInv, PTL DEF Spec

-----------------------------------------------------------------------------
(* What is selected, and from which root. *)

\* Without a link in between, what lies below a directory lies behind the same one.
LEMMA BehindSame ==
    ASSUME NEW b \in Entries, NEW n \in Entries, b \in Above[n],
           \A d \in Region(b, n) : kind[d] # "link"
    PROVE  Behind(n) = Behind(b)
<1>1. Above[b] \subseteq Above[n]
  BY Chain
<1>2. \A a \in Above[n] \cup {n} : kind[a] = "link" => a \in Above[b] \cup {b}
  BY DEF Region
<1>3. {a \in (Above[n] \cup {n}) \ {0} : kind[a] = "link"}
        = {a \in (Above[b] \cup {b}) \ {0} : kind[a] = "link"}
  BY <1>1, <1>2
<1> QED BY <1>3 DEF Behind

\* Of two roots that contain two directories, one of which is in the other, both
\* directories are let through from the first.
LEMMA OneContains ==
    ASSUME NEW c, NEW d, DOMAIN resolved \subseteq Nat,
           c.node \in Entries, d.node \in Entries, c.root.dir \in Entries, d.root.dir \in Entries,
           c.node = d.node \/ c.node \in Above[d.node],
           c.root.dir \in Above[c.node], c.root.dir \in Above[d.node],
           d.root.dir \in Above[c.node], d.root.dir \in Above[d.node],
           ~Containment(c), ~Containment(d)
    PROVE  c.root.dir = d.root.dir
<1>1. Behind(c.node) = Behind(c.root.dir) /\ Behind(d.node) = Behind(d.root.dir)
  BY BehindSame DEF Containment
<1>2. Behind(d.node) = Behind(c.node)
  <2>1. CASE c.node \in Above[d.node]
    <3>1. \A m \in Region(c.node, d.node) : kind[m] # "link"
      <4>1. Region(c.node, d.node) \subseteq Region(d.root.dir, d.node)
        <5>1. Above[d.root.dir] \subseteq Above[c.node]
          BY Chain
        <5> QED BY <5>1 DEF Region
      <4> QED BY <4>1 DEF Containment
    <3> QED BY <2>1, <3>1, BehindSame
  <2> QED BY <2>1
<1>3. PICK k \in ContainingRoots(c.node) :
          (\A l \in ContainingRoots(c.node) : k <= l) /\ resolved[k] = Canonical(c.root.dir)
  BY DEF Containment
<1>4. PICK l \in ContainingRoots(d.node) :
          (\A m \in ContainingRoots(d.node) : l <= m) /\ resolved[l] = Canonical(d.root.dir)
  BY DEF Containment
<1>5. k \in ContainingRoots(d.node) /\ l \in ContainingRoots(c.node)
  BY <1>1, <1>2, <1>3, <1>4 DEF ContainingRoots, StrictlyInside, Canonical
<1>6. k <= l /\ l <= k /\ k \in Nat /\ l \in Nat
  BY <1>3, <1>4, <1>5 DEF ContainingRoots
<1>7. k = l
  BY <1>6
<1> QED BY <1>3, <1>4, <1>7 DEF Canonical

LEMMA RootsWalked ==
    ASSUME Walk
    PROVE  /\ DOMAIN roots \subseteq Nat
           /\ \A i \in 1..root : i \in DOMAIN roots
           /\ \A i \in DOMAIN roots : roots[i] \in Root /\ roots[i].dir \in Entries
           /\ root = Len(roots) => \A i \in DOMAIN roots : i \in 1..root
<1>1. Len(roots) \in Nat /\ root \in 0..Len(roots) /\ DOMAIN roots = 1..Len(roots)
  BY RootsAre DEF Walk, WalkTypes
<1>2. \A i \in 1..root : i \in DOMAIN roots
  BY <1>1
<1>3. \A i \in DOMAIN roots : roots[i] \in Root /\ roots[i].dir \in Entries
  <2>1. \A i \in 1..Len(roots) : roots[i] \in Root /\ roots[i].dir \in Entries
    BY RootsAre DEF Walk, WalkTypes
  <2> QED BY <1>1, <2>1
<1>4. DOMAIN roots \subseteq Nat
  BY <1>1
<1> QED BY <1>1, <1>2, <1>3, <1>4

LEMMA Disjoint ==
    ASSUME Walk, quiet => Calm
    PROVE  SelectionsDisjoint
<1> SUFFICES ASSUME RootsApart \/ (quiet /\ RootsClear), NEW c \in selected, NEW d \in selected,
                    c # d, c.node = d.node \/ c.node \in Above[d.node]
             PROVE  FALSE
  BY DEF SelectionsDisjoint
<1>1. c \in cands /\ d \in cands /\ c.node \in Entries /\ d.node \in Entries
  BY DEF Walk, Judging, WalkTypes
<1>2. PICK i \in 1..root : c.root = roots[i] /\ roots[i].dir \in Above[c.node]
  BY <1>1 DEF Walk, WalkTypes
<1>3. PICK j \in 1..root : d.root = roots[j] /\ roots[j].dir \in Above[d.node]
  BY <1>1 DEF Walk, WalkTypes
<1>4. i \in DOMAIN roots /\ j \in DOMAIN roots /\ roots[i].dir \in Entries /\ roots[j].dir \in Entries
  BY RootsWalked
<1>5. c.root # d.root
  BY <1>1 DEF Walk, WalkApart, Apart
<1>6. roots[i].dir \in Above[d.node] /\ roots[i].dir # 0 /\ roots[j].dir # 0 /\ c.node # 0
  BY <1>1, <1>2, <1>4, Chain
<1>7. roots[i].dir # roots[j].dir
  BY <1>2, <1>3, <1>4, <1>5 DEF RootsApart, RootsClear, OneSpelling
<1>8. roots[i].dir \in Above[roots[j].dir] \/ roots[j].dir \in Above[roots[i].dir]
  BY <1>1, <1>3, <1>6, <1>7, Chain
<1>9. quiet /\ RootsClear
  BY <1>4, <1>8 DEF RootsApart
<1>10. ~Containment(c) /\ ~Containment(d) /\ Hits(c.node, c.root) # {} /\ DOMAIN resolved \subseteq Nat
  <2>1. ~Containment(c) /\ ~Containment(d)
    BY <1>9 DEF Calm, Right, Fit, HeldBack
  <2>2. Hits(c.node, c.root) # {}
    BY <1>1, <1>9 DEF Calm, Sound, Found
  <2>3. DOMAIN resolved \subseteq DOMAIN roots /\ DOMAIN roots \subseteq Nat
    BY <1>9, RootsWalked DEF Calm, Whole
  <2> QED BY <2>1, <2>2, <2>3
<1>11. roots[j].dir \notin Above[c.node]
  BY <1>1, <1>2, <1>3, <1>4, <1>6, <1>7, <1>10, OneContains
<1>12. roots[i].dir \in Above[roots[j].dir]
  BY <1>1, <1>2, <1>4, <1>6, <1>8, <1>11, Chain
<1>13. c.node = roots[j].dir \/ c.node \in Above[roots[j].dir]
  BY <1>1, <1>3, <1>6, <1>11, Chain
<1>14. c.node \in Region(roots[i].dir, roots[j].dir)
  BY <1>1, <1>2, <1>4, <1>12, <1>13, RegionIs
<1> QED BY <1>2, <1>4, <1>9, <1>10, <1>12, <1>14 DEF RootsClear

\* Only from the first root that contains it does containment let anything through.
LEMMA FirstOne ==
    ASSUME Whole, roots \in RootLists, OneSpelling, NEW i \in DOMAIN roots, NEW n \in Entries,
           roots[i].dir \in Above[n], Resolves(n),
           \A d \in Region(roots[i].dir, n) : kind[d] # "link",
           NEW c, c.node = n, c.root = roots[i]
    PROVE  /\ StrictlyInside(Canonical(n), Canonical(roots[i].dir))
           /\ ~Containment(c) <=>
                 \A j \in 1..(i - 1) : ~StrictlyInside(Canonical(n), Canonical(roots[j].dir))
<1>1. DOMAIN roots = 1..Len(roots) /\ Len(roots) \in Nat /\ roots[i].dir \in Entries
  BY RootsAre
<1>2. StrictlyInside(Canonical(n), Canonical(roots[i].dir))
  BY <1>1, BehindSame DEF StrictlyInside, Canonical
<1>3. ASSUME NEW j \in DOMAIN roots
      PROVE  j \in ContainingRoots(n) <=> StrictlyInside(Canonical(n), Canonical(roots[j].dir))
  <2>1. ASSUME StrictlyInside(Canonical(n), Canonical(roots[j].dir)) PROVE Resolves(roots[j].dir)
    <3>1. roots[j].dir \in Above[n] /\ roots[j].dir # 0
      BY <1>1, <2>1, RootsAre DEF StrictlyInside, Canonical
    <3>2. Above[roots[j].dir] \subseteq Above[n]
      BY <3>1, Chain
    <3> QED BY <3>1, <3>2 DEF Resolves
  <2> QED BY <2>1 DEF ContainingRoots, Whole
<1>4. ContainingRoots(n) \subseteq DOMAIN roots
  BY DEF ContainingRoots, Whole
<1>5. ASSUME NEW k \in ContainingRoots(n) PROVE resolved[k] = Canonical(roots[i].dir) <=> k = i
  <2>1. k \in DOMAIN roots /\ resolved[k] = Canonical(roots[k].dir)
    BY <1>5 DEF ContainingRoots, Whole
  <2> QED BY <2>1 DEF Canonical, OneSpelling
<1>6. ~Containment(c) <=> (i \in ContainingRoots(n) /\ \A j \in ContainingRoots(n) : i <= j)
  BY <1>5 DEF Containment
<1>7. \A j \in DOMAIN roots : i <= j <=> j \notin 1..(i - 1)
  BY <1>1
<1>8. \A j \in 1..(i - 1) : j \in DOMAIN roots
  BY <1>1
<1> QED BY <1>2, <1>3, <1>4, <1>6, <1>7, <1>8

LEMMA WorkingIs ==
    ASSUME NEW c
    PROVE  (Alone("live_cwds", c) /\ Alone("open_paths", c)) <=> ~LivenessGuard(c, Working)
<1>1. Working = PlacesOf("live_cwds") \cup PlacesOf("open_paths")
  BY DEF Working, PlacesOf
<1> QED BY <1>1 DEF Alone, LivenessGuard

\* What speaks against a proposal, but for containment.
LEMMA FitIs ==
    ASSUME NEW r \in Root, NEW n \in Entries, r.dir \in Above[n], Hits(n, r) # {},
           NEW c, c = Proposal(r, n)
    PROVE  /\ c.node = n /\ c.root = r
           /\ Fit(c) <=>
                 /\ ~Containment(c)
                 /\ ~(DenyFloor(c) \/ PinnedUnder(r, n, Pins) \/ HeartbeatGuard(c))
                 /\ InWorktree(n) => n \notin Tracked
                 /\ Rules[c.rule].idle => n \notin fresh
                 /\ r.via = "real" => \A d \in Working : d # n /\ n \notin Above[d]
<1>1. /\ c.node = n /\ c.root = r /\ c.rule = FirstOf(Hits(n, r))
      /\ c.idle <=> ~Rules[c.rule].idle \/ n \notin fresh
  BY DEF Proposal, CandidateOf
<1>2. c.rule \in Hits(n, r)
  <2>1. DOMAIN Rules \subseteq Nat
    BY SelectionOK
  <2>2. Hits(n, r) \subseteq Nat
    BY <2>1 DEF Hits, HitsUpTo
  <2> QED BY <1>1, <2>2, First
<1>3. ~DepthGuard(c)
  <2>1. /\ c.rule \in DOMAIN Rules /\ Rules[c.rule].tier <= MaxTier
        /\ Depth(r.dir, n) <= Cap(Rules[c.rule], r)
    BY <1>2 DEF Hits, HitsUpTo, RuleHits
  <2>2. Cap(Rules[c.rule], r) \in Nat
    BY <2>1, DeepEnough
  <2>3. r.dir \in Entries
    BY DEF Root
  <2>4. Depth(r.dir, n) \in Nat
    BY <2>3, Deeper
  <2> QED BY <1>1, <2>1, <2>2, <2>4 DEF DepthGuard
<1>4. ~LivenessGuard(c, Working) <=>
          (r.via = "real" => \A d \in Working : d # n /\ n \notin Above[d])
  BY <1>1 DEF LivenessGuard, StartsWith, PathOf
<1>5. GitGuard(c, TRUE) <=> (InWorktree(n) /\ n \in Tracked)
  BY <1>1 DEF GitGuard
<1>6. IdleGuard(c) <=> (Rules[c.rule].idle /\ n \in fresh)
  BY <1>1 DEF IdleGuard
<1>7. PinGuard(c) <=> PinnedUnder(r, n, Pins)
  BY <1>1 DEF PinGuard
<1> QED BY <1>1, <1>3, <1>4, <1>5, <1>6, <1>7, WorkingIs DEF Fit, HeldBack

\* What a candidate of a calm run is.
LEMMA CandidateIs ==
    ASSUME Walk, Calm, NEW c \in cands
    PROVE  /\ c.node \in Entries /\ Found(c.root, c.node) /\ c = Proposal(c.root, c.node)
           /\ Hits(c.node, c.root) # {}
           /\ \E i \in DOMAIN roots :
                 /\ c.root = roots[i] /\ roots[i] \in Root /\ roots[i].dir \in Entries
                 /\ roots[i].dir \in Above[c.node]
<1>1. c.node \in Entries /\ \E i \in 1..root : c.root = roots[i] /\ roots[i].dir \in Above[c.node]
  BY DEF Walk, WalkTypes
<1>2. Found(c.root, c.node) /\ c = Proposal(c.root, c.node)
  BY DEF Calm, Sound
<1> QED BY <1>1, <1>2, RootsWalked DEF Found

\* When a calm run is done it has selected the candidates nothing speaks against.
LEMMA SelectedAre ==
    ASSUME Walk, Calm, pc = "done"
    PROVE  \A c \in cands : c \in selected <=> Fit(c)
BY DEF Walk, Judging, Calm, Right

LEMMA WantedIfSelected ==
    ASSUME Walk, Calm, pc = "done", OneSpelling, NEW c \in selected
    PROVE  c.node \in Entries /\ Wanted(c.node)
<1> DEFINE n == c.node
           r == c.root
<1>1. c \in cands /\ Fit(c)
  BY DEF Walk, Judging, Calm, Right
<1>2. n \in Entries /\ Found(r, n) /\ c = Proposal(r, n) /\ Hits(n, r) # {}
  BY <1>1, CandidateIs
<1>3. PICK i \in DOMAIN roots :
          r = roots[i] /\ r \in Root /\ r.dir \in Entries /\ r.dir \in Above[n]
  BY <1>1, CandidateIs
<1>4. /\ ~Containment(c)
      /\ ~(DenyFloor(c) \/ PinnedUnder(r, n, Pins) \/ HeartbeatGuard(c))
      /\ InWorktree(n) => n \notin Tracked
      /\ Rules[c.rule].idle => n \notin fresh
      /\ r.via = "real" => \A d \in Working : d # n /\ n \notin Above[d]
  BY <1>1, <1>2, <1>3, FitIs
<1>5. Resolves(n) /\ \A d \in Region(r.dir, n) : kind[d] # "link"
  BY <1>4 DEF Containment
<1>6. /\ StrictlyInside(Canonical(n), Canonical(r.dir))
      /\ \A j \in 1..(i - 1) : ~StrictlyInside(Canonical(n), Canonical(roots[j].dir))
  BY <1>2, <1>3, <1>4, <1>5, FirstOne DEF Walk, WalkTypes, Calm
<1>7. Resolves(r.dir) /\ ReachedFrom(r, n)
  <2>1. kind[n] = "dir" /\ Entered(r, n)
    BY <1>2 DEF Found
  <2> QED BY <2>1 DEF Entered, ReachedFrom
<1>8. c = CandidateOf(FirstOf(Hits(n, r)), n, r)
  BY <1>2 DEF Proposal
<1> HIDE DEF n, r
<1>9. Wanted(n)
  <2> USE DEF r
  <2> QED BY <1>2, <1>3, <1>4, <1>6, <1>7, <1>8 DEF Wanted
<1> QED BY <1>2, <1>9 DEF n

LEMMA SelectedIfWanted ==
    ASSUME Walk, Calm, pc = "done", OneSpelling, NEW n \in Entries, Wanted(n)
    PROVE  \E c \in selected : c.node = n
<1>1. PICK i \in DOMAIN roots :
        LET r == roots[i]
            c == CandidateOf(FirstOf(Hits(n, r)), n, r)
        IN
        /\ StrictlyInside(Canonical(n), Canonical(r.dir))
        /\ \A j \in 1..(i - 1) : ~StrictlyInside(Canonical(n), Canonical(roots[j].dir))
        /\ Resolves(r.dir) /\ ReachedFrom(r, n)
        /\ Hits(n, r) # {}
        /\ ~(DenyFloor(c) \/ PinnedUnder(r, n, Pins) \/ HeartbeatGuard(c))
        /\ InWorktree(n) => n \notin Tracked
        /\ Rules[c.rule].idle => n \notin fresh
        /\ r.via = "real" => \A d \in Working : d # n /\ n \notin Above[d]
  BY DEF Wanted
<1> DEFINE r == roots[i]
           c == Proposal(r, n)
<1>2. /\ StrictlyInside(Canonical(n), Canonical(r.dir))
      /\ \A j \in 1..(i - 1) : ~StrictlyInside(Canonical(n), Canonical(roots[j].dir))
      /\ Resolves(r.dir) /\ ReachedFrom(r, n) /\ Hits(n, r) # {}
  BY <1>1
<1>3. /\ ~(DenyFloor(c) \/ PinnedUnder(r, n, Pins) \/ HeartbeatGuard(c))
      /\ InWorktree(n) => n \notin Tracked
      /\ Rules[c.rule].idle => n \notin fresh
      /\ r.via = "real" => \A d \in Working : d # n /\ n \notin Above[d]
  BY <1>1 DEF Proposal
<1>4. r \in Root /\ r.dir \in Entries /\ i \in 1..root /\ root = Len(roots) /\ todo = {}
  <2>1. root = Len(roots) /\ todo = {}
    BY DEF Walk, WalkTypes
  <2> QED BY <2>1, RootsWalked
<1>5. r.dir \in Above[n]
  BY <1>2 DEF StrictlyInside, Canonical
<1>6. n \in Region(r.dir, n)
  BY <1>4, <1>5, RegionIs
<1>7. Found(r, n)
  BY <1>2, <1>5, <1>6 DEF Found, Entered, ReachedFrom
<1>8. c \in cands
  BY <1>4, <1>7 DEF Calm, Thorough
<1>9. Resolves(n)
  <2>1. \A a \in Above[n] \ {0} : kind[a] \in {"dir", "link"}
    BY <1>4, <1>7, WayIn DEF Found
  <2> QED BY <1>7, <2>1 DEF Resolves, Found
<1>10. \A d \in Region(r.dir, n) : kind[d] # "link"
  BY <1>2 DEF ReachedFrom
<1>11. c.node = n /\ c.root = r
  BY DEF Proposal, CandidateOf
<1>12. ~Containment(c)
  BY <1>2, <1>5, <1>9, <1>10, <1>11, FirstOne DEF Walk, WalkTypes, Calm
<1>13. Fit(c)
  BY <1>2, <1>3, <1>4, <1>5, <1>12, FitIs
<1> QED BY <1>8, <1>11, <1>13, SelectedAre

LEMMA ExplainIs ==
    ASSUME Walk, Calm, RootsApart, MaxTier = 2, NEW c \in cands
    PROVE  Explain(PathOf(c)) <=> Fit(c)
<1> DEFINE p == PathOf(c)
<1>1. c.node \in Entries /\ c = Proposal(c.root, c.node) /\ Hits(c.node, c.root) # {}
  BY CandidateIs
<1>2. PICK i \in DOMAIN roots :
          /\ c.root = roots[i] /\ roots[i] \in Root /\ roots[i].dir \in Entries
          /\ roots[i].dir \in Above[c.node]
  BY CandidateIs
<1>3. p.node = c.node /\ p.via = roots[i].via
  BY <1>2 DEF PathOf
<1>4. RootsOver(p) = {i}
  <2>1. ASSUME NEW j \in RootsOver(p) PROVE j = i
    <3>1. j \in DOMAIN roots /\ roots[j].dir \in Above[c.node] /\ roots[j].dir \in Entries
      BY <1>3, RootsWalked DEF RootsOver
    <3>2. roots[i].dir # 0 /\ roots[j].dir # 0
      BY <1>2, <3>1, Chain
    <3>3. roots[i].dir = roots[j].dir
      BY <1>1, <1>2, <3>1, <3>2, Chain DEF RootsApart
    <3> QED BY <3>1, <3>3 DEF RootsApart, OneSpelling
  <2> QED BY <1>2, <1>3, <2>1 DEF RootsOver
<1>5. Innermost(p) = i
  <2>1. Innermost(p) = CHOOSE k \in {i} : \A j \in {i} : roots[j].dir <= roots[k].dir
    BY <1>4 DEF Innermost
  <2>2. roots[i].dir <= roots[i].dir
    BY <1>2, Chain
  <2> QED BY <2>1, <2>2
<1>6. HitsUpTo(2, p.node, roots[i]) = Hits(c.node, c.root)
  BY <1>2, <1>3 DEF Hits
<1>7. CandidateOf(ExplainRule(HitsUpTo(2, p.node, roots[i])), p.node, roots[i]) = c
  BY <1>1, <1>2, <1>3, <1>6 DEF Proposal, ExplainRule
<1>8. Explain(p) <=> (~HeldBack(c, TRUE) /\ ~LivenessGuard(c, Working))
  BY <1>1, <1>4, <1>5, <1>6, <1>7 DEF Explain
<1> QED BY <1>8, WorkingIs DEF Fit

\* No directory is selected twice, and none below another that is: never when the
\* roots lie apart, whatever changes meanwhile, and in a calm run also when they are
\* nested, unless one lies in what is proposed from another (plan.rs, the pruning of
\* the walk; guard.rs, containment).
THEOREM SelectionsLieApart == Spec => []SelectionsDisjoint
<1>1. Walk /\ (quiet => Calm) => SelectionsDisjoint
  BY Disjoint
<1> QED BY <1>1, WalkInv, CalmInv, PTL

\* What a calm run selects is what the declaration says: the first declared root that
\* contains a directory decides about it (guard.rs, containment; plan.rs, plan).
THEOREM TheFirstRootDecides == Spec => []FirstRootDecides
<1>1. Walk /\ (quiet => Calm) => FirstRootDecides
  BY WantedIfSelected, SelectedIfWanted DEF FirstRootDecides
<1> QED BY <1>1, WalkInv, CalmInv, PTL

\* explain says of every candidate of a calm sweep of all tiers what the sweep does
\* with it, when roots lie apart (explain.rs; plan.rs, explain).
THEOREM ExplainTellsTheTruth == Spec => []ExplainAgreesOnCandidates
<1>1. Walk /\ (quiet => Calm) => ExplainAgreesOnCandidates
  BY ExplainIs, SelectedAre DEF ExplainAgreesOnCandidates
<1> QED BY <1>1, WalkInv, CalmInv, PTL
=============================================================================
