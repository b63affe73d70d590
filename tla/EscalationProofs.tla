-------------------------- MODULE EscalationProofs --------------------------
(***************************************************************************)
(* Proofs about module Escalation: the exit code speaks for every pass,    *)
(* what is cheap to rebuild goes first, and what is expensive only if      *)
(* space is short, for any trees, sizes, tiers, faults and budgets,        *)
(* whatever the user pins and the disk does meanwhile.                     *)
(***************************************************************************)
EXTENDS Escalation, Folds, FiniteSetTheorems, WellFoundedInduction, TLAPS

-----------------------------------------------------------------------------
(* The inductive invariant. *)

Types ==
    /\ pc \in {"first", "select", "open", "stage", "command", "report", "next", "done"}
    /\ gate \in {"armed", "not_requested", "config_dry"}
    /\ tier \in Tiers
    /\ met \in {"yes", "no", "none"}
    /\ errs \in BOOLEAN /\ late \in BOOLEAN /\ ran \in BOOLEAN
    /\ overall \in Codes \/ (pc = "done" /\ overall = ExitPanic)
    /\ loc \in [Trees -> {"root", "quarantine", "gone"}]
    /\ todo \in SUBSET sel /\ sel \in SUBSET Trees
    /\ tried \in SUBSET Trees /\ spared \in SUBSET Trees

Working == pc \in {"open", "stage", "command"}

\* Only an armed run opens the quarantine.
ArmedToWork == Working => Armed

\* Until its report, what a pass has done lies within what it selected.
NothingYet ==
    /\ overall = ExitNothing /\ pc \in {"first", "select", "open", "next", "done"} =>
          tried = {} /\ ~ran
    /\ overall = ExitNothing /\ pc \in {"stage", "command", "report"} =>
          tried \subseteq sel /\ (ran => CommandsOf(tier) # 0)
    /\ Working /\ cmds > 0 => CommandsOf(tier) # 0

\* A tree that was tried is gone, or this pass will still remove it, or has an error
\* to its name.
TriedIsGone ==
    Armed /\ overall \in {ExitNothing, ExitSuccess} =>
        \A t \in tried :
            \/ loc[t] = "gone"
            \/ pc = "stage" /\ loc[t] = "quarantine"
            \/ pc \in {"stage", "command", "report"} /\ errs

\* What the passes up to here have left in its root they have tried, or spared.
Handled(t) == t \in tried \cup spared

Behind ==
    late \/ \A t \in Trees : loc[t] = "root" /\ Armed =>
               /\ Tier[t] < tier => Handled(t)
               /\ InScope(t) /\ pc \in {"open", "stage"} => Handled(t) \/ t \in todo
               /\ InScope(t) /\ pc \in {"command", "report", "next"} => Handled(t)

\* No pass reaches past its tier.
Within ==
    /\ \A t \in tried : InScope(t)
    /\ Working => \A t \in todo : InScope(t)
    /\ ~Armed => tried = {}

\* Nothing has been done before the first measurement.
Beginning == pc = "first" => tried = {} /\ ran = FALSE

Inv ==
    /\ Types /\ Beginning /\ ArmedToWork /\ NothingYet /\ TriedIsGone /\ Behind /\ Within
    /\ GivesUpOnlyWhenNothingIsLeft

-----------------------------------------------------------------------------
(* Exit codes. *)

LEMMA CodeNumbers ==
    /\ ExitSuccess = 0 /\ ExitInternal = 1 /\ ExitConfig = 2 /\ ExitNothing = 3 /\ ExitPartial = 4
    /\ Codes = 0 .. 4 /\ ExitPanic = 101
BY DEF ExitSuccess, ExitInternal, ExitConfig, ExitNothing, ExitPartial, Codes, ExitPanic

LEMMA Ranks ==
    /\ Rank(ExitConfig) = 4 /\ Rank(ExitInternal) = 3 /\ Rank(ExitPartial) = 2
    /\ Rank(ExitSuccess) = 1 /\ Rank(ExitNothing) = 0
BY CodeNumbers DEF Rank

\* The combined code is no better than either.
LEMMA CombinedCode ==
    ASSUME NEW a \in Codes, NEW b \in Codes
    PROVE  /\ Combine(a, b) \in Codes
           /\ Combine(a, b) = ExitNothing => a = ExitNothing /\ b = ExitNothing
           /\ Combine(a, b) \in {ExitNothing, ExitSuccess} =>
                 {a, b} \subseteq {ExitNothing, ExitSuccess}
<1>1. {a, b} \subseteq {ExitSuccess, ExitInternal, ExitConfig, ExitNothing, ExitPartial}
  BY CodeNumbers
<1> QED BY <1>1, Ranks, CodeNumbers DEF Combine

LEMMA CodeOfPass ==
    ASSUME errs \in BOOLEAN
    PROVE  /\ PassCode \in Codes
           /\ PassCode = ExitNothing => sel = {} /\ CommandsOf(tier) = 0
           /\ Armed /\ PassCode \in {ExitNothing, ExitSuccess} => errs = FALSE
BY CodeNumbers DEF PassCode, Armed

-----------------------------------------------------------------------------
(* Steps between passes. *)

\* The condition is a pass's own, or that of the end.
LEMMA BetweenPasses ==
    ASSUME Inv, First \/ NextTier
    PROVE  Inv'
<1>1. /\ Types
      /\ UNCHANGED <<gate, sel, todo, cmds, spent, errs, loc, tried, late, spared, ran>>
      /\ met' \in {"yes", "no", "none"}
  BY DEF Inv, Types, First, NextTier, history
<1>2. Armed' = Armed
  BY <1>1 DEF Armed
<1>3. CASE First
  <2>1. /\ pc = "first" /\ tier' = tier
        /\ \/ pc' = "done" /\ overall' = ExitInternal /\ met' = "none"
           \/ pc' = "done" /\ overall' \in {ExitNothing, ExitPanic} /\ met' = "yes"
           \/ pc' = "select" /\ overall' = overall
    BY <1>3 DEF First, Abort
  <2>2. pc' \in {"select", "done"} /\ (pc' = "done" /\ met' = "no" => overall' = ExitInternal)
    BY <2>1
  <2>3. tried = {} /\ ran = FALSE
    BY <2>1 DEF Inv, Beginning
  <2>4. Types'
    BY <1>1, <2>1, <2>2, CodeNumbers DEF Types
  <2>5. ArmedToWork' /\ NothingYet' /\ TriedIsGone' /\ Beginning'
    BY <1>1, <2>2, <2>3 DEF ArmedToWork, Working, NothingYet, TriedIsGone, Beginning
  <2>6. Behind' /\ Within'
    BY <1>1, <1>2, <2>1, <2>2 DEF Inv, Behind, Within, Working, Handled, InScope
  <2>7. GivesUpOnlyWhenNothingIsLeft'
    BY <2>2 DEF GivesUpOnlyWhenNothingIsLeft
  <2> QED BY <2>4, <2>5, <2>6, <2>7 DEF Inv
<1>4. CASE NextTier
  <2>1. /\ pc = "next" /\ overall' = overall
        /\ \/ pc' = "done" /\ tier' = tier
           \/ pc' = "select" /\ tier < LastTier /\ tier' = tier + 1 /\ Armed
        /\ Armed /\ met' = "no" /\ pc' = "done" => ~(tier < LastTier)
    BY <1>4 DEF NextTier
  <2>2. /\ tier \in 0 .. 2 /\ tier' \in 0 .. 2 /\ LastTier = 2 /\ tier <= tier'
        /\ \A t \in Trees : Tier[t] \in 0 .. 2
    BY <1>1, <2>1, EscalationOK DEF Types, Tiers, MaxTier, LastTier
  <2>3. \A t \in Trees : /\ InScope(t) => InScope(t)'
                         /\ Tier[t] < tier' => InScope(t)
    BY <2>1, <2>2 DEF InScope
  <2>4. Types'
    BY <1>1, <2>1, <2>2 DEF Types, Tiers, MaxTier
  <2>5. ArmedToWork' /\ NothingYet' /\ TriedIsGone' /\ Beginning'
    BY <1>1, <1>2, <2>1 DEF Inv, ArmedToWork, Working, NothingYet, TriedIsGone, Beginning
  <2>6. late \/ \A t \in Trees : loc[t] = "root" /\ Armed /\ InScope(t) => Handled(t)
    BY <2>1 DEF Inv, Behind
  <2>7. Behind'
    BY <1>1, <1>2, <2>1, <2>3, <2>6 DEF Behind, Handled
  <2>8. Within'
    BY <1>1, <1>2, <2>1, <2>3 DEF Inv, Within, Working, Types
  <2>9. GivesUpOnlyWhenNothingIsLeft'
    <3> SUFFICES ASSUME pc' = "done", Armed, met' = "no", ~late, NEW t \in Trees, loc[t] = "root"
                 PROVE  Handled(t)
      BY <1>1, <1>2 DEF GivesUpOnlyWhenNothingIsLeft, In, Handled, Types
    <3>1. InScope(t)
      BY <2>1, <2>2 DEF InScope
    <3> QED BY <2>6, <3>1
  <2> QED BY <2>4, <2>5, <2>7, <2>8, <2>9 DEF Inv
<1> QED BY <1>3, <1>4

-----------------------------------------------------------------------------
(* Steps of a pass. *)

\* Where a pass goes on, nothing is said of the end.
LEMMA NotTheEnd ==
    ASSUME pc' # "done" \/ overall' = ExitInternal
    PROVE  GivesUpOnlyWhenNothingIsLeft'
BY DEF GivesUpOnlyWhenNothingIsLeft

LEMMA SelectStep ==
    ASSUME Inv, Select
    PROVE  Inv'
<1>1. /\ Types /\ pc = "select" /\ sel' = Planned \ pinned /\ todo' = sel'
      /\ spared' = spared \cup (Planned \cap pinned) /\ cmds' = CommandsOf(tier)
      /\ errs' \in BOOLEAN
      /\ pc' = (IF Armed THEN "open" ELSE "report")
      /\ UNCHANGED <<gate, tier, met, overall, loc, tried, late, ran>>
  BY DEF Inv, Select
<1>2. /\ Armed' = Armed /\ Planned \subseteq Trees
      /\ \A t \in Trees : /\ InScope(t)' = InScope(t)
                          /\ t \in Planned <=> loc[t] = "root" /\ InScope(t)
      /\ CommandsOf(tier)' = CommandsOf(tier)
  BY <1>1 DEF Armed, Planned, In, InScope, CommandsOf
<1>3. Types'
  BY <1>1, <1>2 DEF Types
<1>4. Beginning' /\ ArmedToWork'
  BY <1>1, <1>2 DEF Beginning, ArmedToWork, Working
<1>5. overall = ExitNothing => tried = {} /\ ~ran
  BY <1>1 DEF Inv, NothingYet
<1>6. cmds' > 0 => CommandsOf(tier)' # 0
  BY <1>1, <1>2
<1>7. NothingYet'
  BY <1>1, <1>5, <1>6 DEF NothingYet
<1>8. TriedIsGone'
  BY <1>1, <1>2 DEF Inv, TriedIsGone
<1>9. Behind'
  <2>1. \A t \in Trees : loc[t] = "root" /\ InScope(t) => t \in spared' \/ t \in todo'
    BY <1>1, <1>2
  <2> QED BY <1>1, <1>2, <2>1 DEF Inv, Behind, Handled
<1>10. Within'
  BY <1>1, <1>2 DEF Inv, Within, Types
<1> QED BY <1>1, <1>3, <1>4, <1>7, <1>8, <1>9, <1>10, NotTheEnd DEF Inv

\* What is removed was not in a root.
LEMMA RemovedTrees ==
    ASSUME Types, Removed(In("quarantine")) \/ UNCHANGED loc
    PROVE  /\ loc' \in [Trees -> {"root", "quarantine", "gone"}]
           /\ \A t \in Trees : /\ loc'[t] = "root" <=> loc[t] = "root"
                               /\ loc[t] = "gone" => loc'[t] = "gone"
<1>1. CASE Removed(In("quarantine"))
  BY <1>1 DEF Types, Removed, In
<1>2. CASE UNCHANGED loc
  BY <1>2 DEF Types
<1> QED BY <1>1, <1>2

LEMMA OpenStep ==
    ASSUME Inv, Open
    PROVE  Inv'
<1>1. /\ Types /\ pc = "open" /\ Armed
      /\ UNCHANGED <<gate, tier, met, sel, todo, cmds, tried, late, spared, ran>>
      /\ Removed(In("quarantine")) \/ UNCHANGED loc
      /\ \/ pc' = "stage" /\ overall' = overall
         \/ pc' = "done" /\ overall' = ExitInternal
  BY DEF Inv, ArmedToWork, Working, Open, Abort, history
<1>2. errs' \in BOOLEAN
  BY <1>1 DEF Open, Types
<1>3. /\ loc' \in [Trees -> {"root", "quarantine", "gone"}]
      /\ \A t \in Trees : /\ loc'[t] = "root" <=> loc[t] = "root"
                          /\ loc[t] = "gone" => loc'[t] = "gone"
  BY <1>1, RemovedTrees
<1>4. /\ Armed' = Armed /\ CommandsOf(tier)' = CommandsOf(tier)
      /\ \A t \in Trees : InScope(t)' = InScope(t)
  BY <1>1 DEF Armed, CommandsOf, InScope
<1>5. Types'
  BY <1>1, <1>2, <1>3, CodeNumbers DEF Types
<1>6. Beginning' /\ ArmedToWork'
  BY <1>1, <1>4 DEF Beginning, ArmedToWork
<1>7. NothingYet'
  BY <1>1, <1>4, CodeNumbers DEF Inv, NothingYet, Working
<1>8. TriedIsGone'
  BY <1>1, <1>3, CodeNumbers DEF Inv, TriedIsGone, Types
<1>9. Behind'
  BY <1>1, <1>3, <1>4 DEF Inv, Behind, Handled
<1>10. Within'
  BY <1>1, <1>4 DEF Inv, Within, Working, Types
<1> QED BY <1>1, <1>5, <1>6, <1>7, <1>8, <1>9, <1>10, NotTheEnd DEF Inv

LEMMA StageStep ==
    ASSUME Inv, Stage \/ StageFail
    PROVE  Inv'
<1>1. /\ Types /\ pc = "stage" /\ pc' = "stage" /\ Armed
      /\ UNCHANGED <<gate, tier, met, sel, cmds, overall, late, spared, ran>>
  BY DEF Inv, ArmedToWork, Working, Stage, StageFail
<1>2. PICK t \in todo : /\ todo' = todo \ {t} /\ tried' = tried \cup {t}
                        /\ \/ loc' = [loc EXCEPT ![t] = "quarantine"] /\ errs' = errs
                           \/ errs' = TRUE /\ loc' = loc
  BY DEF Stage, StageFail
<1>3. /\ t \in Trees /\ t \in sel /\ InScope(t) /\ errs' \in BOOLEAN
      /\ loc' \in [Trees -> {"root", "quarantine", "gone"}]
      /\ \A u \in Trees : /\ loc'[u] = "root" => loc[u] = "root"
                          /\ u # t => loc'[u] = loc[u]
      /\ loc'[t] = "quarantine" \/ errs' = TRUE
  BY <1>1, <1>2 DEF Inv, Types, Within, Working
<1>4. /\ Armed' = Armed /\ CommandsOf(tier)' = CommandsOf(tier)
      /\ \A u \in Trees : InScope(u)' = InScope(u)
  BY <1>1 DEF Armed, CommandsOf, InScope
<1>5. Types'
  BY <1>1, <1>2, <1>3 DEF Types
<1>6. Beginning' /\ ArmedToWork'
  BY <1>1, <1>4 DEF Beginning, ArmedToWork
<1>7. NothingYet'
  BY <1>1, <1>2, <1>3, <1>4 DEF Inv, NothingYet, Working
<1>8. TriedIsGone'
  <2>1. errs = TRUE => errs' = TRUE
    BY <1>2
  <2> QED BY <1>1, <1>2, <1>3, <1>4, <2>1 DEF Inv, TriedIsGone, Types
<1>9. Behind'
  BY <1>1, <1>2, <1>3, <1>4 DEF Inv, Behind, Handled
<1>10. Within'
  BY <1>1, <1>2, <1>3, <1>4 DEF Inv, Within, Working, Types
<1> QED BY <1>1, <1>5, <1>6, <1>7, <1>8, <1>9, <1>10, NotTheEnd DEF Inv

LEMMA DrainStep ==
    ASSUME Inv, Drain
    PROVE  Inv'
<1>1. /\ Types /\ pc = "stage" /\ pc' = "command" /\ Armed /\ todo' = {}
      /\ late' = (late \/ todo # {}) /\ Removed(In("quarantine"))
      /\ errs' = (errs \/ In("quarantine") \cap Stubborn # {})
      /\ UNCHANGED <<gate, tier, met, sel, cmds, overall, tried, spared, ran>>
  BY DEF Inv, ArmedToWork, Working, Drain
<1>2. /\ loc' \in [Trees -> {"root", "quarantine", "gone"}]
      /\ \A t \in Trees : /\ loc'[t] = "root" <=> loc[t] = "root"
                          /\ loc[t] = "gone" => loc'[t] = "gone"
  BY <1>1, RemovedTrees
<1>3. /\ Armed' = Armed /\ CommandsOf(tier)' = CommandsOf(tier)
      /\ \A t \in Trees : InScope(t)' = InScope(t)
  BY <1>1 DEF Armed, CommandsOf, InScope
<1>4. errs' \in BOOLEAN /\ late' \in BOOLEAN
  BY <1>1
<1>5. Types'
  BY <1>1, <1>2, <1>4 DEF Types
<1>6. Beginning' /\ ArmedToWork'
  BY <1>1, <1>3 DEF Beginning, ArmedToWork
<1>7. NothingYet'
  BY <1>1, <1>3 DEF Inv, NothingYet, Working
<1>8. TriedIsGone'
  <2> SUFFICES ASSUME overall \in {ExitNothing, ExitSuccess}, NEW t \in tried, ~errs'
               PROVE  loc'[t] = "gone"
    BY <1>1, <1>3 DEF TriedIsGone
  <2>1. t \in Trees /\ ~errs /\ In("quarantine") \cap Stubborn = {}
    BY <1>1 DEF Types
  <2>2. loc[t] \in {"gone", "quarantine"}
    BY <1>1, <2>1 DEF Inv, TriedIsGone
  <2>3. CASE loc[t] = "gone"
    BY <1>2, <2>1, <2>3
  <2>4. CASE loc[t] = "quarantine"
    BY <1>1, <2>1, <2>4 DEF Removed, In
  <2> QED BY <2>2, <2>3, <2>4
<1>9. Behind'
  <2>1. late' \/ (~late /\ todo = {})
    BY <1>1 DEF Types
  <2> QED BY <1>1, <1>2, <1>3, <2>1 DEF Inv, Behind, Handled
<1>10. Within'
  BY <1>1, <1>3 DEF Inv, Within, Types
<1> QED BY <1>1, <1>5, <1>6, <1>7, <1>8, <1>9, <1>10, NotTheEnd DEF Inv

LEMMA CommandStep ==
    ASSUME Inv, Command \/ CommandsEnd
    PROVE  Inv'
<1>1. /\ Types /\ pc = "command" /\ pc' \in {"command", "report"} /\ Armed
      /\ UNCHANGED <<gate, tier, met, sel, todo, overall, loc, late, spared, tried>>
      /\ errs' \in BOOLEAN /\ ran' \in BOOLEAN /\ (errs => errs' = TRUE)
  BY DEF Inv, ArmedToWork, Working, Command, CommandsEnd, Types, history
<1>2. /\ Armed' = Armed /\ CommandsOf(tier)' = CommandsOf(tier)
      /\ \A t \in Trees : InScope(t)' = InScope(t)
  BY <1>1 DEF Armed, CommandsOf, InScope
<1>3. Types'
  BY <1>1 DEF Types
<1>4. Beginning' /\ ArmedToWork'
  BY <1>1, <1>2 DEF Beginning, ArmedToWork
<1>5. NothingYet'
  <2>1. cmds' > 0 /\ pc' = "command" => CommandsOf(tier) # 0
    BY <1>1 DEF Inv, NothingYet, Working, Command, CommandsEnd
  <2>2. ran' => ran \/ CommandsOf(tier) # 0
    BY <1>1 DEF Inv, NothingYet, Working, Command, CommandsEnd, history
  <2> QED BY <1>1, <1>2, <2>1, <2>2 DEF Inv, NothingYet, Working
<1>6. TriedIsGone'
  BY <1>1, <1>2 DEF Inv, TriedIsGone
<1>7. Behind'
  BY <1>1, <1>2 DEF Inv, Behind, Handled
<1>8. Within'
  BY <1>1, <1>2 DEF Inv, Within, Working, Types
<1> QED BY <1>1, <1>3, <1>4, <1>5, <1>6, <1>7, <1>8, NotTheEnd DEF Inv

LEMMA ReportStep ==
    ASSUME Inv, Report
    PROVE  Inv'
<1>1. /\ Types /\ pc = "report" /\ pc' = "next" /\ overall' = Combine(overall, PassCode)
      /\ UNCHANGED <<gate, tier, met, sel, todo, errs, loc, late, spared, tried, ran>>
  BY DEF Inv, Report
<1>2. /\ Armed' = Armed /\ \A t \in Trees : InScope(t)' = InScope(t)
  BY <1>1 DEF Armed, InScope
<1>3. /\ overall' \in Codes
      /\ overall' = ExitNothing => overall = ExitNothing /\ PassCode = ExitNothing
      /\ overall' \in {ExitNothing, ExitSuccess} =>
            {overall, PassCode} \subseteq {ExitNothing, ExitSuccess}
  BY <1>1, CodeOfPass, CombinedCode DEF Types
<1>4. Types'
  BY <1>1, <1>3 DEF Types
<1>5. Beginning' /\ ArmedToWork'
  BY <1>1 DEF Beginning, ArmedToWork, Working
<1>6. NothingYet'
  <2>1. overall' = ExitNothing => tried = {} /\ ~ran
    <3> SUFFICES ASSUME overall' = ExitNothing PROVE tried = {} /\ ~ran
      OBVIOUS
    <3>1. overall = ExitNothing /\ sel = {} /\ CommandsOf(tier) = 0
      BY <1>1, <1>3, CodeOfPass DEF Types
    <3> QED BY <1>1, <3>1 DEF Inv, NothingYet
  <2> QED BY <1>1, <2>1 DEF NothingYet, Working
<1>7. TriedIsGone'
  <2> SUFFICES ASSUME Armed, overall' \in {ExitNothing, ExitSuccess}, NEW t \in tried
               PROVE  loc[t] = "gone"
    BY <1>1, <1>2 DEF TriedIsGone
  <2>1. overall \in {ExitNothing, ExitSuccess} /\ errs = FALSE
    BY <1>1, <1>3, CodeOfPass DEF Types
  <2> QED BY <1>1, <2>1 DEF Inv, TriedIsGone
<1>8. Behind'
  BY <1>1, <1>2 DEF Inv, Behind, Handled
<1>9. Within'
  BY <1>1, <1>2 DEF Inv, Within, Working, Types
<1> QED BY <1>1, <1>4, <1>5, <1>6, <1>7, <1>8, <1>9, NotTheEnd DEF Inv

-----------------------------------------------------------------------------
(* The theorems. *)

LEMMA InitInv == Init => Inv
<1> SUFFICES ASSUME Init PROVE Inv
  OBVIOUS
<1>1. Types
  <2>1. loc \in [Trees -> {"root", "quarantine", "gone"}]
    BY DEF Init
  <2>2. overall \in Codes /\ 0 \in Tiers
    BY CodeNumbers DEF Init, Tiers, MaxTier
  <2> QED BY <2>1, <2>2 DEF Init, Types
<1>2. \A t \in Trees : Tier[t] \in 0 .. 2
  BY EscalationOK DEF Tiers, MaxTier
<1>3. Beginning /\ ArmedToWork /\ NothingYet /\ TriedIsGone /\ Within
  BY DEF Init, Beginning, ArmedToWork, Working, NothingYet, TriedIsGone, Within
<1>4. Behind
  BY <1>2 DEF Init, Behind
<1>5. GivesUpOnlyWhenNothingIsLeft
  BY DEF Init, GivesUpOnlyWhenNothingIsLeft
<1> QED BY <1>1, <1>3, <1>4, <1>5 DEF Inv

\* What others do meanwhile: the disk fills, snapshots and pins come and go.
LEMMA Meanwhile ==
    ASSUME Inv, UNCHANGED <<runVars, loc, history>>
    PROVE  Inv'
<1>1. UNCHANGED <<pc, gate, tier, met, sel, todo, cmds, errs, overall, loc, tried, late, spared,
                  ran>>
  BY DEF runVars, history
<1>2. /\ Armed' = Armed /\ CommandsOf(tier)' = CommandsOf(tier) /\ In("root")' = In("root")
      /\ \A t \in Trees : InScope(t)' = InScope(t)
  BY <1>1 DEF Armed, CommandsOf, InScope, In
<1>3. Types' /\ Beginning' /\ ArmedToWork' /\ NothingYet'
  BY <1>1, <1>2 DEF Inv, Types, Beginning, ArmedToWork, Working, NothingYet
<1>4. TriedIsGone' /\ Behind'
  BY <1>1, <1>2 DEF Inv, TriedIsGone, Behind, Handled
<1>5. Within'
  BY <1>1, <1>2 DEF Inv, Within, Working, Types
<1>6. GivesUpOnlyWhenNothingIsLeft'
  BY <1>1, <1>2 DEF Inv, GivesUpOnlyWhenNothingIsLeft
<1> QED BY <1>3, <1>4, <1>5, <1>6 DEF Inv

LEMMA NextInv ==
    ASSUME Inv, [Next]_vars
    PROVE  Inv'
<1>1. CASE Step
  BY <1>1, BetweenPasses, SelectStep, OpenStep, StageStep, DrainStep, CommandStep, ReportStep
     DEF Step
<1>2. CASE Use \/ Snapshot \/ (\E t \in CanPin : Pin(t)) \/ UNCHANGED vars
  BY <1>2, Meanwhile DEF Use, Snapshot, Pin, vars
<1> QED BY <1>1, <1>2 DEF Next

\* The inductive invariant holds throughout: what each pass knows of the trees of its
\* tiers, and of what the code combined so far speaks for.
THEOREM EscalationInv == Spec => []Inv
<1>1. Init => Inv
  BY InitInv
<1>2. Inv /\ [Next]_vars => Inv'
  BY NextInv
<1> QED BY <1>1, <1>2, PTL DEF Spec

\* "Nothing to do" is said only if no pass tried or ran anything, and success only if
\* all that any pass tried is gone.
THEOREM CodeSpeaksForAll == Spec => []CodeCoversEveryPass
<1>1. Inv => CodeCoversEveryPass
  <2> SUFFICES ASSUME Inv, pc = "done", Armed
               PROVE  /\ overall = ExitNothing => tried = {} /\ ~ran
                      /\ overall = ExitSuccess => \A t \in tried : loc[t] = "gone"
    BY DEF CodeCoversEveryPass
  <2> QED BY DEF Inv, NothingYet, TriedIsGone
<1> QED BY <1>1, EscalationInv, PTL

\* A run that gives up short of its target has left nothing untried, but for what was
\* pinned, unless it ran out of time.
THEOREM NothingIsLeft == Spec => []GivesUpOnlyWhenNothingIsLeft
<1>1. Inv => GivesUpOnlyWhenNothingIsLeft
  BY DEF Inv
<1> QED BY <1>1, EscalationInv, PTL

\* Nothing is tried before everything of a lower tier was, or was spared or gone.
THEOREM CheapFirst == Spec => []CheapestFirst
<1>1. Inv => CheapestFirst
  <2> SUFFICES ASSUME Inv, ~late, NEW t \in Trees, NEW u \in Trees, Tier[u] < Tier[t],
                      t \in tried, loc[u] = "root"
               PROVE  Handled(u)
    BY DEF CheapestFirst, Handled
  <2>1. Armed /\ Tier[t] <= tier
    BY DEF Inv, Within, InScope
  <2>2. Tier[t] \in Int /\ Tier[u] \in Int /\ tier \in Int
    BY EscalationOK DEF Inv, Types, Tiers, MaxTier
  <2>3. Tier[u] < tier
    BY <2>1, <2>2
  <2> QED BY <2>1, <2>3 DEF Inv, Behind
<1> QED BY <1>1, EscalationInv, PTL

-----------------------------------------------------------------------------
(* Sums. *)

LEMMA LeastNumber ==
    ASSUME NEW T, T \subseteq Nat, T # {}
    PROVE  \E x \in T : \A y \in T : x <= y
<1> DEFINE R == OpToRel(<, Nat)
<1>1. IsWellFoundedOn(R, Nat)
  BY NatLessThanWellFounded
<1>2. \A x, y \in Nat : y < x => <<y, x>> \in R
  BY DEF OpToRel
<1> HIDE DEF R
<1>3. PICK x \in T : \A y \in T : ~ (<<y, x>> \in R)
  BY <1>1, WFMin
<1>4. \A y \in T : ~ (y < x)
  BY <1>2, <1>3
<1>5. \A y \in T : x <= y
  BY <1>4
<1> QED BY <1>5

\* The member a sum takes first, and the sum of s if g has that of the rest.
FirstOne(s) == CHOOSE x \in s : TRUE
SumStep(g, s) == IF s = {} THEN 0 ELSE Size[FirstOne(s)] + g[s \ {FirstOne(s)}]

\* The rest has fewer members.
LEMMA Fewer ==
    ASSUME NEW S, IsFiniteSet(S), NEW s \in SUBSET S, s # {}
    PROVE  /\ FirstOne(s) \in s
           /\ s \ {FirstOne(s)} \in SUBSET S
           /\ Cardinality(s) \in Nat /\ Cardinality(s \ {FirstOne(s)}) \in Nat
           /\ Cardinality(s \ {FirstOne(s)}) < Cardinality(s)
<1>1. FirstOne(s) \in s
  BY DEF FirstOne
<1>2. IsFiniteSet(s) /\ IsFiniteSet(s \ {FirstOne(s)})
  BY FS_Subset, FS_RemoveElement
<1>3. Cardinality(s \ {FirstOne(s)}) = Cardinality(s) - 1
  BY <1>1, <1>2, FS_RemoveElement
<1>4. Cardinality(s) \in Nat /\ Cardinality(s \ {FirstOne(s)}) \in Nat
  BY <1>2, FS_CardinalityType
<1> QED BY <1>1, <1>3, <1>4

\* There is a function that has the sums of all subsets: of those with n members, if
\* there is one for those with fewer.
LEMMA SumExists ==
    ASSUME NEW S, IsFiniteSet(S)
    PROVE  \E g : g = [s \in SUBSET S |-> SumStep(g, s)]
<1> DEFINE Upto(g, n) ==
             /\ g = [s \in SUBSET S |-> g[s]]
             /\ \A s \in SUBSET S : Cardinality(s) <= n => g[s] = SumStep(g, s)
           T == {n \in Nat : ~ \E g : Upto(g, n)}
<1>1. \A s \in SUBSET S : Cardinality(s) \in Nat /\ Cardinality(s) <= Cardinality(S)
  BY FS_Subset, FS_CardinalityType
<1>2. Cardinality(S) \in Nat
  BY FS_CardinalityType
<1>3. T = {}
  <2>1. SUFFICES ASSUME T # {} PROVE FALSE
    OBVIOUS
  <2>2. PICK n \in T : \A m \in T : n <= m
    BY <2>1, LeastNumber
  <2>3. \E g : g = [s \in SUBSET S |-> g[s]] /\ \A s \in SUBSET S : Cardinality(s) < n => g[s] = SumStep(g, s)
    <3>1. CASE n = 0
      <4> DEFINE g == [s \in SUBSET S |-> 0]
      <4>1. \A s \in SUBSET S : ~ (Cardinality(s) < n)
        BY <1>1, <3>1
      <4>2. g = [s \in SUBSET S |-> g[s]]
        OBVIOUS
      <4> HIDE DEF g
      <4> QED BY <4>1, <4>2
    <3>2. CASE n # 0
      <4>1. n - 1 \in Nat /\ n - 1 \notin T
        <5>1. n \in Nat
          OBVIOUS
        <5>2. n - 1 \in Nat /\ ~ (n <= n - 1)
          BY <3>2, <5>1
        <5> HIDE DEF T
        <5> QED BY <2>2, <5>2
      <4>2. PICK g : Upto(g, n - 1)
        BY <4>1
      <4>3. \A s \in SUBSET S : Cardinality(s) < n => Cardinality(s) <= n - 1
        BY <1>1, <4>1
      <4> QED BY <4>2, <4>3
    <3> QED BY <3>1, <3>2
  <2>4. PICK g : /\ g = [s \in SUBSET S |-> g[s]]
                 /\ \A s \in SUBSET S : Cardinality(s) < n => g[s] = SumStep(g, s)
    BY <2>3
  <2> DEFINE h == [s \in SUBSET S |-> SumStep(g, s)]
  <2>5. ASSUME NEW s \in SUBSET S, Cardinality(s) <= n
        PROVE  h[s] = SumStep(h, s)
    <3>1. CASE s = {}
      BY <3>1 DEF SumStep
    <3>2. CASE s # {}
      <4> DEFINE rest == s \ {FirstOne(s)}
      <4>1. rest \in SUBSET S /\ Cardinality(rest) < n
        BY <1>1, <2>5, <3>2, Fewer
      <4>2. g[rest] = SumStep(g, rest) /\ h[rest] = SumStep(g, rest)
        BY <2>4, <4>1
      <4> QED BY <3>2, <4>2 DEF SumStep
    <3> QED BY <3>1, <3>2
  <2>6. Upto(h, n)
    <3>1. h = [s \in SUBSET S |-> h[s]]
      OBVIOUS
    <3> HIDE DEF h
    <3> QED BY <2>5, <3>1
  <2> HIDE DEF h, Upto
  <2> QED BY <2>2, <2>6
<1>4. PICK g : Upto(g, Cardinality(S))
  BY <1>2, <1>3
<1>5. \A s \in SUBSET S : g[s] = SumStep(g, s)
  BY <1>1, <1>4
<1>6. g = [s \in SUBSET S |-> SumStep(g, s)]
  BY <1>4, <1>5
<1> QED BY <1>6

\* The sum of sizes is that function's, and so a number; of nothing it is nothing.
LEMMA SumOfSizes ==
    ASSUME NEW S \in SUBSET Trees
    PROVE  /\ SumFunctionOnSet(Size, S) \in Nat
           /\ S = {} => SumFunctionOnSet(Size, S) = 0
<1> DEFINE iter == CHOOSE g : g = [s \in SUBSET S |-> IF s = {} THEN 0
                               ELSE Size[CHOOSE x \in s : TRUE] + g[s \ {CHOOSE x \in s : TRUE}]]
<1>1. SumFunctionOnSet(Size, S) = iter[S]
  BY DEF SumFunctionOnSet, FoldFunctionOnSet, MapThenFoldSet
<1>2. IsFiniteSet(S)
  BY EscalationOK, FS_Subset
<1>3. iter = [s \in SUBSET S |-> SumStep(iter, s)]
  <2>1. iter = CHOOSE g : g = [s \in SUBSET S |-> SumStep(g, s)]
    BY DEF SumStep, FirstOne
  <2> HIDE DEF iter
  <2> QED BY <1>2, <2>1, SumExists
<1> HIDE DEF iter
<1>4. \A s \in SUBSET S : iter[s] = SumStep(iter, s)
  BY <1>3
<1> DEFINE T == {Cardinality(s) : s \in {t \in SUBSET S : iter[t] \notin Nat}}
<1>5. T = {}
  <2>1. SUFFICES ASSUME T # {} PROVE FALSE
    OBVIOUS
  <2>2. T \subseteq Nat
    BY <1>2, FS_Subset, FS_CardinalityType
  <2>3. PICK n \in T : \A m \in T : n <= m
    BY <2>1, <2>2, LeastNumber
  <2>4. PICK s \in SUBSET S : iter[s] \notin Nat /\ Cardinality(s) = n
    BY <2>3
  <2>5. s # {}
    <3>1. SumStep(iter, {}) = 0
      BY DEF SumStep
    <3> QED BY <1>4, <2>4, <3>1
  <2>6. /\ FirstOne(s) \in s /\ s \ {FirstOne(s)} \in SUBSET S
        /\ Cardinality(s) \in Nat /\ Cardinality(s \ {FirstOne(s)}) \in Nat
        /\ Cardinality(s \ {FirstOne(s)}) < Cardinality(s)
    BY <1>2, <2>5, Fewer
  <2>7. Cardinality(s \ {FirstOne(s)}) \notin T
    BY <2>3, <2>4, <2>6
  <2>8. iter[s \ {FirstOne(s)}] \in Nat
    BY <2>6, <2>7
  <2>9. Size[FirstOne(s)] \in Nat
    BY <2>6, EscalationOK
  <2>10. iter[s] = Size[FirstOne(s)] + iter[s \ {FirstOne(s)}]
    BY <1>4, <2>5 DEF SumStep
  <2> QED BY <2>4, <2>8, <2>9, <2>10
<1>6. iter[S] \in Nat
  BY <1>5
<1>7. S = {} => iter[S] = 0
  BY <1>4 DEF SumStep
<1> QED BY <1>1, <1>6, <1>7

-----------------------------------------------------------------------------
(* Space. *)

\* From the measurement that led to a tier above 0 to the last tree the pass stages,
\* space is short; and no pass starts above tier 0 with anything staged that its
\* recovery could remove.
Short ==
    /\ free \in Nat /\ slack \in Nat \cup {Unread}
    /\ pc = "first" => tier = 0
    /\ tier > 0 => slack # Unread
    /\ tier > 0 /\ pc \in {"select", "open", "stage"} => ~EnoughSpace
    /\ \/ pc \in {"command", "report", "next"} /\ Armed
       \/ pc \in {"select", "open"} /\ tier > 0
       => In("quarantine") \subseteq Stubborn

LEMMA SlackType ==
    ASSUME Short
    PROVE  SlackRead \in Nat /\ SlackRead # Unread
BY EscalationOK DEF Short, SlackRead, SlackNow, Unread

\* When the answer is no, space is short.
LEMMA NoMeansShort ==
    ASSUME Short, Measure("no"), free' = free
    PROVE  /\ slack' \in Nat
           /\ ~EnoughSpace'
<1>1. slack' = SlackRead /\ ~Met(SlackRead)
  BY DEF Measure
<1>2. SlackRead \in Nat /\ SlackRead # Unread /\ free \in Nat
  BY SlackType DEF Short
<1>3. SlackRead' = slack'
  BY <1>1, <1>2 DEF SlackRead
<1>4. 100 * Lesser(free + SlackRead, Total) < TargetPct * Total
  <2>1. TargetPct * Total \in Int /\ Lesser(free + SlackRead, Total) \in Int
    BY <1>2, EscalationOK DEF Lesser
  <2> QED BY <1>1, <2>1 DEF Met, Effective
<1>5. TargetPct * Total <= 100 * Total
  <2>1. TargetPct \in Nat /\ TargetPct <= 100 /\ Total \in Nat
    BY EscalationOK
  <2> QED BY <2>1
<1>6. Lesser(free + SlackRead, Total) = free + SlackRead
  <2>1. Total \in Nat /\ TargetPct * Total \in Int
    BY EscalationOK
  <2> QED BY <1>2, <1>4, <1>5, <2>1 DEF Lesser
<1>7. TargetPct * Total \in Int
  BY EscalationOK
<1>8. ~ (100 * (free + SlackRead) >= TargetPct * Total)
  BY <1>2, <1>4, <1>6, <1>7
<1> QED BY <1>1, <1>2, <1>3, <1>8 DEF EnoughSpace

\* Where space and slack are the same, or less space, it is as short.
LEMMA StaysShort ==
    ASSUME Short, slack' = slack, free' \in Nat, free' <= free,
           slack # Unread \/ snapshots' = snapshots, ~EnoughSpace
    PROVE  ~EnoughSpace'
<1>1. SlackRead' = SlackRead
  BY DEF SlackRead, SlackNow
<1>2. SlackRead \in Nat /\ free \in Nat /\ TargetPct * Total \in Int
  BY SlackType, EscalationOK DEF Short
<1> QED BY <1>1, <1>2 DEF EnoughSpace

LEMMA RemovedSpace ==
    ASSUME Types, Short, Removed(In("quarantine"))
    PROVE  /\ free' \in Nat
           /\ In("quarantine") \subseteq Stubborn => free' = free
           /\ In("quarantine")' \subseteq Stubborn
<1> DEFINE S == In("quarantine") \ Stubborn
<1>1. S \in SUBSET Trees
  BY DEF In
<1>2. free' = free + SumFunctionOnSet(Size, S)
  BY DEF Removed
<1>3. SumFunctionOnSet(Size, S) \in Nat /\ (S = {} => SumFunctionOnSet(Size, S) = 0)
  BY <1>1, SumOfSizes
<1>4. free \in Nat
  BY DEF Short
<1>5. In("quarantine")' \subseteq Stubborn
  BY DEF Removed, In
<1>6. free' \in Nat /\ (S = {} => free' = free)
  <2> HIDE DEF S
  <2> QED BY <1>2, <1>3, <1>4
<1> QED BY <1>5, <1>6

\* A measurement starts the first pass at tier 0, and leads to the next tier only if
\* the answer is no.
LEMMA ShortBetween ==
    ASSUME Types, Short, First \/ NextTier
    PROVE  Short'
<1>1. /\ tier \in 0 .. 2 /\ slack \in Nat \cup {Unread} /\ free \in Nat
      /\ free' = free /\ loc' = loc /\ gate' = gate
  BY DEF Types, Tiers, MaxTier, Short, First, NextTier
<1>2. In("quarantine")' = In("quarantine") /\ Armed' = Armed
  BY <1>1 DEF In, Armed
<1>3. slack' \in Nat \/ slack' = slack
  <2>1. SlackRead \in Nat
    BY SlackType
  <2> QED BY <2>1 DEF First, NextTier, Measure
<1>4. CASE tier' = tier /\ pc' \in {"select", "done"} /\ (pc' = "select" => tier = 0)
  <2>1. tier > 0 => slack' # Unread
    BY <1>3 DEF Short, Unread
  <2>2. tier' > 0 => pc' \notin {"select", "open", "stage"}
    BY <1>1, <1>4
  <2>3. tier' > 0 => slack' # Unread
    BY <1>4, <2>1
  <2> QED BY <1>1, <1>3, <1>4, <2>2, <2>3 DEF Short
<1>5. CASE pc = "next" /\ Armed /\ Measure("no") /\ tier' = tier + 1 /\ pc' = "select"
  <2>1. slack' \in Nat /\ ~EnoughSpace'
    BY <1>1, <1>5, NoMeansShort
  <2>2. In("quarantine") \subseteq Stubborn
    BY <1>5 DEF Short
  <2>3. slack' # Unread
    BY <2>1 DEF Unread
  <2> QED BY <1>1, <1>2, <1>5, <2>1, <2>2, <2>3 DEF Short
<1>6. CASE First
  <2>1. tier' = tier /\ tier = 0 /\ pc' \in {"select", "done"}
    BY <1>6 DEF First, Abort, Short
  <2> QED BY <1>4, <2>1
<1>7. CASE NextTier
  BY <1>4, <1>5, <1>7 DEF NextTier
<1> QED BY <1>6, <1>7

LEMMA ShortPass ==
    ASSUME Types, ArmedToWork, Short, Select \/ Open \/ Stage \/ StageFail \/ Drain
    PROVE  Short'
<1>1. /\ tier \in 0 .. 2 /\ slack \in Nat \cup {Unread} /\ free \in Nat
      /\ tier' = tier /\ slack' = slack /\ gate' = gate /\ snapshots' = snapshots
      /\ tier > 0 => slack # Unread
  BY DEF Types, Tiers, MaxTier, Short, Select, Open, Stage, StageFail, Drain
<1>2. Armed' = Armed
  BY <1>1 DEF Armed
<1>3. free' \in Nat /\ free' <= free /\ tier > 0 /\ ~EnoughSpace => ~EnoughSpace'
  BY <1>1, StaysShort
<1>4. CASE Select
  <2>1. /\ pc = "select" /\ free' = free /\ loc' = loc
        /\ pc' = IF Armed THEN "open" ELSE "report"
    BY <1>4 DEF Select
  <2>2. In("quarantine")' = In("quarantine")
    BY <2>1 DEF In
  <2>3. tier > 0 => ~EnoughSpace /\ In("quarantine") \subseteq Stubborn
    BY <2>1 DEF Short
  <2>4. tier > 0 => ~EnoughSpace'
    BY <1>1, <1>3, <2>1, <2>3
  <2> QED BY <1>1, <1>2, <2>1, <2>2, <2>3, <2>4 DEF Short
<1>5. CASE Open
  <2>1. pc = "open" /\ pc' \in {"stage", "done"}
    BY <1>5 DEF Open, Abort
  <2>2. tier > 0 => ~EnoughSpace /\ In("quarantine") \subseteq Stubborn
    BY <2>1 DEF Short
  <2>3. Removed(In("quarantine")) \/ free' = free
    BY <1>5 DEF Open
  <2>4. free' \in Nat /\ (tier > 0 => free' = free)
    BY <1>1, <2>2, <2>3, RemovedSpace
  <2>5. tier > 0 => ~EnoughSpace'
    BY <1>1, <1>3, <2>2, <2>4
  <2> QED BY <1>1, <2>1, <2>4, <2>5 DEF Short
<1>6. CASE Stage \/ StageFail
  <2>1. pc = "stage" /\ pc' = "stage" /\ free' = free
    BY <1>6 DEF Stage, StageFail
  <2>2. tier > 0 => ~EnoughSpace'
    BY <1>1, <1>3, <2>1 DEF Short
  <2> QED BY <1>1, <2>1, <2>2 DEF Short
<1>7. CASE Drain
  <2>1. pc' = "command" /\ Removed(In("quarantine"))
    BY <1>7 DEF Drain
  <2> QED BY <1>1, <2>1, RemovedSpace DEF Short
<1> QED BY <1>4, <1>5, <1>6, <1>7

LEMMA ShortAfter ==
    ASSUME Types, ArmedToWork, Short, Command \/ CommandsEnd \/ Report
    PROVE  Short'
<1>1. /\ tier' = tier /\ slack' = slack /\ gate' = gate /\ loc' = loc
      /\ pc \in {"command", "report"} /\ pc' \in {"command", "report", "next"}
      /\ slack \in Nat \cup {Unread} /\ (tier > 0 => slack # Unread)
  BY DEF Short, Command, CommandsEnd, Report
<1>2. Armed' = Armed /\ In("quarantine")' = In("quarantine")
  BY <1>1 DEF Armed, In
<1>3. free' \in Nat
  <2>1. free \in Nat /\ Total \in Nat /\ Yields \subseteq Nat
    BY EscalationOK DEF Short
  <2>2. CASE Command
    <3>1. free' = free \/ \E y \in Yields : free' = Lesser(free + y, Total)
      BY <2>2 DEF Command
    <3> QED BY <2>1, <3>1 DEF Lesser
  <2>3. CASE CommandsEnd \/ Report
    BY <2>1, <2>3 DEF CommandsEnd, Report
  <2> QED BY <2>2, <2>3
<1>4. Armed => In("quarantine") \subseteq Stubborn
  BY <1>1 DEF Short
<1> QED BY <1>1, <1>2, <1>3, <1>4 DEF Short

\* Other programs only take space, and what was read of the snapshots stands.
LEMMA ShortMeanwhile ==
    ASSUME Short, Use \/ Snapshot \/ (\E t \in CanPin : Pin(t)) \/ UNCHANGED vars
    PROVE  Short'
<1>1. /\ tier' = tier /\ slack' = slack /\ gate' = gate /\ loc' = loc /\ pc' = pc
      /\ slack \in Nat \cup {Unread} /\ (tier > 0 => slack # Unread)
  BY DEF Short, Use, Snapshot, Pin, vars, runVars
<1>2. free \in Nat /\ free' \in Nat /\ free' <= free
  BY DEF Short, Use, Snapshot, Pin, vars
<1>3. Armed' = Armed /\ In("quarantine")' = In("quarantine")
  BY <1>1 DEF Armed, In
<1>4. tier > 0 /\ ~EnoughSpace => ~EnoughSpace'
  BY <1>1, <1>2, StaysShort
<1> QED BY <1>1, <1>2, <1>3, <1>4 DEF Short

\* What is expensive to rebuild is staged only while space is short, counting in what
\* snapshots will give back, whatever others took or gave meanwhile (sweep.rs,
\* until_free; context.rs, pressure).
THEOREM ExpensiveWhenShort == Spec => EscalatesOnlyWhenShort
<1>1. Init => Short
  <2> SUFFICES ASSUME Init PROVE Short
    OBVIOUS
  <2>1. Total \in Nat /\ SumFunction(Size) \in Nat
    <3>1. DOMAIN Size = Trees
      BY EscalationOK
    <3> QED BY <3>1, EscalationOK, SumOfSizes DEF SumFunction
  <2>2. free \in Nat /\ tier = 0 /\ slack = Unread /\ pc = "first"
    BY <2>1 DEF Init
  <2> QED BY <2>2 DEF Short
<1>2. Inv /\ Short /\ [Next]_vars => Short'
  BY ShortBetween, ShortPass, ShortAfter, ShortMeanwhile DEF Inv, Next, Step
<1>3. Inv /\ Short /\ [Next]_vars =>
        [\A t \in Trees :
            tier > 0 /\ loc[t] = "root" /\ loc'[t] = "quarantine" => ~EnoughSpace]_vars
  <2> SUFFICES ASSUME Inv, Short, Next, NEW t \in Trees,
                      tier > 0, loc[t] = "root", loc'[t] = "quarantine"
               PROVE  ~EnoughSpace
    OBVIOUS
  <2>1. loc' # loc
    OBVIOUS
  <2>2. Stage
    <3>1. ~ Removed(In("quarantine"))
      BY DEF Removed
    <3> QED BY <2>1, <3>1
        DEF Next, Step, First, Select, Open, StageFail, Drain, Command, CommandsEnd, Report,
            NextTier, Use, Snapshot, Pin
  <2> QED BY <2>2 DEF Short, Stage
<1> QED BY <1>1, <1>2, <1>3, EscalationInv, PTL DEF Spec, EscalatesOnlyWhenShort

=============================================================================
