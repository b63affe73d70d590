---------------------------- MODULE SweepProofs -----------------------------
(***************************************************************************)
(* The safety properties of module Sweep and its refinement of module      *)
(* Reclamation, proved for every number of runs, trees and places, every   *)
(* fault and every number of crashes.  The inductive invariant Inv says    *)
(* for each run, by program counter, what it has done so far (Local); that *)
(* knowledge is about the run's own state and about trees, which only move *)
(* on (Advance), so no step of another run can falsify it.                 *)
(***************************************************************************)
EXTENDS Sweep, TLAPS

-----------------------------------------------------------------------------
(* How a step changes the runs. *)

LEMMA BecomeEffect ==
    ASSUME NEW r \in Runs, NEW s, run \in [Runs -> RunState], s \in RunState, Become(r, s)
    PROVE  /\ run' \in [Runs -> RunState]
           /\ run'[r] = s
           /\ \A q \in Runs \ {r} : run'[q] = run[q]
BY DEF Become

LEMMA BecomeAtEffect ==
    ASSUME NEW r \in Runs, NEW s, NEW e, run \in [Runs -> RunState], s \in RunState,
           BecomeAt(r, s, e)
    PROVE  /\ run' \in [Runs -> RunState]
           /\ run'[r] = s
           /\ \A q \in Runs \ {r} : run'[q] \in {run[q], [run[q] EXCEPT !.raced = TRUE]}
<1>1. \A q \in Runs : [run[q] EXCEPT !.raced = TRUE] \in RunState
  BY DEF RunState
<1> QED BY <1>1 DEF BecomeAt

\* Exit codes are exit codes.
LEMMA Codes ==
    /\ ExitInternal \in ExitSuccess..ExitPartial
    /\ ExitConfig \in ExitSuccess..ExitPartial
    /\ ExitNothing \in ExitSuccess..ExitPartial
    /\ ExitPartial \in ExitSuccess..ExitPartial
    /\ ExitSuccess \in ExitSuccess..ExitPartial
BY DEF ExitInternal, ExitConfig, ExitNothing, ExitPartial, ExitSuccess

\* What the program counter says about the local state it is used with.
ShapeOf(r) ==
    /\ run[r].pc \in {"verifyRename", "verifyUndo", "verifyClean"} =>
         run[r].roots > 0 /\ run[r].cur \in Scratches
    /\ run[r].pc \in {"append", "newline", "drainRemove"} => run[r].cur \in Trees
    /\ run[r].pc = "recoverRemove" => run[r].cur \in Entry

Shape == \A r \in Runs : ShapeOf(r)

\* What a step of run r does to the other runs: at most it lets them know that
\* they share an entry.
Bystander(q) == run'[q] \in {run[q], [run[q] EXCEPT !.raced = TRUE]}
RunsOK(r) ==
    /\ run' \in [Runs -> RunState]
    /\ \A q \in Runs \ {r} : Bystander(q)

LEMMA BecomeRuns ==
    ASSUME NEW r \in Runs, NEW s \in RunState, TypeOK, Become(r, s)
    PROVE  RunsOK(r) /\ run'[r] = s
BY BecomeEffect DEF RunsOK, Bystander, TypeOK

LEMMA BecomeAtRuns ==
    ASSUME NEW r \in Runs, NEW s \in RunState, NEW e, TypeOK, BecomeAt(r, s, e)
    PROVE  RunsOK(r) /\ run'[r] = s
BY BecomeAtEffect DEF RunsOK, Bystander, TypeOK

LEMMA ExecutorRuns ==
    ASSUME TypeOK, Shape, NEW r \in Runs, ExecutorStep(r)
    PROVE  RunsOK(r)
<1>0. run[r] \in RunState
  BY DEF TypeOK
<1>1. CASE RemoveSome(r)
  BY <1>1 DEF RemoveSome, RunsOK, Bystander, TypeOK
<1>2. ASSUME NEW failed \in BOOLEAN, EndRemove(r, failed)
      PROVE  RunsOK(r)
  <2>1. Caller(run[r].pc) \in Labels
    BY DEF Caller, Labels
  <2>2. [run[r] EXCEPT !.pc = Caller(@), !.cur = NoEntry, !.raced = FALSE,
                       !.bad = @ \/ failed] \in RunState
    BY <1>0, <2>1 DEF RunState
  <2> QED BY <1>2, <2>2, BecomeRuns DEF EndRemove
<1>3. CASE RemoveAll(r)
  <2>1. {FALSE, run[r].raced} \subseteq BOOLEAN
    BY <1>0 DEF RunState
  <2> QED BY <1>2, <1>3, <2>1 DEF RemoveAll
<1>4. CASE RemoveBlocked(r)
  BY <1>2, <1>4 DEF RemoveBlocked
<1>5. ASSUME NEW label \in Labels, Goto(r, label)
      PROVE  RunsOK(r)
  <2>1. [run[r] EXCEPT !.pc = label] \in RunState
    BY <1>0 DEF RunState
  <2> QED BY <1>5, <2>1, BecomeRuns DEF Goto
<1>6. ASSUME Abort(r)
      PROVE  RunsOK(r)
  <2>1. [run[r] EXCEPT !.pc = "done", !.code = ExitInternal] \in RunState
    BY <1>0, Codes DEF RunState, Labels
  <2> QED BY <1>6, <2>1, BecomeRuns DEF Abort
<1>7. CASE Open(r)
  BY <1>5, <1>6, <1>7 DEF Open, Labels
<1>8. CASE ListQuarantine(r)
  <2>1. [run[r] EXCEPT !.pc = "recover", !.must = QuarantineEntries] \in RunState
    BY <1>0 DEF RunState, Labels, QuarantineEntries, Entry
  <2> QED BY <1>5, <1>8, <2>1, BecomeRuns DEF ListQuarantine, Labels
<1>9. ASSUME NEW s \in RunState, NEW e \in Entry, NEW label \in Labels,
             BeginRemove(r, s, e, label)
      PROVE  RunsOK(r)
  <2> DEFINE raced == \E q \in Runs \ {r} : Removing(q, e)
  <2>1. raced \in BOOLEAN
    OBVIOUS
  <2> HIDE DEF raced
  <2>2. [s EXCEPT !.pc = label, !.cur = e, !.raced = raced] \in RunState
    BY <1>9, <2>1 DEF RunState
  <2>3. BecomeAt(r, [s EXCEPT !.pc = label, !.cur = e, !.raced = raced], e)
    BY <1>9 DEF BeginRemove, raced
  <2> QED BY <2>2, <2>3, BecomeAtRuns
<1>10. CASE RecoverEntry(r)
  <2>1. PICK e \in run[r].must \cup (QuarantineEntries \ run[r].seen) :
          LET s == [run[r] EXCEPT !.must = @ \ {e}, !.seen = @ \cup ({e} \cap Trees),
                                  !.found = TRUE] IN
          IF Present(e) THEN BeginRemove(r, s, e, "recoverRemove") ELSE Become(r, s)
    BY <1>10 DEF RecoverEntry
  <2>2. e \in Entry
    BY <1>0 DEF RunState, QuarantineEntries, Entry
  <2>3. [run[r] EXCEPT !.must = @ \ {e}, !.seen = @ \cup ({e} \cap Trees),
                       !.found = TRUE] \in RunState
    BY <1>0, <2>2 DEF RunState
  <2> QED BY <1>9, <2>1, <2>2, <2>3, BecomeRuns DEF Labels
<1>11. CASE RecoverEnd(r)
  <2>1. [run[r] EXCEPT
           !.pc = IF run[r].found /\ ~run[r].bad THEN "recoverTruncate" ELSE "verify",
           !.must = {},
           !.errs = @ \/ run[r].bad,
           !.bad = FALSE] \in RunState
    BY ZenonT(40), <1>0 DEF RunState, Labels
  <2> QED BY <1>11, <2>1, BecomeRuns DEF RecoverEnd
<1>12. CASE RecoverTruncate(r) \/ DrainTruncate(r)
  BY <1>5, <1>12 DEF RecoverTruncate, DrainTruncate, Truncate, Labels
<1>22. CASE VerifyMkdir(r)
  <2>1. ASSUME NEW x \in Scratches,
               Become(r, [run[r] EXCEPT !.pc = "verifyRename", !.cur = x])
        PROVE  RunsOK(r)
    <3>1. [run[r] EXCEPT !.pc = "verifyRename", !.cur = x] \in RunState
      BY <1>0 DEF RunState, Labels, Entry
    <3> QED BY <2>1, <3>1, BecomeRuns
  <2> QED BY <1>6, <1>22, <2>1 DEF VerifyMkdir
<1>13. CASE VerifyRename(r) \/ VerifyEnd(r)
  BY <1>5, <1>13 DEF VerifyRename, VerifyEnd, Labels
<1>23. CASE VerifyUndo(r)
  <2>1. [run[r] EXCEPT !.pc = "done", !.cur = NoEntry, !.code = ExitInternal] \in RunState
    BY <1>0, Codes DEF RunState, Labels
  <2> QED BY <1>23, <2>1, BecomeRuns DEF VerifyUndo
<1>14. CASE VerifyClean(r)
  <2>1. run[r].roots - 1 \in Nat
    BY <1>0, <1>14 DEF RunState, Shape, ShapeOf, VerifyClean, At
  <2>2. [run[r] EXCEPT !.pc = "verify", !.cur = NoEntry, !.roots = @ - 1] \in RunState
    BY <1>0, <2>1 DEF RunState, Labels
  <2> QED BY <1>14, <2>2, BecomeAtRuns DEF VerifyClean
<1>15. CASE Expire(r)
  <2>1. [run[r] EXCEPT !.late = TRUE] \in RunState
    BY <1>0 DEF RunState
  <2> QED BY <1>15, <2>1, BecomeRuns DEF Expire
<1>16. CASE StageRename(r)
  <2>1. PICK t \in Trees : Become(r, [run[r] EXCEPT !.pc = "append", !.cur = t,
                                                    !.todo = @ \ {Home[t]}])
    BY <1>16 DEF StageRename
  <2>2. [run[r] EXCEPT !.pc = "append", !.cur = t, !.todo = @ \ {Home[t]}] \in RunState
    BY <1>0 DEF RunState, Labels, Entry
  <2> QED BY <2>1, <2>2, BecomeRuns
<1>17. CASE StageFail(r)
  <2>1. PICK p \in run[r].todo : Become(r, [run[r] EXCEPT !.todo = @ \ {p}, !.errs = TRUE])
    BY <1>17 DEF StageFail
  <2>2. [run[r] EXCEPT !.todo = @ \ {p}, !.errs = TRUE] \in RunState
    BY <1>0 DEF RunState
  <2> QED BY <2>1, <2>2, BecomeRuns
<1>18. CASE StageEnd(r)
  <2>1. [run[r] EXCEPT !.pc = "drain", !.left = run[r].staged] \in RunState
    BY <1>0 DEF RunState, Labels
  <2> QED BY <1>18, <2>1, BecomeRuns DEF StageEnd
<1>19. CASE AppendRecord(r) \/ AppendNewline(r)
  <2>1. run[r].cur \in Trees
    BY <1>19 DEF Shape, ShapeOf, AppendRecord, AppendNewline, At
  <2>2. [run[r] EXCEPT !.pc = "stage", !.staged = @ \cup {run[r].cur},
                       !.cur = NoEntry] \in RunState
    BY <1>0, <2>1 DEF RunState, Labels
  <2> QED BY <1>5, <1>19, <2>2, BecomeRuns DEF AppendRecord, AppendNewline, PushStaged, Labels
<1>20. CASE DrainEntry(r)
  <2>1. PICK t \in run[r].left :
          LET s == [run[r] EXCEPT !.left = @ \ {t}] IN
          IF Present(t) THEN BeginRemove(r, s, t, "drainRemove") ELSE Become(r, s)
    BY <1>20 DEF DrainEntry
  <2>2. t \in Entry
    BY <1>0 DEF RunState, Entry
  <2>3. [run[r] EXCEPT !.left = @ \ {t}] \in RunState
    BY <1>0 DEF RunState
  <2> QED BY <1>9, <2>1, <2>2, <2>3, BecomeRuns DEF Labels
<1>21. CASE DrainEnd(r)
  <2>1. [run[r] EXCEPT
           !.pc = IF run[r].bad THEN "command" ELSE "drainTruncate",
           !.errs = @ \/ run[r].bad,
           !.bad = FALSE] \in RunState
    BY ZenonT(40), <1>0 DEF RunState, Labels
  <2> QED BY <1>21, <2>1, BecomeRuns DEF DrainEnd
<1> QED
  BY <1>1, <1>3, <1>4, <1>7, <1>8, <1>10, <1>11, <1>12, <1>13, <1>14, <1>15, <1>16,
     <1>17, <1>18, <1>19, <1>20, <1>21, <1>22, <1>23 DEF ExecutorStep

LEMMA FreshRunType == FreshRun \in RunState
BY ConstantsOK, Codes DEF FreshRun, RunState, Labels, Gates

LEMMA SweepRuns ==
    ASSUME TypeOK, Shape, NEW r \in Runs, RunStep(r) \/ Start(r) \/ Crash(r)
    PROVE  RunsOK(r)
<1>0. run[r] \in RunState
  BY DEF TypeOK
<1>1. CASE ExecutorStep(r)
  BY <1>1, ExecutorRuns
<1>2. CASE Select(r)
  <2>1. Candidates(r) \subseteq Places /\ Selected(r) \subseteq Places
    BY DEF Candidates, Selected, Places
  <2>2. PICK walkError \in MayFail("walk") :
          Become(r, [run[r] EXCEPT
              !.pc = IF r \in Sessions /\ Candidates(r) = {} THEN "done"
                     ELSE IF Armed(r) THEN "open" ELSE "report",
              !.code = IF r \in Sessions /\ Candidates(r) = {} THEN ExitNothing ELSE @,
              !.sel  = Selected(r),
              !.todo = IF Armed(r) THEN Selected(r) ELSE {},
              !.errs = walkError])
    BY <1>2 DEF Select
  <2>3. walkError \in BOOLEAN
    BY DEF MayFail
  <2>4. [run[r] EXCEPT
              !.pc = IF r \in Sessions /\ Candidates(r) = {} THEN "done"
                     ELSE IF Armed(r) THEN "open" ELSE "report",
              !.code = IF r \in Sessions /\ Candidates(r) = {} THEN ExitNothing ELSE @,
              !.sel  = Selected(r),
              !.todo = IF Armed(r) THEN Selected(r) ELSE {},
              !.errs = walkError] \in RunState
    BY ZenonT(40), <1>0, <2>1, <2>3, Codes DEF RunState, Labels
  <2> QED BY <2>2, <2>4, BecomeRuns
<1>3. CASE RunCommand(r)
  <2>1. PICK failed \in MayFail("command") :
          Become(r, [run[r] EXCEPT !.cmds = @ - 1, !.errs = @ \/ failed])
    BY <1>3 DEF RunCommand
  <2>2. run[r].cmds - 1 \in Nat
    BY <1>0, <1>3 DEF RunCommand, RunState
  <2>4. failed \in BOOLEAN
    BY DEF MayFail
  <2>3. [run[r] EXCEPT !.cmds = @ - 1, !.errs = @ \/ failed] \in RunState
    BY <1>0, <2>2, <2>4 DEF RunState
  <2> QED BY <2>1, <2>3, BecomeRuns
<1>4. CASE CommandsEnd(r)
  <2>1. [run[r] EXCEPT !.pc = "report"] \in RunState
    BY <1>0 DEF RunState, Labels
  <2> QED BY <1>4, <2>1, BecomeRuns DEF CommandsEnd, Goto
<1>5. CASE Report(r)
  <2>1. ExitCode(r) \in ExitSuccess..ExitPartial
    BY Codes DEF ExitCode
  <2>2. [run[r] EXCEPT !.pc = "done", !.code = ExitCode(r)] \in RunState
    BY <1>0, <2>1 DEF RunState, Labels
  <2> QED BY <1>5, <2>2, BecomeRuns DEF Report
<1>6. CASE Start(r)
  <2>1. PICK apply \in BOOLEAN : Load(r, apply)
    BY <1>6 DEF Start
  <2>2. Gate(apply) \in Gates /\ claimed \subseteq Places
    BY DEF Gate, Gates, TypeOK
  <2>3. [FreshRun EXCEPT !.pc = "select", !.gate = Gate(apply), !.beats = claimed,
                         !.roots = NRoots, !.cmds = Commands[r]] \in RunState
    BY ZenonT(40), FreshRunType, <2>2, ConstantsOK, ScopesOK DEF RunState, Labels
  <2> QED BY <2>1, <2>3, BecomeRuns DEF Load
<1>7. CASE Crash(r)
  BY <1>7, FreshRunType, BecomeRuns DEF Crash
<1> QED
  BY <1>1, <1>2, <1>3, <1>4, <1>5, <1>6, <1>7 DEF RunStep

\* What a bystander keeps: everything but raced.
LEMMA BystanderKeeps ==
    ASSUME NEW q \in Runs, run[q] \in RunState, Bystander(q)
    PROVE  /\ run'[q].pc = run[q].pc         /\ run'[q].gate = run[q].gate
           /\ run'[q].sel = run[q].sel       /\ run'[q].todo = run[q].todo
           /\ run'[q].must = run[q].must     /\ run'[q].seen = run[q].seen
           /\ run'[q].cur = run[q].cur       /\ run'[q].roots = run[q].roots
           /\ run'[q].staged = run[q].staged /\ run'[q].left = run[q].left
           /\ run'[q].bad = run[q].bad       /\ run'[q].errs = run[q].errs
           /\ run'[q].late = run[q].late     /\ run'[q].code = run[q].code
           /\ run'[q].found = run[q].found
BY DEF Bystander, RunState

LEMMA InitType == Init => TypeOK /\ Shape
<1> SUFFICES ASSUME Init PROVE TypeOK /\ Shape
  OBVIOUS
<1>0. scratch \in [Scratches -> {"none", "root", "quarantine"}] /\ litter \in BOOLEAN
  BY DEF Init
<1>1. TypeOK
  BY <1>0, FreshRunType, ConstantsOK, ScopesOK DEF Init, TypeOK, TreeLoc
<1>2. Shape
  BY DEF Init, Shape, ShapeOf, FreshRun
<1> QED BY <1>1, <1>2

LEMMA FileSystemType ==
    ASSUME TypeOK, Shape, NEW r \in Runs, ExecutorStep(r)
    PROVE  /\ loc' \in [Trees -> TreeLoc]
           /\ torn' \subseteq Trees
           /\ stubborn' \subseteq Trees
           /\ scratch' \in [Scratches -> {"none", "root", "quarantine"}]
           /\ litter' \in BOOLEAN
           /\ manifest' \in Seq(Trees \cup {NL})
<1>1. CASE RemoveSome(r)
  BY <1>1 DEF RemoveSome, TypeOK
<1>7. CASE RemoveAll(r)
  <2>1. CASE run[r].cur \in Trees
    BY <1>7, <2>1 DEF RemoveAll, TypeOK, TreeLoc
  <2>2. CASE run[r].cur \notin Trees
    BY <1>7, <2>2 DEF RemoveAll, TypeOK
  <2> QED BY <2>1, <2>2
<1>8. CASE RemoveBlocked(r)
  BY <1>8 DEF RemoveBlocked, TypeOK
<1>2. CASE \/ Open(r) \/ ListQuarantine(r) \/ RecoverEntry(r) \/ RecoverEnd(r)
           \/ VerifyEnd(r) \/ Expire(r) \/ StageFail(r) \/ StageEnd(r)
           \/ DrainEntry(r) \/ DrainEnd(r)
  BY <1>2 DEF Open, ListQuarantine, RecoverEntry, RecoverEnd, VerifyEnd, Expire,
              StageFail, StageEnd, DrainEntry, DrainEnd, fsVars, TypeOK
<1>3. CASE RecoverTruncate(r) \/ DrainTruncate(r)
  <2>1. manifest' = <<>> \/ manifest' = manifest
    BY <1>3 DEF RecoverTruncate, DrainTruncate, Truncate
  <2>2. <<>> \in Seq(Trees \cup {NL})
    OBVIOUS
  <2>3. manifest' \in Seq(Trees \cup {NL})
    BY <2>1, <2>2 DEF TypeOK
  <2>4. UNCHANGED <<loc, torn, stubborn, scratch, litter>>
    BY <1>3 DEF RecoverTruncate, DrainTruncate, Truncate
  <2> QED BY <2>3, <2>4 DEF TypeOK
<1>4. CASE VerifyMkdir(r) \/ VerifyRename(r) \/ VerifyUndo(r) \/ VerifyClean(r)
  <2>1. scratch' = scratch \/ \E x \in DOMAIN scratch \cup {run[r].cur},
           w \in {"none", "root", "quarantine"} : scratch' = [scratch EXCEPT ![x] = w]
    BY <1>4 DEF VerifyMkdir, VerifyRename, VerifyUndo, VerifyClean, TypeOK
  <2>2. scratch' \in [Scratches -> {"none", "root", "quarantine"}]
    BY <2>1 DEF TypeOK
  <2>3. litter' \in BOOLEAN
    <3>1. CASE VerifyUndo(r)
      <4>1. PICK kept \in BOOLEAN : litter' = (litter \/ kept)
        BY <3>1 DEF VerifyUndo, MayFail
      <4> QED BY <4>1
    <3>2. CASE ~VerifyUndo(r)
      BY <1>4, <3>2 DEF VerifyMkdir, VerifyRename, VerifyClean, TypeOK
    <3> QED BY <3>1, <3>2
  <2> QED BY <1>4, <2>2, <2>3 DEF VerifyMkdir, VerifyRename, VerifyUndo, VerifyClean, TypeOK
<1>5. CASE StageRename(r)
  BY <1>5 DEF StageRename, TypeOK, TreeLoc
<1>6. CASE AppendRecord(r) \/ AppendNewline(r)
  <2>1. run[r].cur \in Trees
    BY <1>6 DEF Shape, ShapeOf, AppendRecord, AppendNewline, At
  <2> QED BY <1>6, <2>1 DEF AppendRecord, AppendNewline, TypeOK
<1> QED
  BY <1>1, <1>2, <1>3, <1>4, <1>5, <1>6, <1>7, <1>8 DEF ExecutorStep

LEMMA NextType == TypeOK /\ Shape /\ [Next]_vars => TypeOK'
<1> SUFFICES ASSUME TypeOK, Shape, [Next]_vars PROVE TypeOK'
  OBVIOUS
<1>1. CASE \E r \in Runs : ExecutorStep(r) /\ UNCHANGED worldVars
  BY <1>1, FileSystemType, ExecutorRuns DEF RunsOK, TypeOK, worldVars
<1>2. CASE \E r \in Runs : Select(r) \/ RunCommand(r) \/ CommandsEnd(r) \/ Report(r) \/ Start(r)
  <2>1. PICK r \in Runs : Select(r) \/ RunCommand(r) \/ CommandsEnd(r) \/ Report(r) \/ Start(r)
    BY <1>2
  <2>2. run' \in [Runs -> RunState]
    BY <2>1, SweepRuns DEF RunStep, RunsOK
  <2>3. UNCHANGED <<fsVars, worldVars>>
    BY <2>1 DEF Select, RunCommand, CommandsEnd, Report, Start, Load
  <2> QED BY <2>2, <2>3 DEF TypeOK, fsVars, worldVars
<1>3. CASE \E r \in Runs : Crash(r)
  <2>1. PICK r \in Runs : Crash(r)
    BY <1>3
  <2>2. run' \in [Runs -> RunState]
    BY <2>1, SweepRuns DEF RunsOK
  <2>3. scratch' \in [Scratches -> {"none", "root", "quarantine"}] /\ litter' \in BOOLEAN
    BY <2>1 DEF Crash, TypeOK
  <2>4. crashes' \in Nat
    BY <2>1 DEF Crash, TypeOK
  <2> QED BY <2>1, <2>2, <2>3, <2>4 DEF Crash, TypeOK
<1>4. CASE \E t \in Trees : Build(t) \/ Repair(t)
  BY <1>4 DEF Build, Repair, TypeOK, TreeLoc, worldVars
<1>5. CASE (\E p \in Places : Heartbeat(p) \/ PinMarker(p)) \/ EditConfig
  BY <1>5 DEF Heartbeat, PinMarker, EditConfig, TypeOK, fsVars
<1>6. CASE UNCHANGED vars
  BY <1>6 DEF vars, fsVars, worldVars, TypeOK
<1> QED
  BY <1>1, <1>2, <1>3, <1>4, <1>5, <1>6 DEF Next, RunStep, World

-----------------------------------------------------------------------------
(* What a run has done by the time it is where it is. *)

Gone(t) == loc[t] = "gone"
Out(t)  == Staged(t) \/ Gone(t)

\* The trees a run has renamed: those it has pushed and the one it is recording.
Held(r) ==
    run[r].staged \cup (IF run[r].pc \in {"append", "newline"} THEN {run[r].cur} ELSE {})

Homes(S) == {Home[t] : t \in S}

Verifying == {"recoverTruncate", "verify", "verifyRename", "verifyUndo", "verifyClean"}
Staging   == {"stage", "append", "newline"}
Draining  == {"drain", "drainRemove"}
Finishing == {"drainTruncate", "command", "report"}
Before    == {"open", "list", "recover", "recoverRemove"} \cup Verifying

\* Nothing is staged or recovered without both opt-ins, nor before its time.
GateHeld(r) ==
    /\ run[r].pc \in ArmedLabels => run[r].gate = "armed"
    /\ run[r].gate # "armed" =>
         run[r].staged = {} /\ run[r].seen = {} /\ run[r].must = {} /\ ~run[r].found
    /\ run[r].pc \in {"idle", "select"} =>
         /\ run[r].staged = {} /\ run[r].todo = {} /\ run[r].sel = {}
         /\ run[r].must = {} /\ run[r].seen = {} /\ ~run[r].found /\ ~run[r].bad
    /\ run[r].pc \in {"open", "list"} =>
         run[r].must = {} /\ run[r].seen = {} /\ ~run[r].found /\ ~run[r].bad
    /\ run[r].pc \in Before => run[r].staged = {} /\ run[r].todo = run[r].sel
    /\ run[r].pc \in Verifying \cup Staging => ~run[r].bad

\* What a run holds, has listed or is removing is out of its root.
Owned(r) ==
    /\ \A t \in Trees :
         t \in Held(r) \/ t \in run[r].must \/ t \in run[r].seen => Out(t)
    /\ \A t \in Trees :
         run[r].pc \in {"recoverRemove", "drainRemove"} /\ run[r].cur = t => Out(t)

\* What recovery has gone through is erased, or an error says that it is not.
Recovered(r) ==
    /\ run[r].pc \in {"recover", "recoverRemove"} =>
         \A t \in run[r].seen :
            Gone(t) \/ run[r].bad \/ (run[r].pc = "recoverRemove" /\ run[r].cur = t)
    /\ run[r].pc \in Verifying \cup Staging \cup Draining \cup Finishing =>
         \A t \in run[r].seen : Gone(t) \/ run[r].errs

\* Every selected place has been staged, is still to come, or has its error.
Judged(r) ==
    /\ run[r].todo \subseteq run[r].sel
    /\ \A t \in Held(r) : Home[t] \in run[r].sel
    /\ run[r].pc \in Staging =>
         run[r].errs \/ run[r].sel = run[r].todo \cup Homes(Held(r))
    /\ run[r].pc \in Draining \cup Finishing /\ run[r].gate = "armed" =>
         run[r].errs \/ run[r].late \/ run[r].sel = Homes(run[r].staged)

\* What was staged and is not left to drain is erased, or has its error.
Drained(r) ==
    /\ run[r].pc \in Draining =>
         /\ run[r].left \subseteq run[r].staged
         /\ \A t \in run[r].staged \ run[r].left :
              Gone(t) \/ run[r].bad \/ (run[r].pc = "drainRemove" /\ run[r].cur = t)
    /\ run[r].pc \in Finishing => \A t \in run[r].staged : Gone(t) \/ run[r].errs

\* What the exit code of a finished run says.
Concluded(r) ==
    run[r].pc = "done" =>
        /\ run[r].code = ExitNothing => run[r].staged = {}
        /\ run[r].code = ExitSuccess /\ run[r].gate = "armed" =>
             /\ \A t \in run[r].staged \cup run[r].seen : Gone(t)
             /\ run[r].late \/ run[r].sel = Homes(run[r].staged)

Local(r) ==
    /\ ShapeOf(r)
    /\ GateHeld(r)
    /\ Owned(r)
    /\ Recovered(r)
    /\ Judged(r)
    /\ Drained(r)
    /\ Concluded(r)

\* The places a run may still take a tree from.
Grants(r) == IF run[r].pc \in GrantLabels THEN run[r].todo ELSE {}

\* A step of run r that renames nothing and judges nothing.
Keeps(r) ==
    /\ Local(r)'
    /\ Held(r)' \subseteq Held(r)
    /\ Grants(r)' \subseteq Grants(r)

\* Trees only move on.
Advance ==
    \A t \in Trees : (Out(t) => Out(t)') /\ (Gone(t) => Gone(t)')

LEMMA Actor ==
    ASSUME NEW r \in Runs, NEW s, run \in [Runs -> RunState], Become(r, s)
    PROVE  run'[r] = s
BY DEF Become

LEMMA ActorAt ==
    ASSUME NEW r \in Runs, NEW s, NEW e, run \in [Runs -> RunState], BecomeAt(r, s, e)
    PROVE  run'[r] = s
BY DEF BecomeAt

LEMMA CodesDiffer ==
    /\ ExitInternal # ExitSuccess /\ ExitInternal # ExitNothing
    /\ ExitPartial # ExitSuccess /\ ExitPartial # ExitNothing
    /\ ExitConfig # ExitSuccess /\ ExitConfig # ExitNothing
    /\ ExitNothing # ExitSuccess
BY DEF ExitInternal, ExitConfig, ExitNothing, ExitPartial, ExitSuccess


LEMMA OpenLocal ==
    ASSUME TypeOK, NEW r \in Runs, Local(r), Open(r)
    PROVE  Keeps(r)
<1> USE DEF Verifying, Staging, Draining, Finishing, Before
<1>1. run \in [Runs -> RunState] /\ run[r] \in RunState
  BY DEF TypeOK
<1>2. \/ run'[r] = [run[r] EXCEPT !.pc = "list"]
      \/ run'[r] = [run[r] EXCEPT !.pc = "done", !.code = ExitInternal]
  BY <1>1, Actor, ActorAt DEF Open, Goto, Abort
<1>3. run[r].pc = "open" /\ UNCHANGED loc
  BY DEF Open, Goto, Abort, At, fsVars
<1>4. ShapeOf(r)'
  BY ZenonT(40), <1>1, <1>2, <1>3 DEF Local, ShapeOf, RunState
<1>5. GateHeld(r)'
  BY ZenonT(40), <1>1, <1>2, <1>3 DEF Local, GateHeld, RunState, ArmedLabels
<1>6. Held(r)' \subseteq Held(r)
  BY <1>1, <1>2, <1>3 DEF Held, RunState
<1>7. \A t \in Trees : Out(t) => Out(t)'
  BY <1>3 DEF Out, Gone, Staged
<1>8. Owned(r)'
  BY <1>1, <1>2, <1>3, <1>6, <1>7 DEF Local, Owned, RunState
<1>9. Recovered(r)'
  BY <1>1, <1>2, <1>3 DEF Local, GateHeld, Recovered, RunState, Gone
<1>10. Judged(r)' /\ Drained(r)'
  BY ZenonT(40), <1>1, <1>2, <1>3, <1>6
     DEF Local, GateHeld, Judged, Drained, RunState, Held, Homes,
      Gone, ArmedLabels
<1>11. Concluded(r)'
  BY <1>1, <1>2, <1>3, CodesDiffer DEF RunState, Concluded
<1>12. Grants(r)' \subseteq Grants(r)
  BY <1>1, <1>2, <1>3 DEF Grants, GrantLabels, ArmedLabels, RunState
<1> QED BY <1>4, <1>5, <1>6, <1>8, <1>9, <1>10, <1>11, <1>12 DEF Local, Keeps

LEMMA ListQuarantineLocal ==
    ASSUME TypeOK, NEW r \in Runs, Local(r), ListQuarantine(r)
    PROVE  Keeps(r)
<1> USE DEF Verifying, Staging, Draining, Finishing, Before
<1>1. run \in [Runs -> RunState] /\ run[r] \in RunState
  BY DEF TypeOK
<1>2. \/ run'[r] = [run[r] EXCEPT !.pc = "recover", !.must = QuarantineEntries]
      \/ run'[r] = [run[r] EXCEPT !.pc = "verify"]
  BY <1>1, Actor, ActorAt DEF ListQuarantine, Goto
<1>3. run[r].pc = "list" /\ UNCHANGED loc
  BY DEF ListQuarantine, Goto, At, fsVars
<1>4. \A t \in Trees : t \in QuarantineEntries => Out(t)
  BY ConstantsOK DEF QuarantineEntries, Out
<1>5. ShapeOf(r)'
  BY ZenonT(40), <1>1, <1>2, <1>3, <1>4 DEF Local, ShapeOf, RunState
<1>6. GateHeld(r)'
  BY ZenonT(40), <1>1, <1>2, <1>3, <1>4 DEF Local, GateHeld, RunState, ArmedLabels
<1>7. Held(r)' \subseteq Held(r)
  BY <1>1, <1>2, <1>3, <1>4 DEF Held, RunState
<1>8. \A t \in Trees : Out(t) => Out(t)'
  BY <1>3 DEF Out, Gone, Staged
<1>9. Owned(r)'
  BY ZenonT(40), <1>1, <1>2, <1>3, <1>4, <1>7, <1>8 DEF Local, Owned, RunState
<1>10. Recovered(r)'
  BY ZenonT(40), <1>1, <1>2, <1>3, <1>4 DEF Local, GateHeld, Recovered, RunState, Gone
<1>11. Judged(r)' /\ Drained(r)'
  BY ZenonT(40), <1>1, <1>2, <1>3, <1>4, <1>7
     DEF Local, GateHeld, Judged, Drained, RunState, Held, Homes, Gone, ArmedLabels
<1>12. Concluded(r)'
  BY <1>1, <1>2, <1>3, <1>4 DEF RunState, Concluded
<1>13. Grants(r)' \subseteq Grants(r)
  BY <1>1, <1>2, <1>3, <1>4 DEF Grants, GrantLabels, ArmedLabels, RunState
<1> QED BY <1>5, <1>6, <1>7, <1>9, <1>10, <1>11, <1>12, <1>13 DEF Local, Keeps

LEMMA RecoverEndLocal ==
    ASSUME TypeOK, NEW r \in Runs, Local(r), RecoverEnd(r)
    PROVE  Keeps(r)
<1> USE DEF Verifying, Staging, Draining, Finishing, Before
<1>1. run \in [Runs -> RunState] /\ run[r] \in RunState
  BY DEF TypeOK
<1>2. run'[r] = [run[r] EXCEPT
           !.pc = IF run[r].found /\ ~run[r].bad THEN "recoverTruncate" ELSE "verify",
           !.must = {},
           !.errs = @ \/ run[r].bad,
           !.bad = FALSE]
  BY <1>1, Actor, ActorAt DEF RecoverEnd, Goto
<1>3. run[r].pc = "recover" /\ UNCHANGED loc
  BY DEF RecoverEnd, Goto, At, fsVars
<1>4. ShapeOf(r)'
  BY <1>1, <1>2, <1>3 DEF Local, ShapeOf, RunState
<1>5. GateHeld(r)'
  BY <1>1, <1>2, <1>3 DEF Local, GateHeld, RunState, ArmedLabels
<1>6. Held(r)' \subseteq Held(r)
  BY <1>1, <1>2, <1>3 DEF Held, RunState
<1>7. \A t \in Trees : Out(t) => Out(t)'
  BY <1>3 DEF Out, Gone, Staged
<1>8. Owned(r)'
  BY <1>1, <1>2, <1>3, <1>6, <1>7 DEF Local, Owned, RunState
<1>9. Recovered(r)'
  BY <1>1, <1>2, <1>3 DEF Local, GateHeld, Recovered, RunState, Gone
<1>10. Judged(r)' /\ Drained(r)'
  BY <1>1, <1>2, <1>3, <1>6 DEF Local, GateHeld, Judged, Drained, RunState, Held, Homes,
      Gone, ArmedLabels
<1>11. Concluded(r)'
  BY <1>1, <1>2, <1>3 DEF RunState, Concluded
<1>12. Grants(r)' \subseteq Grants(r)
  BY <1>1, <1>2, <1>3 DEF Grants, GrantLabels, ArmedLabels, RunState
<1> QED BY <1>4, <1>5, <1>6, <1>8, <1>9, <1>10, <1>11, <1>12 DEF Local, Keeps

LEMMA RecoverTruncateLocal ==
    ASSUME TypeOK, NEW r \in Runs, Local(r), RecoverTruncate(r)
    PROVE  Keeps(r)
<1> USE DEF Verifying, Staging, Draining, Finishing, Before
<1>1. run \in [Runs -> RunState] /\ run[r] \in RunState
  BY DEF TypeOK
<1>2. run'[r] = [run[r] EXCEPT !.pc = "verify"]
  BY <1>1, Actor, ActorAt DEF RecoverTruncate, Truncate, Goto
<1>3. run[r].pc = "recoverTruncate" /\ UNCHANGED loc
  BY DEF RecoverTruncate, Truncate, Goto, At, fsVars
<1>4. ShapeOf(r)'
  BY <1>1, <1>2, <1>3 DEF Local, ShapeOf, RunState
<1>5. GateHeld(r)'
  BY <1>1, <1>2, <1>3 DEF Local, GateHeld, RunState, ArmedLabels
<1>6. Held(r)' \subseteq Held(r)
  BY <1>1, <1>2, <1>3 DEF Held, RunState
<1>7. \A t \in Trees : Out(t) => Out(t)'
  BY <1>3 DEF Out, Gone, Staged
<1>8. Owned(r)'
  BY <1>1, <1>2, <1>3, <1>6, <1>7 DEF Local, Owned, RunState
<1>9. Recovered(r)'
  BY <1>1, <1>2, <1>3 DEF Local, GateHeld, Recovered, RunState, Gone
<1>10. Judged(r)' /\ Drained(r)'
  BY <1>1, <1>2, <1>3, <1>6 DEF Local, GateHeld, Judged, Drained, RunState, Held, Homes,
      Gone, ArmedLabels
<1>11. Concluded(r)'
  BY <1>1, <1>2, <1>3 DEF RunState, Concluded
<1>12. Grants(r)' \subseteq Grants(r)
  BY <1>1, <1>2, <1>3 DEF Grants, GrantLabels, ArmedLabels, RunState
<1> QED BY <1>4, <1>5, <1>6, <1>8, <1>9, <1>10, <1>11, <1>12 DEF Local, Keeps

LEMMA VerifyMkdirLocal ==
    ASSUME TypeOK, NEW r \in Runs, Local(r), VerifyMkdir(r)
    PROVE  Keeps(r)
<1> USE DEF Verifying, Staging, Draining, Finishing, Before
<1>1. run \in [Runs -> RunState] /\ run[r] \in RunState
  BY DEF TypeOK
<1>2. \/ \E x \in Scratches : run'[r] = [run[r] EXCEPT !.pc = "verifyRename", !.cur = x]
      \/ run'[r] = [run[r] EXCEPT !.pc = "done", !.code = ExitInternal]
  BY <1>1, Actor, ActorAt DEF VerifyMkdir, Goto, Abort
<1>3. run[r].pc = "verify" /\ run[r].roots > 0 /\ UNCHANGED loc
  BY DEF VerifyMkdir, Goto, Abort, At, fsVars
<1>4. ShapeOf(r)'
  BY ZenonT(40), <1>1, <1>2, <1>3 DEF Local, ShapeOf, RunState
<1>5. GateHeld(r)'
  BY ZenonT(40), <1>1, <1>2, <1>3 DEF Local, GateHeld, RunState, ArmedLabels
<1>6. Held(r)' \subseteq Held(r)
  BY <1>1, <1>2, <1>3 DEF Held, RunState
<1>7. \A t \in Trees : Out(t) => Out(t)'
  BY <1>3 DEF Out, Gone, Staged
<1>8. Owned(r)'
  BY <1>1, <1>2, <1>3, <1>6, <1>7 DEF Local, Owned, RunState
<1>9. Recovered(r)'
  BY ZenonT(40), <1>1, <1>2, <1>3 DEF Local, GateHeld, Recovered, RunState, Gone
<1>10. Judged(r)' /\ Drained(r)'
  BY ZenonT(40), <1>1, <1>2, <1>3, <1>6
     DEF Local, GateHeld, Judged, Drained, RunState, Held, Homes,
      Gone, ArmedLabels
<1>11. Concluded(r)'
  BY <1>1, <1>2, <1>3, CodesDiffer DEF RunState, Concluded
<1>12. Grants(r)' \subseteq Grants(r)
  BY <1>1, <1>2, <1>3 DEF Grants, GrantLabels, ArmedLabels, RunState
<1> QED BY <1>4, <1>5, <1>6, <1>8, <1>9, <1>10, <1>11, <1>12 DEF Local, Keeps

LEMMA VerifyRenameLocal ==
    ASSUME TypeOK, NEW r \in Runs, Local(r), VerifyRename(r)
    PROVE  Keeps(r)
<1> USE DEF Verifying, Staging, Draining, Finishing, Before
<1>1. run \in [Runs -> RunState] /\ run[r] \in RunState
  BY DEF TypeOK
<1>2. \/ run'[r] = [run[r] EXCEPT !.pc = "verifyClean"]
      \/ run'[r] = [run[r] EXCEPT !.pc = "verifyUndo"]
  BY <1>1, Actor, ActorAt DEF VerifyRename, Goto
<1>3. run[r].pc = "verifyRename" /\ UNCHANGED loc
  BY DEF VerifyRename, Goto, At, fsVars
<1>4. ShapeOf(r)'
  BY ZenonT(40), <1>1, <1>2, <1>3 DEF Local, ShapeOf, RunState
<1>5. GateHeld(r)'
  BY ZenonT(40), <1>1, <1>2, <1>3 DEF Local, GateHeld, RunState, ArmedLabels
<1>6. Held(r)' \subseteq Held(r)
  BY <1>1, <1>2, <1>3 DEF Held, RunState
<1>7. \A t \in Trees : Out(t) => Out(t)'
  BY <1>3 DEF Out, Gone, Staged
<1>8. Owned(r)'
  BY <1>1, <1>2, <1>3, <1>6, <1>7 DEF Local, Owned, RunState
<1>9. Recovered(r)'
  BY ZenonT(40), <1>1, <1>2, <1>3 DEF Local, GateHeld, Recovered, RunState, Gone
<1>10. Judged(r)' /\ Drained(r)'
  BY ZenonT(40), <1>1, <1>2, <1>3, <1>6
     DEF Local, GateHeld, Judged, Drained, RunState, Held, Homes,
      Gone, ArmedLabels
<1>11. Concluded(r)'
  BY <1>1, <1>2, <1>3, CodesDiffer DEF RunState, Concluded
<1>12. Grants(r)' \subseteq Grants(r)
  BY <1>1, <1>2, <1>3 DEF Grants, GrantLabels, ArmedLabels, RunState
<1> QED BY <1>4, <1>5, <1>6, <1>8, <1>9, <1>10, <1>11, <1>12 DEF Local, Keeps

LEMMA VerifyUndoLocal ==
    ASSUME TypeOK, NEW r \in Runs, Local(r), VerifyUndo(r)
    PROVE  Keeps(r)
<1> USE DEF Verifying, Staging, Draining, Finishing, Before
<1>1. run \in [Runs -> RunState] /\ run[r] \in RunState
  BY DEF TypeOK
<1>2. run'[r] = [run[r] EXCEPT !.pc = "done", !.cur = NoEntry, !.code = ExitInternal]
  BY <1>1, Actor, ActorAt DEF VerifyUndo
<1>3. run[r].pc = "verifyUndo" /\ UNCHANGED loc
  BY DEF VerifyUndo, At, fsVars
<1>4. ShapeOf(r)'
  BY <1>1, <1>2, <1>3 DEF Local, ShapeOf, RunState
<1>5. GateHeld(r)'
  BY <1>1, <1>2, <1>3 DEF Local, GateHeld, RunState, ArmedLabels
<1>6. Held(r)' \subseteq Held(r)
  BY <1>1, <1>2, <1>3 DEF Held, RunState
<1>7. \A t \in Trees : Out(t) => Out(t)'
  BY <1>3 DEF Out, Gone, Staged
<1>8. Owned(r)'
  BY <1>1, <1>2, <1>3, <1>6, <1>7 DEF Local, Owned, RunState
<1>9. Recovered(r)'
  BY <1>1, <1>2, <1>3 DEF Local, GateHeld, Recovered, RunState, Gone
<1>10. Judged(r)' /\ Drained(r)'
  BY <1>1, <1>2, <1>3, <1>6 DEF Local, GateHeld, Judged, Drained, RunState, Held, Homes,
      Gone, ArmedLabels
<1>11. Concluded(r)'
  BY <1>1, <1>2, <1>3, CodesDiffer DEF RunState, Concluded
<1>12. Grants(r)' \subseteq Grants(r)
  BY <1>1, <1>2, <1>3 DEF Grants, GrantLabels, ArmedLabels, RunState
<1> QED BY <1>4, <1>5, <1>6, <1>8, <1>9, <1>10, <1>11, <1>12 DEF Local, Keeps

LEMMA VerifyCleanLocal ==
    ASSUME TypeOK, NEW r \in Runs, Local(r), VerifyClean(r)
    PROVE  Keeps(r)
<1> USE DEF Verifying, Staging, Draining, Finishing, Before
<1>1. run \in [Runs -> RunState] /\ run[r] \in RunState
  BY DEF TypeOK
<1>2. run'[r] = [run[r] EXCEPT !.pc = "verify", !.cur = NoEntry, !.roots = @ - 1]
  BY <1>1, Actor, ActorAt DEF VerifyClean, Goto
<1>3. run[r].pc = "verifyClean" /\ UNCHANGED loc
  BY DEF VerifyClean, Goto, At, fsVars
<1>4. ShapeOf(r)'
  BY <1>1, <1>2, <1>3 DEF Local, ShapeOf, RunState
<1>5. GateHeld(r)'
  BY <1>1, <1>2, <1>3 DEF Local, GateHeld, RunState, ArmedLabels
<1>6. Held(r)' \subseteq Held(r)
  BY <1>1, <1>2, <1>3 DEF Held, RunState
<1>7. \A t \in Trees : Out(t) => Out(t)'
  BY <1>3 DEF Out, Gone, Staged
<1>8. Owned(r)'
  BY <1>1, <1>2, <1>3, <1>6, <1>7 DEF Local, Owned, RunState
<1>9. Recovered(r)'
  BY <1>1, <1>2, <1>3 DEF Local, GateHeld, Recovered, RunState, Gone
<1>10. Judged(r)' /\ Drained(r)'
  BY <1>1, <1>2, <1>3, <1>6 DEF Local, GateHeld, Judged, Drained, RunState, Held, Homes,
      Gone, ArmedLabels
<1>11. Concluded(r)'
  BY <1>1, <1>2, <1>3 DEF RunState, Concluded
<1>12. Grants(r)' \subseteq Grants(r)
  BY <1>1, <1>2, <1>3 DEF Grants, GrantLabels, ArmedLabels, RunState
<1> QED BY <1>4, <1>5, <1>6, <1>8, <1>9, <1>10, <1>11, <1>12 DEF Local, Keeps

LEMMA VerifyEndLocal ==
    ASSUME TypeOK, NEW r \in Runs, Local(r), VerifyEnd(r)
    PROVE  Keeps(r)
<1> USE DEF Verifying, Staging, Draining, Finishing, Before
<1>1. run \in [Runs -> RunState] /\ run[r] \in RunState
  BY DEF TypeOK
<1>2. run'[r] = [run[r] EXCEPT !.pc = "stage"]
  BY <1>1, Actor, ActorAt DEF VerifyEnd, Goto
<1>3. run[r].pc = "verify" /\ UNCHANGED loc
  BY DEF VerifyEnd, Goto, At, fsVars
<1>4. ShapeOf(r)'
  BY <1>1, <1>2, <1>3 DEF Local, ShapeOf, RunState
<1>5. GateHeld(r)'
  BY <1>1, <1>2, <1>3 DEF Local, GateHeld, RunState, ArmedLabels
<1>6. Held(r)' \subseteq Held(r)
  BY <1>1, <1>2, <1>3 DEF Held, RunState
<1>7. \A t \in Trees : Out(t) => Out(t)'
  BY <1>3 DEF Out, Gone, Staged
<1>8. Owned(r)'
  BY <1>1, <1>2, <1>3, <1>6, <1>7 DEF Local, Owned, RunState
<1>9. Recovered(r)'
  BY <1>1, <1>2, <1>3 DEF Local, GateHeld, Recovered, RunState, Gone
<1>10. Judged(r)' /\ Drained(r)'
  BY <1>1, <1>2, <1>3, <1>6 DEF Local, GateHeld, Judged, Drained, RunState, Held, Homes,
      Gone, ArmedLabels
<1>11. Concluded(r)'
  BY <1>1, <1>2, <1>3 DEF RunState, Concluded
<1>12. Grants(r)' \subseteq Grants(r)
  BY <1>1, <1>2, <1>3 DEF Grants, GrantLabels, ArmedLabels, RunState
<1> QED BY <1>4, <1>5, <1>6, <1>8, <1>9, <1>10, <1>11, <1>12 DEF Local, Keeps

LEMMA ExpireLocal ==
    ASSUME TypeOK, NEW r \in Runs, Local(r), Expire(r)
    PROVE  Keeps(r)
<1> USE DEF Verifying, Staging, Draining, Finishing, Before
<1>1. run \in [Runs -> RunState] /\ run[r] \in RunState
  BY DEF TypeOK
<1>2. run'[r] = [run[r] EXCEPT !.late = TRUE]
  BY <1>1, Actor, ActorAt DEF Expire, Goto
<1>3. run[r].pc \in {"stage", "command"} /\ UNCHANGED loc
  BY DEF Expire, Goto, At, fsVars
<1>4. ShapeOf(r)'
  BY <1>1, <1>2, <1>3 DEF Local, ShapeOf, RunState
<1>5. GateHeld(r)'
  BY <1>1, <1>2, <1>3 DEF Local, GateHeld, RunState, ArmedLabels
<1>6. Held(r)' \subseteq Held(r)
  BY <1>1, <1>2, <1>3 DEF Held, RunState
<1>7. \A t \in Trees : Out(t) => Out(t)'
  BY <1>3 DEF Out, Gone, Staged
<1>8. Owned(r)'
  BY <1>1, <1>2, <1>3, <1>6, <1>7 DEF Local, Owned, RunState
<1>9. Recovered(r)'
  BY <1>1, <1>2, <1>3 DEF Local, GateHeld, Recovered, RunState, Gone
<1>10. Judged(r)' /\ Drained(r)'
  BY <1>1, <1>2, <1>3, <1>6 DEF Local, GateHeld, Judged, Drained, RunState, Held, Homes,
      Gone, ArmedLabels
<1>11. Concluded(r)'
  BY <1>1, <1>2, <1>3 DEF RunState, Concluded
<1>12. Grants(r)' \subseteq Grants(r)
  BY <1>1, <1>2, <1>3 DEF Grants, GrantLabels, ArmedLabels, RunState
<1> QED BY <1>4, <1>5, <1>6, <1>8, <1>9, <1>10, <1>11, <1>12 DEF Local, Keeps

LEMMA StageEndLocal ==
    ASSUME TypeOK, NEW r \in Runs, Local(r), StageEnd(r)
    PROVE  Keeps(r)
<1> USE DEF Verifying, Staging, Draining, Finishing, Before
<1>1. run \in [Runs -> RunState] /\ run[r] \in RunState
  BY DEF TypeOK
<1>2. run'[r] = [run[r] EXCEPT !.pc = "drain", !.left = run[r].staged]
  BY <1>1, Actor, ActorAt DEF StageEnd, Goto
<1>3. run[r].pc = "stage" /\ (run[r].todo = {} \/ run[r].late) /\ UNCHANGED loc
  BY DEF StageEnd, Goto, At, fsVars
<1>4. ShapeOf(r)'
  BY <1>1, <1>2, <1>3 DEF Local, ShapeOf, RunState
<1>5. GateHeld(r)'
  BY <1>1, <1>2, <1>3 DEF Local, GateHeld, RunState, ArmedLabels
<1>6. Held(r)' \subseteq Held(r)
  BY <1>1, <1>2, <1>3 DEF Held, RunState
<1>7. \A t \in Trees : Out(t) => Out(t)'
  BY <1>3 DEF Out, Gone, Staged
<1>8. Owned(r)'
  BY <1>1, <1>2, <1>3, <1>6, <1>7 DEF Local, Owned, RunState
<1>9. Recovered(r)'
  BY <1>1, <1>2, <1>3 DEF Local, GateHeld, Recovered, RunState, Gone
<1>10. Judged(r)' /\ Drained(r)'
  BY <1>1, <1>2, <1>3, <1>6 DEF Local, GateHeld, Judged, Drained, RunState, Held, Homes,
      Gone, ArmedLabels
<1>11. Concluded(r)'
  BY <1>1, <1>2, <1>3 DEF RunState, Concluded
<1>12. Grants(r)' \subseteq Grants(r)
  BY <1>1, <1>2, <1>3 DEF Grants, GrantLabels, ArmedLabels, RunState
<1> QED BY <1>4, <1>5, <1>6, <1>8, <1>9, <1>10, <1>11, <1>12 DEF Local, Keeps

LEMMA DrainEndLocal ==
    ASSUME TypeOK, NEW r \in Runs, Local(r), DrainEnd(r)
    PROVE  Keeps(r)
<1> USE DEF Verifying, Staging, Draining, Finishing, Before
<1>1. run \in [Runs -> RunState] /\ run[r] \in RunState
  BY DEF TypeOK
<1>2. run'[r] = [run[r] EXCEPT
           !.pc = IF run[r].bad THEN "command" ELSE "drainTruncate",
           !.errs = @ \/ run[r].bad,
           !.bad = FALSE]
  BY <1>1, Actor, ActorAt DEF DrainEnd, Goto
<1>3. run[r].pc = "drain" /\ run[r].left = {} /\ UNCHANGED loc
  BY DEF DrainEnd, Goto, At, fsVars
<1>4. ShapeOf(r)'
  BY <1>1, <1>2, <1>3 DEF Local, ShapeOf, RunState
<1>5. GateHeld(r)'
  BY <1>1, <1>2, <1>3 DEF Local, GateHeld, RunState, ArmedLabels
<1>6. Held(r)' \subseteq Held(r)
  BY <1>1, <1>2, <1>3 DEF Held, RunState
<1>7. \A t \in Trees : Out(t) => Out(t)'
  BY <1>3 DEF Out, Gone, Staged
<1>8. Owned(r)'
  BY <1>1, <1>2, <1>3, <1>6, <1>7 DEF Local, Owned, RunState
<1>9. Recovered(r)'
  BY <1>1, <1>2, <1>3 DEF Local, GateHeld, Recovered, RunState, Gone
<1>10. Judged(r)' /\ Drained(r)'
  BY <1>1, <1>2, <1>3, <1>6 DEF Local, GateHeld, Judged, Drained, RunState, Held, Homes,
      Gone, ArmedLabels
<1>11. Concluded(r)'
  BY <1>1, <1>2, <1>3 DEF RunState, Concluded
<1>12. Grants(r)' \subseteq Grants(r)
  BY <1>1, <1>2, <1>3 DEF Grants, GrantLabels, ArmedLabels, RunState
<1> QED BY <1>4, <1>5, <1>6, <1>8, <1>9, <1>10, <1>11, <1>12 DEF Local, Keeps

LEMMA DrainTruncateLocal ==
    ASSUME TypeOK, NEW r \in Runs, Local(r), DrainTruncate(r)
    PROVE  Keeps(r)
<1> USE DEF Verifying, Staging, Draining, Finishing, Before
<1>1. run \in [Runs -> RunState] /\ run[r] \in RunState
  BY DEF TypeOK
<1>2. run'[r] = [run[r] EXCEPT !.pc = "command"]
  BY <1>1, Actor, ActorAt DEF DrainTruncate, Truncate, Goto
<1>3. run[r].pc = "drainTruncate" /\ UNCHANGED loc
  BY DEF DrainTruncate, Truncate, Goto, At, fsVars
<1>4. ShapeOf(r)'
  BY <1>1, <1>2, <1>3 DEF Local, ShapeOf, RunState
<1>5. GateHeld(r)'
  BY <1>1, <1>2, <1>3 DEF Local, GateHeld, RunState, ArmedLabels
<1>6. Held(r)' \subseteq Held(r)
  BY <1>1, <1>2, <1>3 DEF Held, RunState
<1>7. \A t \in Trees : Out(t) => Out(t)'
  BY <1>3 DEF Out, Gone, Staged
<1>8. Owned(r)'
  BY <1>1, <1>2, <1>3, <1>6, <1>7 DEF Local, Owned, RunState
<1>9. Recovered(r)'
  BY <1>1, <1>2, <1>3 DEF Local, GateHeld, Recovered, RunState, Gone
<1>10. Judged(r)' /\ Drained(r)'
  BY <1>1, <1>2, <1>3, <1>6 DEF Local, GateHeld, Judged, Drained, RunState, Held, Homes,
      Gone, ArmedLabels
<1>11. Concluded(r)'
  BY <1>1, <1>2, <1>3 DEF RunState, Concluded
<1>12. Grants(r)' \subseteq Grants(r)
  BY <1>1, <1>2, <1>3 DEF Grants, GrantLabels, ArmedLabels, RunState
<1> QED BY <1>4, <1>5, <1>6, <1>8, <1>9, <1>10, <1>11, <1>12 DEF Local, Keeps

LEMMA CommandsEndLocal ==
    ASSUME TypeOK, NEW r \in Runs, Local(r), CommandsEnd(r)
    PROVE  Keeps(r)
<1> USE DEF Verifying, Staging, Draining, Finishing, Before
<1>1. run \in [Runs -> RunState] /\ run[r] \in RunState
  BY DEF TypeOK
<1>2. run'[r] = [run[r] EXCEPT !.pc = "report"]
  BY <1>1, Actor, ActorAt DEF CommandsEnd, Goto
<1>3. run[r].pc = "command" /\ UNCHANGED loc
  BY DEF CommandsEnd, Goto, At, fsVars
<1>4. ShapeOf(r)'
  BY <1>1, <1>2, <1>3 DEF Local, ShapeOf, RunState
<1>5. GateHeld(r)'
  BY <1>1, <1>2, <1>3 DEF Local, GateHeld, RunState, ArmedLabels
<1>6. Held(r)' \subseteq Held(r)
  BY <1>1, <1>2, <1>3 DEF Held, RunState
<1>7. \A t \in Trees : Out(t) => Out(t)'
  BY <1>3 DEF Out, Gone, Staged
<1>8. Owned(r)'
  BY <1>1, <1>2, <1>3, <1>6, <1>7 DEF Local, Owned, RunState
<1>9. Recovered(r)'
  BY <1>1, <1>2, <1>3 DEF Local, GateHeld, Recovered, RunState, Gone
<1>10. Judged(r)' /\ Drained(r)'
  BY <1>1, <1>2, <1>3, <1>6 DEF Local, GateHeld, Judged, Drained, RunState, Held, Homes,
      Gone, ArmedLabels
<1>11. Concluded(r)'
  BY <1>1, <1>2, <1>3 DEF RunState, Concluded
<1>12. Grants(r)' \subseteq Grants(r)
  BY <1>1, <1>2, <1>3 DEF Grants, GrantLabels, ArmedLabels, RunState
<1> QED BY <1>4, <1>5, <1>6, <1>8, <1>9, <1>10, <1>11, <1>12 DEF Local, Keeps

LEMMA ReportLocal ==
    ASSUME TypeOK, NEW r \in Runs, Local(r), Report(r)
    PROVE  Keeps(r)
<1> USE DEF Verifying, Staging, Draining, Finishing, Before
<1>1. run \in [Runs -> RunState] /\ run[r] \in RunState
  BY DEF TypeOK
<1>2. run'[r] = [run[r] EXCEPT !.pc = "done", !.code = ExitCode(r)]
  BY <1>1, Actor, ActorAt DEF Report, Goto
<1>3. run[r].pc = "report" /\ UNCHANGED loc
  BY DEF Report, Goto, At, fsVars
<1>4. ExitCode(r) = ExitNothing => run[r].sel = {}
  BY CodesDiffer DEF ExitCode
<1>5. ExitCode(r) = ExitSuccess /\ run[r].gate = "armed" => ~run[r].errs
  BY CodesDiffer DEF ExitCode, Armed
<1>6. run[r].sel = {} => run[r].staged = {}
  BY DEF Local, Judged, Held
<1>7. run[r].gate = "armed" /\ ~run[r].errs =>
        /\ \A t \in run[r].staged \cup run[r].seen : Gone(t)
        /\ run[r].late \/ run[r].sel = Homes(run[r].staged)
  BY <1>3 DEF Local, Judged, Recovered, Drained
<1>8. \A t : Gone(t) => Gone(t)'
  BY <1>3 DEF Gone
<1>9. ShapeOf(r)'
  BY <1>1, <1>2, <1>3 DEF Local, ShapeOf, RunState
<1>10. GateHeld(r)'
  BY <1>1, <1>2, <1>3 DEF Local, GateHeld, RunState, ArmedLabels
<1>11. Held(r)' \subseteq Held(r)
  BY <1>1, <1>2, <1>3 DEF Held, RunState
<1>12. \A t \in Trees : Out(t) => Out(t)'
  BY <1>3 DEF Out, Gone, Staged
<1>13. Owned(r)'
  BY <1>1, <1>2, <1>3, <1>11, <1>12 DEF Local, Owned, RunState
<1>14. Recovered(r)'
  BY <1>1, <1>2, <1>3 DEF Local, GateHeld, Recovered, RunState, Gone
<1>15. Judged(r)' /\ Drained(r)'
  BY <1>1, <1>2, <1>3, <1>11 DEF Local, GateHeld, Judged, Drained, RunState, Held, Homes,
      Gone, ArmedLabels
<1>16. Concluded(r)'
  BY <1>1, <1>2, <1>3, <1>4, <1>5, <1>6, <1>7, <1>8 DEF RunState, Concluded, Homes
<1>17. Grants(r)' \subseteq Grants(r)
  BY <1>1, <1>2, <1>3 DEF Grants, GrantLabels, ArmedLabels, RunState
<1> QED BY <1>9, <1>10, <1>11, <1>13, <1>14, <1>15, <1>16, <1>17 DEF Local, Keeps

LEMMA RunCommandLocal ==
    ASSUME TypeOK, NEW r \in Runs, Local(r), RunCommand(r)
    PROVE  Keeps(r)
<1> USE DEF Verifying, Staging, Draining, Finishing, Before
<1>1. run \in [Runs -> RunState] /\ run[r] \in RunState
  BY DEF TypeOK
<1>2. PICK failed \in BOOLEAN :
          Become(r, [run[r] EXCEPT !.cmds = @ - 1, !.errs = @ \/ failed])
  BY DEF RunCommand, MayFail
<1>3. run'[r] = [run[r] EXCEPT !.cmds = @ - 1, !.errs = @ \/ failed]
  BY <1>1, <1>2, Actor, ActorAt DEF RunCommand, Goto
<1>4. run[r].pc = "command" /\ UNCHANGED loc
  BY <1>1, <1>2 DEF RunCommand, Goto, At, fsVars
<1>5. ShapeOf(r)'
  BY <1>1, <1>3, <1>4 DEF Local, ShapeOf, RunState
<1>6. GateHeld(r)'
  BY <1>1, <1>3, <1>4 DEF Local, GateHeld, RunState, ArmedLabels
<1>7. Held(r)' \subseteq Held(r)
  BY <1>1, <1>3, <1>4 DEF Held, RunState
<1>8. \A t \in Trees : Out(t) => Out(t)'
  BY <1>4 DEF Out, Gone, Staged
<1>9. Owned(r)'
  BY <1>1, <1>3, <1>4, <1>7, <1>8 DEF Local, Owned, RunState
<1>10. Recovered(r)'
  BY <1>1, <1>3, <1>4 DEF Local, GateHeld, Recovered, RunState, Gone
<1>11. Judged(r)' /\ Drained(r)'
  BY <1>1, <1>3, <1>4, <1>7 DEF Local, GateHeld, Judged, Drained, RunState, Held, Homes,
      Gone, ArmedLabels
<1>12. Concluded(r)'
  BY <1>1, <1>3, <1>4 DEF RunState, Concluded
<1>13. Grants(r)' \subseteq Grants(r)
  BY <1>1, <1>3, <1>4 DEF Grants, GrantLabels, ArmedLabels, RunState
<1> QED BY <1>5, <1>6, <1>7, <1>9, <1>10, <1>11, <1>12, <1>13 DEF Local, Keeps

LEMMA StageFailLocal ==
    ASSUME TypeOK, NEW r \in Runs, Local(r), StageFail(r)
    PROVE  Keeps(r)
<1> USE DEF Verifying, Staging, Draining, Finishing, Before
<1>1. run \in [Runs -> RunState] /\ run[r] \in RunState
  BY DEF TypeOK
<1>2. PICK p \in run[r].todo : Become(r, [run[r] EXCEPT !.todo = @ \ {p}, !.errs = TRUE])
  BY DEF StageFail
<1>3. run'[r] = [run[r] EXCEPT !.todo = @ \ {p}, !.errs = TRUE]
  BY <1>1, <1>2, Actor, ActorAt DEF StageFail, Goto
<1>4. run[r].pc = "stage" /\ UNCHANGED loc
  BY <1>1, <1>2 DEF StageFail, Goto, At, fsVars
<1>5. ShapeOf(r)'
  BY <1>1, <1>3, <1>4 DEF Local, ShapeOf, RunState
<1>6. GateHeld(r)'
  BY <1>1, <1>3, <1>4 DEF Local, GateHeld, RunState, ArmedLabels
<1>7. Held(r)' \subseteq Held(r)
  BY <1>1, <1>3, <1>4 DEF Held, RunState
<1>8. \A t \in Trees : Out(t) => Out(t)'
  BY <1>4 DEF Out, Gone, Staged
<1>9. Owned(r)'
  BY <1>1, <1>3, <1>4, <1>7, <1>8 DEF Local, Owned, RunState
<1>10. Recovered(r)'
  BY <1>1, <1>3, <1>4 DEF Local, GateHeld, Recovered, RunState, Gone
<1>11. Judged(r)' /\ Drained(r)'
  BY <1>1, <1>3, <1>4, <1>7 DEF Local, GateHeld, Judged, Drained, RunState, Held, Homes,
      Gone, ArmedLabels
<1>12. Concluded(r)'
  BY <1>1, <1>3, <1>4 DEF RunState, Concluded
<1>13. Grants(r)' \subseteq Grants(r)
  BY <1>1, <1>3, <1>4 DEF Grants, GrantLabels, ArmedLabels, RunState
<1> QED BY <1>5, <1>6, <1>7, <1>9, <1>10, <1>11, <1>12, <1>13 DEF Local, Keeps

LEMMA AppendNewlineLocal ==
    ASSUME TypeOK, NEW r \in Runs, Local(r), AppendNewline(r)
    PROVE  Keeps(r)
<1> USE DEF Verifying, Staging, Draining, Finishing, Before
<1>1. run \in [Runs -> RunState] /\ run[r] \in RunState
  BY DEF TypeOK
<1>2. run'[r] = [run[r] EXCEPT !.pc = "stage", !.staged = @ \cup {run[r].cur}, !.cur = NoEntry]
  BY <1>1, Actor, ActorAt DEF AppendNewline, PushStaged
<1>3. run[r].pc = "newline" /\ UNCHANGED loc
  BY DEF AppendNewline, PushStaged, At, fsVars
<1>4. ShapeOf(r)'
  BY <1>1, <1>2, <1>3 DEF Local, ShapeOf, RunState
<1>5. GateHeld(r)'
  BY <1>1, <1>2, <1>3 DEF Local, GateHeld, RunState, ArmedLabels
<1>6. Held(r)' \subseteq Held(r)
  BY <1>1, <1>2, <1>3 DEF Held, RunState
<1>7. \A t \in Trees : Out(t) => Out(t)'
  BY <1>3 DEF Out, Gone, Staged
<1>8. Owned(r)'
  BY <1>1, <1>2, <1>3, <1>6, <1>7 DEF Local, Owned, RunState
<1>9. Recovered(r)'
  BY <1>1, <1>2, <1>3 DEF Local, GateHeld, Recovered, RunState, Gone
<1>10. Judged(r)' /\ Drained(r)'
  BY <1>1, <1>2, <1>3, <1>6 DEF Local, GateHeld, Judged, Drained, RunState, Held, Homes,
      Gone, ArmedLabels
<1>11. Concluded(r)'
  BY <1>1, <1>2, <1>3 DEF RunState, Concluded
<1>12. Grants(r)' \subseteq Grants(r)
  BY <1>1, <1>2, <1>3 DEF Grants, GrantLabels, ArmedLabels, RunState
<1> QED BY <1>4, <1>5, <1>6, <1>8, <1>9, <1>10, <1>11, <1>12 DEF Local, Keeps

LEMMA RemoveSomeLocal ==
    ASSUME TypeOK, NEW r \in Runs, Local(r), RemoveSome(r)
    PROVE  Keeps(r)
<1> USE DEF Verifying, Staging, Draining, Finishing, Before
<1>1. run \in [Runs -> RunState] /\ run[r] \in RunState
  BY DEF TypeOK
<1>2. run'[r] = run[r]
  BY <1>1, Actor, ActorAt DEF RemoveSome, Goto, Removing
<1>3. run[r].pc \in {"recoverRemove", "drainRemove"} /\ UNCHANGED loc
  BY DEF RemoveSome, Goto, Removing, At, fsVars
<1>4. ShapeOf(r)'
  BY <1>1, <1>2, <1>3 DEF Local, ShapeOf, RunState
<1>5. GateHeld(r)'
  BY <1>1, <1>2, <1>3 DEF Local, GateHeld, RunState, ArmedLabels
<1>6. Held(r)' \subseteq Held(r)
  BY <1>1, <1>2, <1>3 DEF Held, RunState
<1>7. \A t \in Trees : Out(t) => Out(t)'
  BY <1>3 DEF Out, Gone, Staged
<1>8. Owned(r)'
  BY <1>1, <1>2, <1>3, <1>6, <1>7 DEF Local, Owned, RunState
<1>9. Recovered(r)'
  BY <1>1, <1>2, <1>3 DEF Local, GateHeld, Recovered, RunState, Gone
<1>10. Judged(r)' /\ Drained(r)'
  BY <1>1, <1>2, <1>3, <1>6 DEF Local, GateHeld, Judged, Drained, RunState, Held, Homes,
      Gone, ArmedLabels
<1>11. Concluded(r)'
  BY <1>1, <1>2, <1>3 DEF RunState, Concluded
<1>12. Grants(r)' \subseteq Grants(r)
  BY <1>1, <1>2, <1>3 DEF Grants, GrantLabels, ArmedLabels, RunState
<1> QED BY <1>4, <1>5, <1>6, <1>8, <1>9, <1>10, <1>11, <1>12 DEF Local, Keeps

LEMMA AppendRecordLocal ==
    ASSUME TypeOK, NEW r \in Runs, Local(r), AppendRecord(r)
    PROVE  Keeps(r)
<1> USE DEF Verifying, Staging, Draining, Finishing, Before
<1>1. run \in [Runs -> RunState] /\ run[r] \in RunState
  BY DEF TypeOK
<1>2. \/ run'[r] = [run[r] EXCEPT !.pc = "newline"]
      \/ run'[r] = [run[r] EXCEPT !.pc = "stage", !.staged = @ \cup {run[r].cur}, !.cur = NoEntry]
  BY <1>1, Actor, ActorAt DEF AppendRecord, Goto, PushStaged, Local, ShapeOf
<1>3. run[r].pc = "append" /\ run[r].cur \in Trees /\ UNCHANGED loc
  BY <1>1 DEF AppendRecord, Goto, PushStaged, Local, ShapeOf, At, fsVars
<1>4. /\ run[r].staged \subseteq Trees /\ run[r].seen \subseteq Trees
      /\ run'[r].gate = run[r].gate /\ run'[r].sel = run[r].sel
      /\ run'[r].todo = run[r].todo /\ run'[r].must = run[r].must
      /\ run'[r].seen = run[r].seen /\ run'[r].found = run[r].found
      /\ run'[r].roots = run[r].roots
      /\ run'[r].left = run[r].left /\ run'[r].bad = run[r].bad
      /\ run'[r].errs = run[r].errs /\ run'[r].late = run[r].late
      /\ run'[r].code = run[r].code
      /\ \/ run'[r].pc = "newline" /\ run'[r].cur = run[r].cur /\ run'[r].staged = run[r].staged
         \/ run'[r].pc = "stage" /\ run'[r].staged = run[r].staged \cup {run[r].cur}
  BY ZenonT(40), <1>1, <1>2, <1>3 DEF RunState
<1>5. \A x \in Trees : (Out(x) => Out(x)') /\ (Gone(x) => Gone(x)')
  BY <1>4, <1>3 DEF Out, Gone, Staged
<1>6. ShapeOf(r)'
  BY <1>4, <1>3, <1>1 DEF Local, ShapeOf
<1>7. GateHeld(r)'
  BY <1>4, <1>3 DEF Local, GateHeld, ArmedLabels
<1>8. Held(r)' = Held(r)
  BY <1>4, <1>3 DEF Held
<1>9. Owned(r)'
  BY <1>4, <1>3, <1>8, <1>5 DEF Local, Owned
<1>10. Recovered(r)'
  BY <1>4, <1>3, <1>5 DEF Local, GateHeld, Recovered
<1>11. Judged(r)'
  BY <1>4, <1>3, <1>8 DEF Local, GateHeld, Judged, Homes, Held, ArmedLabels
<1>12. Drained(r)'
  BY <1>4, <1>3, <1>5 DEF Local, GateHeld, Drained
<1>13. Concluded(r)'
  BY <1>4, <1>3, <1>5 DEF Local, Concluded
<1>14. Grants(r)' \subseteq Grants(r)
  BY <1>4, <1>3 DEF Grants, GrantLabels, ArmedLabels
<1> QED BY <1>6, <1>7, <1>8, <1>9, <1>10, <1>11, <1>12, <1>13, <1>14 DEF Local, Keeps

LEMMA RecoverEntryLocal ==
    ASSUME TypeOK, NEW r \in Runs, Local(r), RecoverEntry(r)
    PROVE  Keeps(r)
<1> USE DEF Verifying, Staging, Draining, Finishing, Before
<1>1. run \in [Runs -> RunState] /\ run[r] \in RunState
  BY DEF TypeOK
<1>2. PICK e \in run[r].must \cup (QuarantineEntries \ run[r].seen) :
        LET s == [run[r] EXCEPT !.must = @ \ {e}, !.seen = @ \cup ({e} \cap Trees),
                                !.found = TRUE] IN
        IF Present(e) THEN BeginRemove(r, s, e, "recoverRemove") ELSE Become(r, s)
  BY DEF RecoverEntry
<1>3. e \in Entry
  BY <1>1 DEF RunState, QuarantineEntries, Entry
<1>4. \A t \in Trees : t = e => Out(t) /\ (~Present(e) => Gone(t))
  <2> SUFFICES ASSUME e \in Trees PROVE Out(e) /\ (~Present(e) => Gone(e))
    OBVIOUS
  <2>1. e \in run[r].must => Out(e)
    BY DEF Local, Owned
  <2>2. Present(e) <=> Staged(e)
    BY ConstantsOK DEF Present, QuarantineEntries
  <2>3. Out(e)
    BY <2>1, <2>2, <1>2 DEF Present, Out
  <2> QED BY <2>2, <2>3 DEF Out
<1>5. \/ /\ ~Present(e)
         /\ run'[r] = [run[r] EXCEPT !.must = @ \ {e}, !.seen = @ \cup ({e} \cap Trees),
                                     !.found = TRUE]
      \/ Present(e) /\ \E b \in BOOLEAN : run'[r] =
           [run[r] EXCEPT !.must = @ \ {e}, !.seen = @ \cup ({e} \cap Trees), !.found = TRUE,
                          !.pc = "recoverRemove", !.cur = e, !.raced = b]
  BY <1>1, <1>2, <1>3, Actor, ActorAt DEF RecoverEntry, BeginRemove
<1>6. run[r].pc = "recover" /\ e \in Entry /\ UNCHANGED loc
  BY <1>1, <1>2, <1>3 DEF RecoverEntry, BeginRemove, At, fsVars
<1>7. /\ run[r].staged \subseteq Trees /\ run[r].seen \subseteq Trees
      /\ run'[r].gate = run[r].gate /\ run'[r].sel = run[r].sel
      /\ run'[r].todo = run[r].todo /\ run'[r].must = run[r].must \ {e}
      /\ run'[r].roots = run[r].roots /\ run'[r].staged = run[r].staged
      /\ run'[r].left = run[r].left /\ run'[r].bad = run[r].bad
      /\ run'[r].errs = run[r].errs /\ run'[r].late = run[r].late
      /\ run'[r].code = run[r].code
      /\ run'[r].seen = run[r].seen \cup ({e} \cap Trees)
      /\ \/ run'[r].pc = "recover" /\ ~Present(e)
         \/ run'[r].pc = "recoverRemove" /\ run'[r].cur = e
  <2>1. CASE /\ ~Present(e)
             /\ run'[r] = [run[r] EXCEPT !.must = @ \ {e}, !.seen = @ \cup ({e} \cap Trees),
                                         !.found = TRUE]
    BY <1>1, <1>6, <2>1 DEF RunState
  <2>2. ASSUME NEW b \in BOOLEAN, Present(e),
               run'[r] = [run[r] EXCEPT !.must = @ \ {e}, !.seen = @ \cup ({e} \cap Trees),
                                        !.found = TRUE, !.pc = "recoverRemove",
                                        !.cur = e, !.raced = b]
        PROVE  <1>7!:
    BY <1>1, <1>6, <2>2 DEF RunState
  <2> QED BY <1>5, <2>1, <2>2
<1>8. \A x \in Trees : (Out(x) => Out(x)') /\ (Gone(x) => Gone(x)')
  BY <1>7, <1>6, <1>4 DEF Out, Gone, Staged
<1>9. ShapeOf(r)'
  BY <1>7, <1>6, <1>4, <1>1 DEF Local, ShapeOf
<1>10. GateHeld(r)'
  BY <1>7, <1>6, <1>4 DEF Local, GateHeld, ArmedLabels
<1>11. Held(r)' \subseteq Held(r)
  BY <1>7, <1>6, <1>4 DEF Held
<1>12. Owned(r)'
  BY <1>7, <1>6, <1>4, <1>11, <1>8 DEF Local, Owned
<1>13. Recovered(r)'
  BY <1>7, <1>6, <1>4, <1>8 DEF Local, GateHeld, Recovered
<1>14. Judged(r)'
  BY <1>7, <1>6, <1>4, <1>11 DEF Local, GateHeld, Judged, Homes, Held, ArmedLabels
<1>15. Drained(r)'
  BY <1>7, <1>6, <1>4, <1>8 DEF Local, GateHeld, Drained
<1>16. Concluded(r)'
  BY <1>7, <1>6, <1>4, <1>8 DEF Local, Concluded
<1>17. Grants(r)' \subseteq Grants(r)
  BY <1>7, <1>6, <1>4 DEF Grants, GrantLabels, ArmedLabels
<1> QED BY <1>9, <1>10, <1>11, <1>12, <1>13, <1>14, <1>15, <1>16, <1>17 DEF Local, Keeps

LEMMA DrainEntryLocal ==
    ASSUME TypeOK, NEW r \in Runs, Local(r), DrainEntry(r)
    PROVE  Keeps(r)
<1> USE DEF Verifying, Staging, Draining, Finishing, Before
<1>1. run \in [Runs -> RunState] /\ run[r] \in RunState
  BY DEF TypeOK
<1>2. PICK t \in run[r].left :
        LET s == [run[r] EXCEPT !.left = @ \ {t}] IN
        IF Present(t) THEN BeginRemove(r, s, t, "drainRemove") ELSE Become(r, s)
  BY DEF DrainEntry
<1>3. t \in Trees /\ t \in run[r].staged /\ Out(t) /\ (~Present(t) => Gone(t))
  <2>1. t \in Trees
    BY <1>1 DEF RunState
  <2>2. t \in run[r].staged
    BY DEF DrainEntry, At, Local, Drained
  <2>3. Out(t)
    BY <2>1, <2>2 DEF Local, Owned, Held
  <2>4. Present(t) <=> Staged(t)
    BY <2>1, ConstantsOK DEF Present, QuarantineEntries
  <2> QED BY <2>1, <2>2, <2>3, <2>4 DEF Out
<1>4. \/ run'[r] = [run[r] EXCEPT !.left = @ \ {t}] /\ ~Present(t)
      \/ Present(t) /\ \E b \in BOOLEAN : run'[r] =
           [run[r] EXCEPT !.left = @ \ {t}, !.pc = "drainRemove", !.cur = t, !.raced = b]
  BY <1>1, <1>2, Actor, ActorAt DEF DrainEntry, BeginRemove
<1>5. run[r].pc = "drain" /\ UNCHANGED loc
  BY <1>1, <1>2 DEF DrainEntry, BeginRemove, At, fsVars
<1>6. /\ run[r].staged \subseteq Trees /\ run[r].seen \subseteq Trees
      /\ run'[r].gate = run[r].gate /\ run'[r].sel = run[r].sel
      /\ run'[r].todo = run[r].todo /\ run'[r].must = run[r].must
      /\ run'[r].seen = run[r].seen /\ run'[r].found = run[r].found
      /\ run'[r].roots = run[r].roots
      /\ run'[r].staged = run[r].staged /\ run'[r].bad = run[r].bad
      /\ run'[r].errs = run[r].errs /\ run'[r].late = run[r].late
      /\ run'[r].code = run[r].code
      /\ run'[r].left = run[r].left \ {t}
      /\ \/ run'[r].pc = "drain" /\ ~Present(t)
         \/ run'[r].pc = "drainRemove" /\ run'[r].cur = t
  BY ZenonT(40), <1>1, <1>4, <1>5 DEF RunState
<1>7. \A x \in Trees : (Out(x) => Out(x)') /\ (Gone(x) => Gone(x)')
  BY <1>6, <1>5, <1>3 DEF Out, Gone, Staged
<1>8. ShapeOf(r)'
  BY <1>6, <1>5, <1>3, <1>1 DEF Local, ShapeOf
<1>9. GateHeld(r)'
  BY <1>6, <1>5, <1>3 DEF Local, GateHeld, ArmedLabels
<1>10. Held(r)' \subseteq Held(r)
  BY <1>6, <1>5, <1>3 DEF Held
<1>11. Owned(r)'
  BY <1>6, <1>5, <1>3, <1>10, <1>7 DEF Local, Owned
<1>12. Recovered(r)'
  BY <1>6, <1>5, <1>3, <1>7 DEF Local, GateHeld, Recovered
<1>13. Judged(r)'
  BY <1>6, <1>5, <1>3, <1>10 DEF Local, GateHeld, Judged, Homes, Held, ArmedLabels
<1>14. Drained(r)'
  BY <1>6, <1>5, <1>3, <1>7 DEF Local, GateHeld, Drained
<1>15. Concluded(r)'
  BY <1>6, <1>5, <1>3, <1>7 DEF Local, Concluded
<1>16. Grants(r)' \subseteq Grants(r)
  BY <1>6, <1>5, <1>3 DEF Grants, GrantLabels, ArmedLabels
<1> QED BY <1>8, <1>9, <1>10, <1>11, <1>12, <1>13, <1>14, <1>15, <1>16 DEF Local, Keeps

LEMMA RemoveAllLocal ==
    ASSUME TypeOK, NEW r \in Runs, Local(r), RemoveAll(r)
    PROVE  Keeps(r)
<1> USE DEF Verifying, Staging, Draining, Finishing, Before
<1>1. run \in [Runs -> RunState] /\ run[r] \in RunState
  BY DEF TypeOK
<1>2. PICK failed \in BOOLEAN : EndRemove(r, failed)
  <2>1. {FALSE, run[r].raced} \subseteq BOOLEAN
    BY <1>1 DEF RunState
  <2> QED BY <2>1 DEF RemoveAll
<1>3. run'[r] = [run[r] EXCEPT !.pc = Caller(@), !.cur = NoEntry, !.raced = FALSE, !.bad = @ \/ failed]
  BY <1>1, <1>2, Actor, ActorAt DEF RemoveAll, EndRemove, Removing
<1>4. /\ run[r].pc \in {"recoverRemove", "drainRemove"}
      /\ IF run[r].cur \in Trees THEN loc' = [loc EXCEPT ![run[r].cur] = "gone"]
                                  ELSE UNCHANGED loc
  BY <1>1, <1>2 DEF RemoveAll, EndRemove, Removing, At, fsVars
<1>5. /\ run[r].staged \subseteq Trees /\ run[r].seen \subseteq Trees
      /\ run'[r].gate = run[r].gate /\ run'[r].sel = run[r].sel
      /\ run'[r].todo = run[r].todo /\ run'[r].must = run[r].must
      /\ run'[r].seen = run[r].seen /\ run'[r].found = run[r].found
      /\ run'[r].roots = run[r].roots
      /\ run'[r].staged = run[r].staged /\ run'[r].left = run[r].left
      /\ run'[r].errs = run[r].errs /\ run'[r].late = run[r].late
      /\ run'[r].code = run[r].code
      /\ run'[r].pc = Caller(run[r].pc)
      /\ run'[r].cur = NoEntry
      /\ run'[r].bad = (run[r].bad \/ failed)
  BY <1>1, <1>3, <1>4 DEF RunState
<1>6. /\ \A t \in Trees : t = run[r].cur => Gone(t)'
      /\ \A t \in Trees : t # run[r].cur => loc'[t] = loc[t]
      /\ Caller("recoverRemove") = "recover" /\ Caller("drainRemove") = "drain"
  BY <1>4 DEF TypeOK, Gone, Caller
<1>7. \A x \in Trees : (Out(x) => Out(x)') /\ (Gone(x) => Gone(x)')
  BY <1>5, <1>4, <1>6 DEF Out, Gone, Staged
<1>8. ShapeOf(r)'
  BY <1>5, <1>4, <1>6, <1>1 DEF Local, ShapeOf
<1>9. GateHeld(r)'
  BY <1>5, <1>4, <1>6 DEF Local, GateHeld, ArmedLabels
<1>10. Held(r)' \subseteq Held(r)
  BY <1>5, <1>4, <1>6 DEF Held
<1>11. Owned(r)'
  BY <1>5, <1>4, <1>6, <1>10, <1>7 DEF Local, Owned
<1>12. Recovered(r)'
  BY <1>5, <1>4, <1>6, <1>7 DEF Local, GateHeld, Recovered
<1>13. Judged(r)'
  BY <1>5, <1>4, <1>6, <1>10 DEF Local, GateHeld, Judged, Homes, Held, ArmedLabels
<1>14. Drained(r)'
  BY <1>5, <1>4, <1>6, <1>7 DEF Local, GateHeld, Drained
<1>15. Concluded(r)'
  BY <1>5, <1>4, <1>6, <1>7 DEF Local, Concluded
<1>16. Grants(r)' \subseteq Grants(r)
  BY <1>5, <1>4, <1>6 DEF Grants, GrantLabels, ArmedLabels
<1> QED BY <1>8, <1>9, <1>10, <1>11, <1>12, <1>13, <1>14, <1>15, <1>16 DEF Local, Keeps

LEMMA RemoveBlockedLocal ==
    ASSUME TypeOK, NEW r \in Runs, Local(r), RemoveBlocked(r)
    PROVE  Keeps(r)
<1> USE DEF Verifying, Staging, Draining, Finishing, Before
<1>1. run \in [Runs -> RunState] /\ run[r] \in RunState
  BY DEF TypeOK
<1>2. run'[r] = [run[r] EXCEPT !.pc = Caller(@), !.cur = NoEntry, !.raced = FALSE, !.bad = @ \/ TRUE]
  BY <1>1, Actor, ActorAt DEF RemoveBlocked, EndRemove, Removing
<1>3. run[r].pc \in {"recoverRemove", "drainRemove"} /\ UNCHANGED loc
  BY <1>1 DEF RemoveBlocked, EndRemove, Removing, At, fsVars
<1>4. /\ run[r].staged \subseteq Trees /\ run[r].seen \subseteq Trees
      /\ run'[r].gate = run[r].gate /\ run'[r].sel = run[r].sel
      /\ run'[r].todo = run[r].todo /\ run'[r].must = run[r].must
      /\ run'[r].seen = run[r].seen /\ run'[r].found = run[r].found
      /\ run'[r].roots = run[r].roots
      /\ run'[r].staged = run[r].staged /\ run'[r].left = run[r].left
      /\ run'[r].errs = run[r].errs /\ run'[r].late = run[r].late
      /\ run'[r].code = run[r].code
      /\ run'[r].pc = Caller(run[r].pc)
      /\ run'[r].cur = NoEntry
      /\ run'[r].bad
  BY <1>1, <1>2, <1>3 DEF RunState
<1>5. Caller("recoverRemove") = "recover" /\ Caller("drainRemove") = "drain"
  BY DEF Caller
<1>6. \A x \in Trees : (Out(x) => Out(x)') /\ (Gone(x) => Gone(x)')
  BY <1>4, <1>3, <1>5 DEF Out, Gone, Staged
<1>7. ShapeOf(r)'
  BY <1>4, <1>3, <1>5, <1>1 DEF Local, ShapeOf
<1>8. GateHeld(r)'
  BY <1>4, <1>3, <1>5 DEF Local, GateHeld, ArmedLabels
<1>9. Held(r)' \subseteq Held(r)
  BY <1>4, <1>3, <1>5 DEF Held
<1>10. Owned(r)'
  BY <1>4, <1>3, <1>5, <1>9, <1>6 DEF Local, Owned
<1>11. Recovered(r)'
  BY <1>4, <1>3, <1>5, <1>6 DEF Local, GateHeld, Recovered
<1>12. Judged(r)'
  BY <1>4, <1>3, <1>5, <1>9 DEF Local, GateHeld, Judged, Homes, Held, ArmedLabels
<1>13. Drained(r)'
  BY <1>4, <1>3, <1>5, <1>6 DEF Local, GateHeld, Drained
<1>14. Concluded(r)'
  BY <1>4, <1>3, <1>5, <1>6 DEF Local, Concluded
<1>15. Grants(r)' \subseteq Grants(r)
  BY <1>4, <1>3, <1>5 DEF Grants, GrantLabels, ArmedLabels
<1> QED BY <1>7, <1>8, <1>9, <1>10, <1>11, <1>12, <1>13, <1>14, <1>15 DEF Local, Keeps

LEMMA StageRenameLocal ==
    ASSUME TypeOK, NEW r \in Runs, Local(r), StageRename(r)
    PROVE  Local(r)' /\ \E t \in Trees : ~Out(t) /\ Held(r)' \subseteq {t} \cup Held(r)
<1> USE DEF Verifying, Staging, Draining, Finishing, Before
<1>1. run \in [Runs -> RunState] /\ run[r] \in RunState
  BY DEF TypeOK
<1>2. PICK t \in Trees :
        /\ FirstPlace(Home[t], run[r].todo)
        /\ InRoot(t)
        /\ loc' = [loc EXCEPT ![t] = "quarantine"]
        /\ Become(r, [run[r] EXCEPT !.pc = "append", !.cur = t, !.todo = @ \ {Home[t]}])
  BY DEF StageRename
<1>3. run'[r] = [run[r] EXCEPT !.pc = "append", !.cur = t, !.todo = @ \ {Home[t]}]
  BY <1>1, <1>2, Actor, ActorAt DEF StageRename, InRoot, FirstPlace
<1>4. run[r].pc = "stage" /\ InRoot(t) /\ Home[t] \in run[r].todo /\ loc' = [loc EXCEPT ![t] = "quarantine"]
  BY <1>1, <1>2 DEF StageRename, InRoot, FirstPlace, At, fsVars
<1>5. /\ run[r].staged \subseteq Trees /\ run[r].seen \subseteq Trees
      /\ run'[r].gate = run[r].gate /\ run'[r].sel = run[r].sel
      /\ run'[r].must = run[r].must /\ run'[r].seen = run[r].seen
      /\ run'[r].found = run[r].found
      /\ run'[r].roots = run[r].roots /\ run'[r].staged = run[r].staged
      /\ run'[r].left = run[r].left /\ run'[r].bad = run[r].bad
      /\ run'[r].errs = run[r].errs /\ run'[r].late = run[r].late
      /\ run'[r].code = run[r].code
      /\ run'[r].pc = "append"
      /\ run'[r].cur = t
      /\ run'[r].todo = run[r].todo \ {Home[t]}
  BY <1>1, <1>3, <1>4 DEF RunState
<1>6. /\ Out(t)' /\ ~Gone(t) /\ ~Out(t)
      /\ \A u \in Trees : u # t => loc'[u] = loc[u]
  BY <1>4 DEF TypeOK, Gone, Out, Staged, InRoot
<1>7. \A x \in Trees : (Out(x) => Out(x)') /\ (Gone(x) => Gone(x)')
  BY <1>5, <1>4, <1>6 DEF Out, Gone, Staged
<1>8. ShapeOf(r)'
  BY <1>5, <1>4, <1>6, <1>1 DEF Local, ShapeOf
<1>9. GateHeld(r)'
  BY <1>5, <1>4, <1>6 DEF Local, GateHeld, ArmedLabels
<1>10. Held(r)' = {t} \cup Held(r)
  BY <1>5, <1>4, <1>6 DEF Held
<1>11. Owned(r)'
  BY <1>5, <1>4, <1>6, <1>10, <1>7 DEF Local, Owned
<1>12. Recovered(r)'
  BY <1>5, <1>4, <1>6, <1>7 DEF Local, GateHeld, Recovered
<1>13. Judged(r)'
  BY <1>5, <1>4, <1>6, <1>10 DEF Local, GateHeld, Judged, Homes, Held, ArmedLabels
<1>14. Drained(r)'
  BY <1>5, <1>4, <1>6, <1>7 DEF Local, GateHeld, Drained
<1>15. Concluded(r)'
  BY <1>5, <1>4, <1>6, <1>7 DEF Local, Concluded
<1>16. Grants(r)' \subseteq Grants(r)
  BY <1>5, <1>4, <1>6 DEF Grants, GrantLabels, ArmedLabels
<1> QED BY <1>8, <1>9, <1>10, <1>11, <1>12, <1>13, <1>14, <1>15, <1>16, <1>6 DEF Local, Keeps

LEMMA SelectLocal ==
    ASSUME TypeOK, NEW r \in Runs, Local(r), Select(r)
    PROVE  Local(r)' /\ Held(r)' \subseteq Held(r) /\ Grants(r)' \subseteq Selected(r)
<1> USE DEF Verifying, Staging, Draining, Finishing, Before
<1>1. run \in [Runs -> RunState] /\ run[r] \in RunState
  BY DEF TypeOK
<1>2. PICK walkError \in BOOLEAN :
        Become(r, [run[r] EXCEPT
              !.pc = IF r \in Sessions /\ Candidates(r) = {} THEN "done"
                     ELSE IF Armed(r) THEN "open" ELSE "report",
              !.code = IF r \in Sessions /\ Candidates(r) = {} THEN ExitNothing ELSE @,
              !.sel  = Selected(r),
              !.todo = IF Armed(r) THEN Selected(r) ELSE {},
              !.errs = walkError])
  BY DEF Select, MayFail
<1>3. run'[r] = [run[r] EXCEPT
              !.pc = IF r \in Sessions /\ Candidates(r) = {} THEN "done"
                     ELSE IF Armed(r) THEN "open" ELSE "report",
              !.code = IF r \in Sessions /\ Candidates(r) = {} THEN ExitNothing ELSE @,
              !.sel  = Selected(r),
              !.todo = IF Armed(r) THEN Selected(r) ELSE {},
              !.errs = walkError]
  BY <1>1, <1>2, Actor
<1>4. run[r].pc = "select" /\ UNCHANGED loc
  BY DEF Select, At, fsVars
<1>5. /\ run'[r].gate = run[r].gate /\ run'[r].must = run[r].must
      /\ run'[r].seen = run[r].seen /\ run'[r].found = run[r].found
      /\ run'[r].cur = run[r].cur
      /\ run'[r].roots = run[r].roots /\ run'[r].staged = run[r].staged
      /\ run'[r].left = run[r].left /\ run'[r].bad = run[r].bad
      /\ run'[r].late = run[r].late
      /\ run'[r].sel = Selected(r)
      /\ run'[r].todo = IF run[r].gate = "armed" THEN Selected(r) ELSE {}
      /\ \/ run'[r].pc = "done" /\ run'[r].code = ExitNothing
         \/ run'[r].pc = "open" /\ run[r].gate = "armed"
         \/ run'[r].pc = "report" /\ run[r].gate # "armed"
  BY <1>1, <1>3 DEF RunState, Armed
<1>6. ShapeOf(r)'
  BY <1>5, <1>4 DEF Local, ShapeOf
<1>7. GateHeld(r)'
  BY <1>5, <1>4 DEF Local, GateHeld, ArmedLabels
<1>8. Held(r)' \subseteq Held(r)
  BY <1>5, <1>4 DEF Held
<1>9. Owned(r)'
  BY <1>5, <1>4 DEF Local, GateHeld, Owned, Held
<1>10. Recovered(r)'
  BY <1>5, <1>4 DEF Local, GateHeld, Recovered
<1>11. Judged(r)'
  BY <1>5, <1>4 DEF Local, GateHeld, Judged, Held
<1>12. Drained(r)'
  BY <1>5, <1>4 DEF Local, GateHeld, Drained
<1>13. Concluded(r)'
  BY <1>5, <1>4, CodesDiffer DEF Local, GateHeld, Concluded
<1>14. Grants(r)' \subseteq Selected(r)
  BY <1>5 DEF Grants
<1> QED BY <1>6, <1>7, <1>8, <1>9, <1>10, <1>11, <1>12, <1>13, <1>14 DEF Local

\* A run that begins, and one that has been killed, has done nothing yet.
LEMMA NothingDone ==
    ASSUME NEW r \in Runs, run'[r].pc \in {"idle", "select"},
           run'[r].todo = {}, run'[r].sel = {}, run'[r].must = {}, run'[r].seen = {},
           run'[r].staged = {}, ~run'[r].found, ~run'[r].bad
    PROVE  Local(r)' /\ Held(r)' = {}
BY DEF Local, ShapeOf, GateHeld, Owned, Recovered, Judged, Drained, Concluded, Held,
       Verifying, Staging, Draining, Finishing, Before, ArmedLabels

LEMMA StartLocal ==
    ASSUME TypeOK, NEW r \in Runs, Start(r) \/ Crash(r)
    PROVE  Local(r)' /\ Held(r)' = {}
<1>1. run \in [Runs -> RunState]
  BY DEF TypeOK
<1>2. CASE Start(r)
  <2>1. PICK apply \in BOOLEAN : Load(r, apply)
    BY <1>2 DEF Start
  <2>2. run'[r] = [FreshRun EXCEPT !.pc = "select", !.gate = Gate(apply), !.beats = claimed,
                                   !.roots = NRoots, !.cmds = Commands[r]]
    BY <1>1, <2>1, Actor DEF Load
  <2>3. /\ run'[r].pc = "select" /\ run'[r].todo = {} /\ run'[r].sel = {}
        /\ run'[r].must = {} /\ run'[r].seen = {} /\ run'[r].staged = {}
        /\ ~run'[r].found /\ ~run'[r].bad
    BY <2>2 DEF FreshRun
  <2> QED BY <2>3, NothingDone
<1>3. CASE Crash(r)
  <2>1. run'[r] = FreshRun
    BY <1>1, <1>3, Actor DEF Crash
  <2>2. /\ run'[r].pc = "idle" /\ run'[r].todo = {} /\ run'[r].sel = {}
        /\ run'[r].must = {} /\ run'[r].seen = {} /\ run'[r].staged = {}
        /\ ~run'[r].found /\ ~run'[r].bad
    BY <2>1 DEF FreshRun
  <2> QED BY <2>2, NothingDone
<1> QED BY <1>2, <1>3

\* A run that does not move keeps what it knows while trees move on.
LEMMA BystanderLocal ==
    ASSUME NEW q \in Runs, run[q] \in RunState, Local(q), Bystander(q), Advance
    PROVE  Local(q)' /\ Held(q)' = Held(q)
<1> USE BystanderKeeps
<1>1. run[q].staged \subseteq Trees /\ run[q].seen \subseteq Trees
  BY DEF RunState
<1>2. Held(q)' = Held(q)
  BY DEF Held
<1>3. ShapeOf(q)' /\ GateHeld(q)'
  BY DEF Local, ShapeOf, GateHeld
<1>4. Owned(q)'
  BY <1>2 DEF Local, Owned, Advance
<1>5. Recovered(q)'
  BY <1>1 DEF Local, Recovered, Advance
<1>6. Judged(q)'
  BY <1>2 DEF Local, Judged, Homes
<1>7. Drained(q)' /\ Concluded(q)'
  BY <1>1 DEF Local, Drained, Concluded, Advance, Homes
<1> QED BY <1>2, <1>3, <1>4, <1>5, <1>6, <1>7 DEF Local

-----------------------------------------------------------------------------
(* The invariant. *)

\* What is out of its root is held by one run at most, and nothing else is torn.
Inv ==
    /\ TypeOK
    /\ \A r \in Runs : Local(r)
    /\ \A t \in torn : Out(t)
    /\ \A q, r \in Runs : q # r => Held(q) \cap Held(r) = {}

LEMMA InvInit == Init => Inv
<1> SUFFICES ASSUME Init PROVE Inv
  OBVIOUS
<1>1. TypeOK
  BY InitType
<1>2. \A r \in Runs : run[r] = FreshRun
  BY DEF Init
<1>3. \A r \in Runs :
          /\ run[r].pc = "idle" /\ run[r].todo = {} /\ run[r].sel = {}
          /\ run[r].must = {} /\ run[r].seen = {} /\ run[r].staged = {}
          /\ ~run[r].found /\ ~run[r].bad
  <2>1. /\ FreshRun.pc = "idle" /\ FreshRun.todo = {} /\ FreshRun.sel = {}
        /\ FreshRun.must = {} /\ FreshRun.seen = {} /\ FreshRun.staged = {}
        /\ ~FreshRun.found /\ ~FreshRun.bad
    BY DEF FreshRun
  <2> QED BY <1>2, <2>1
<1>4. \A r \in Runs : Local(r) /\ Held(r) = {}
  BY ZenonT(40), <1>3 DEF Local, ShapeOf, GateHeld, Owned, Recovered, Judged, Drained,
              Concluded, Held, Verifying, Staging, Draining, Finishing, Before, ArmedLabels
<1> QED BY <1>1, <1>4 DEF Inv, Init

\* Everything a step of a run does to what it knows and holds.
LEMMA StepLocal ==
    ASSUME TypeOK, NEW r \in Runs, Local(r), RunStep(r)
    PROVE  /\ Local(r)'
           /\ \/ Held(r)' \subseteq Held(r)
              \/ \E t \in Trees : ~Out(t) /\ Held(r)' \subseteq {t} \cup Held(r)
<1>1. CASE StageRename(r)
  BY <1>1, StageRenameLocal
<1>2. CASE Select(r)
  BY <1>2, SelectLocal
<1>3. CASE RunStep(r) /\ ~StageRename(r) /\ ~Select(r)
  <2>1. Keeps(r)
    BY <1>3, RunCommandLocal, CommandsEndLocal, ReportLocal,
       RemoveSomeLocal, RemoveAllLocal, RemoveBlockedLocal, OpenLocal, ListQuarantineLocal,
       RecoverEntryLocal, RecoverEndLocal, RecoverTruncateLocal, VerifyMkdirLocal,
       VerifyRenameLocal, VerifyUndoLocal, VerifyCleanLocal, VerifyEndLocal, ExpireLocal, StageFailLocal,
       StageEndLocal, AppendRecordLocal, AppendNewlineLocal, DrainEntryLocal,
       DrainEndLocal, DrainTruncateLocal DEF RunStep, ExecutorStep
  <2> QED BY <2>1 DEF Keeps
<1> QED BY <1>1, <1>2, <1>3

LEMMA StepAdvances ==
    ASSUME TypeOK, NEW r \in Runs, ExecutorStep(r)
    PROVE  Advance
<1>1. CASE StageRename(r)
  <2>1. PICK t \in Trees : InRoot(t) /\ loc' = [loc EXCEPT ![t] = "quarantine"]
    BY <1>1 DEF StageRename
  <2> QED BY <2>1 DEF Advance, Out, Gone, Staged, InRoot, TypeOK
<1>2. CASE RemoveAll(r)
  <2>1. \/ UNCHANGED loc
        \/ run[r].cur \in Trees /\ loc' = [loc EXCEPT ![run[r].cur] = "gone"]
    BY <1>2 DEF RemoveAll
  <2> QED BY <2>1 DEF Advance, Out, Gone, Staged, TypeOK
<1>3. CASE ~StageRename(r) /\ ~RemoveAll(r)
  <2>1. UNCHANGED loc
    BY <1>3 DEF ExecutorStep, RemoveSome, RemoveBlocked, Open, ListQuarantine, RecoverEntry,
       RecoverEnd, RecoverTruncate, VerifyMkdir, VerifyRename, VerifyUndo, VerifyClean, VerifyEnd,
       Expire,
       StageFail, StageEnd, AppendRecord, AppendNewline, DrainEntry, DrainEnd, DrainTruncate,
       Truncate, fsVars
  <2> QED BY <2>1 DEF Advance, Out, Gone, Staged
<1> QED BY <1>1, <1>2, <1>3

LEMMA StepTorn ==
    ASSUME Inv, NEW r \in Runs, ExecutorStep(r), Advance
    PROVE  \A t \in torn' : Out(t)'
<1>1. torn \subseteq Trees /\ \A t \in torn : Out(t)'
  BY DEF Inv, TypeOK, Advance
<1>2. CASE RemoveSome(r)
  BY <1>1, <1>2 DEF RemoveSome, Out, Staged
<1>3. CASE RemoveAll(r)
  <2>1. \/ torn' = torn
        \/ /\ run[r].cur \in Trees /\ torn' = torn \cup {run[r].cur}
           /\ loc' = [loc EXCEPT ![run[r].cur] = "gone"]
    BY <1>3 DEF RemoveAll
  <2>2. loc \in [Trees -> TreeLoc]
    BY DEF Inv, TypeOK
  <2> QED BY <1>1, <2>1, <2>2 DEF Out, Gone
<1>4. CASE RemoveBlocked(r)
  <2>1. PICK e \in Trees : Removing(r, e) /\ torn' \in {torn, torn \cup {e}}
    BY <1>4 DEF RemoveBlocked, Inv, TypeOK
  <2>2. Out(e)'
    BY <2>1 DEF Inv, Local, Owned, Removing, Advance
  <2> QED BY <1>1, <2>1, <2>2
<1>5. CASE ~RemoveSome(r) /\ ~RemoveAll(r) /\ ~RemoveBlocked(r)
  <2>1. UNCHANGED torn
    BY <1>5 DEF ExecutorStep, Open, ListQuarantine, RecoverEntry, RecoverEnd, RecoverTruncate,
       VerifyMkdir, VerifyRename, VerifyUndo, VerifyClean, VerifyEnd,
       Expire, StageRename, StageFail,
       StageEnd, AppendRecord, AppendNewline, DrainEntry, DrainEnd, DrainTruncate, Truncate,
       fsVars
  <2> QED BY <1>1, <2>1
<1> QED BY <1>2, <1>3, <1>4, <1>5

\* The runs' part of the invariant, after a step of one of them.
LEMMA RunInv ==
    ASSUME Inv, NEW r \in Runs, RunStep(r) \/ Start(r) \/ Crash(r), TypeOK'
    PROVE  Inv'
<1>1. \A q \in Runs : run[q] \in RunState
  BY DEF Inv, TypeOK
<1>2. RunsOK(r)
  BY SweepRuns DEF Inv, Shape, Local
<1>3. Advance /\ \A t \in torn' : Out(t)'
  <2>1. CASE ExecutorStep(r)
    BY <2>1, StepAdvances, StepTorn DEF Inv
  <2>2. CASE ~ExecutorStep(r)
    <3>1. UNCHANGED <<loc, torn>>
      BY <2>2 DEF RunStep, Select, RunCommand, CommandsEnd, Report, Start, Load, Crash, fsVars
    <3> QED BY <3>1 DEF Advance, Out, Gone, Staged, Inv
  <2> QED BY <2>1, <2>2
<1>4. /\ Local(r)'
      /\ \/ Held(r)' \subseteq Held(r)
         \/ \E t \in Trees : ~Out(t) /\ Held(r)' \subseteq {t} \cup Held(r)
  BY StepLocal, StartLocal DEF Inv
<1>5. \A q \in Runs \ {r} : Local(q)' /\ Held(q)' = Held(q)
  BY <1>1, <1>2, <1>3, BystanderLocal DEF RunsOK, Inv
<1>6. \A q \in Runs : q # r => Held(q)' \cap Held(r)' = {}
  <2> SUFFICES ASSUME NEW q \in Runs, q # r PROVE Held(q)' \cap Held(r)' = {}
    OBVIOUS
  <2>1. Held(q) \cap Held(r) = {} /\ \A t \in Trees : t \in Held(q) => Out(t)
    BY DEF Inv, Local, Owned
  <2> QED BY <1>4, <1>5, <2>1
<1>7. \A p, q \in Runs : p # q => Held(p)' \cap Held(q)' = {}
  <2> SUFFICES ASSUME NEW p \in Runs, NEW q \in Runs, p # q
               PROVE  Held(p)' \cap Held(q)' = {}
    OBVIOUS
  <2>1. CASE p # r /\ q # r
    BY <1>5, <2>1 DEF Inv
  <2>2. CASE p = r \/ q = r
    BY <1>6, <2>2
  <2> QED BY <2>1, <2>2
<1> QED BY <1>3, <1>4, <1>5, <1>7 DEF Inv

LEMMA InvNext == Inv /\ [Next]_vars => Inv'
<1> SUFFICES ASSUME Inv, [Next]_vars PROVE Inv'
  OBVIOUS
<1>1. TypeOK'
  BY NextType DEF Inv, Shape, Local
<1>2. CASE \E r \in Runs : RunStep(r) \/ Start(r) \/ Crash(r)
  BY <1>1, <1>2, RunInv
<1>3. CASE (\E t \in Trees : Build(t) \/ Repair(t))
           \/ (\E p \in Places : Heartbeat(p) \/ PinMarker(p)) \/ EditConfig
           \/ UNCHANGED vars
  <2>1. UNCHANGED <<run, torn, scratch>>
    BY <1>3 DEF Build, Repair, Heartbeat, PinMarker, EditConfig, vars, fsVars
  <2>2. Advance
    <3>1. CASE \E t \in Trees : Build(t)
      BY <3>1 DEF Build, Advance, Out, Gone, Staged, Inv, TypeOK
    <3>2. CASE ~\E t \in Trees : Build(t)
      <4>1. UNCHANGED loc
        BY <1>3, <3>2 DEF Repair, Heartbeat, PinMarker, EditConfig, vars, fsVars
      <4> QED BY <4>1 DEF Advance, Out, Gone, Staged
    <3> QED BY <3>1, <3>2
  <2>3. \A q \in Runs : run[q] \in RunState /\ Local(q) /\ Bystander(q)
    BY <2>1 DEF Inv, TypeOK, Bystander
  <2>4. \A q \in Runs : Local(q)' /\ Held(q)' = Held(q)
    BY <2>2, <2>3, BystanderLocal
  <2>5. \A t \in torn' : Out(t)'
    BY <2>1, <2>2 DEF Inv, TypeOK, Advance
  <2> QED BY <1>1, <2>4, <2>5 DEF Inv
<1> QED BY <1>2, <1>3 DEF Next, World

\* The invariant the other theorems follow from holds in every reachable state:
\* what each program point of execute, recover, verify_rename, stage and drain
\* knows of the trees the run has met, and that no two runs hold the same tree.
THEOREM InvAlways == Spec => []Inv
BY InvInit, InvNext, PTL DEF Spec

-----------------------------------------------------------------------------
(* The theorems. *)

\* Every reachable state has the shape the code gives it.
THEOREM TypeCorrect == Spec => []TypeOK
BY InvAlways, PTL DEF Inv

\* A tree that has lost a part has left its root: executor.rs renames before it
\* removes.
THEOREM NoTreeHalfRemoved == Spec => []NeverHalfRemoved
<1>1. Inv => NeverHalfRemoved
  BY DEF Inv, NeverHalfRemoved, Out, Gone
<1> QED BY <1>1, InvAlways, PTL

\* No two runs have the same tree to drain.
THEOREM TreesHaveOneOwner == Spec => []OneOwner
<1>1. Inv => OneOwner
  BY DEF Inv, OneOwner, Held
<1> QED BY <1>1, InvAlways, PTL

\* Recovery precedes a run's own work, and what it could not do is reported.
THEOREM LeftoversGoFirst == Spec => []LeftoversFirst
<1>1. Inv => LeftoversFirst
  BY DEF Inv, Local, Recovered, LeftoversFirst, Gone, Verifying, Staging, Draining, Finishing
<1> QED BY <1>1, InvAlways, PTL

\* Exit code 0 of an armed run means that everything was done.
THEOREM SuccessMeansComplete == Spec => []SuccessIsComplete
<1>1. Inv => SuccessIsComplete
  BY DEF Inv, Local, Concluded, SuccessIsComplete, Gone, Homes, Armed
<1> QED BY <1>1, InvAlways, PTL

\* Exit code 3, and a missing opt-in, mean that nothing was touched.
THEOREM IdleRunsTouchNothing == Spec => []IdleExitsTouchNothing
<1>1. Inv => IdleExitsTouchNothing
  BY DEF Inv, Local, Concluded, GateHeld, IdleExitsTouchNothing, Armed
<1> QED BY <1>1, InvAlways, PTL

-----------------------------------------------------------------------------
(* A run that is alone. *)

\* The scratch directories whose removal after a test may have failed.
Dregs == {x \in Scratches : "cleanup" \in Faults}

\* Where it does not say that something failed, what the quarantine holds is what a run
\* that is alone has still to remove, and after that there is nothing but dregs.
Emptied(r) ==
    /\ run[r].pc = "recover" => run[r].bad \/ QuarantineEntries \subseteq run[r].must
    /\ run[r].pc = "recoverRemove" =>
         run[r].bad \/ QuarantineEntries \subseteq run[r].must \cup {run[r].cur}
    /\ run[r].pc \in {"recoverTruncate", "verify", "verifyRename", "drainTruncate"} =>
         run[r].errs \/ QuarantineEntries \subseteq Dregs
    /\ run[r].pc = "verifyClean" =>
         run[r].errs \/ QuarantineEntries \subseteq {run[r].cur} \cup Dregs
    /\ run[r].pc \in Staging => run[r].errs \/ QuarantineEntries \subseteq Held(r) \cup Dregs
    /\ run[r].pc \in Draining =>
         run[r].errs \/ QuarantineEntries \subseteq run[r].staged \cup Dregs
    /\ run[r].pc \in {"command", "report"} /\ run[r].gate = "armed" =>
         run[r].errs \/ (QuarantineEntries \subseteq Dregs /\ manifest = <<>>)
    /\ run[r].pc = "done" /\ run[r].gate = "armed" /\ run[r].code = ExitSuccess =>
         QuarantineEntries \subseteq Dregs /\ manifest = <<>>

\* It knows what a listing returns, and nobody makes the truncation of the manifest fail.
Reliable == "listing" \notin Faults /\ "truncate" \notin Faults

LEMMA EntriesSame ==
    ASSUME loc' = loc, scratch' = scratch
    PROVE  QuarantineEntries' = QuarantineEntries
BY DEF QuarantineEntries, Staged

LEMMA AloneSelect ==
    ASSUME Inv, NEW r \in Runs, Emptied(r), Select(r)
    PROVE  Emptied(r)'
<1>1. run \in [Runs -> RunState] /\ run[r] \in RunState
  BY DEF Inv, TypeOK
<1> DEFINE none == r \in Sessions /\ Candidates(r) = {}
<1>2. PICK walkError \in BOOLEAN :
        run'[r] = [run[r] EXCEPT
              !.pc = IF none THEN "done" ELSE IF Armed(r) THEN "open" ELSE "report",
              !.code = IF none THEN ExitNothing ELSE @,
              !.sel  = Selected(r),
              !.todo = IF Armed(r) THEN Selected(r) ELSE {},
              !.errs = walkError]
  BY <1>1, Actor DEF Select, MayFail
<1> HIDE DEF none
<1>3. /\ run'[r].pc = IF none THEN "done" ELSE IF Armed(r) THEN "open" ELSE "report"
      /\ run'[r].code = IF none THEN ExitNothing ELSE run[r].code
      /\ run'[r].gate = run[r].gate
  BY <1>1, <1>2 DEF RunState
<1>4. /\ run'[r].pc \in {"done", "open", "report"}
      /\ run'[r].pc = "report" => run[r].gate # "armed"
      /\ run'[r].pc = "done" => run'[r].code = ExitNothing
  BY <1>3 DEF Armed
<1> QED BY <1>3, <1>4, CodesDiffer DEF Emptied, Staging, Draining

LEMMA AloneCommands ==
    ASSUME Inv, NEW r \in Runs, Emptied(r), RunCommand(r) \/ CommandsEnd(r)
    PROVE  Emptied(r)'
<1>1. run \in [Runs -> RunState] /\ run[r] \in RunState
  BY DEF Inv, TypeOK
<1>2. /\ run[r].pc = "command" /\ run'[r].pc \in {"command", "report"}
      /\ run'[r].gate = run[r].gate /\ (run[r].errs => run'[r].errs)
  <2>1. CASE RunCommand(r)
    <3>1. PICK failed \in BOOLEAN :
            run'[r] = [run[r] EXCEPT !.cmds = @ - 1, !.errs = @ \/ failed]
      BY <1>1, <2>1, Actor DEF RunCommand, MayFail
    <3>2. run[r].pc = "command"
      BY <2>1 DEF RunCommand, At
    <3> QED BY ZenonT(40), <1>1, <3>1, <3>2 DEF RunState
  <2>2. CASE CommandsEnd(r)
    <3>1. run'[r] = [run[r] EXCEPT !.pc = "report"] /\ run[r].pc = "command"
      BY <1>1, <2>2, Actor DEF CommandsEnd, Goto, At
    <3> QED BY <1>1, <3>1 DEF RunState
  <2> QED BY <2>1, <2>2
<1>3. QuarantineEntries' = QuarantineEntries /\ manifest' = manifest
  BY EntriesSame DEF RunCommand, CommandsEnd, fsVars
<1> QED BY <1>2, <1>3 DEF Emptied, Staging, Draining

LEMMA AloneReports ==
    ASSUME Inv, NEW r \in Runs, Emptied(r), Report(r)
    PROVE  Emptied(r)'
<1>1. run \in [Runs -> RunState] /\ run[r] \in RunState
  BY DEF Inv, TypeOK
<1>2. /\ run[r].pc = "report" /\ run'[r].pc = "done"
      /\ run'[r].gate = run[r].gate /\ run'[r].code = ExitCode(r)
  BY <1>1, Actor DEF Report, RunState, At
<1>3. run[r].gate = "armed" /\ ExitCode(r) = ExitSuccess => ~ run[r].errs
  BY CodesDiffer DEF ExitCode, Armed
<1>4. QuarantineEntries' = QuarantineEntries /\ manifest' = manifest
  BY EntriesSame DEF Report, fsVars
<1> QED BY <1>2, <1>3, <1>4 DEF Emptied, Staging, Draining

LEMMA AloneRemoves ==
    ASSUME Inv, NEW r \in Runs, Emptied(r), RemoveSome(r) \/ RemoveAll(r) \/ RemoveBlocked(r)
    PROVE  Emptied(r)'
<1>1. /\ run \in [Runs -> RunState] /\ run[r] \in RunState /\ loc \in [Trees -> TreeLoc]
      /\ scratch \in [Scratches -> {"none", "root", "quarantine"}]
  BY DEF Inv, TypeOK
<1>2. CASE RemoveSome(r)
  <2>1. run' = run /\ QuarantineEntries' = QuarantineEntries /\ manifest' = manifest
    BY <1>2, EntriesSame DEF RemoveSome
  <2>2. Held(r)' = Held(r)
    BY <2>1 DEF Held
  <2> QED BY <2>1, <2>2 DEF Emptied
<1>3. CASE RemoveAll(r) \/ RemoveBlocked(r)
  <2> DEFINE e == run[r].cur
  <2>1. PICK failed \in BOOLEAN : EndRemove(r, failed)
    BY <1>1, <1>3 DEF RemoveAll, RemoveBlocked, RunState
  <2>0. ASSUME NEW b \in BOOLEAN, EndRemove(r, b)
        PROVE  /\ run'[r].pc = Caller(run[r].pc)
               /\ run'[r].must = run[r].must /\ run'[r].seen = run[r].seen
               /\ run'[r].staged = run[r].staged /\ run'[r].errs = run[r].errs
               /\ (run[r].bad => run'[r].bad) /\ (b => run'[r].bad)
    <3>1. run'[r] = [run[r] EXCEPT !.pc = Caller(@), !.cur = NoEntry, !.raced = FALSE,
                                   !.bad = @ \/ b]
      BY <1>1, <2>0, Actor DEF EndRemove
    <3> QED BY ZenonT(40), <1>1, <3>1 DEF RunState
  <2>2. \/ run[r].pc = "recoverRemove" /\ run'[r].pc = "recover"
        \/ run[r].pc = "drainRemove" /\ run'[r].pc = "drain"
    <3>1. run[r].pc \in {"recoverRemove", "drainRemove"}
      BY <1>3 DEF RemoveAll, RemoveBlocked, Removing
    <3> QED BY <2>0, <2>1, <3>1 DEF Caller
  <2>3. /\ run'[r].must = run[r].must /\ run'[r].seen = run[r].seen
        /\ run'[r].staged = run[r].staged /\ run'[r].errs = run[r].errs
        /\ (run[r].bad => run'[r].bad)
    BY <2>0, <2>1
  <2>4. /\ QuarantineEntries' \subseteq QuarantineEntries
        /\ e \in QuarantineEntries' => run'[r].bad
    <3>1. CASE RemoveBlocked(r)
      <4>1. QuarantineEntries' = QuarantineEntries /\ EndRemove(r, TRUE)
        BY <3>1, EntriesSame DEF RemoveBlocked
      <4>2. run'[r].bad
        BY <2>0, <4>1
      <4> QED BY <4>1, <4>2
    <3>2. CASE RemoveAll(r)
      <4>1. CASE e \in Trees
        <5>1. loc' = [loc EXCEPT ![e] = "gone"] /\ scratch' = scratch
          BY <3>2, <4>1 DEF RemoveAll
        <5>2. e \notin Scratches
          BY <4>1, ConstantsOK
        <5> QED BY <1>1, <5>1, <5>2 DEF QuarantineEntries, Staged
      <4>2. CASE e \notin Trees
        <5>1. loc' = loc /\ scratch' = [scratch EXCEPT ![e] = "none"]
          BY <3>2, <4>2 DEF RemoveAll
        <5> QED BY <1>1, <4>2, <5>1 DEF QuarantineEntries, Staged
      <4> QED BY <4>1, <4>2
    <3> QED BY <1>3, <3>1, <3>2
  <2>5. CASE run[r].pc = "recoverRemove" /\ run'[r].pc = "recover"
    BY <2>3, <2>4, <2>5 DEF Emptied, Staging, Draining
  <2>6. CASE run[r].pc = "drainRemove" /\ run'[r].pc = "drain"
    BY <2>3, <2>4, <2>6 DEF Emptied, Staging, Draining
  <2> QED BY <2>2, <2>5, <2>6
<1> QED BY <1>2, <1>3

LEMMA AloneRecovers ==
    ASSUME Inv, NEW r \in Runs, Runs = {r}, Reliable, Emptied(r),
           Open(r) \/ ListQuarantine(r) \/ RecoverEntry(r) \/ RecoverEnd(r) \/ RecoverTruncate(r)
    PROVE  Emptied(r)'
<1>1. /\ run \in [Runs -> RunState] /\ run[r] \in RunState
      /\ QuarantineEntries' = QuarantineEntries
  BY EntriesSame
     DEF Inv, TypeOK, Open, ListQuarantine, RecoverEntry, RecoverEnd, RecoverTruncate, Truncate, fsVars
<1>2. CASE Open(r)
  <2>1. run'[r].pc = "list" \/ (run'[r].pc = "done" /\ run'[r].code = ExitInternal)
    BY <1>1, <1>2, Actor DEF Open, Goto, Abort, RunState
  <2> QED BY <2>1, CodesDiffer DEF Emptied, Staging, Draining
<1>3. CASE ListQuarantine(r)
  <2>1. run'[r].pc = "recover" /\ run'[r].must = QuarantineEntries
    BY <1>1, <1>3, Actor DEF ListQuarantine, Reliable, RunState
  <2> QED BY <1>1, <2>1 DEF Emptied, Staging, Draining
<1>4. CASE RecoverEntry(r)
  <2>1. run[r].pc = "recover"
    BY <1>4 DEF RecoverEntry, At
  <2>2. PICK e \in run[r].must \cup (QuarantineEntries \ run[r].seen) :
          LET x == [run[r] EXCEPT !.must = @ \ {e}, !.seen = @ \cup ({e} \cap Trees),
                                  !.found = TRUE] IN
          IF Present(e) THEN BeginRemove(r, x, e, "recoverRemove") ELSE Become(r, x)
    BY <1>4 DEF RecoverEntry
  <2>3. /\ run'[r].must = run[r].must \ {e}
        /\ run'[r].bad = run[r].bad
        /\ \/ run'[r].pc = "recoverRemove" /\ run'[r].cur = e
           \/ run'[r].pc = "recover" /\ e \notin QuarantineEntries
    <3> DEFINE x == [run[r] EXCEPT !.must = @ \ {e}, !.seen = @ \cup ({e} \cap Trees),
                                   !.found = TRUE]
    <3>0. /\ x \in [DOMAIN run[r] -> UNION {{x[f]} : f \in DOMAIN run[r]}]
          /\ x.must = run[r].must \ {e} /\ x.bad = run[r].bad /\ x.pc = run[r].pc
      BY <1>1 DEF RunState
    <3>1. \/ run'[r] = x /\ ~Present(e)
          \/ Present(e) /\ \E b \in BOOLEAN : run'[r] =
               [x EXCEPT !.pc = "recoverRemove", !.cur = e, !.raced = b]
      BY <1>1, <2>2, Actor, ActorAt DEF BeginRemove
    <3>2. CASE ~Present(e) /\ run'[r] = x
      BY <2>1, <3>0, <3>2 DEF Present
    <3>3. ASSUME NEW b \in BOOLEAN, Present(e),
                 run'[r] = [x EXCEPT !.pc = "recoverRemove", !.cur = e, !.raced = b]
          PROVE  <2>3!:
      BY <1>1, <3>3 DEF RunState
    <3> QED BY <3>1, <3>2, <3>3
  <2> QED BY <1>1, <2>1, <2>3 DEF Emptied, Staging, Draining
<1>5. CASE RecoverEnd(r)
  <2>1. run[r].pc = "recover" /\ run[r].must = {}
    BY <1>5 DEF RecoverEnd, Listed, Reliable, At
  <2>2. /\ run'[r].pc \in {"recoverTruncate", "verify"}
        /\ run[r].errs \/ run[r].bad => run'[r].errs
    <3>1. run'[r] = [run[r] EXCEPT
             !.pc = IF run[r].found /\ ~run[r].bad THEN "recoverTruncate" ELSE "verify",
             !.must = {},
             !.errs = @ \/ run[r].bad,
             !.bad = FALSE]
      BY <1>1, <1>5, Actor DEF RecoverEnd
    <3> QED BY ZenonT(40), <1>1, <3>1 DEF RunState
  <2>3. run[r].bad \/ QuarantineEntries = {}
    BY <2>1 DEF Emptied
  <2> QED BY <1>1, <2>2, <2>3 DEF Emptied, Staging, Draining
<1>6. CASE RecoverTruncate(r)
  <2>1. run[r].pc = "recoverTruncate" /\ run'[r].pc = "verify" /\ run'[r].errs = run[r].errs
    BY <1>1, <1>6, Actor DEF RecoverTruncate, Truncate, Goto, At, RunState
  <2> QED BY <1>1, <2>1 DEF Emptied, Staging, Draining
<1> QED BY <1>2, <1>3, <1>4, <1>5, <1>6

LEMMA AloneVerifies ==
    ASSUME Inv, NEW r \in Runs, Emptied(r),
           VerifyMkdir(r) \/ VerifyRename(r) \/ VerifyUndo(r) \/ VerifyClean(r) \/ VerifyEnd(r)
    PROVE  Emptied(r)'
<1>1. /\ run \in [Runs -> RunState] /\ run[r] \in RunState
      /\ scratch \in [Scratches -> {"none", "root", "quarantine"}]
      /\ loc' = loc
  BY DEF Inv, TypeOK, VerifyMkdir, VerifyRename, VerifyUndo, VerifyClean, VerifyEnd, fsVars
<1>2. CASE VerifyMkdir(r) /\ ~Abort(r)
  <2>1. PICK x \in Scratches : /\ scratch' = [scratch EXCEPT ![x] = "root"]
                              /\ Become(r, [run[r] EXCEPT !.pc = "verifyRename", !.cur = x])
    BY <1>2 DEF VerifyMkdir
  <2>2. run[r].pc = "verify" /\ run'[r].pc = "verifyRename" /\ run'[r].errs = run[r].errs
    <3>1. run'[r] = [run[r] EXCEPT !.pc = "verifyRename", !.cur = x]
      BY <1>1, <2>1, Actor
    <3>2. run[r].pc = "verify"
      BY <1>2 DEF VerifyMkdir, At
    <3> QED BY <1>1, <3>1, <3>2 DEF RunState
  <2>3. QuarantineEntries' \subseteq QuarantineEntries
    BY <1>1, <2>1 DEF QuarantineEntries, Staged
  <2> QED BY <2>2, <2>3 DEF Emptied, Staging, Draining
<1>3. CASE Abort(r) \/ VerifyUndo(r)
  <2>1. run'[r].pc = "done" /\ run'[r].code = ExitInternal
    <3>1. \/ run'[r] = [run[r] EXCEPT !.pc = "done", !.code = ExitInternal]
          \/ run'[r] = [run[r] EXCEPT !.pc = "done", !.cur = NoEntry, !.code = ExitInternal]
      BY <1>1, <1>3, Actor DEF Abort, VerifyUndo
    <3> QED BY <1>1, <3>1 DEF RunState
  <2> QED BY <2>1, CodesDiffer DEF Emptied, Staging, Draining
<1>4. CASE VerifyRename(r)
  <2>1. CASE Goto(r, "verifyUndo")
    <3>1. run'[r].pc = "verifyUndo"
      BY <1>1, <2>1, Actor DEF Goto, RunState
    <3> QED BY <3>1 DEF Emptied, Staging, Draining
  <2>2. CASE Goto(r, "verifyClean") /\ scratch' = [scratch EXCEPT ![run[r].cur] = "quarantine"]
    <3>1. /\ run[r].pc = "verifyRename" /\ run'[r].pc = "verifyClean"
          /\ run'[r].errs = run[r].errs /\ run'[r].cur = run[r].cur
      BY <1>1, <1>4, <2>2, Actor DEF VerifyRename, Goto, At, RunState
    <3>2. QuarantineEntries' \subseteq QuarantineEntries \cup {run[r].cur}
      BY <1>1, <2>2 DEF QuarantineEntries, Staged
    <3> QED BY <3>1, <3>2 DEF Emptied, Staging, Draining, Dregs
  <2> QED BY <1>4, <2>1, <2>2 DEF VerifyRename
<1>5. CASE VerifyClean(r)
  <2>1. run[r].pc = "verifyClean" /\ run'[r].pc = "verify" /\ run'[r].errs = run[r].errs
    BY <1>1, <1>5, ActorAt DEF VerifyClean, At, RunState
  <2>2. run[r].cur \in Scratches
    BY <2>1 DEF Inv, Local, ShapeOf
  <2>3. \/ QuarantineEntries' \subseteq QuarantineEntries \ {run[r].cur}
        \/ QuarantineEntries' = QuarantineEntries /\ run[r].cur \in Dregs
    <3>1. run[r].cur \notin Trees
      BY <2>2, ConstantsOK
    <3>2. CASE scratch' = [scratch EXCEPT ![run[r].cur] = "none"]
      BY <1>1, <3>1, <3>2 DEF QuarantineEntries, Staged
    <3>3. CASE "cleanup" \in Faults /\ scratch' = scratch
      BY <1>1, <2>2, <3>3, EntriesSame DEF Dregs
    <3> QED BY <1>5, <3>2, <3>3 DEF VerifyClean
  <2> QED BY <2>1, <2>3 DEF Emptied, Staging, Draining, Dregs
<1>6. CASE VerifyEnd(r)
  <2>1. run[r].pc = "verify" /\ run'[r].pc = "stage" /\ run'[r].errs = run[r].errs
    BY <1>1, <1>6, Actor DEF VerifyEnd, Goto, At, RunState
  <2>2. QuarantineEntries' = QuarantineEntries
    BY <1>6, EntriesSame DEF VerifyEnd, fsVars
  <2> QED BY <2>1, <2>2 DEF Emptied, Staging, Draining, Dregs
<1> QED BY <1>2, <1>3, <1>4, <1>5, <1>6

LEMMA AloneStages ==
    ASSUME Inv, NEW r \in Runs, Emptied(r),
           Expire(r) \/ StageRename(r) \/ StageFail(r) \/ StageEnd(r)
           \/ AppendRecord(r) \/ AppendNewline(r)
    PROVE  Emptied(r)'
<1>1. /\ run \in [Runs -> RunState] /\ run[r] \in RunState /\ loc \in [Trees -> TreeLoc]
  BY DEF Inv, TypeOK
<1>2. CASE Expire(r)
  <2>1. /\ run'[r].pc = run[r].pc /\ run[r].pc \in {"stage", "command"}
        /\ run'[r].errs = run[r].errs /\ run'[r].staged = run[r].staged
        /\ run'[r].gate = run[r].gate
    BY <1>1, <1>2, Actor DEF Expire, RunState
  <2>2. QuarantineEntries' = QuarantineEntries /\ manifest' = manifest
    BY <1>2, EntriesSame DEF Expire, fsVars
  <2>3. Held(r)' = Held(r)
    BY <2>1 DEF Held
  <2> QED BY <2>1, <2>2, <2>3 DEF Emptied, Staging, Draining
<1>3. CASE StageRename(r)
  <2>1. PICK t \in Trees : /\ loc' = [loc EXCEPT ![t] = "quarantine"]
                           /\ Become(r, [run[r] EXCEPT !.pc = "append", !.cur = t,
                                                       !.todo = @ \ {Home[t]}])
    BY <1>3 DEF StageRename
  <2>2. /\ run[r].pc = "stage" /\ run'[r].pc = "append" /\ run'[r].cur = t
        /\ run'[r].errs = run[r].errs /\ run'[r].staged = run[r].staged
    <3>1. run'[r] = [run[r] EXCEPT !.pc = "append", !.cur = t, !.todo = @ \ {Home[t]}]
      BY <1>1, <2>1, Actor
    <3>2. run[r].pc = "stage"
      BY <1>3 DEF StageRename, At
    <3> QED BY <1>1, <3>1, <3>2 DEF RunState
  <2>3. QuarantineEntries' = QuarantineEntries \cup {t}
    BY <1>1, <1>3, <2>1 DEF StageRename, QuarantineEntries, Staged
  <2>4. Held(r)' = Held(r) \cup {t}
    BY <2>2 DEF Held
  <2> QED BY <2>2, <2>3, <2>4 DEF Emptied, Staging, Draining
<1>4. CASE StageFail(r)
  <2>1. run'[r].pc = "stage" /\ run'[r].errs
    BY <1>1, <1>4, Actor DEF StageFail, At, RunState
  <2> QED BY <2>1 DEF Emptied, Staging, Draining
<1>5. CASE StageEnd(r)
  <2>1. /\ run[r].pc = "stage" /\ run'[r].pc = "drain"
        /\ run'[r].errs = run[r].errs /\ run'[r].staged = run[r].staged
    BY <1>1, <1>5, Actor DEF StageEnd, At, RunState
  <2>2. QuarantineEntries' = QuarantineEntries
    BY <1>5, EntriesSame DEF StageEnd, fsVars
  <2>3. Held(r) = run[r].staged
    BY <2>1 DEF Held
  <2> QED BY <2>1, <2>2, <2>3 DEF Emptied, Staging, Draining
<1>6. CASE AppendRecord(r) \/ AppendNewline(r)
  <2>1. /\ run[r].pc \in {"append", "newline"} /\ run'[r].errs = run[r].errs
        /\ \/ run'[r].pc = "newline" /\ run'[r].staged = run[r].staged /\ run'[r].cur = run[r].cur
           \/ run'[r].pc = "stage" /\ run'[r].staged = run[r].staged \cup {run[r].cur}
    <3>1. run[r].pc \in {"append", "newline"}
      BY <1>6 DEF AppendRecord, AppendNewline, At
    <3>2. \/ run'[r] = [run[r] EXCEPT !.pc = "newline"]
          \/ run'[r] = [run[r] EXCEPT !.pc = "stage", !.staged = @ \cup {run[r].cur},
                                      !.cur = NoEntry]
      BY <1>1, <1>6, Actor DEF AppendRecord, AppendNewline, PushStaged, Goto
    <3> QED BY <1>1, <3>1, <3>2 DEF RunState
  <2>2. QuarantineEntries' = QuarantineEntries
    BY <1>6, EntriesSame DEF AppendRecord, AppendNewline
  <2>3. Held(r)' = Held(r)
    BY <2>1 DEF Held
  <2> QED BY <2>1, <2>2, <2>3 DEF Emptied, Staging, Draining
<1> QED BY <1>2, <1>3, <1>4, <1>5, <1>6

LEMMA AloneDrains ==
    ASSUME Inv, NEW r \in Runs, Runs = {r}, Reliable, Emptied(r),
           DrainEntry(r) \/ DrainEnd(r) \/ DrainTruncate(r)
    PROVE  Emptied(r)'
<1>1. /\ run \in [Runs -> RunState] /\ run[r] \in RunState
      /\ QuarantineEntries' = QuarantineEntries
  BY EntriesSame DEF Inv, TypeOK, DrainEntry, DrainEnd, DrainTruncate, Truncate, fsVars
<1>2. CASE DrainEntry(r)
  <2>1. PICK t \in run[r].left :
          LET s == [run[r] EXCEPT !.left = @ \ {t}] IN
          IF Present(t) THEN BeginRemove(r, s, t, "drainRemove") ELSE Become(r, s)
    BY <1>2 DEF DrainEntry
  <2>2. /\ run[r].pc = "drain" /\ run'[r].pc \in {"drain", "drainRemove"}
        /\ run'[r].errs = run[r].errs /\ run'[r].staged = run[r].staged
    <3>1. \/ run'[r] = [run[r] EXCEPT !.left = @ \ {t}]
          \/ \E b \in BOOLEAN : run'[r] =
               [run[r] EXCEPT !.left = @ \ {t}, !.pc = "drainRemove", !.cur = t, !.raced = b]
      BY <1>1, <2>1, Actor, ActorAt DEF BeginRemove
    <3>2. run[r].pc = "drain"
      BY <1>2 DEF DrainEntry, At
    <3> QED BY ZenonT(40), <1>1, <3>1, <3>2 DEF RunState
  <2> QED BY <1>1, <2>2 DEF Emptied, Staging, Draining
<1>3. CASE DrainEnd(r)
  <2>1. /\ run[r].pc = "drain" /\ run[r].left = {}
        /\ run'[r].pc \in {"command", "drainTruncate"}
        /\ run'[r].pc = "command" => run[r].bad
        /\ run[r].errs \/ run[r].bad => run'[r].errs
    <3>1. run'[r] = [run[r] EXCEPT
             !.pc = IF run[r].bad THEN "command" ELSE "drainTruncate",
             !.errs = @ \/ run[r].bad,
             !.bad = FALSE]
      BY <1>1, <1>3, Actor DEF DrainEnd
    <3>2. run[r].pc = "drain" /\ run[r].left = {}
      BY <1>3 DEF DrainEnd, At
    <3> QED BY ZenonT(40), <1>1, <3>1, <3>2 DEF RunState
  <2>2. ~ run[r].bad /\ ~ run[r].errs => QuarantineEntries \subseteq Dregs
    <3> SUFFICES ASSUME ~ run[r].bad, ~ run[r].errs,
                        NEW e \in QuarantineEntries, e \notin Dregs PROVE FALSE
      OBVIOUS
    <3>1. e \in run[r].staged
      BY <2>1 DEF Emptied, Draining
    <3>2. e \in Trees
      BY <1>1, <3>1 DEF RunState
    <3>3. Staged(e)
      BY <3>2, ConstantsOK DEF QuarantineEntries
    <3> QED BY <2>1, <3>1, <3>3 DEF Inv, Local, Drained, Draining, Gone, Staged
  <2> QED BY <1>1, <2>1, <2>2 DEF Emptied, Staging, Draining
<1>4. CASE DrainTruncate(r)
  <2>1. /\ run[r].pc = "drainTruncate" /\ run'[r].pc = "command" /\ run'[r].errs = run[r].errs
        /\ manifest' = <<>>
    BY <1>1, <1>4, Actor DEF DrainTruncate, Truncate, Goto, At, RunState, Reliable
  <2> QED BY <1>1, <2>1 DEF Emptied, Staging, Draining
<1> QED BY <1>2, <1>3, <1>4

LEMMA AloneNext ==
    ASSUME Inv, NEW r \in Runs, Runs = {r}, Reliable, Emptied(r), [Next]_vars
    PROVE  Emptied(r)'
<1>1. CASE RunStep(r)
  BY <1>1, AloneSelect, AloneCommands, AloneReports, AloneRemoves, AloneRecovers, AloneVerifies,
     AloneStages, AloneDrains DEF RunStep, ExecutorStep
<1>2. CASE Start(r) \/ Crash(r)
  <2>1. run'[r].pc \in {"select", "idle"}
    <3>1. run \in [Runs -> RunState]
      BY DEF Inv, TypeOK
    <3>2. CASE Crash(r)
      BY <3>1, <3>2, Actor DEF Crash, FreshRun
    <3>3. CASE Start(r)
      <4>1. PICK apply \in BOOLEAN : Load(r, apply)
        BY <3>3 DEF Start
      <4> QED BY <3>1, <4>1, Actor DEF Load, FreshRun
    <3> QED BY <1>2, <3>2, <3>3
  <2> QED BY <2>1 DEF Emptied, Staging, Draining
<1>3. CASE (\E t \in Trees : Build(t) \/ Repair(t))
           \/ (\E p \in Places : Heartbeat(p) \/ PinMarker(p)) \/ EditConfig
           \/ UNCHANGED vars
  <2>1. run' = run /\ scratch' = scratch /\ manifest' = manifest
    BY <1>3 DEF Build, Repair, Heartbeat, PinMarker, EditConfig, vars, fsVars
  <2>2. QuarantineEntries' \subseteq QuarantineEntries
    <3>1. CASE \E t \in Trees : Build(t)
      BY <2>1, <3>1 DEF Build, QuarantineEntries, Staged, Inv, TypeOK
    <3>2. CASE ~ \E t \in Trees : Build(t)
      <4>1. loc' = loc
        BY <1>3, <3>2 DEF Repair, Heartbeat, PinMarker, EditConfig, vars, fsVars
      <4> QED BY <2>1, <4>1, EntriesSame
    <3> QED BY <3>1, <3>2
  <2>3. Held(r)' = Held(r)
    BY <2>1 DEF Held
  <2> QED BY <2>1, <2>2, <2>3 DEF Emptied
<1> QED BY <1>1, <1>2, <1>3 DEF Next, World

\* A run that is alone and exits 0 leaves an empty manifest and nothing in the quarantine
\* but scratch directories of its own whose removal failed, whatever earlier runs left
\* behind, if the quarantine can be listed and the manifest truncated (executor.rs,
\* recover, drain, truncate_manifest; quarantine.rs, test_rename).
THEOREM SuccessLeavesNothing == Reliable /\ Spec => []SuccessLeavesNothingStaged
<1> DEFINE Lone == \A r \in Runs : Runs = {r} => Emptied(r)
<1>1. Init => Lone
  <2> SUFFICES ASSUME Init, NEW r \in Runs PROVE Emptied(r)
    OBVIOUS
  <2>1. run[r].pc = "idle"
    BY DEF Init, FreshRun
  <2> QED BY <2>1 DEF Emptied, Staging, Draining
<1>2. Reliable /\ Inv /\ Lone /\ [Next]_vars => Lone'
  BY AloneNext
<1>3. Inv /\ Lone => SuccessLeavesNothingStaged
  BY DEF Emptied, SuccessLeavesNothingStaged, Armed, Dregs
<1>4. CASE Reliable
  <2>1. Inv /\ Lone /\ [Next]_vars => Lone'
    BY <1>2, <1>4
  <2> QED BY <1>1, <1>3, <2>1, InvAlways, PTL DEF Spec
<1>5. CASE ~ Reliable
  BY <1>5
<1> QED BY <1>4, <1>5

-----------------------------------------------------------------------------
(* The abstract specification is implemented. *)

LEMMA GrantedIs == Granted = UNION {Grants(r) : r \in Runs}
BY DEF Granted, Grants

\* What a step of run r does to the granted places.
LEMMA GrantedStep ==
    ASSUME Inv, NEW r \in Runs, RunStep(r) \/ Start(r) \/ Crash(r), NEW S,
           Grants(r)' \subseteq S
    PROVE  Granted' \subseteq Granted \cup S
<1>1. RunsOK(r) /\ \A q \in Runs : run[q] \in RunState
  BY SweepRuns DEF Inv, Shape, Local, TypeOK
<1>2. \A q \in Runs \ {r} : Grants(q)' = Grants(q)
  BY <1>1, BystanderKeeps DEF RunsOK, Grants
<1>3. Granted' = UNION {Grants(q)' : q \in Runs}
  BY DEF Granted, Grants
<1> QED BY <1>2, <1>3, GrantedIs

LEMMA GrantedKept ==
    ASSUME Inv, NEW r \in Runs, ExecutorStep(r), Grants(r)' = Grants(r)
    PROVE  Granted' = Granted
<1>1. RunsOK(r) /\ \A q \in Runs : run[q] \in RunState
  BY ExecutorRuns DEF Inv, Shape, Local, TypeOK
<1>2. \A q \in Runs : Grants(q)' = Grants(q)
  BY <1>1, BystanderKeeps DEF RunsOK, Grants
<1>3. Granted' = UNION {Grants(q)' : q \in Runs}
  BY DEF Granted, Grants
<1> QED BY <1>2, <1>3, GrantedIs

LEMMA RemoveAllRefines ==
    ASSUME Inv, NEW r \in Runs, RemoveAll(r), UNCHANGED pinned
    PROVE  [R!Next]_R!vars
<1>1. run \in [Runs -> RunState] /\ run[r] \in RunState
  BY DEF Inv, TypeOK
<1>2. PICK failed \in BOOLEAN : EndRemove(r, failed)
  <2>1. {FALSE, run[r].raced} \subseteq BOOLEAN
    BY <1>1 DEF RunState
  <2> QED BY <2>1 DEF RemoveAll
<1>3. run'[r] = [run[r] EXCEPT !.pc = Caller(@), !.cur = NoEntry, !.raced = FALSE,
                               !.bad = @ \/ failed]
  BY <1>1, <1>2, Actor DEF EndRemove
<1>4. run'[r].pc = Caller(run[r].pc) /\ run'[r].todo = run[r].todo
  BY <1>1, <1>3 DEF RunState
<1>5. run[r].pc \in {"recoverRemove", "drainRemove"}
  BY DEF RemoveAll, Removing
<1>6. Grants(r)' = Grants(r)
  BY <1>4, <1>5 DEF Grants, GrantLabels, ArmedLabels, Caller
<1>7. Granted' = Granted /\ pinned' = pinned
  BY <1>6, GrantedKept DEF ExecutorStep
<1>8. CASE run[r].cur \in Trees
  <2>1. PICK t \in Trees : Removing(r, t) /\ loc' = [loc EXCEPT ![t] = "gone"]
    BY <1>8 DEF RemoveAll
  <2>2. Out(t)
    BY <2>1 DEF Inv, Local, Owned, Removing
  <2>3. CASE Staged(t)
    BY <1>7, <2>1, <2>3 DEF R!Next, R!Erase, Staged
  <2>4. CASE Gone(t)
    <3>1. loc' = loc
      BY <2>1, <2>4 DEF Gone, Inv, TypeOK
    <3> QED BY <1>7, <3>1 DEF R!vars
  <2> QED BY <2>2, <2>3, <2>4 DEF Out
<1>9. CASE run[r].cur \notin Trees
  <2>1. loc' = loc
    BY <1>9 DEF RemoveAll
  <2> QED BY <1>7, <2>1 DEF R!vars
<1> QED BY <1>8, <1>9

LEMMA StageRenameRefines ==
    ASSUME Inv, NEW r \in Runs, StageRename(r), UNCHANGED pinned
    PROVE  R!Next
<1>1. run \in [Runs -> RunState] /\ run[r] \in RunState
  BY DEF Inv, TypeOK
<1>2. PICK t \in Trees :
        /\ FirstPlace(Home[t], run[r].todo)
        /\ InRoot(t)
        /\ loc' = [loc EXCEPT ![t] = "quarantine"]
        /\ Become(r, [run[r] EXCEPT !.pc = "append", !.cur = t, !.todo = @ \ {Home[t]}])
  BY DEF StageRename
<1>3. run'[r] = [run[r] EXCEPT !.pc = "append", !.cur = t, !.todo = @ \ {Home[t]}]
  BY <1>1, <1>2, Actor
<1>4. run'[r].pc = "append" /\ run'[r].todo = run[r].todo \ {Home[t]}
  BY <1>1, <1>3 DEF RunState
<1>5. Grants(r) = run[r].todo /\ Grants(r)' = run[r].todo \ {Home[t]}
  BY <1>4 DEF StageRename, At, Grants, GrantLabels, ArmedLabels
<1>6. Home[t] \in Granted
  BY <1>2, <1>5, GrantedIs DEF FirstPlace
<1>7. RunsOK(r) /\ \A q \in Runs : run[q] \in RunState
  BY ExecutorRuns DEF Inv, Shape, Local, TypeOK, ExecutorStep
<1>8. \A q \in Runs \ {r} : Grants(q)' = Grants(q)
  BY <1>7, BystanderKeeps DEF RunsOK, Grants
<1>9. Granted' = UNION {Grants(q)' : q \in Runs}
  BY DEF Granted, Grants
<1>10. Granted' \subseteq Granted /\ Granted \ {Home[t]} \subseteq Granted'
  BY <1>5, <1>8, <1>9, GrantedIs
<1>11. Granted' \in {Granted, Granted \ {Home[t]}}
  BY <1>10
<1>12. R!Take(t)
  BY <1>2, <1>6, <1>11 DEF R!Take, InRoot
<1> QED BY <1>12 DEF R!Next

LEMMA JudgeRefines ==
    ASSUME Inv, NEW r \in Runs, RunStep(r) \/ Start(r) \/ Crash(r),
           ~StageRename(r), ~RemoveAll(r)
    PROVE  R!Judge
<1>1. UNCHANGED <<loc, pinned>>
  BY DEF RunStep, Select, RunCommand, CommandsEnd, Report, Start, Load, Crash, ExecutorStep,
     RemoveSome, RemoveBlocked, Open, ListQuarantine, RecoverEntry, RecoverEnd,
     RecoverTruncate, VerifyMkdir, VerifyRename, VerifyUndo, VerifyClean, VerifyEnd,
       Expire, StageFail,
     StageEnd, AppendRecord, AppendNewline, DrainEntry, DrainEnd, DrainTruncate, Truncate,
     fsVars, worldVars
<1>2. Selected(r) \subseteq R!Grantable
  BY DEF Selected, Candidates, InRoot, Places, R!Grantable, R!Places
<1>3. Grants(r)' \subseteq Grants(r) \cup Selected(r)
  <2>1. CASE Start(r) \/ Crash(r)
    <3>1. run'[r].pc \in {"idle", "select"}
      <4>1. FreshRun.pc = "idle" /\ \A apply : [FreshRun EXCEPT !.pc = "select",
              !.gate = Gate(apply), !.beats = claimed, !.roots = NRoots,
              !.cmds = Commands[r]].pc = "select"
        BY DEF FreshRun
      <4> QED BY <2>1, <4>1, Actor DEF Start, Load, Crash, Inv, TypeOK
    <3> QED BY <3>1 DEF Grants, GrantLabels, ArmedLabels
  <2>2. CASE Select(r)
    BY <2>2, SelectLocal DEF Inv
  <2>3. CASE RunStep(r) /\ ~Select(r)
    BY <2>3, RunCommandLocal, CommandsEndLocal, ReportLocal,
       RemoveSomeLocal, RemoveBlockedLocal, OpenLocal, ListQuarantineLocal,
       RecoverEntryLocal, RecoverEndLocal, RecoverTruncateLocal, VerifyMkdirLocal,
       VerifyRenameLocal, VerifyUndoLocal, VerifyCleanLocal, VerifyEndLocal, ExpireLocal, StageFailLocal,
       StageEndLocal, AppendRecordLocal, AppendNewlineLocal, DrainEntryLocal,
       DrainEndLocal, DrainTruncateLocal DEF RunStep, ExecutorStep, Keeps, Inv
  <2> QED BY <2>1, <2>2, <2>3
<1>4. Granted' \subseteq Granted \cup (Grants(r) \cup Selected(r))
  BY <1>3, GrantedStep
<1>5. Grants(r) \subseteq Granted
  BY GrantedIs
<1>6. Granted' \subseteq Granted \cup R!Grantable
  BY <1>2, <1>4, <1>5
<1> QED BY <1>1, <1>6 DEF R!Judge

LEMMA NextRefines == Inv /\ [Next]_vars => [R!Next]_R!vars
<1> SUFFICES ASSUME Inv, [Next]_vars PROVE [R!Next]_R!vars
  OBVIOUS
<1>1. CASE \E r \in Runs : RunStep(r) \/ Start(r) \/ Crash(r)
  <2>1. PICK r \in Runs : RunStep(r) \/ Start(r) \/ Crash(r)
    BY <1>1
  <2>2. UNCHANGED pinned
    BY <2>1 DEF RunStep, Select, RunCommand, CommandsEnd, Report, Start, Load, Crash, worldVars
  <2>3. CASE StageRename(r)
    BY <2>3, <2>2, StageRenameRefines
  <2>4. CASE RemoveAll(r)
    BY <2>4, <2>2, RemoveAllRefines
  <2>5. CASE ~StageRename(r) /\ ~RemoveAll(r)
    BY <2>1, <2>5, JudgeRefines DEF R!Next
  <2> QED BY <2>3, <2>4, <2>5
<1>2. CASE (\E t \in Trees : Repair(t)) \/ (\E p \in Places : Heartbeat(p))
           \/ EditConfig \/ UNCHANGED vars
  <2>1. UNCHANGED <<loc, run, pinned>>
    BY <1>2 DEF Repair, Heartbeat, EditConfig, vars, fsVars, worldVars
  <2> QED BY <2>1 DEF R!vars, Granted
<1>3. CASE \E t \in Trees : Build(t)
  <2>1. PICK t \in Trees : Build(t)
    BY <1>3
  <2>2. R!Build(t)
    BY <2>1 DEF Build, R!Build, Granted, worldVars
  <2> QED BY <2>2 DEF R!Next
<1>4. CASE \E p \in Places : PinMarker(p)
  <2>1. R!Pin
    BY <1>4 DEF PinMarker, R!Pin, R!Places, Places, Granted, fsVars, Inv, TypeOK
  <2> QED BY <2>1 DEF R!Next
<1> QED BY <1>1, <1>2, <1>3, <1>4 DEF Next, World

\* A tree is taken whole, only while some run's unexpired judgement stands, and
\* is then only ever erased.
THEOREM TakingIsAsPromised == Spec => TakenAsPromised
<1>1. Init => R!Init
  <2> SUFFICES ASSUME Init PROVE R!Init
    OBVIOUS
  <2>1. FreshRun.pc = "idle"
    BY DEF FreshRun
  <2>2. Granted = {}
    BY <2>1 DEF Init, Granted, GrantLabels, ArmedLabels
  <2> QED BY <2>2 DEF Init, R!Init
<1> QED BY <1>1, NextRefines, InvAlways, PTL DEF Spec, TakenAsPromised, R!Safe
=============================================================================
