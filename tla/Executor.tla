------------------------------ MODULE Executor ------------------------------
(***************************************************************************)
(* The executor (crates/reap-cli/src/executor.rs) and the quarantine       *)
(* directory it works through (quarantine.rs): the only code that removes  *)
(* anything.  Several runs of the program may be alive at once - the timer *)
(* fires a sweep while a supervisor calls gc-session - and nothing locks   *)
(* the quarantine, so every system call another process can observe is a   *)
(* step of its own.                                                        *)
(*                                                                         *)
(* A directory that a rule can match is a place, numbered in path order.   *)
(* Whatever is built there is a tree; when it has been taken away another  *)
(* tree may be built at the same place.  Home[t] is the place of tree t.   *)
(* A scratch directory of the rename test has a name that was never used   *)
(* before; here the lowest number no process can still have in hand.       *)
(***************************************************************************)
EXTENDS Naturals, Sequences

CONSTANTS
    Runs,       \* processes of the program
    Trees,      \* directory trees that are built and reclaimed
    Home,       \* Home[t]: the place tree t is built at
    NRoots,     \* declared roots that resolve, each one rename-tested
    NScratch,   \* bound on the scratch directories that are there at one time
    Limited,    \* whether max_run_seconds is other than zero
    Faults,     \* the system calls that may fail: a subset of FaultKinds
    NoEntry,    \* the value of run[r].cur when no entry is being worked on
    NL          \* the newline that ends a manifest record

FaultKinds == {"walk", "open", "listing", "mkdir", "test-rename", "rename",
               "cleanup", "append", "truncate", "command"}

Scratches == 1..NScratch

ASSUME ConstantsOK ==
    /\ Home \in [Trees -> Nat]
    /\ NRoots \in Nat
    /\ NScratch \in Nat \ {0}
    /\ Limited \in BOOLEAN
    /\ Faults \subseteq FaultKinds
    /\ Scratches \cap Trees = {}
    /\ NoEntry \notin Scratches \cup Trees
    /\ NL \notin Trees

VARIABLES
    loc,        \* loc[t]: where tree t is
    torn,       \* trees of which some part has been removed
    stubborn,   \* trees that cannot be removed whole for now: permissions in
                \* them, or a process that keeps writing into them
    scratch,    \* scratch[s]: where scratch directory s is
    litter,     \* whether a scratch directory was left in a root for good
    manifest,   \* the text of manifest.jsonl: records and newlines
    run         \* run[r]: the program counter and local state of run r

fsVars == <<loc, torn, stubborn, scratch, litter, manifest>>

Places  == {Home[t] : t \in Trees}
Entry   == Trees \cup Scratches
TreeLoc == {"unborn", "root", "quarantine", "gone"}

ExitSuccess == 0
ExitInternal == 1
ExitConfig == 2
ExitNothing == 3
ExitPartial == 4

Labels == {"idle", "select", "open", "list", "recover", "recoverRemove",
           "recoverTruncate", "verify", "verifyRename", "verifyUndo",
           "verifyClean", "stage", "append", "newline", "drain", "drainRemove",
           "drainTruncate", "command", "report", "done"}

\* Where a run may be only with both opt-ins given.
ArmedLabels == {"open", "list", "recover", "recoverRemove", "recoverTruncate",
                "verify", "verifyRename", "verifyUndo", "verifyClean", "stage",
                "append", "newline", "drain", "drainRemove", "drainTruncate", "command"}

Gates == {"closed", "not-requested", "config-dry", "armed"}

\* The local state of a run: that of Context and Selection, of sweep::execute,
\* of recover's, verify_rename's and drain's loops.
RunState ==
    [pc     : Labels,
     gate   : Gates,
     beats  : SUBSET Places,    \* claimed places, as read when the run began
     sel    : SUBSET Places,    \* those every guard let through
     todo   : SUBSET Places,    \* selected and not yet tried
     must   : SUBSET Entry,     \* recover: what the listing has still to return
     seen   : SUBSET Trees,     \* recover: the trees it has returned
     found  : BOOLEAN,          \* recover: whether it has returned anything
     cur    : Entry \cup {NoEntry},     \* being removed or tested, or just renamed
     raced  : BOOLEAN,          \* another process was at work on cur
     roots  : Nat,              \* roots still to be rename-tested
     staged : SUBSET Trees,     \* Executor.staged
     left   : SUBSET Trees,     \* drain: staged and not yet removed
     bad    : BOOLEAN,          \* RemoveStats.errors is not empty
     errs   : BOOLEAN,          \* the report's errors are not empty
     late   : BOOLEAN,          \* the time budget is exhausted
     cmds   : Nat,              \* command rules still to be run
     code   : ExitSuccess..ExitPartial]

\* What a process that has not started, or has crashed, remembers: nothing.
FreshRun ==
    [pc |-> "idle", gate |-> "closed", beats |-> {}, sel |-> {},
     todo |-> {}, must |-> {}, seen |-> {}, found |-> FALSE, cur |-> NoEntry,
     raced |-> FALSE, roots |-> 0, staged |-> {}, left |-> {}, bad |-> FALSE, errs |-> FALSE,
     late |-> FALSE, cmds |-> 0, code |-> ExitSuccess]

-----------------------------------------------------------------------------
(* The file system as the executor sees it. *)

InRoot(t) == loc[t] = "root"
Staged(t) == loc[t] = "quarantine"

\* The names a listing of the quarantine directory returns, the manifest left out.
QuarantineEntries ==
    {t \in Trees : Staged(t)} \cup {s \in Scratches : scratch[s] = "quarantine"}

\* Whether symlink_metadata finds the entry.
Present(e) == e \in QuarantineEntries

\* Run r goes on with local state s.
Become(r, s) == run' = [run EXCEPT ![r] = s]

Goto(r, label) == Become(r, [run[r] EXCEPT !.pc = label])

At(r, label) == run[r].pc = label

\* Whether a system call of this kind fails.
MayFail(kind) == IF kind \in Faults THEN BOOLEAN ELSE {FALSE}

\* An error that ends the run before its report: main prints it and exits 1.
Abort(r) == Become(r, [run[r] EXCEPT !.pc = "done", !.code = ExitInternal])

\* The staged directories are drained, and the candidates staged, in path order.
FirstPlace(p, S) == p \in S /\ \A x \in S : p <= x
FirstTree(t, S) == t \in S /\ \A u \in S : Home[t] <= Home[u]

-----------------------------------------------------------------------------
(* remove_tree, on the entry run[r].cur.  Errors are collected and the walk *)
(* goes on, so a pass ends in one of two ways: nothing is left, or something *)
(* that may not be removed is left and an error was recorded.  A pass that   *)
(* shares its tree with another process may also stumble over a name that    *)
(* process has just removed: an error although nothing is left.              *)

Removing(q, e) ==
    run[q].cur = e /\ run[q].pc \in {"recoverRemove", "drainRemove"}

\* Run r goes on with s, and every other run at work on entry e notices.
BecomeAt(r, s, e) ==
    run' = [q \in Runs |->
              IF q = r THEN s
              ELSE IF Removing(q, e) THEN [run[q] EXCEPT !.raced = TRUE]
              ELSE run[q]]

\* The walk of an entry that is there begins; label is where its steps happen.
BeginRemove(r, s, e, label) ==
    BecomeAt(r, [s EXCEPT !.pc = label, !.cur = e,
                          !.raced = \E q \in Runs \ {r} : Removing(q, e)], e)

\* Where a pass returns to.
Caller(label) == IF label = "recoverRemove" THEN "recover" ELSE "drain"

EndRemove(r, failed) ==
    Become(r, [run[r] EXCEPT !.pc = Caller(@), !.cur = NoEntry, !.raced = FALSE,
                             !.bad = @ \/ failed])

\* Part of the tree is unlinked and the walk goes on.
RemoveSome(r) ==
    /\ Removing(r, run[r].cur)
    /\ run[r].cur \in Trees \ torn
    /\ Staged(run[r].cur)
    /\ torn' = torn \cup {run[r].cur}
    /\ UNCHANGED <<loc, stubborn, scratch, litter, manifest, run>>

\* The last directory of the entry is removed, by this process or another.
RemoveAll(r) ==
    LET e == run[r].cur IN
    /\ Removing(r, e)
    /\ e \notin stubborn
    /\ \E failed \in {FALSE, run[r].raced} : EndRemove(r, failed)
    /\ IF e \in Trees
       THEN /\ loc' = [loc EXCEPT ![e] = "gone"]
            /\ torn' = torn \cup {e}
            /\ UNCHANGED scratch
       ELSE /\ scratch' = [scratch EXCEPT ![e] = "none"]
            /\ UNCHANGED <<loc, torn>>
    /\ UNCHANGED <<stubborn, litter, manifest>>

\* What could be removed is gone, the rest is left where it is.
RemoveBlocked(r) ==
    LET e == run[r].cur IN
    /\ Removing(r, e)
    /\ e \in stubborn
    /\ EndRemove(r, TRUE)
    /\ torn' \in {torn, torn \cup {e}}
    /\ UNCHANGED <<loc, stubborn, scratch, litter, manifest>>

-----------------------------------------------------------------------------
(* Executor::open, recover, truncate_manifest. *)

\* The quarantine directory is created and the manifest opened, or the run ends.
Open(r) ==
    /\ At(r, "open")
    /\ \/ Goto(r, "list")
       \/ "open" \in Faults /\ Abort(r)
    /\ UNCHANGED fsVars

\* read_dir of the quarantine; when it fails recovery has found nothing.
ListQuarantine(r) ==
    /\ At(r, "list")
    /\ \/ Become(r, [run[r] EXCEPT !.pc = "recover", !.must = QuarantineEntries])
       \/ "listing" \in Faults /\ Goto(r, "verify")
    /\ UNCHANGED fsVars

\* Mutant: recovery is skipped.
RecoverEntry_Skipped(r) ==
    /\ At(r, "recover")
    /\ run[r].must # {}
    /\ Become(r, [run[r] EXCEPT !.must = {}])
    /\ UNCHANGED fsVars

\* The next name of the listing, which is read as it goes.  A name that was there
\* when the directory was opened is returned, and one that appears meanwhile may
\* be.  A scratch directory does not outlive its turn, so one that is there
\* afterwards is another.
RecoverEntry(r) ==
    /\ At(r, "recover")
    /\ \E e \in run[r].must \cup (QuarantineEntries \ run[r].seen) :
          LET s == [run[r] EXCEPT !.must = @ \ {e}, !.seen = @ \cup ({e} \cap Trees),
                                  !.found = TRUE]
          IN  IF Present(e) THEN BeginRemove(r, s, e, "recoverRemove") ELSE Become(r, s)
    /\ UNCHANGED fsVars

\* The listing is at its end; an error of readdir ends it early and is dropped.
Listed(r) == run[r].must = {} \/ "listing" \in Faults

\* Mutant: recovery's errors do not reach the report.
RecoverEnd_ErrorsDropped(r) ==
    /\ At(r, "recover")
    /\ Listed(r)
    /\ Become(r, [run[r] EXCEPT !.pc = "recoverTruncate", !.must = {}, !.bad = FALSE])
    /\ UNCHANGED fsVars

\* Its errors join the report; if nothing was found nothing needs truncation.
RecoverEnd(r) ==
    /\ At(r, "recover")
    /\ Listed(r)
    /\ Become(r, [run[r] EXCEPT
           !.pc = IF run[r].found /\ ~run[r].bad THEN "recoverTruncate" ELSE "verify",
           !.must = {},
           !.errs = @ \/ run[r].bad,
           !.bad = FALSE])
    /\ UNCHANGED fsVars

\* File::create empties the file; a failure is only logged.
Truncate(r, from, to) ==
    /\ At(r, from)
    /\ Goto(r, to)
    /\ \/ manifest' = <<>>
       \/ "truncate" \in Faults /\ UNCHANGED manifest
    /\ UNCHANGED <<loc, torn, stubborn, scratch, litter>>

RecoverTruncate(r) == Truncate(r, "recoverTruncate", "verify")

-----------------------------------------------------------------------------
(* verify_rename of every root: a scratch directory is made in the root,     *)
(* renamed into quarantine and removed from whichever side it is on.         *)

\* A name nobody has in hand and no listing has still to return.
Unused(s) ==
    /\ s \in Scratches
    /\ scratch[s] = "none"
    /\ \A q \in Runs : run[q].cur # s /\ s \notin run[q].must

\* Mutant: the loop over the roots does not stop after the last one.
VerifyMkdir_PastTheLast(r) ==
    /\ At(r, "verify")
    /\ \E s \in Scratches :
          /\ Unused(s)
          /\ scratch' = [scratch EXCEPT ![s] = "root"]
          /\ Become(r, [run[r] EXCEPT !.pc = "verifyRename", !.cur = s])
    /\ UNCHANGED <<loc, torn, stubborn, litter, manifest>>

VerifyMkdir(r) ==
    /\ At(r, "verify")
    /\ run[r].roots > 0
    /\ \/ \E s \in Scratches :
             /\ Unused(s) /\ \A x \in Scratches : Unused(x) => s <= x
             /\ scratch' = [scratch EXCEPT ![s] = "root"]
             /\ Become(r, [run[r] EXCEPT !.pc = "verifyRename", !.cur = s])
       \/ /\ "mkdir" \in Faults
          /\ Abort(r)
          /\ UNCHANGED scratch
    /\ UNCHANGED <<loc, torn, stubborn, litter, manifest>>

VerifyRename(r) ==
    /\ At(r, "verifyRename")
    /\ \/ /\ Goto(r, "verifyClean")
          /\ scratch' = [scratch EXCEPT ![run[r].cur] = "quarantine"]
       \/ /\ "test-rename" \in Faults
          /\ Goto(r, "verifyUndo")
          /\ UNCHANGED scratch
    /\ UNCHANGED <<loc, torn, stubborn, litter, manifest>>

\* After a rename that failed the directory is removed from the root, and the
\* run ends.  If that removal fails too, nobody hears of it.
VerifyUndo(r) ==
    /\ At(r, "verifyUndo")
    /\ Become(r, [run[r] EXCEPT !.pc = "done", !.cur = NoEntry, !.code = ExitInternal])
    /\ \E kept \in MayFail("cleanup") : litter' = (litter \/ kept)
    /\ scratch' = [scratch EXCEPT ![run[r].cur] = "none"]
    /\ UNCHANGED <<loc, torn, stubborn, manifest>>

\* After one that worked it is removed from the quarantine, where another run's
\* recovery may have been before.  Errors of this removal are ignored as well.
VerifyClean(r) ==
    /\ At(r, "verifyClean")
    /\ BecomeAt(r, [run[r] EXCEPT !.pc = "verify", !.cur = NoEntry, !.roots = @ - 1],
                run[r].cur)
    /\ \/ scratch' = [scratch EXCEPT ![run[r].cur] = "none"]
       \/ "cleanup" \in Faults /\ UNCHANGED scratch
    /\ UNCHANGED <<loc, torn, stubborn, litter, manifest>>

VerifyEnd(r) ==
    /\ At(r, "verify")
    /\ run[r].roots = 0
    /\ Goto(r, "stage")
    /\ UNCHANGED fsVars

-----------------------------------------------------------------------------
(* The staging loop of sweep::execute and Executor::stage. *)

\* TimeBudget: elapsed() has reached the limit.  The flag is read only where
\* the loops ask for it, so it is only there that it may be raised.
Expire(r) ==
    /\ Limited
    /\ run[r].pc \in {"stage", "command"}
    /\ ~run[r].late
    /\ Become(r, [run[r] EXCEPT !.late = TRUE])
    /\ UNCHANGED fsVars

\* Mutant: when the rename would fail the tree is removed where it stands.
StageRename_InPlace(r) ==
    /\ At(r, "stage")
    /\ ~run[r].late
    /\ \E t \in Trees :
          /\ FirstPlace(Home[t], run[r].todo)
          /\ InRoot(t)
          /\ torn' = torn \cup {t}
          /\ loc' = IF t \in stubborn THEN loc ELSE [loc EXCEPT ![t] = "gone"]
          /\ Become(r, [run[r] EXCEPT !.todo = @ \ {Home[t]},
                                      !.errs = @ \/ t \in stubborn])
    /\ UNCHANGED <<stubborn, scratch, litter, manifest>>

\* The next selected place: whatever stands there now is renamed whole.
StageRename(r) ==
    /\ At(r, "stage")
    /\ ~run[r].late
    /\ \E t \in Trees :
          /\ FirstPlace(Home[t], run[r].todo)
          /\ InRoot(t)
          /\ loc' = [loc EXCEPT ![t] = "quarantine"]
          /\ Become(r, [run[r] EXCEPT !.pc = "append", !.cur = t,
                                      !.todo = @ \ {Home[t]}])
    /\ UNCHANGED <<torn, stubborn, scratch, litter, manifest>>

\* Mutant: a place whose rename fails is tried again.
StageFail_Retries(r) ==
    /\ At(r, "stage")
    /\ ~run[r].late
    /\ \E p \in run[r].todo :
          /\ FirstPlace(p, run[r].todo)
          /\ "rename" \in Faults \/ \A t \in Trees : InRoot(t) => Home[t] # p
          /\ Become(r, [run[r] EXCEPT !.errs = TRUE])
    /\ UNCHANGED fsVars

\* Mutant: a candidate that has vanished counts as staged by this run.
StageFail_CountsAsStaged(r) ==
    /\ At(r, "stage")
    /\ ~run[r].late
    /\ \E p \in run[r].todo :
          /\ FirstPlace(p, run[r].todo)
          /\ \A t \in Trees : InRoot(t) => Home[t] # p
          /\ Become(r, [run[r] EXCEPT
                 !.todo = @ \ {p},
                 !.staged = @ \cup {t \in Trees : Staged(t) /\ Home[t] = p}])
    /\ UNCHANGED fsVars

\* The rename fails: nothing is there any more, or the system refuses.
StageFail(r) ==
    /\ At(r, "stage")
    /\ ~run[r].late
    /\ \E p \in run[r].todo :
          /\ FirstPlace(p, run[r].todo)
          /\ "rename" \in Faults \/ \A t \in Trees : InRoot(t) => Home[t] # p
          /\ Become(r, [run[r] EXCEPT !.todo = @ \ {p}, !.errs = TRUE])
    /\ UNCHANGED fsVars

\* The loop ends when every selected place was tried, or when time is up.
StageEnd(r) ==
    /\ At(r, "stage")
    /\ run[r].todo = {} \/ run[r].late
    /\ Become(r, [run[r] EXCEPT !.pc = "drain", !.left = run[r].staged])
    /\ UNCHANGED fsVars

\* self.staged.push(dest), with the append done or given up.
PushStaged(r) ==
    Become(r, [run[r] EXCEPT !.pc = "stage", !.staged = @ \cup {run[r].cur},
                             !.cur = NoEntry])

\* writeln! on an unbuffered file: the record, then the newline, each its own
\* write.  A write that fails is logged and the staged tree kept.
AppendRecord(r) ==
    /\ At(r, "append")
    /\ \/ /\ Goto(r, "newline")
          /\ manifest' = Append(manifest, run[r].cur)
       \/ /\ "append" \in Faults
          /\ PushStaged(r)
          /\ UNCHANGED manifest
    /\ UNCHANGED <<loc, torn, stubborn, scratch, litter>>

AppendNewline(r) ==
    /\ At(r, "newline")
    /\ PushStaged(r)
    /\ \/ manifest' = Append(manifest, NL)
       \/ "append" \in Faults /\ UNCHANGED manifest
    /\ UNCHANGED <<loc, torn, stubborn, scratch, litter>>

-----------------------------------------------------------------------------
(* Executor::drain. *)

DrainEntry(r) ==
    /\ At(r, "drain")
    /\ \E t \in run[r].left :
          /\ FirstTree(t, run[r].left)
          /\ LET s == [run[r] EXCEPT !.left = @ \ {t}] IN
             IF Present(t) THEN BeginRemove(r, s, t, "drainRemove") ELSE Become(r, s)
    /\ UNCHANGED fsVars

\* Mutant: what drain could not remove is not reported.
DrainEnd_ErrorsDropped(r) ==
    /\ At(r, "drain")
    /\ run[r].left = {}
    /\ Become(r, [run[r] EXCEPT !.pc = "drainTruncate", !.bad = FALSE])
    /\ UNCHANGED fsVars

\* Mutant: drain leaves the manifest alone.
DrainEnd_NoTruncate(r) ==
    /\ At(r, "drain")
    /\ run[r].left = {}
    /\ Become(r, [run[r] EXCEPT !.pc = "command", !.errs = @ \/ run[r].bad,
                                !.bad = FALSE])
    /\ UNCHANGED fsVars

\* The manifest is emptied when nothing this run staged is left.
DrainEnd(r) ==
    /\ At(r, "drain")
    /\ run[r].left = {}
    /\ Become(r, [run[r] EXCEPT
           !.pc = IF run[r].bad THEN "command" ELSE "drainTruncate",
           !.errs = @ \/ run[r].bad,
           !.bad = FALSE])
    /\ UNCHANGED fsVars

DrainTruncate(r) == Truncate(r, "drainTruncate", "command")

ExecutorStep(r) ==
    \/ RemoveSome(r) \/ RemoveAll(r) \/ RemoveBlocked(r)
    \/ Open(r) \/ ListQuarantine(r)
    \/ RecoverEntry(r) \/ RecoverEnd(r) \/ RecoverTruncate(r)
    \/ VerifyMkdir(r) \/ VerifyRename(r) \/ VerifyUndo(r)
    \/ VerifyClean(r) \/ VerifyEnd(r)
    \/ Expire(r) \/ StageRename(r) \/ StageFail(r) \/ StageEnd(r)
    \/ AppendRecord(r) \/ AppendNewline(r)
    \/ DrainEntry(r) \/ DrainEnd(r) \/ DrainTruncate(r)
=============================================================================
