----------------------------- MODULE Heartbeat ------------------------------
(***************************************************************************)
(* The heartbeat contract (crates/reap-core/src/heartbeat.rs): supervisors *)
(* write one file per session and rewrite or touch it in time; a run of    *)
(* the program reads the directory once (context.rs), file by file while   *)
(* they go on writing, and then lets the guard (guard.rs, heartbeat) ask   *)
(* for each workspace whether a live session claims it.                    *)
(*                                                                         *)
(* Time is the age of each time stamp, against the clock, in the unit of   *)
(* interval_seconds; ages past the staleness bound count as one.  Every    *)
(* session names a workspace of its own, so a candidate is a session.      *)
(***************************************************************************)
EXTENDS Integers

CONSTANTS
    Sessions,
    Declared,     \* Declared[s]: interval_seconds in the file of session s
    Multiplier,   \* heartbeat_staleness_multiplier, a whole number here
    MaxLoad,      \* how long a run may take to read the directory
    WithPid,      \* sessions whose file names the pid of their job
    InPlace,      \* sessions whose file is truncated and rewritten in place;
                  \* that of the others is replaced or touched
    NamedAfter,   \* sessions whose workspace bears the session's id
    OrphanedOnly, \* sessions whose workspace an orphaned_only rule matched
    DirFails,     \* whether listing the directory may fail
    MaxBack       \* how often the clock may be set back by one

\* A zero interval would make every heartbeat instantly stale.
Interval(s) == IF Declared[s] = 0 THEN 1 ELSE Declared[s]

Bound(s) == Interval(s) * Multiplier

ASSUME HeartbeatOK ==
    /\ Declared \in [Sessions -> Nat]
    /\ Multiplier \in Nat \ {0}
    /\ MaxLoad \in Nat
    /\ WithPid \subseteq Sessions /\ InPlace \subseteq Sessions
    /\ NamedAfter \subseteq Sessions /\ OrphanedOnly \subseteq Sessions
    /\ DirFails \in BOOLEAN
    /\ MaxBack \in Nat

\* The multiplier leaves room for the time a run takes to read the directory.
ASSUME InTime == \A s \in Sessions : Interval(s) + MaxLoad < Bound(s)

VARIABLES
    super,      \* super[s]: what the supervisor of session s is doing
    job,        \* sessions whose file names the pid of a running job
    file,       \* file[s]: what stands under the name of session s
    back        \* times the clock was set back

worldVars == <<super, job, file, back>>

VARIABLES
    pc,         \* "idle", "stat", "read" or "judge"
    todo,       \* listed names not read yet
    mtime,      \* of the file being read: its session and the age of its mtime
    heard,      \* heard[s]: the entry of the index for s, or NotHeard
    readable,   \* HeartbeatIndex.unreadable is none
    load,       \* time since the directory was listed
    asked,      \* sessions whose workspace has been judged
    released    \* those no heartbeat stood in the way of

runVars == <<pc, todo, mtime, heard, readable, load, asked, released>>

\* For the properties: names of the last listing; sessions that have been
\* at work, by what the file says, ever since it was made.
VARIABLES listed, claimed

vars == <<worldVars, runVars, listed, claimed>>

\* The oldest age told apart, however the clock is still set back; also that of
\* SystemTime::UNIX_EPOCH.
Oldest(s) == Bound(s) + MaxBack - back
NoFile == [there |-> FALSE, whole |-> FALSE, touched |-> 0, stamped |-> 0]
Fresh(whole) == [there |-> TRUE, whole |-> whole, touched |-> 0, stamped |-> 0]
NotHeard == [heard |-> FALSE, readable |-> FALSE, age |-> 0]
Heard(readable_, age_) == [heard |-> TRUE, readable |-> readable_, age |-> age_]

Init ==
    /\ super = [s \in Sessions |-> "none"]
    /\ job = {}
    /\ file = [s \in Sessions |-> NoFile]
    /\ back = 0
    /\ pc = "idle"
    /\ todo = {} /\ listed = {} /\ claimed = {}
    /\ mtime = {}
    /\ heard = [s \in Sessions |-> NotHeard]
    /\ readable = TRUE
    /\ load = 0
    /\ asked = {} /\ released = {}

-----------------------------------------------------------------------------
(* Supervisors and jobs. *)

Running(s) == super[s] \in {"running", "writing"}

\* What the file promises: a supervisor that keeps it fresh, or a live pid.
AtWork(s) == Running(s) \/ s \in job

\* A session begins, or its file is rewritten: at once by a rename, or in place.
WriteFile(s) ==
    IF s \in InPlace
    THEN /\ file' = [file EXCEPT ![s] = Fresh(FALSE)]
         /\ super' = [super EXCEPT ![s] = "writing"]
    ELSE /\ file' = [file EXCEPT ![s] = Fresh(TRUE)]
         /\ super' = [super EXCEPT ![s] = "running"]

Begin(s) ==
    /\ super[s] = "none"
    /\ WriteFile(s)
    /\ job' = job \cup ({s} \cap WithPid)
    /\ UNCHANGED <<back, runVars, listed, claimed>>

Rewrite(s) ==
    /\ super[s] = "running"
    /\ WriteFile(s)
    /\ UNCHANGED <<job, back, runVars, listed, claimed>>

WriteDone(s) ==
    /\ super[s] = "writing"
    /\ file' = [file EXCEPT ![s] = Fresh(TRUE)]
    /\ super' = [super EXCEPT ![s] = "running"]
    /\ UNCHANGED <<job, back, runVars, listed, claimed>>

\* Or it touches the file and leaves the declared time as it was.
Touch(s) ==
    /\ super[s] = "running" /\ s \notin InPlace
    /\ file' = [file EXCEPT ![s].touched = 0]
    /\ UNCHANGED <<super, job, back, runVars, listed, claimed>>

\* The session ends in order, and its file is removed.
EndSession(s) ==
    /\ super[s] = "running"
    /\ super' = [super EXCEPT ![s] = "none"]
    /\ job' = job \ {s}
    /\ file' = [file EXCEPT ![s] = NoFile]
    /\ claimed' = claimed \ {s}
    /\ UNCHANGED <<back, runVars, listed>>

\* The supervisor dies without cleaning up; its job dies with it or carries on.
\* A file that was being written stays as it is.
SupervisorDies(s) ==
    /\ Running(s)
    /\ super' = [super EXCEPT ![s] = "dead"]
    /\ \/ job' = job \ {s}
       \/ UNCHANGED job
    /\ claimed' = IF s \in job' THEN claimed ELSE claimed \ {s}
    /\ UNCHANGED <<file, back, runVars, listed>>

JobDies(s) ==
    /\ super[s] = "dead" /\ s \in job
    /\ job' = job \ {s}
    /\ claimed' = claimed \ {s}
    /\ UNCHANGED <<super, file, back, runVars, listed>>

-----------------------------------------------------------------------------
(* The clock. *)

Loading == pc \in {"stat", "read"}

\* Age a of a stamp in the file of s, d later.
Aged(s, a, d) == IF a + d > Oldest(s) THEN Oldest(s) ELSE a + d

\* Every stamp ages; those a run holds only until it fixes its own time.
Pass(d) ==
    /\ file' = [s \in Sessions |->
                  IF ~file[s].there THEN NoFile
                  ELSE [file[s] EXCEPT !.touched = Aged(s, @, d), !.stamped = Aged(s, @, d)]]
    /\ heard' = [s \in Sessions |->
                   IF ~Loading \/ ~heard[s].heard THEN heard[s]
                   ELSE [heard[s] EXCEPT !.age = Aged(s, @, d)]]
    /\ mtime' = {[m EXCEPT !.age = Aged(m.session, @, d)] : m \in mtime}
    /\ UNCHANGED <<super, job, pc, todo, readable, asked, released, listed, claimed>>

\* A supervisor that is alive is in time, and the directory is not large.
Tick ==
    /\ \A s \in Sessions : Running(s) => super[s] = "running" /\ file[s].touched < Interval(s)
    /\ Loading => load < MaxLoad
    /\ load' = IF Loading THEN load + 1 ELSE load
    /\ Pass(1)
    /\ UNCHANGED back

\* The clock is set back: what was written just now lies in the future.
SetBack ==
    /\ back < MaxBack
    /\ back' = back + 1
    /\ Pass(-1)
    /\ UNCHANGED load

-----------------------------------------------------------------------------
(* A run reads the directory. *)

\* read_dir: the names there.  A directory that cannot be listed has no entries.
List ==
    /\ pc = "idle"
    /\ \/ /\ readable' = TRUE
          /\ listed' = {s \in Sessions : file[s].there}
       \/ /\ DirFails
          /\ readable' = FALSE
          /\ listed' = {}
    /\ todo' = listed'
    /\ claimed' = {s \in Sessions : AtWork(s)}
    /\ pc' = "stat"
    /\ UNCHANGED <<worldVars, mtime, heard, load, asked, released>>

\* read_one asks for the mtime first; a file that is gone by then has the epoch's.
Stat(s) ==
    /\ pc = "stat" /\ s \in todo
    /\ mtime' = {[session |-> s, age |-> IF file[s].there THEN file[s].touched ELSE Oldest(s)]}
    /\ pc' = "read"
    /\ UNCHANGED <<worldVars, todo, heard, readable, load, asked, released, listed, claimed>>

\* Mutant: the declared time wins over the file's mtime.
Newer_DeclaredWins(age, declared) == declared

\* updated_at: the newer of the file's mtime and the declared time.
Newer(age, declared) == IF declared < age THEN declared ELSE age

\* The entry for what is read under the name of s: a file that is missing, or
\* is no JSON, is an unreadable entry without paths.
EntryOf(s, age) ==
    IF file[s].there /\ file[s].whole
    THEN Heard(TRUE, Newer(age, file[s].stamped))
    ELSE Heard(FALSE, age)

\* The text is read after the mtime, and may be another file's by then.
Read ==
    /\ pc = "read"
    /\ \E m \in mtime :
          /\ heard' = [heard EXCEPT ![m.session] = EntryOf(m.session, m.age)]
          /\ todo' = todo \ {m.session}
    /\ mtime' = {}
    /\ pc' = "stat"
    /\ UNCHANGED <<worldVars, readable, load, asked, released, listed, claimed>>

\* All are read, and started_at is fixed: what counts of an age from here on is
\* its side of the bound.
Settled(s, a) == IF a < Bound(s) THEN 0 ELSE Bound(s)

Loaded ==
    /\ pc = "stat" /\ todo = {}
    /\ pc' = "judge"
    /\ heard' = [s \in Sessions |-> [heard[s] EXCEPT !.age = Settled(s, @)]]
    /\ load' = 0
    /\ UNCHANGED <<worldVars, todo, mtime, readable, asked, released, listed, claimed>>

-----------------------------------------------------------------------------
(* The heartbeat guard. *)

\* Mutant: a pid is enough, whether or not it is running.
IsLive_AnyPid(s) ==
    \/ ~heard[s].readable
    \/ s \in WithPid
    \/ heard[s].age < Bound(s)

\* Heartbeat::is_live.  The process table is asked at that moment.  A time in
\* the future counts as age zero.
IsLive(s) ==
    \/ ~heard[s].readable
    \/ s \in job
    \/ heard[s].age < Bound(s)

\* An unreadable entry names no path: it protects a directory of its name only.
Claims(s) ==
    /\ heard[s].heard
    /\ IsLive(s)
    /\ heard[s].readable \/ s \in NamedAfter

\* A rule that wants positive evidence is told when the directory was unreadable.
Passes(s) ==
    /\ ~Claims(s)
    /\ s \in OrphanedOnly => readable

Judge(s) ==
    /\ pc = "judge" /\ s \notin asked
    /\ asked' = asked \cup {s}
    /\ released' = IF Passes(s) THEN released \cup {s} ELSE released
    /\ UNCHANGED <<worldVars, pc, todo, mtime, heard, readable, load, listed, claimed>>

\* The process ends; a later one starts from nothing.
EndRun ==
    /\ pc = "judge" /\ asked = Sessions
    /\ pc' = "idle"
    /\ heard' = [s \in Sessions |-> NotHeard]
    /\ readable' = TRUE
    /\ asked' = {} /\ released' = {}
    /\ listed' = {} /\ claimed' = {}
    /\ UNCHANGED <<worldVars, todo, mtime, load>>

-----------------------------------------------------------------------------
Supervise(s) == Begin(s) \/ Rewrite(s) \/ WriteDone(s) \/ Touch(s) \/ EndSession(s)

Run == List \/ (\E s \in Sessions : Stat(s) \/ Judge(s)) \/ Read \/ Loaded \/ EndRun

Next ==
    \/ \E s \in Sessions : Supervise(s) \/ SupervisorDies(s) \/ JobDies(s)
    \/ Tick \/ SetBack
    \/ Run

\* Time goes on; a supervisor keeps its file fresh and completes a write; runs
\* are started again and again, and each takes its steps.
Fairness ==
    /\ SF_vars(Tick)
    /\ \A s \in Sessions : WF_vars(Rewrite(s) \/ WriteDone(s))
    /\ WF_vars(Run)

Spec == Init /\ [][Next]_vars /\ Fairness

-----------------------------------------------------------------------------
Ages(s) == -back .. Oldest(s)

\* The state has its type; what was listed and is not in the index is still to
\* be read, so that no claim is dropped on the way (HeartbeatIndex::load).
TypeOK ==
    /\ super \in [Sessions -> {"none", "running", "writing", "dead"}]
    /\ job \subseteq Sessions
    /\ \A s \in Sessions :
          /\ file[s] \in [there : BOOLEAN, whole : BOOLEAN, touched : Ages(s), stamped : Ages(s)]
          /\ heard[s] \in [heard : BOOLEAN, readable : BOOLEAN, age : Ages(s)]
    /\ back \in 0 .. MaxBack
    /\ pc \in {"idle", "stat", "read", "judge"}
    /\ \A m \in mtime : m.session \in todo /\ m.age \in Ages(m.session)
    /\ (mtime # {}) = (pc = "read")
    /\ load \in 0 .. MaxLoad
    /\ readable \in BOOLEAN
    /\ released \subseteq asked /\ asked \subseteq Sessions
    /\ claimed \subseteq Sessions
    /\ {s \in Sessions : heard[s].heard} = listed \ todo
    /\ todo \subseteq listed

\* A session that has been at work ever since the run listed the directory is
\* not released, however its file was rewritten, touched, read or left behind
\* meanwhile (heartbeat.rs, load and is_live; guard.rs, heartbeat).  Two cases
\* are without that promise: a directory that could not be listed, for a rule
\* that does not ask for orphans; and a file rewritten in place, torn when it
\* was read, whose session is not the workspace's name.
LiveClaimProtects ==
    \A s \in claimed :
        /\ readable \/ s \in OrphanedOnly
        /\ s \notin InPlace \/ s \in NamedAfter
        => s \notin released

\* What a dead session leaves behind does not protect its workspace for ever: a
\* run whose directory could be read releases it, or the directory fails for
\* good.  A file torn by the death of its writer is excepted, which protects
\* the directory of that name until somebody removes it.
Orphaned(s) == super[s] = "dead" /\ s \notin job /\ file[s].whole
OrphanIsReleased ==
    \A s \in Sessions : Orphaned(s) ~> (s \in released \/ ~readable)
=============================================================================
