----------------------------- MODULE Scheduler ------------------------------
(***************************************************************************)
(* `reap install` and `reap uninstall` (commands/install.rs) against the   *)
(* service manager whose unit files they write (scheduler.rs), and the     *)
(* runs that the manager then starts.  One action for each file operation  *)
(* and each command; the person may kill the program in between, log out   *)
(* and in again, and edit the configuration.                               *)
(*                                                                         *)
(* What the commands of the service managers do is external.  `--dry-run`  *)
(* prints the plan and changes nothing: it is no step here.                *)
(***************************************************************************)
EXTENDS Naturals, Sequences

CONSTANTS
    Managers,   \* the service managers to look at: "systemd", "launchd"
    Configs,    \* contents of the configuration file that load
    Broken,     \* and one that does not
    Hourly,     \* the text of the timer
    Absent,     \* no file
    Torn        \* an empty file

ASSUME SchedulerOK ==
    /\ Managers \subseteq {"systemd", "launchd"}
    /\ Broken \notin Configs
    /\ Torn # Absent /\ Hourly \notin {Absent, Torn}
    /\ {Hourly, Absent, Torn} \cap Configs = {}

VARIABLES
    manager,    \* the service manager of this machine
    config,     \* what the configuration file says
    file,       \* file[u]: what stands in unit file u
    cmd,        \* the install or uninstall at work, or what the last one said
    linked,     \* the timer is enabled for the next login
    active,     \* the timer, or the agent, is armed
    loaded,     \* loaded[u]: unit u as the manager has it in memory
    job         \* whether a scheduled run is at work

diskVars == <<manager, config, file>>
managerVars == <<linked, active, loaded>>
vars == <<diskVars, cmd, managerVars, job>>

Whole(text) == text \notin {Absent, Torn}

-----------------------------------------------------------------------------
(* The plan: scheduler.rs. *)

Units == IF manager = "systemd" THEN <<"service", "timer">> ELSE <<"plist">>

\* The unit that carries the command line, and the one that carries the time.
JobUnit == Units[1]
TimeUnit == Units[Len(Units)]

\* The command line, target and writable paths come from the configuration as it
\* is read by install; the text of the timer is fixed.
Text(unit, plan) == IF unit = "timer" THEN Hourly ELSE plan

\* Mutant: the manager is not told to read the unit files again.
Activate_NoReload == IF manager = "systemd" THEN <<"enable">> ELSE <<"bootstrap">>

\* Mutant: the timer is started, not enabled.
Activate_StartOnly ==
    IF manager = "systemd" THEN <<"reload", "start">> ELSE <<"bootstrap">>

Activate ==
    IF manager = "systemd" THEN <<"reload", "enable">> ELSE <<"bootstrap">>

\* Mutant: stopped, and back at the next login.
Deactivate_StopOnly ==
    IF manager = "systemd" THEN <<"stop", "reload">> ELSE <<"bootout">>

Deactivate ==
    IF manager = "systemd" THEN <<"disable", "reload">> ELSE <<"bootout">>

-----------------------------------------------------------------------------
(* The service manager. *)

\* A unit that is not in memory is read when it is wanted.
Known(unit) == IF loaded[unit] # Absent THEN loaded[unit] ELSE file[unit]

\* The commands: "reload" is `systemctl --user daemon-reload`, "enable" and "disable"
\* are `enable --now` and `disable --now`, the others are what they say.  Whether
\* there is anything for one to do.
Applies(command) ==
    CASE command = "reload" -> TRUE
      [] command = "enable" -> Whole(file["timer"])
      [] command = "start" -> Whole(Known("timer"))
      [] command = "disable" -> linked \/ active \/ file["timer"] # Absent
      [] command = "stop" -> active
      [] command = "bootstrap" -> Whole(file["plist"]) /\ loaded["plist"] = Absent
      [] command = "bootout" -> loaded["plist"] # Absent

Done(command) ==
    /\ linked' = CASE command = "enable" -> TRUE
                   [] command = "disable" -> FALSE
                   [] OTHER -> linked
    /\ active' = CASE command \in {"enable", "start", "bootstrap"} -> TRUE
                   [] command \in {"disable", "stop", "bootout"} -> FALSE
                   [] OTHER -> active
    /\ loaded' = CASE command \in {"reload", "bootstrap"} -> file
                   [] command \in {"enable", "start"} ->
                        [loaded EXCEPT !["timer"] = Known("timer")]
                   [] command = "bootout" -> [u \in DOMAIN loaded |-> Absent]
                   [] OTHER -> loaded

\* A command that fails has done nothing, or the first half of two things.
Failed(command) ==
    \/ UNCHANGED managerVars
    \/ /\ command \in {"enable", "disable"}
       /\ linked' = (command = "enable")
       /\ UNCHANGED <<active, loaded>>

\* The time has come.
Fire ==
    /\ active /\ ~job
    /\ Whole(Known(JobUnit)) /\ Whole(Known(TimeUnit))
    /\ job' = TRUE
    /\ UNCHANGED <<diskVars, cmd, managerVars>>

JobEnds ==
    /\ job
    /\ job' = FALSE
    /\ UNCHANGED <<diskVars, cmd, managerVars>>

-----------------------------------------------------------------------------
(* The two commands. *)

Exit == [success |-> 0, internal |-> 1, config |-> 2, partial |-> 4]

Idle == [op |-> "none", pc |-> "idle", plan |-> Absent, unit |-> 1, todo |-> <<>>,
         failures |-> 0, refused |-> FALSE, code |-> Exit.success]

AtRest == cmd.pc \in {"idle", "done"}

Ends(code) == cmd' = [cmd EXCEPT !.pc = "done", !.code = code]

\* The configuration is loaded and the plan is built, for uninstall too; without a
\* home or with both managers asked for there is none.
Begin(op) ==
    /\ AtRest
    /\ \/ /\ config # Broken
          /\ cmd' = [Idle EXCEPT
                       !.op = op,
                       !.pc = IF op = "install" THEN "open" ELSE "run",
                       !.plan = config,
                       !.todo = IF op = "install" THEN Activate ELSE Deactivate]
       \/ cmd' = [Idle EXCEPT
                     !.op = op,
                     !.pc = "done",
                     !.code = IF config = Broken THEN Exit.config ELSE Exit.internal]
    /\ UNCHANGED <<diskVars, managerVars, job>>

\* create_dir_all, and the first half of fs::write: the file is there and empty.
OpenUnit ==
    /\ cmd.pc = "open"
    /\ \/ /\ file' = [file EXCEPT ![Units[cmd.unit]] = Torn]
          /\ cmd' = [cmd EXCEPT !.pc = "write"]
       \/ /\ Ends(Exit.internal)
          /\ UNCHANGED file
    /\ UNCHANGED <<manager, config, managerVars, job>>

\* The second half; an error is returned at once.
WriteUnit ==
    /\ cmd.pc = "write"
    /\ \/ /\ file' = [file EXCEPT ![Units[cmd.unit]] = Text(Units[cmd.unit], cmd.plan)]
          /\ IF cmd.unit = Len(Units)
             THEN cmd' = [cmd EXCEPT !.pc = "run"]
             ELSE cmd' = [cmd EXCEPT !.unit = @ + 1, !.pc = "open"]
       \/ /\ Ends(Exit.internal)
          /\ UNCHANGED file
    /\ UNCHANGED <<manager, config, managerVars, job>>

\* install counts what fails, uninstall does not ask.  `refused` is for the
\* properties: the manager had something to do and did not do it.
RunCommand ==
    /\ cmd.pc = "run" /\ cmd.todo # <<>>
    /\ LET command == Head(cmd.todo) IN
       \/ /\ Applies(command)
          /\ Done(command)
          /\ cmd' = [cmd EXCEPT !.todo = Tail(@)]
       \/ /\ Failed(command)
          /\ cmd' = [cmd EXCEPT
                        !.todo = Tail(@),
                        !.failures = IF cmd.op = "install" THEN @ + 1 ELSE @,
                        !.refused = @ \/ Applies(command)]
    /\ UNCHANGED <<diskVars, job>>

RunEnd ==
    /\ cmd.pc = "run" /\ cmd.todo = <<>>
    /\ IF cmd.op = "install"
       THEN Ends(IF cmd.failures = 0 THEN Exit.success ELSE Exit.partial)
       ELSE cmd' = [cmd EXCEPT !.pc = "remove"]
    /\ UNCHANGED <<diskVars, managerVars, job>>

\* remove_file; an error is printed and stepped over, and the code is 0.
RemoveUnit ==
    /\ cmd.pc = "remove"
    /\ LET unit == Units[cmd.unit]
           rest == IF cmd.unit = Len(Units)
                   THEN [cmd EXCEPT !.pc = "done"]
                   ELSE [cmd EXCEPT !.unit = @ + 1]
       IN \/ /\ file' = [file EXCEPT ![unit] = Absent]
             /\ cmd' = rest
          \/ /\ file[unit] # Absent
             /\ cmd' = [rest EXCEPT !.refused = TRUE]
             /\ UNCHANGED file
    /\ UNCHANGED <<manager, config, managerVars, job>>

Step == OpenUnit \/ WriteUnit \/ RunCommand \/ RunEnd \/ RemoveUnit

-----------------------------------------------------------------------------
(* The person and the machine. *)

Kill ==
    /\ ~AtRest
    /\ cmd' = Idle
    /\ UNCHANGED <<diskVars, managerVars, job>>

EditConfig ==
    /\ config' \in (Configs \cup {Broken}) \ {config}
    /\ UNCHANGED <<manager, file, cmd, managerVars, job>>

\* The manager starts anew: it reads the files, arms an enabled timer, and
\* bootstraps every agent in its directory.
Login ==
    /\ loaded' = file
    /\ active' = (Whole(file[TimeUnit]) /\ (manager = "systemd" => linked))
    /\ cmd' = IF AtRest THEN cmd ELSE Idle
    /\ job' = FALSE
    /\ UNCHANGED <<diskVars, linked>>

Init ==
    /\ manager \in Managers
    /\ config \in Configs
    /\ file = [u \in {Units[i] : i \in DOMAIN Units} |-> Absent]
    /\ cmd = Idle
    /\ linked = FALSE /\ active = FALSE
    /\ loaded = file
    /\ job = FALSE

Next ==
    \/ \E op \in {"install", "uninstall"} : Begin(op)
    \/ Step
    \/ Kill \/ EditConfig \/ Login
    \/ Fire \/ JobEnds

\* The manager keeps time, and a run ends.
Spec == Init /\ [][Next]_vars /\ WF_vars(Fire) /\ WF_vars(JobEnds)

-----------------------------------------------------------------------------
Texts == Configs \cup {Hourly, Absent, Torn}
Commands == {"reload", "enable", "disable", "start", "stop",
             "bootstrap", "bootout"}

\* The state has its type, and both loops stay within the list of units.
TypeOK ==
    /\ manager \in Managers
    /\ config \in Configs \cup {Broken}
    /\ file \in [{Units[i] : i \in DOMAIN Units} -> Texts]
    /\ loaded \in [DOMAIN file -> Texts]
    /\ linked \in BOOLEAN /\ active \in BOOLEAN
    /\ job \in BOOLEAN
    /\ cmd.op \in {"none", "install", "uninstall"}
    /\ cmd.pc \in {"idle", "open", "write", "run", "remove", "done"}
    /\ cmd.plan \in Configs \cup {Absent}
    /\ cmd.unit \in DOMAIN Units
    /\ cmd.todo \in Seq(Commands)
    /\ cmd.failures \in 0 .. 2
    /\ cmd.code \in {Exit.success, Exit.internal, Exit.config, Exit.partial}

Said(op, code) == cmd.pc = "done" /\ cmd.op = op /\ cmd.code = code

\* What install said holds until the next command: after code 0 the manager has
\* the unit just written, not an earlier one, and the timer is armed, also after
\* the next login; after code 4 the unit files are in place (install.rs:147-169).
InstallTellsTheTruth ==
    /\ Said("install", Exit.success) =>
          /\ active
          /\ manager = "systemd" => linked
          /\ Known(JobUnit) = cmd.plan /\ Whole(Known(TimeUnit))
    /\ Said("install", Exit.success) \/ Said("install", Exit.partial) =>
          \A u \in DOMAIN file : file[u] = Text(u, cmd.plan)

\* After an uninstall in which every command that had something to do and every
\* removal succeeded, nothing fires any more, also after the next login, however
\* earlier installs and uninstalls ended (install.rs, uninstall).
UninstallEndsFiring ==
    Said("uninstall", Exit.success) /\ ~cmd.refused =>
        /\ ~active /\ ~linked
        /\ \A u \in DOMAIN file : file[u] = Absent

\* Once an install has ended with 0, and as long as no other command is called,
\* runs are started again and again, through logins and edits of the
\* configuration: what the fairness of module Sweep takes for granted.
InstalledKeepsFiring ==
    <>[]Said("install", Exit.success) => []<>job
=============================================================================
