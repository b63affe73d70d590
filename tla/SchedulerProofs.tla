-------------------------- MODULE SchedulerProofs ---------------------------
(***************************************************************************)
(* Proofs about module Scheduler: what install and uninstall say is true,  *)
(* for both service managers, any configurations and whatever was killed,  *)
(* refused or edited before.                                               *)
(***************************************************************************)
EXTENDS Scheduler, TLAPS

-----------------------------------------------------------------------------
(* The inductive invariant. *)

UnitNames == {Units[i] : i \in DOMAIN Units}

Todos == {<<>>, <<"reload", "enable">>, <<"enable">>,
          <<"disable", "reload">>, <<"reload">>,
          <<"bootstrap">>, <<"bootout">>}

CmdType ==
    [op : {"none", "install", "uninstall"},
     pc : {"idle", "open", "write", "run", "remove", "done"},
     plan : Configs \cup {Absent}, unit : DOMAIN Units, todo : Todos,
     failures : 0 .. 2, refused : BOOLEAN,
     code : {Exit.success, Exit.internal, Exit.config, Exit.partial}]

Typed ==
    /\ manager \in {"systemd", "launchd"} /\ manager \in Managers
    /\ config \in Configs \cup {Broken}
    /\ file \in [UnitNames -> Texts] /\ loaded \in [UnitNames -> Texts]
    /\ linked \in BOOLEAN /\ active \in BOOLEAN /\ job \in BOOLEAN
    /\ cmd \in CmdType

\* Which command is where.
Placed ==
    /\ cmd.pc \in {"open", "write"} => cmd.op = "install"
    /\ cmd.pc = "run" => cmd.op \in {"install", "uninstall"}
    /\ cmd.pc = "remove" => cmd.op = "uninstall"

AllWritten == cmd.plan \in Configs /\ \A u \in UnitNames : file[u] = Text(u, cmd.plan)

\* The manager has the files in memory, and fires.
Armed == loaded = file /\ active /\ (manager = "systemd" => linked)

\* Units before the one under way are written.
Writing ==
    cmd.op = "install" /\ cmd.pc \in {"open", "write"} =>
        /\ cmd.plan \in Configs /\ cmd.todo = Activate /\ cmd.failures = 0
        /\ \A i \in DOMAIN Units : i < cmd.unit => file[Units[i]] = Text(Units[i], cmd.plan)

\* As long as no command has failed, each has done its part.
Activating ==
    cmd.op = "install" /\ cmd.pc = "run" =>
        /\ AllWritten
        /\ manager = "systemd" =>
              \/ cmd.todo = <<"reload", "enable">> /\ cmd.failures = 0
              \/ /\ cmd.todo = <<"enable">> /\ cmd.failures \in 0 .. 1
                 /\ cmd.failures = 0 => loaded = file
              \/ cmd.todo = <<>> /\ (cmd.failures = 0 => Armed)
        /\ manager = "launchd" =>
              \/ cmd.todo = <<"bootstrap">> /\ cmd.failures = 0
              \/ cmd.todo = <<>> /\ (cmd.failures = 0 => Armed)

Activated ==
    cmd.op = "install" /\ cmd.pc = "done" =>
        /\ cmd.code \in {Exit.success, Exit.partial} => AllWritten
        /\ cmd.code = Exit.success => Armed

\* The manager fires nothing, now or after a login.
Disarmed == ~active /\ ~linked

Deactivating ==
    cmd.op = "uninstall" /\ cmd.pc = "run" =>
        /\ cmd.unit = 1 /\ cmd.code = Exit.success
        /\ manager = "systemd" =>
              \/ cmd.todo = <<"disable", "reload">>
              \/ cmd.todo \in {<<"reload">>, <<>>} /\ (~cmd.refused => Disarmed)
        /\ manager = "launchd" =>
              \/ cmd.todo = <<"bootout">>
              \/ cmd.todo = <<>> /\ (~cmd.refused => Disarmed)

Removing ==
    cmd.op = "uninstall" /\ cmd.pc = "remove" /\ ~cmd.refused =>
        /\ Disarmed
        /\ \A i \in DOMAIN Units : i < cmd.unit => file[Units[i]] = Absent

Deactivated ==
    cmd.op = "uninstall" /\ cmd.pc = "done" /\ cmd.code = Exit.success /\ ~cmd.refused =>
        Disarmed /\ \A u \in UnitNames : file[u] = Absent

\* launchd enables nothing, and what it fires it has in memory.
Agent == manager = "launchd" => ~linked /\ (active => loaded["plist"] # Absent)

Inv ==
    /\ Typed /\ Placed /\ Agent
    /\ Writing /\ Activating /\ Activated
    /\ Deactivating /\ Removing /\ Deactivated

-----------------------------------------------------------------------------
(* The units of each manager. *)

LEMMA UnitsOf ==
    /\ manager = "systemd" =>
          /\ Units = <<"service", "timer">> /\ Len(Units) = 2 /\ DOMAIN Units = {1, 2}
          /\ Units[1] = "service" /\ Units[2] = "timer"
          /\ UnitNames = {"service", "timer"}
          /\ JobUnit = "service" /\ TimeUnit = "timer"
    /\ manager = "launchd" =>
          /\ Units = <<"plist">> /\ Len(Units) = 1 /\ DOMAIN Units = {1}
          /\ Units[1] = "plist"
          /\ UnitNames = {"plist"}
          /\ JobUnit = "plist" /\ TimeUnit = "plist"
BY DEF Units, UnitNames, JobUnit, TimeUnit

\* The exit codes are four.
LEMMA Codes ==
    /\ Exit.success = 0 /\ Exit.internal = 1 /\ Exit.config = 2 /\ Exit.partial = 4
BY DEF Exit

\* What is written is whole.
LEMMA TextIsWhole ==
    ASSUME NEW plan \in Configs, NEW u
    PROVE  /\ Text(u, plan) \in Texts /\ Whole(Text(u, plan)) /\ Text(u, plan) # Absent
           /\ u # "timer" => Text(u, plan) = plan
BY SchedulerOK DEF Text, Texts, Whole

\* Short lists, and what is left of them.
LEMMA Single ==
    ASSUME NEW a
    PROVE  Head(<<a>>) = a /\ Tail(<<a>>) = <<>> /\ <<a>> # <<>>
OBVIOUS

LEMMA Pair ==
    ASSUME NEW a, NEW b
    PROVE  Head(<<a, b>>) = a /\ Tail(<<a, b>>) = <<b>> /\ <<a, b>> # <<>>
<1>1. Head(<<a, b>>) = a /\ <<a, b>> # <<>>
  OBVIOUS
<1>2. Tail(<<a, b>>) = <<b>>
  OBVIOUS
<1> QED BY <1>1, <1>2

LEMMA Apart ==
    /\ <<"reload", "enable">> \notin {<<"enable">>, <<"bootstrap">>, <<>>}
    /\ <<"enable">> \notin {<<"bootstrap">>, <<>>}
    /\ <<"bootstrap">> # <<>>
    /\ <<"disable", "reload">> \notin {<<"reload">>, <<"bootout">>, <<>>}
    /\ <<"reload">> \notin {<<"bootout">>, <<>>}
    /\ <<"bootout">> # <<>>
<1>1. \A a, b, c : <<a, b>> # <<c>>
  OBVIOUS
<1>2. \A a, c : <<a>> = <<c>> => a = c
  OBVIOUS
<1>3. /\ "enable" # "bootstrap" /\ "reload" # "bootout"
  OBVIOUS
<1> QED BY <1>1, <1>2, <1>3, Single, Pair

-----------------------------------------------------------------------------
(* The first state, and the steps that leave the command alone. *)

LEMMA InitInv == Init => Inv
<1> SUFFICES ASSUME Init PROVE Inv
  OBVIOUS
<1>1. cmd.pc = "idle" /\ cmd.op = "none"
  BY DEF Init, Idle
<1>2. manager \in {"systemd", "launchd"}
  BY SchedulerOK DEF Init
<1>3. Idle \in CmdType
  BY <1>2, UnitsOf, Codes DEF Idle, CmdType, Todos
<1>4. Typed
  BY <1>2, <1>3 DEF Init, Typed, UnitNames, Texts
<1> QED BY <1>1, <1>4 DEF Init, Inv, Placed, Agent, Writing, Activating, Activated,
                         Deactivating, Removing, Deactivated

\* What depends on the service manager alone.
LEMMA SameManager ==
    ASSUME manager' = manager
    PROVE  /\ Units' = Units /\ UnitNames' = UnitNames /\ CmdType' = CmdType
           /\ Activate' = Activate /\ Deactivate' = Deactivate
           /\ JobUnit' = JobUnit /\ TimeUnit' = TimeUnit
BY DEF Units, UnitNames, CmdType, Activate, Deactivate, JobUnit, TimeUnit

\* Steps of the configuration's editor, of the timer and of the run it starts.
LEMMA Elsewhere ==
    ASSUME Inv, UNCHANGED <<manager, file, cmd, linked, active, loaded>>,
           config' \in Configs \cup {Broken}, job' \in BOOLEAN
    PROVE  Inv'
<1>1. UnitNames' = UnitNames /\ CmdType' = CmdType /\ Units' = Units /\ Activate' = Activate
  BY SameManager
<1>2. Typed' /\ Placed' /\ Agent'
  BY <1>1 DEF Inv, Typed, Placed, Agent
<1>3. AllWritten' = AllWritten /\ Armed' = Armed /\ Disarmed' = Disarmed
  BY <1>1 DEF AllWritten, Armed, Disarmed, Text
<1>4. Writing'
  BY <1>1 DEF Inv, Writing, Text
<1>5. Activating' /\ Activated'
  BY <1>3 DEF Inv, Activating, Activated
<1>6. Deactivating' /\ Removing' /\ Deactivated'
  BY <1>1, <1>3 DEF Inv, Deactivating, Removing, Deactivated
<1> QED BY <1>2, <1>4, <1>5, <1>6 DEF Inv

LEMMA OtherSteps ==
    ASSUME Inv, Fire \/ JobEnds \/ EditConfig \/ UNCHANGED vars
    PROVE  Inv'
BY Elsewhere DEF Fire, JobEnds, EditConfig, vars, diskVars, managerVars, Inv, Typed

LEMMA KillStep ==
    ASSUME Inv, Kill
    PROVE  Inv'
<1>1. manager \in {"systemd", "launchd"} /\ UNCHANGED <<diskVars, managerVars, job>>
  BY DEF Inv, Typed, Kill
<1>2. CmdType' = CmdType /\ UnitNames' = UnitNames
  BY <1>1, SameManager DEF diskVars
<1>3. Idle \in CmdType
  BY <1>1, UnitsOf, Codes DEF Idle, CmdType, Todos
<1>4. cmd' = Idle /\ cmd'.pc = "idle" /\ cmd'.op = "none"
  BY DEF Kill, Idle
<1>5. Typed'
  BY <1>1, <1>2, <1>3, <1>4 DEF Inv, Typed, diskVars, managerVars
<1> QED BY <1>1, <1>4, <1>5 DEF Inv, diskVars, managerVars, Placed, Agent, Writing, Activating,
                         Activated, Deactivating, Removing, Deactivated

\* At a login an enabled timer with its unit is armed anew, and nothing else.
LEMMA LoginStep ==
    ASSUME Inv, Login
    PROVE  Inv'
<1>1. /\ manager \in {"systemd", "launchd"} /\ UNCHANGED <<manager, config, file, linked>>
      /\ loaded' = file /\ job' = FALSE
      /\ active' = (Whole(file[TimeUnit]) /\ (manager = "systemd" => linked))
  BY DEF Inv, Typed, Login, diskVars
<1>2. CmdType' = CmdType /\ UnitNames' = UnitNames
  BY <1>1, SameManager
<1>3. Idle \in CmdType /\ Idle.pc = "idle" /\ Idle.op = "none"
  BY <1>1, UnitsOf, Codes DEF Idle, CmdType, Todos
<1>4. \/ cmd' = Idle
      \/ cmd' = cmd /\ cmd.pc \in {"idle", "done"}
  BY DEF Login, AtRest
<1>5. active' \in BOOLEAN
  BY <1>1 DEF Inv, Typed, Whole
<1>6. Typed' /\ Placed'
  BY <1>1, <1>2, <1>3, <1>4, <1>5 DEF Inv, Typed, Placed
<1>7. Agent'
  BY <1>1, UnitsOf DEF Inv, Agent, Whole
<1>8. Activated'
  <2> SUFFICES ASSUME cmd'.op = "install", cmd'.pc = "done"
               PROVE  /\ cmd'.code \in {Exit.success, Exit.partial} => AllWritten'
                      /\ cmd'.code = Exit.success => Armed'
    BY DEF Activated
  <2>1. cmd' = cmd
    BY <1>3, <1>4
  <2>2. AllWritten' = AllWritten
    BY <1>1, <1>2, <2>1 DEF AllWritten, Text
  <2>3. ASSUME AllWritten, Armed PROVE Armed'
    <3>1. TimeUnit \in UnitNames
      BY <1>1, UnitsOf
    <3>2. Whole(file[TimeUnit])
      BY <2>3, <3>1, TextIsWhole DEF AllWritten
    <3> QED BY <1>1, <2>3, <3>2 DEF Armed
  <2> QED BY <2>1, <2>2, <2>3 DEF Inv, Activated
<1>9. Deactivated'
  <2> SUFFICES ASSUME cmd'.op = "uninstall", cmd'.pc = "done", cmd'.code = Exit.success,
                      ~cmd'.refused
               PROVE  Disarmed' /\ \A u \in UnitNames' : file'[u] = Absent
    BY DEF Deactivated
  <2>1. cmd' = cmd
    BY <1>3, <1>4
  <2>2. Disarmed /\ \A u \in UnitNames : file[u] = Absent
    BY <2>1 DEF Inv, Deactivated
  <2>3. ~Whole(file[TimeUnit])
    BY <1>1, <2>2, UnitsOf DEF Whole
  <2> QED BY <1>1, <1>2, <2>2, <2>3 DEF Disarmed
<1>10. Writing' /\ Activating' /\ Deactivating' /\ Removing'
  BY <1>3, <1>4 DEF Writing, Activating, Deactivating, Removing
<1> QED BY <1>6, <1>7, <1>8, <1>9, <1>10 DEF Inv

-----------------------------------------------------------------------------
(* The steps of install and uninstall. *)

LEMMA BeginStep ==
    ASSUME Inv, NEW op \in {"install", "uninstall"}, Begin(op)
    PROVE  Inv'
<1>1. /\ manager \in {"systemd", "launchd"}
      /\ UNCHANGED <<manager, config, file, linked, active, loaded, job>>
  BY DEF Inv, Typed, Begin, diskVars, managerVars
<1>2. CmdType' = CmdType /\ UnitNames' = UnitNames /\ Units' = Units /\ Activate' = Activate
  BY <1>1, SameManager
<1>3. Idle \in CmdType /\ Idle.unit = 1 /\ Idle.failures = 0 /\ Idle.code = Exit.success
  BY <1>1, UnitsOf, Codes DEF Idle, CmdType, Todos
<1>4. Activate \in Todos /\ Deactivate \in Todos
  BY DEF Activate, Deactivate, Todos
<1>5. CASE /\ config # Broken
           /\ cmd' = [Idle EXCEPT
                        !.op = op,
                        !.pc = IF op = "install" THEN "open" ELSE "run",
                        !.plan = config,
                        !.todo = IF op = "install" THEN Activate ELSE Deactivate]
  <2>1. config \in Configs
    BY <1>5 DEF Inv, Typed
  <2>2. /\ cmd' \in CmdType
        /\ cmd'.op = op /\ cmd'.pc = (IF op = "install" THEN "open" ELSE "run")
        /\ cmd'.plan = config /\ cmd'.unit = 1 /\ cmd'.failures = 0
        /\ cmd'.todo = (IF op = "install" THEN Activate ELSE Deactivate)
        /\ cmd'.code = Exit.success
    BY <1>3, <1>4, <1>5, <2>1 DEF CmdType
  <2>3. Typed' /\ Placed' /\ Agent'
    BY <1>1, <1>2, <2>2 DEF Inv, Typed, Placed, Agent
  <2>4. \A i \in DOMAIN Units : ~(i < 1)
    BY <1>1, UnitsOf
  <2>5. Writing'
    BY <1>2, <2>1, <2>2, <2>4 DEF Writing
  <2>6. Deactivating'
    BY <1>1, <2>2, UnitsOf DEF Deactivating, Deactivate
  <2>7. Activating' /\ Activated' /\ Removing' /\ Deactivated'
    BY <2>2 DEF Activating, Activated, Removing, Deactivated
  <2> QED BY <2>3, <2>5, <2>6, <2>7 DEF Inv
<1>6. CASE cmd' = [Idle EXCEPT
                     !.op = op,
                     !.pc = "done",
                     !.code = IF config = Broken THEN Exit.config ELSE Exit.internal]
  <2>1. /\ cmd' \in CmdType /\ cmd'.op = op /\ cmd'.pc = "done"
        /\ cmd'.code \in {Exit.config, Exit.internal}
    BY <1>3, <1>6 DEF CmdType
  <2>2. Typed' /\ Placed' /\ Agent'
    BY <1>1, <1>2, <2>1 DEF Inv, Typed, Placed, Agent
  <2>3. Activated' /\ Deactivated'
    BY <2>1, Codes DEF Activated, Deactivated
  <2>4. Writing' /\ Activating' /\ Deactivating' /\ Removing'
    BY <2>1 DEF Writing, Activating, Deactivating, Removing
  <2> QED BY <2>2, <2>3, <2>4 DEF Inv
<1> QED BY <1>5, <1>6 DEF Begin

\* An install that ends with an internal error has said nothing.
LEMMA GivesUp ==
    ASSUME Inv, Ends(Exit.internal), UNCHANGED <<manager, config, linked, active, loaded, job>>,
           file' \in [UnitNames -> Texts], cmd.op = "install"
    PROVE  Inv'
<1>1. CmdType' = CmdType /\ UnitNames' = UnitNames
  BY SameManager
<1>2. /\ cmd' \in CmdType /\ cmd'.op = "install" /\ cmd'.pc = "done"
      /\ cmd'.code = Exit.internal
  BY DEF Inv, Typed, CmdType, Ends
<1>3. Typed' /\ Placed' /\ Agent'
  BY <1>1, <1>2 DEF Inv, Typed, Placed, Agent
<1>4. Activated' /\ Deactivated'
  BY <1>2, Codes DEF Activated, Deactivated
<1>5. Writing' /\ Activating' /\ Deactivating' /\ Removing'
  BY <1>2 DEF Writing, Activating, Deactivating, Removing
<1> QED BY <1>3, <1>4, <1>5 DEF Inv

LEMMA OpenStep ==
    ASSUME Inv, OpenUnit
    PROVE  Inv'
<1>1. UNCHANGED <<manager, config, linked, active, loaded, job>> /\ cmd.op = "install"
  BY DEF OpenUnit, Inv, Placed, managerVars
<1>2. CmdType' = CmdType /\ UnitNames' = UnitNames /\ Units' = Units /\ Activate' = Activate
  BY <1>1, SameManager
<1>3. CASE file' = [file EXCEPT ![Units[cmd.unit]] = Torn] /\ cmd' = [cmd EXCEPT !.pc = "write"]
  <2>1. /\ cmd' \in CmdType /\ cmd'.op = "install" /\ cmd'.pc = "write"
        /\ cmd'.unit = cmd.unit /\ cmd'.plan = cmd.plan /\ cmd'.todo = cmd.todo
        /\ cmd'.failures = cmd.failures /\ cmd.unit \in DOMAIN Units
    BY <1>1, <1>3 DEF Inv, Typed, CmdType
  <2>2. file' \in [UnitNames -> Texts]
    BY <1>3 DEF Inv, Typed, Texts
  <2>3. Typed' /\ Placed' /\ Agent'
    BY <1>1, <1>2, <2>1, <2>2 DEF Inv, Typed, Placed, Agent
  <2>4. \A i \in DOMAIN Units : i < cmd.unit => file'[Units[i]] = file[Units[i]]
    <3>1. \A i \in DOMAIN Units : i < cmd.unit => Units[i] # Units[cmd.unit]
      BY <2>1, UnitsOf DEF Inv, Typed
    <3> QED BY <1>3, <3>1 DEF Inv, Typed, UnitNames
  <2>5. Writing'
    BY <1>1, <1>2, <2>1, <2>4 DEF Inv, Writing, OpenUnit, Text
  <2> QED BY <2>1, <2>3, <2>5 DEF Inv, Activating, Activated, Deactivating, Removing, Deactivated
<1>4. CASE Ends(Exit.internal) /\ UNCHANGED file
  BY <1>1, <1>4, GivesUp DEF Inv, Typed
<1> QED BY <1>3, <1>4 DEF OpenUnit

LEMMA WriteStep ==
    ASSUME Inv, WriteUnit
    PROVE  Inv'
<1>1. /\ UNCHANGED <<manager, config, linked, active, loaded, job>>
      /\ cmd.op = "install" /\ cmd.pc = "write" /\ manager \in {"systemd", "launchd"}
  BY DEF WriteUnit, Inv, Typed, Placed, managerVars
<1>2. CmdType' = CmdType /\ UnitNames' = UnitNames /\ Units' = Units /\ Activate' = Activate
  BY <1>1, SameManager
<1>3. /\ cmd.unit \in DOMAIN Units /\ cmd.plan \in Configs
      /\ cmd.todo = Activate /\ cmd.failures = 0
      /\ \A i \in DOMAIN Units : i < cmd.unit => file[Units[i]] = Text(Units[i], cmd.plan)
  BY <1>1 DEF Inv, Typed, CmdType, Writing
<1>4. CASE /\ file' = [file EXCEPT ![Units[cmd.unit]] = Text(Units[cmd.unit], cmd.plan)]
           /\ IF cmd.unit = Len(Units)
              THEN cmd' = [cmd EXCEPT !.pc = "run"]
              ELSE cmd' = [cmd EXCEPT !.unit = @ + 1, !.pc = "open"]
  <2>1. file' \in [UnitNames -> Texts]
    BY <1>3, <1>4, TextIsWhole DEF Inv, Typed
  <2>2. \A i \in DOMAIN Units : i <= cmd.unit => file'[Units[i]] = Text(Units[i], cmd.plan)
    <3>1. \A i \in DOMAIN Units : Units[i] \in UnitNames
      BY DEF UnitNames
    <3>2. \A i \in DOMAIN Units : i \in Nat
      BY <1>1, UnitsOf
    <3>3. SUFFICES ASSUME NEW i \in DOMAIN Units, i <= cmd.unit
                   PROVE  file'[Units[i]] = Text(Units[i], cmd.plan)
      OBVIOUS
    <3>4. CASE Units[i] = Units[cmd.unit]
      BY <1>4, <3>1, <3>4 DEF Inv, Typed
    <3>5. CASE Units[i] # Units[cmd.unit]
      <4>1. i < cmd.unit
        BY <1>3, <3>2, <3>3, <3>5
      <4> QED BY <1>3, <1>4, <3>1, <3>5, <4>1 DEF Inv, Typed
    <3> QED BY <3>4, <3>5
  <2>3. CASE cmd.unit = Len(Units)
    <3>1. /\ cmd' \in CmdType /\ cmd'.op = "install" /\ cmd'.pc = "run"
          /\ cmd'.plan = cmd.plan /\ cmd'.todo = cmd.todo /\ cmd'.failures = cmd.failures
      BY <1>1, <1>4, <2>3 DEF Inv, Typed, CmdType
    <3>2. Typed' /\ Placed' /\ Agent'
      BY <1>1, <1>2, <2>1, <3>1 DEF Inv, Typed, Placed, Agent
    <3>3. AllWritten'
      <4>1. \A i \in DOMAIN Units : i <= cmd.unit
        BY <1>1, <2>3, UnitsOf
      <4> QED BY <1>2, <1>3, <2>2, <3>1, <4>1 DEF AllWritten, UnitNames, Text
    <3>4. Activating'
      BY <1>1, <1>3, <3>1, <3>3 DEF Activating, Activate
    <3> QED BY <3>1, <3>2, <3>4 DEF Inv, Writing, Activated, Deactivating, Removing, Deactivated
  <2>4. CASE cmd.unit # Len(Units)
    <3>1. cmd.unit + 1 \in DOMAIN Units
      <4>1. CASE manager = "systemd"
        <5>1. cmd.unit = 1
          BY <1>3, <2>4, <4>1, UnitsOf
        <5> QED BY <4>1, <5>1, UnitsOf
      <4>2. CASE manager = "launchd"
        BY <1>3, <2>4, <4>2, UnitsOf
      <4> QED BY <1>1, <4>1, <4>2
    <3>2. /\ cmd' \in CmdType /\ cmd'.op = "install" /\ cmd'.pc = "open"
          /\ cmd'.unit = cmd.unit + 1
          /\ cmd'.plan = cmd.plan /\ cmd'.todo = cmd.todo /\ cmd'.failures = cmd.failures
      BY ZenonT(40), <1>1, <1>4, <2>4, <3>1 DEF Inv, Typed, CmdType
    <3>3. Typed' /\ Placed' /\ Agent'
      BY <1>1, <1>2, <2>1, <3>2 DEF Inv, Typed, Placed, Agent
    <3>4. \A i \in DOMAIN Units : i < cmd.unit + 1 => i <= cmd.unit
      BY <1>1, <1>3, UnitsOf
    <3>5. Writing'
      BY <1>2, <1>3, <2>2, <3>2, <3>4 DEF Writing, Text
    <3> QED BY <3>2, <3>3, <3>5 DEF Inv, Activating, Activated, Deactivating, Removing, Deactivated
  <2> QED BY <2>3, <2>4
<1>5. CASE Ends(Exit.internal) /\ UNCHANGED file
  BY <1>1, <1>5, GivesUp DEF Inv, Typed
<1> QED BY <1>4, <1>5 DEF WriteUnit

LEMMA RunEndStep ==
    ASSUME Inv, RunEnd
    PROVE  Inv'
<1>1. /\ UNCHANGED <<manager, config, file, linked, active, loaded, job>>
      /\ manager \in {"systemd", "launchd"} /\ cmd.op \in {"install", "uninstall"}
      /\ cmd.pc = "run" /\ cmd.todo = <<>> /\ cmd \in CmdType
  BY DEF RunEnd, Inv, Typed, Placed, managerVars, diskVars
<1>2. CmdType' = CmdType /\ UnitNames' = UnitNames /\ Units' = Units
  BY <1>1, SameManager
<1>3. \A a, b : <<a>> # cmd.todo /\ <<a, b>> # cmd.todo
  BY <1>1
<1>4. CASE cmd.op = "install"
  <2>1. /\ cmd' \in CmdType /\ cmd'.op = "install" /\ cmd'.pc = "done" /\ cmd'.plan = cmd.plan
        /\ cmd'.code = (IF cmd.failures = 0 THEN Exit.success ELSE Exit.partial)
    BY ZenonT(40), <1>1, <1>4 DEF RunEnd, Ends, CmdType
  <2>2. Typed' /\ Placed' /\ Agent'
    BY <1>1, <1>2, <2>1 DEF Inv, Typed, Placed, Agent
  <2>3. AllWritten /\ (cmd.failures = 0 => Armed)
    BY <1>1, <1>3, <1>4 DEF Inv, Activating
  <2>4. AllWritten' /\ (cmd.failures = 0 => Armed')
    BY <1>1, <1>2, <2>1, <2>3 DEF AllWritten, Armed, Text
  <2>5. Activated'
    BY <2>1, <2>4, Codes DEF Activated
  <2> QED BY <2>1, <2>2, <2>5 DEF Inv, Writing, Activating, Deactivating, Removing, Deactivated
<1>5. CASE cmd.op = "uninstall"
  <2>1. /\ cmd' \in CmdType /\ cmd'.op = "uninstall" /\ cmd'.pc = "remove"
        /\ cmd'.unit = cmd.unit /\ cmd'.refused = cmd.refused
    BY <1>1, <1>5 DEF RunEnd, CmdType
  <2>2. Typed' /\ Placed' /\ Agent'
    BY <1>1, <1>2, <2>1 DEF Inv, Typed, Placed, Agent
  <2>3. cmd.unit = 1 /\ (~cmd.refused => Disarmed)
    BY <1>1, <1>3, <1>5 DEF Inv, Deactivating
  <2>4. \A i \in DOMAIN Units : ~(i < 1)
    BY <1>1, UnitsOf
  <2>5. Removing'
    BY <1>1, <1>2, <2>1, <2>3, <2>4 DEF Removing, Disarmed
  <2> QED BY <2>1, <2>2, <2>5 DEF Inv, Writing, Activating, Activated, Deactivating, Deactivated
<1> QED BY <1>1, <1>4, <1>5

LEMMA RemoveStep ==
    ASSUME Inv, RemoveUnit
    PROVE  Inv'
<1> DEFINE unit == Units[cmd.unit]
           rest == IF cmd.unit = Len(Units)
                   THEN [cmd EXCEPT !.pc = "done"]
                   ELSE [cmd EXCEPT !.unit = @ + 1]
<1>1. /\ UNCHANGED <<manager, config, linked, active, loaded, job>>
      /\ manager \in {"systemd", "launchd"} /\ cmd.op = "uninstall" /\ cmd.pc = "remove"
      /\ cmd \in CmdType /\ cmd.unit \in DOMAIN Units
  BY DEF RemoveUnit, Inv, Typed, Placed, managerVars, CmdType
<1>2. CmdType' = CmdType /\ UnitNames' = UnitNames /\ Units' = Units
  BY <1>1, SameManager
<1>3. cmd.unit # Len(Units) => cmd.unit + 1 \in DOMAIN Units
  <2>1. CASE manager = "systemd"
    <3>1. cmd.unit # Len(Units) => cmd.unit = 1
      BY <1>1, <2>1, UnitsOf
    <3> QED BY <2>1, <3>1, UnitsOf
  <2>2. CASE manager = "launchd"
    BY <1>1, <2>2, UnitsOf
  <2> QED BY <1>1, <2>1, <2>2
<1>4. /\ rest \in CmdType /\ rest.op = "uninstall" /\ rest.refused = cmd.refused
      /\ cmd.unit = Len(Units) => rest.pc = "done"
      /\ cmd.unit # Len(Units) => rest.pc = "remove" /\ rest.unit = cmd.unit + 1
  BY <1>1, <1>3 DEF CmdType
<1>5. CASE file' = [file EXCEPT ![unit] = Absent] /\ cmd' = rest
  <2>1. file' \in [UnitNames -> Texts]
    BY <1>5 DEF Inv, Typed, Texts
  <2>2. Typed' /\ Placed' /\ Agent'
    BY <1>1, <1>2, <1>4, <1>5, <2>1 DEF Inv, Typed, Placed, Agent
  <2>3. ~cmd.refused => /\ Disarmed'
                        /\ \A i \in DOMAIN Units : i <= cmd.unit => file'[Units[i]] = Absent
    <3>1. SUFFICES ASSUME ~cmd.refused
                   PROVE  /\ Disarmed'
                          /\ \A i \in DOMAIN Units : i <= cmd.unit => file'[Units[i]] = Absent
      OBVIOUS
    <3>2. Disarmed /\ \A i \in DOMAIN Units : i < cmd.unit => file[Units[i]] = Absent
      BY <1>1, <3>1 DEF Inv, Removing
    <3>3. \A i \in DOMAIN Units : Units[i] \in UnitNames /\ i \in Nat
      BY <1>1, UnitsOf DEF UnitNames
    <3>4. \A i \in DOMAIN Units : i <= cmd.unit => i < cmd.unit \/ i = cmd.unit
      BY <1>1, <3>3
    <3> QED BY <1>1, <1>5, <3>2, <3>3, <3>4 DEF Inv, Typed, Disarmed
  <2>4. CASE cmd.unit = Len(Units)
    <3>1. \A i \in DOMAIN Units : i <= cmd.unit
      BY <1>1, <2>4, UnitsOf
    <3>2. Deactivated'
      BY <1>2, <1>4, <1>5, <2>3, <3>1 DEF Deactivated, UnitNames
    <3> QED BY <1>4, <1>5, <2>2, <2>4, <3>2 DEF Inv, Writing, Activating, Activated, Deactivating,
                                              Removing
  <2>5. CASE cmd.unit # Len(Units)
    <3>1. \A i \in DOMAIN Units : i < cmd.unit + 1 => i <= cmd.unit
      BY <1>1, UnitsOf
    <3>2. Removing'
      BY <1>2, <1>4, <1>5, <2>3, <2>5, <3>1 DEF Removing
    <3> QED BY <1>4, <1>5, <2>2, <2>5, <3>2 DEF Inv, Writing, Activating, Activated, Deactivating,
                                              Deactivated
  <2> QED BY <2>4, <2>5
<1>6. CASE cmd' = [rest EXCEPT !.refused = TRUE] /\ UNCHANGED file
  <2>1. /\ cmd' \in CmdType /\ cmd'.op = "uninstall" /\ cmd'.pc \in {"remove", "done"}
        /\ cmd'.refused
    BY <1>4, <1>6 DEF CmdType
  <2>2. Typed' /\ Placed' /\ Agent'
    BY <1>1, <1>2, <1>6, <2>1 DEF Inv, Typed, Placed, Agent
  <2> QED BY <2>1, <2>2 DEF Inv, Writing, Activating, Activated, Deactivating, Removing,
                          Deactivated
<1> QED BY <1>5, <1>6 DEF RemoveUnit

\* Whatever comes of a command, the rest of the list is still to be run.
LEMMA CommandMoves ==
    ASSUME Inv, RunCommand
    PROVE  LET command == Head(cmd.todo) IN
           /\ UNCHANGED <<manager, config, file, job>>
           /\ manager \in {"systemd", "launchd"}
           /\ cmd'.op = cmd.op /\ cmd'.pc = "run" /\ cmd'.plan = cmd.plan
           /\ cmd'.unit = cmd.unit /\ cmd'.code = cmd.code /\ cmd'.todo = Tail(cmd.todo)
           /\ \/ /\ Applies(command) /\ Done(command)
                 /\ cmd'.failures = cmd.failures /\ cmd'.refused = cmd.refused
                 /\ cmd' = [cmd EXCEPT !.todo = Tail(@)]
              \/ /\ Failed(command)
                 /\ cmd'.failures = (IF cmd.op = "install" THEN cmd.failures + 1
                                     ELSE cmd.failures)
                 /\ cmd'.refused = (cmd.refused \/ Applies(command))
                 /\ cmd' = [cmd EXCEPT
                               !.todo = Tail(@),
                               !.failures = IF cmd.op = "install" THEN @ + 1 ELSE @,
                               !.refused = @ \/ Applies(command)]
<1>1. cmd \in CmdType /\ manager \in {"systemd", "launchd"} /\ cmd.pc = "run"
  BY DEF Inv, Typed, RunCommand
<1>2. UNCHANGED <<manager, config, file, job>>
  BY DEF RunCommand, diskVars
<1>3. CASE /\ Applies(Head(cmd.todo)) /\ Done(Head(cmd.todo))
           /\ cmd' = [cmd EXCEPT !.todo = Tail(@)]
  BY <1>1, <1>2, <1>3 DEF CmdType
<1>4. CASE /\ Failed(Head(cmd.todo))
           /\ cmd' = [cmd EXCEPT
                        !.todo = Tail(@),
                        !.failures = IF cmd.op = "install" THEN @ + 1 ELSE @,
                        !.refused = @ \/ Applies(Head(cmd.todo))]
  BY <1>1, <1>2, <1>4 DEF CmdType
<1> QED BY <1>3, <1>4 DEF RunCommand

-----------------------------------------------------------------------------
(* What comes of each command: it is done, or it fails. *)

\* A failure is counted by install; uninstall is excused if there was nothing to do.
LEMMA Typing ==
    ASSUME Inv, RunCommand
    PROVE  /\ cmd \in CmdType /\ cmd.refused \in BOOLEAN /\ cmd.failures \in 0 .. 2
           /\ linked \in BOOLEAN /\ active \in BOOLEAN
BY DEF Inv, Typed, CmdType

LEMMA Reload ==
    ASSUME Inv, RunCommand, Head(cmd.todo) = "reload"
    PROVE  /\ linked' = linked /\ active' = active
           /\ \/ /\ loaded' = file
                 /\ cmd'.failures = cmd.failures /\ cmd'.refused = cmd.refused
              \/ /\ loaded' = loaded /\ cmd'.refused = TRUE
                 /\ cmd.op = "install" => cmd'.failures = cmd.failures + 1
BY Typing DEF RunCommand, Done, Failed, Applies, managerVars, CmdType

LEMMA Enable ==
    ASSUME Inv, RunCommand, Head(cmd.todo) = "enable", cmd.op = "install"
    PROVE  \/ /\ linked' = TRUE /\ active' = TRUE /\ cmd'.failures = cmd.failures
              /\ loaded' = [loaded EXCEPT !["timer"] = Known("timer")]
           \/ /\ linked' \in BOOLEAN /\ active' = active /\ loaded' = loaded
              /\ cmd'.failures = cmd.failures + 1
BY Typing DEF RunCommand, Done, Failed, managerVars, CmdType

LEMMA Disable ==
    ASSUME Inv, RunCommand, Head(cmd.todo) = "disable", cmd.op = "uninstall"
    PROVE  /\ loaded' = loaded
           /\ \/ linked' = FALSE /\ active' = FALSE
              \/ /\ linked' \in {linked, FALSE} /\ active' = active
                 /\ cmd'.refused = FALSE => linked = FALSE /\ active = FALSE
BY Typing DEF RunCommand, Done, Failed, Applies, managerVars, CmdType

LEMMA Bootstrap ==
    ASSUME Inv, RunCommand, Head(cmd.todo) = "bootstrap", cmd.op = "install"
    PROVE  /\ linked' = linked
           /\ \/ active' = TRUE /\ loaded' = file /\ cmd'.failures = cmd.failures
              \/ active' = active /\ loaded' = loaded /\ cmd'.failures = cmd.failures + 1
BY Typing DEF RunCommand, Done, Failed, managerVars, CmdType

LEMMA Bootout ==
    ASSUME Inv, RunCommand, Head(cmd.todo) = "bootout", cmd.op = "uninstall"
    PROVE  /\ linked' = linked
           /\ \/ active' = FALSE /\ loaded' = [u \in DOMAIN loaded |-> Absent]
              \/ /\ active' = active /\ loaded' = loaded
                 /\ cmd'.refused = FALSE => loaded["plist"] = Absent
BY Typing DEF RunCommand, Done, Failed, Applies, managerVars, CmdType

Run == {"reload", "enable", "disable", "bootstrap", "bootout"}

LEMMA AppliesOrNot ==
    ASSUME NEW command \in Run
    PROVE  Applies(command) \in BOOLEAN
<1>1. CASE command = "disable"
  <2>1. (linked \/ active \/ file["timer"] # Absent) \in BOOLEAN
    OBVIOUS
  <2> QED BY <1>1, <2>1 DEF Applies
<1>2. CASE command # "disable"
  BY <1>2 DEF Applies, Run, Whole
<1> QED BY <1>1, <1>2

LEMMA CommandRefused ==
    ASSUME Inv, RunCommand
    PROVE  cmd'.refused \in BOOLEAN
<1>1. cmd \in CmdType /\ cmd.refused \in BOOLEAN
  BY Typing
<1>2. (cmd.refused \/ Applies(Head(cmd.todo))) \in BOOLEAN
  OBVIOUS
<1> QED BY <1>1, <1>2, CommandMoves

\* The typing of the step, once the manager's part of it is known.
LEMMA CommandTyped ==
    ASSUME Inv, RunCommand, Head(cmd.todo) \in Run, Tail(cmd.todo) \in Todos,
           cmd.op = "install" => cmd.failures \in 0 .. 1,
           linked' \in BOOLEAN, active' \in BOOLEAN, loaded' \in [UnitNames -> Texts]
    PROVE  Typed' /\ Placed'
<1>1. CmdType' = CmdType /\ UnitNames' = UnitNames
  BY CommandMoves, SameManager
<1>2. cmd \in CmdType /\ cmd.op \in {"install", "uninstall"}
  BY DEF Inv, Typed, Placed, RunCommand
<1>3. cmd' \in CmdType
  <2>1. (cmd.refused \/ Applies(Head(cmd.todo))) \in BOOLEAN
    BY <1>2, AppliesOrNot DEF CmdType
  <2>2. (IF cmd.op = "install" THEN cmd.failures + 1 ELSE cmd.failures) \in 0 .. 2
    BY <1>2 DEF CmdType
  <2> QED BY <1>2, <2>1, <2>2, CommandMoves DEF CmdType
<1> QED BY <1>1, <1>2, <1>3, CommandMoves DEF Inv, Typed, Placed

\* Where a command is run by install.
LEMMA ActivateStep ==
    ASSUME Inv, RunCommand, cmd.op = "install"
    PROVE  Inv'
<1>1. /\ manager \in {"systemd", "launchd"} /\ cmd.pc = "run" /\ cmd.todo # <<>>
      /\ AllWritten /\ cmd.failures \in 0 .. 2
      /\ linked \in BOOLEAN /\ active \in BOOLEAN
      /\ file \in [UnitNames -> Texts] /\ loaded \in [UnitNames -> Texts]
  BY DEF Inv, Typed, CmdType, RunCommand, Activating
<1>2. UNCHANGED <<manager, config, file, job>> /\ UnitNames' = UnitNames
  BY CommandMoves, SameManager
<1>3. AllWritten'
  BY <1>1, <1>2, CommandMoves DEF AllWritten, Text
<1>4. \A u \in UnitNames : Whole(file[u]) /\ file[u] # Absent
  BY <1>1, TextIsWhole DEF AllWritten
<1>5. CASE cmd.todo = <<"reload", "enable">>
  <2>1. Head(cmd.todo) = "reload" /\ Tail(cmd.todo) = <<"enable">>
    BY <1>5, Pair
  <2>2. manager = "systemd" /\ cmd.failures = 0
    BY <1>1, <1>5, Apart DEF Inv, Activating
  <2>3. /\ UNCHANGED <<linked, active>> /\ loaded' \in {loaded, file}
        /\ cmd'.failures = 0 => loaded' = file
        /\ cmd'.failures \in 0 .. 1
    <3>1. /\ linked' = linked /\ active' = active
          /\ \/ loaded' = file /\ cmd'.failures = cmd.failures
             \/ loaded' = loaded /\ cmd'.failures = cmd.failures + 1
      BY <2>1, Reload
    <3>2. CASE loaded' = file /\ cmd'.failures = cmd.failures
      BY <2>2, <3>1, <3>2
    <3>3. CASE loaded' = loaded /\ cmd'.failures = cmd.failures + 1
      BY <2>2, <3>1, <3>3
    <3> QED BY <3>1, <3>2, <3>3
  <2>4. Typed' /\ Placed'
    BY <1>1, <2>1, <2>2, <2>3, CommandTyped DEF Run, Todos
  <2>5. Activating'
    BY <1>2, <1>3, <2>1, <2>2, <2>3, CommandMoves DEF Activating
  <2> QED BY <1>2, <2>2, <2>4, <2>5, CommandMoves DEF Inv, Agent, Writing, Activated, Deactivating,
                                                 Removing, Deactivated
<1>6. CASE cmd.todo = <<"enable">>
  <2>1. Head(cmd.todo) = "enable" /\ Tail(cmd.todo) = <<>>
    BY <1>6, Single
  <2>2. /\ manager = "systemd" /\ cmd.failures \in 0 .. 1
        /\ cmd.failures = 0 => loaded = file
    BY <1>1, <1>6, Apart DEF Inv, Activating
  <2>3. "timer" \in UnitNames
    BY <2>2, UnitsOf
  <2>4. Known("timer") \in Texts
    BY <1>1, <2>3 DEF Known
  <2>5. loaded' \in [UnitNames -> Texts] /\ linked' \in BOOLEAN /\ active' \in BOOLEAN
    BY <1>1, <2>1, <2>2, <2>4, Enable
  <2>6. cmd'.failures = 0 => Armed'
    <3>1. SUFFICES ASSUME cmd'.failures = 0 PROVE Armed'
      OBVIOUS
    <3>2. /\ cmd.failures = 0 /\ linked' = TRUE /\ active' = TRUE
          /\ loaded' = [loaded EXCEPT !["timer"] = Known("timer")]
      <4>1. \/ /\ linked' = TRUE /\ active' = TRUE /\ cmd'.failures = cmd.failures
               /\ loaded' = [loaded EXCEPT !["timer"] = Known("timer")]
            \/ cmd'.failures = cmd.failures + 1
        BY <2>1, Enable
      <4>2. cmd'.failures # cmd.failures + 1
        BY <2>2, <3>1
      <4> QED BY <3>1, <4>1, <4>2
    <3>3. Known("timer") = file["timer"]
      BY <2>2, <3>2 DEF Known
    <3>4. loaded' = file
      BY <1>1, <2>2, <2>3, <3>2, <3>3
    <3> QED BY <1>2, <3>2, <3>4 DEF Armed
  <2>7. Typed' /\ Placed'
    BY <2>1, <2>2, <2>5, CommandTyped DEF Run, Todos
  <2>8. Activating'
    BY <1>2, <1>3, <2>1, <2>2, <2>6, CommandMoves DEF Activating
  <2> QED BY <1>2, <2>2, <2>7, <2>8, CommandMoves DEF Inv, Agent, Writing, Activated, Deactivating,
                                                 Removing, Deactivated
<1>7. CASE cmd.todo = <<"bootstrap">>
  <2>1. Head(cmd.todo) = "bootstrap" /\ Tail(cmd.todo) = <<>>
    BY <1>7, Single
  <2>2. manager = "launchd" /\ cmd.failures = 0
    BY <1>1, <1>7, Apart DEF Inv, Activating
  <2>3. \/ loaded' = file /\ active' = TRUE /\ UNCHANGED linked
        \/ UNCHANGED <<linked, active, loaded>> /\ cmd'.failures # 0
    <3>1. /\ linked' = linked
          /\ \/ active' = TRUE /\ loaded' = file /\ cmd'.failures = cmd.failures
             \/ active' = active /\ loaded' = loaded /\ cmd'.failures = cmd.failures + 1
      BY <2>1, Bootstrap
    <3>2. cmd'.failures = cmd.failures + 1 => cmd'.failures # 0
      BY <2>2
    <3> QED BY <3>1, <3>2
  <2>4. cmd'.failures = 0 => Armed'
    BY <1>2, <2>2, <2>3 DEF Armed
  <2>5. Typed' /\ Placed'
    <3>1. linked' \in BOOLEAN /\ active' \in BOOLEAN /\ loaded' \in [UnitNames -> Texts]
      BY <1>1, <2>3
    <3> QED BY <2>1, <2>2, <3>1, CommandTyped DEF Run, Todos
  <2>6. Activating'
    BY <1>2, <1>3, <2>1, <2>2, <2>4, CommandMoves DEF Activating
  <2>7. Agent'
    BY <1>2, <1>4, <2>2, <2>3, UnitsOf DEF Inv, Agent
  <2> QED BY <2>5, <2>6, <2>7, CommandMoves DEF Inv, Writing, Activated, Deactivating, Removing,
                                              Deactivated
<1>8. cmd.todo \in {<<"reload", "enable">>, <<"enable">>, <<"bootstrap">>}
  BY <1>1 DEF Inv, Activating
<1> QED BY <1>5, <1>6, <1>7, <1>8

LEMMA DeactivateStep ==
    ASSUME Inv, RunCommand, cmd.op = "uninstall"
    PROVE  Inv'
<1>1. /\ manager \in {"systemd", "launchd"} /\ cmd.pc = "run" /\ cmd.todo # <<>>
      /\ linked \in BOOLEAN /\ active \in BOOLEAN /\ cmd.unit = 1 /\ cmd.code = Exit.success
      /\ file \in [UnitNames -> Texts] /\ loaded \in [UnitNames -> Texts]
  BY DEF Inv, Typed, CmdType, RunCommand, Deactivating
<1>2. UNCHANGED <<manager, config, file, job>> /\ UnitNames' = UnitNames
  BY CommandMoves, SameManager
<1>3. CASE cmd.todo = <<"disable", "reload">>
  <2>1. Head(cmd.todo) = "disable" /\ Tail(cmd.todo) = <<"reload">>
    BY <1>3, Pair
  <2>2. manager = "systemd"
    BY <1>1, <1>3, Apart DEF Inv, Deactivating
  <2>3. /\ linked' \in BOOLEAN /\ active' \in BOOLEAN /\ UNCHANGED loaded
        /\ ~cmd'.refused => Disarmed'
    <3>1. /\ loaded' = loaded
          /\ \/ linked' = FALSE /\ active' = FALSE
             \/ /\ linked' \in {linked, FALSE} /\ active' = active
                /\ cmd'.refused = FALSE => linked = FALSE /\ active = FALSE
      BY <2>1, Disable
    <3>2. cmd'.refused \in BOOLEAN
      BY CommandRefused
    <3>3. CASE linked' = FALSE /\ active' = FALSE
      BY <3>1, <3>3 DEF Disarmed
    <3>4. CASE /\ linked' \in {linked, FALSE} /\ active' = active
               /\ cmd'.refused = FALSE => linked = FALSE /\ active = FALSE
      <4>1. linked' \in BOOLEAN /\ active' \in BOOLEAN
        BY <1>1, <3>4
      <4>2. ~cmd'.refused => ~linked' /\ ~active'
        <5>1. ~cmd'.refused => linked = FALSE /\ active = FALSE
          BY <3>2, <3>4
        <5> QED BY <3>4, <5>1
      <4> QED BY <3>1, <4>1, <4>2 DEF Disarmed
    <3> QED BY <3>1, <3>3, <3>4
  <2>4. Typed' /\ Placed'
    BY <1>1, <2>1, <2>3, CommandTyped DEF Run, Todos
  <2>5. Deactivating'
    BY <1>1, <1>2, <2>1, <2>2, <2>3, CommandMoves DEF Deactivating
  <2> QED BY <1>2, <2>2, <2>4, <2>5, CommandMoves DEF Inv, Agent, Writing, Activating, Activated,
                                                 Removing, Deactivated
<1>4. CASE cmd.todo = <<"reload">>
  <2>1. Head(cmd.todo) = "reload" /\ Tail(cmd.todo) = <<>>
    BY <1>4, Single
  <2>2. manager = "systemd" /\ (~cmd.refused => Disarmed)
    BY <1>1, <1>4, Apart DEF Inv, Deactivating
  <2>3. /\ UNCHANGED <<linked, active>> /\ loaded' \in {loaded, file}
        /\ ~cmd'.refused => Disarmed'
    <3>1. /\ linked' = linked /\ active' = active
          /\ \/ loaded' = file /\ cmd'.refused = cmd.refused
             \/ loaded' = loaded /\ cmd'.refused = TRUE
      BY <2>1, Reload
    <3>2. CASE loaded' = file /\ cmd'.refused = cmd.refused
      BY <2>2, <3>1, <3>2 DEF Disarmed
    <3>3. CASE loaded' = loaded /\ cmd'.refused = TRUE
      BY <3>1, <3>3
    <3> QED BY <3>1, <3>2, <3>3
  <2>4. Typed' /\ Placed'
    BY <1>1, <2>1, <2>3, CommandTyped DEF Run, Todos
  <2>5. Deactivating'
    BY <1>1, <1>2, <2>1, <2>2, <2>3, CommandMoves DEF Deactivating
  <2> QED BY <1>2, <2>2, <2>4, <2>5, CommandMoves DEF Inv, Agent, Writing, Activating, Activated,
                                                 Removing, Deactivated
<1>5. CASE cmd.todo = <<"bootout">>
  <2>1. Head(cmd.todo) = "bootout" /\ Tail(cmd.todo) = <<>>
    BY <1>5, Single
  <2>2. manager = "launchd" /\ ~linked /\ (active => loaded["plist"] # Absent)
    BY <1>1, <1>5, Apart DEF Inv, Deactivating, Agent
  <2>3. /\ linked' = FALSE /\ active' \in BOOLEAN
        /\ loaded' \in [UnitNames -> Texts]
        /\ active' => active /\ loaded' = loaded
        /\ ~cmd'.refused => Disarmed'
    <3>1. /\ linked' = linked
          /\ \/ active' = FALSE /\ loaded' = [u \in DOMAIN loaded |-> Absent]
             \/ /\ active' = active /\ loaded' = loaded
                /\ cmd'.refused = FALSE => loaded["plist"] = Absent
      BY <2>1, Bootout
    <3>2. cmd'.refused \in BOOLEAN /\ linked' = FALSE
      BY <1>1, <2>2, <3>1, CommandRefused
    <3>3. CASE active' = FALSE /\ loaded' = [u \in DOMAIN loaded |-> Absent]
      BY <1>1, <3>2, <3>3 DEF Disarmed, Texts
    <3>4. CASE /\ active' = active /\ loaded' = loaded
               /\ cmd'.refused = FALSE => loaded["plist"] = Absent
      BY <1>1, <2>2, <3>2, <3>4 DEF Disarmed
    <3> QED BY <3>1, <3>3, <3>4
  <2>4. Typed' /\ Placed'
    BY <1>1, <2>1, <2>3, CommandTyped DEF Run, Todos
  <2>5. Deactivating'
    BY <1>1, <1>2, <2>1, <2>2, <2>3, CommandMoves DEF Deactivating
  <2>6. Agent'
    BY <2>2, <2>3 DEF Agent
  <2> QED BY <2>4, <2>5, <2>6, CommandMoves DEF Inv, Writing, Activating, Activated, Removing,
                                              Deactivated
<1>6. cmd.todo \in {<<"disable", "reload">>, <<"reload">>, <<"bootout">>}
  BY <1>1 DEF Inv, Deactivating
<1> QED BY <1>3, <1>4, <1>5, <1>6

-----------------------------------------------------------------------------
(* The theorems. *)

LEMMA NextInv ==
    ASSUME Inv, [Next]_vars
    PROVE  Inv'
<1>1. CASE RunCommand
  <2>1. cmd.op \in {"install", "uninstall"}
    BY <1>1 DEF RunCommand, Inv, Placed
  <2> QED BY <1>1, <2>1, ActivateStep, DeactivateStep
<1>2. CASE OpenUnit \/ WriteUnit \/ RunEnd \/ RemoveUnit
  BY <1>2, OpenStep, WriteStep, RunEndStep, RemoveStep
<1>3. CASE \E op \in {"install", "uninstall"} : Begin(op)
  BY <1>3, BeginStep
<1>4. CASE Kill \/ Login
  BY <1>4, KillStep, LoginStep
<1>5. CASE Fire \/ JobEnds \/ EditConfig \/ UNCHANGED vars
  BY <1>5, OtherSteps
<1> QED BY <1>1, <1>2, <1>3, <1>4, <1>5 DEF Next, Step

\* The inductive invariant holds throughout: what each program point of install
\* and uninstall knows of the unit files and of the service manager.
THEOREM SchedulerInv == Spec => []Inv
<1>1. Init => Inv
  BY InitInv
<1>2. Inv /\ [Next]_vars => Inv'
  BY NextInv
<1> QED BY <1>1, <1>2, PTL DEF Spec

\* Install exits with 0 only if the manager has in memory what it wrote and fires it,
\* now and after a login, and with 4 only if the files are in place.
THEOREM InstallIsTrue == Spec => []InstallTellsTheTruth
<1>1. Inv => InstallTellsTheTruth
  <2> SUFFICES ASSUME Inv PROVE InstallTellsTheTruth
    OBVIOUS
  <2>1. manager \in {"systemd", "launchd"} /\ DOMAIN file = UnitNames
    BY DEF Inv, Typed
  <2>2. /\ JobUnit \in UnitNames /\ TimeUnit \in UnitNames /\ JobUnit # "timer"
    BY <2>1, UnitsOf
  <2>3. ASSUME Said("install", Exit.success) \/ Said("install", Exit.partial)
        PROVE  AllWritten
    BY <2>3 DEF Inv, Activated, Said
  <2>4. ASSUME Said("install", Exit.success)
        PROVE  /\ active /\ (manager = "systemd" => linked)
               /\ Known(JobUnit) = cmd.plan /\ Whole(Known(TimeUnit))
    <3>1. Armed /\ AllWritten
      BY <2>3, <2>4 DEF Inv, Activated, Said
    <3>2. /\ file[JobUnit] = cmd.plan /\ Whole(file[TimeUnit])
      BY <2>2, <3>1, TextIsWhole DEF AllWritten
    <3> QED BY <3>1, <3>2 DEF Armed, Known
  <2> QED BY <2>1, <2>3, <2>4 DEF InstallTellsTheTruth, AllWritten
<1> QED BY <1>1, SchedulerInv, PTL

\* After an uninstall that was refused nothing, nothing fires and no unit file is left.
THEOREM UninstallIsFinal == Spec => []UninstallEndsFiring
<1>1. Inv => UninstallEndsFiring
  BY DEF Inv, Typed, Deactivated, Disarmed, UninstallEndsFiring, Said
<1> QED BY <1>1, SchedulerInv, PTL

\* The state has its type, and both loops stay within the list of units.
THEOREM SchedulerTypeCorrect == Spec => []TypeOK
<1>1. Inv => TypeOK
  <2> SUFFICES ASSUME Inv PROVE TypeOK
    OBVIOUS
  <2>1. Todos \subseteq Seq(Commands)
    BY DEF Todos, Commands
  <2> QED BY <2>1 DEF Inv, Typed, CmdType, UnitNames, TypeOK
<1> QED BY <1>1, SchedulerInv, PTL

=============================================================================
