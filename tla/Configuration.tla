--------------------------- MODULE Configuration ----------------------------
(***************************************************************************)
(* crates/reap-core/src/config.rs: where the configuration is looked for,  *)
(* how the file that is found is read while somebody may be replacing it,  *)
(* and what `resolve` makes of its text: overlay, defaults, validation.    *)
(*                                                                         *)
(* A text that parses is a record of its tables.  A key that may be left   *)
(* out is the empty set or the set of its value.  Strings of which only a  *)
(* kind matters are that kind ("plain", "slashed", "empty").  Keys that    *)
(* are neither checked nor expanded are left out but for dry_run.          *)
(***************************************************************************)
EXTENDS Naturals, Sequences

CONSTANTS
    Worlds,     \* what the process may find: an environment and files
    Edits,      \* Edits[l]: what somebody may put at location l meanwhile
    Host,       \* the hostname
    Short,      \* that name without its DNS suffix
    Hosts,      \* names of machines for which a text may have a table
    Words,      \* names of places, rules and systems
    Absent, Folder, Locked, Garbage     \* what else may stand at a location

Locations == {"explicit", "var", "home", "etc"}

\* What parses.
PathText == [form : {"absolute", "home", "relative"}, name : Words]
Names == {"plain", "slashed", "empty"}
Table == [dry_run : SUBSET BOOLEAN, low : SUBSET Nat, target : SUBSET Nat,
          staleness : SUBSET Words, pin : SUBSET Names, quarantine : SUBSET PathText,
          heartbeats : SUBSET PathText, deny : SUBSET Seq(PathText)]
RootText == [path : PathText, max_depth : SUBSET Nat]
RuleText == [name : Words, kind : {"path", "command"}, tier : Nat, dir_name : SUBSET Names,
             glob : SUBSET {"plain", "home", "dotdot", "malformed"},
             sibling : SUBSET Names, ancestor : SUBSET Names, min_idle : SUBSET Nat,
             orphaned_only : SUBSET BOOLEAN, max_depth : SUBSET Nat,
             os : SUBSET SUBSET Words, command : SUBSET Seq({"plain", "substituted"})]
Text == [global : Table, machine : [Hosts -> SUBSET Table],
         roots : Seq(RootText), rules : Seq(RuleText)]

\* No key is there twice.
Single(table) == \A key \in DOMAIN table : \A u, v \in table[key] : u = v
Singles(raw) ==
    /\ Single(raw.global) /\ \A m \in Hosts : \A t, u \in raw.machine[m] : t = u /\ Single(t)
    /\ \A i \in DOMAIN raw.roots : \A u, v \in raw.roots[i].max_depth : u = v
    /\ \A i \in DOMAIN raw.rules :
          \A key \in {"dir_name", "glob", "sibling", "ancestor", "min_idle", "orphaned_only",
                      "max_depth", "os", "command"} :
              \A u, v \in raw.rules[i][key] : u = v

Standing(content) ==
    \/ content \in {Absent, Folder, Locked, Garbage}
    \/ content \in Text /\ Singles(content)

ASSUME ConfigurationOK ==
    /\ {Host, Short} \subseteq Hosts
    /\ \A mark \in {Absent, Folder, Locked, Garbage} : mark \notin Text
    /\ Folder # Absent /\ Locked \notin {Absent, Folder}
    /\ Garbage \notin {Absent, Folder, Locked}
    /\ DOMAIN Edits = Locations
    /\ \A l \in Locations : \A content \in Edits[l] : Standing(content)
    /\ \A w \in Worlds :
          /\ w.env \in [explicit : BOOLEAN, var : BOOLEAN, home : BOOLEAN, watched : SUBSET Locations]
          /\ w.file = [l \in Locations |-> w.file[l]]
          /\ \A l \in Locations : Standing(w.file[l])

VARIABLES
    env,        \* the environment: what is given, and which locations are edited
    file,       \* file[l]: what stands at location l
    pc,         \* "idle", "probe", "read" or "done"
    at,         \* the index of the location looked at
    outcome     \* what the load returned

\* For the properties: at which locations a file has stood, and at which there has been
\* none, at some moment of the load.
VARIABLES held, lacked

vars == <<env, file, pc, at, outcome, held, lacked>>

Given(option, default) == IF option = {} THEN default ELSE CHOOSE v \in option : TRUE

-----------------------------------------------------------------------------
(* The settings of the run. *)

\* A path is its form, "absolute", "home" for one that begins with ~, or
\* "relative", and the place it names in that form.
Expandable(path) == path.form = "home" => env.home

Expanded(path) == IF path.form = "home" THEN [path EXCEPT !.form = "absolute"] ELSE path

\* The table of this machine, if any: one of them, never two.
Overlay(raw) ==
    IF raw.machine[Host] # {} THEN raw.machine[Host] ELSE raw.machine[Short]

\* pick!: the key from the overlay, or from [global], or its default.  With no
\* overlay [global] stands in for it.
Pick(raw, key, default) ==
    LET overlay == Given(Overlay(raw), raw.global) IN
    Given(overlay[key], Given(raw.global[key], default))

UnderHome(name) == [form |-> "home", name |-> name]

Settings(raw) ==
    [dry_run    |-> Pick(raw, "dry_run", TRUE),
     low        |-> Pick(raw, "low", 15),
     target     |-> Pick(raw, "target", 25),
     staleness  |-> Pick(raw, "staleness", "fine"),
     pin        |-> Pick(raw, "pin", "plain"),
     quarantine |-> Pick(raw, "quarantine", UnderHome("quarantine")),
     heartbeats |-> Pick(raw, "heartbeats", UnderHome("heartbeats")),
     deny       |-> Pick(raw, "deny", <<>>)]

\* Mutant: the low-water mark may lie above the target.
SettingsOK_MarksApart(s) ==
    /\ Expandable(s.quarantine) /\ Expandable(s.heartbeats)
    /\ s.low <= 100 /\ s.target <= 100
    /\ s.staleness = "fine"
    /\ s.pin = "plain"
    /\ Expanded(s.quarantine).form = "absolute"
    /\ \A i \in DOMAIN s.deny : Expandable(s.deny[i])

SettingsOK(s) ==
    /\ Expandable(s.quarantine) /\ Expandable(s.heartbeats)
    /\ s.low <= 100 /\ s.target <= 100 /\ s.target >= s.low
    /\ s.staleness = "fine"
    /\ s.pin = "plain"
    /\ Expanded(s.quarantine).form = "absolute"
    /\ \A i \in DOMAIN s.deny : Expandable(s.deny[i])

-----------------------------------------------------------------------------
(* Roots and rules: two loops that return at the first entry they refuse. *)

Running(out) == [ok |-> TRUE, seen |-> {}, out |-> out]
Refused == [ok |-> FALSE, seen |-> {}, out |-> <<>>]

Root(r) == [path |-> Expanded(r.path), max_depth |-> Given(r.max_depth, 8)]

AddRoot(loop, r) ==
    IF /\ loop.ok
       /\ Expandable(r.path)
       /\ Root(r).path.form = "absolute"
       /\ Root(r).path \notin loop.seen
       /\ Root(r).max_depth # 0
    THEN [loop EXCEPT !.seen = @ \cup {Root(r).path}, !.out = Append(@, Root(r))]
    ELSE Refused

Roots(raw) ==
    LET after[i \in 0 .. Len(raw.roots)] ==
            IF i = 0 THEN Running(<<>>) ELSE AddRoot(after[i - 1], raw.roots[i])
    IN after[Len(raw.roots)]

CommonOK(r, seen) ==
    /\ r.name # "" /\ r.name \notin seen
    /\ r.tier <= 2
    /\ Given(r.os, {}) \subseteq {"linux", "macos"}

\* No empty or computed argv, and no key that is for path rules.
CommandOK(r) ==
    /\ Given(r.command, <<>>) # <<>>
    /\ \A i \in DOMAIN Given(r.command, <<>>) : Given(r.command, <<>>)[i] # "substituted"
    /\ \A key \in {"dir_name", "glob", "sibling", "ancestor", "min_idle",
                   "orphaned_only", "max_depth"} : r[key] = {}

Bare(option) == option \subseteq {"plain"}

\* A path is matched one way, and what must stand near it is a bare name.
PathOK(r) ==
    /\ r.command = {}
    /\ \/ r.glob = {} /\ r.dir_name # {} /\ r.dir_name \subseteq {"plain", "empty"}
       \/ r.dir_name = {} /\ r.glob = {"plain"}
       \/ r.dir_name = {} /\ r.glob = {"home"} /\ env.home
    /\ Bare(r.sibling) /\ Bare(r.ancestor)

Rule(r) ==
    [name |-> r.name, kind |-> r.kind, tier |-> r.tier,
     matcher |-> r.dir_name \cup r.glob,
     sibling |-> r.sibling, ancestor |-> r.ancestor,
     min_idle |-> IF r.kind = "command" THEN 0 ELSE Given(r.min_idle, 24),
     orphaned_only |-> Given(r.orphaned_only, FALSE),
     max_depth |-> r.max_depth,
     os |-> Given(r.os, {}),
     command |-> Given(r.command, <<>>)]

AddRule(loop, r) ==
    IF /\ loop.ok
       /\ CommonOK(r, loop.seen)
       /\ IF r.kind = "command" THEN CommandOK(r) ELSE PathOK(r)
    THEN [loop EXCEPT !.seen = @ \cup {r.name}, !.out = Append(@, Rule(r))]
    ELSE Refused

Rules(raw) ==
    LET after[i \in 0 .. Len(raw.rules)] ==
            IF i = 0 THEN Running(<<>>) ELSE AddRule(after[i - 1], raw.rules[i])
    IN after[Len(raw.rules)]

HasRoots(raw) ==
    raw.roots = <<>> => \A i \in DOMAIN raw.rules : raw.rules[i].kind # "path"

Accepts(raw) ==
    /\ SettingsOK(Settings(raw))
    /\ HasRoots(raw)
    /\ Roots(raw).ok /\ Rules(raw).ok
    /\ Rules(raw).out # <<>>

Config(raw) ==
    [settings |-> [Settings(raw) EXCEPT
                      !.quarantine = Expanded(@),
                      !.heartbeats = Expanded(@),
                      !.deny = [i \in DOMAIN @ |-> Expanded(@[i])]],
     roots |-> Roots(raw).out,
     rules |-> Rules(raw).out]

-----------------------------------------------------------------------------
(* The search. *)

If(condition, location) == IF condition THEN <<location>> ELSE <<>>

\* Mutant: an explicit file that is missing is looked for elsewhere.
SearchPath_FallsBack ==
    If(env.explicit, "explicit") \o If(env.var, "var") \o If(env.home, "home") \o <<"etc">>

SearchPath ==
    IF env.explicit THEN <<"explicit">>
    ELSE If(env.var, "var") \o If(env.home, "home") \o <<"etc">>

IsFile(content) == content \notin {Absent, Folder}

NoOutcome == [is |-> "none"]
Error(kind, location) == [is |-> kind, from |-> location]
Loaded(raw) == [is |-> "config", from |-> SearchPath[at], raw |-> raw, config |-> Config(raw)]

\* load_from, parse, resolve.
Outcome(content) ==
    CASE content \in {Absent, Folder, Locked} -> Error("unreadable", SearchPath[at])
      [] content = Garbage -> Error("unparsable", SearchPath[at])
      [] OTHER -> IF Accepts(content) THEN Loaded(content)
                  ELSE [is |-> "invalid", from |-> SearchPath[at], raw |-> content]

WithFile(files) == {l \in Locations : IsFile(files[l])}

\* What others do to the files while a load is under way is noted.
Watch ==
    IF pc \in {"probe", "read"}
    THEN held' = held \cup WithFile(file') /\ lacked' = lacked \cup (Locations \ WithFile(file'))
    ELSE UNCHANGED <<held, lacked>>

Begin ==
    /\ pc \in {"idle", "done"}
    /\ pc' = "probe" /\ at' = 1
    /\ outcome' = NoOutcome
    /\ held' = WithFile(file) /\ lacked' = Locations \ WithFile(file)
    /\ UNCHANGED <<env, file>>

\* is_file, for one location after the other.
Probe ==
    /\ pc = "probe" /\ at <= Len(SearchPath)
    /\ IF IsFile(file[SearchPath[at]])
       THEN pc' = "read" /\ UNCHANGED at
       ELSE at' = at + 1 /\ UNCHANGED pc
    /\ UNCHANGED <<env, file, outcome, held, lacked>>

NotFound ==
    /\ pc = "probe" /\ at > Len(SearchPath)
    /\ outcome' = IF env.explicit THEN Error("unreadable", "explicit") ELSE [is |-> "not found"]
    /\ pc' = "done"
    /\ UNCHANGED <<env, file, at, held, lacked>>

\* What was a file may be something else by now.
Read ==
    /\ pc = "read"
    /\ outcome' = Outcome(file[SearchPath[at]])
    /\ pc' = "done"
    /\ UNCHANGED <<env, file, at, held, lacked>>

\* Somebody replaces, removes or creates a file.
Edit(l) ==
    /\ l \in env.watched
    /\ \E content \in Edits[l] \ {file[l]} : file' = [file EXCEPT ![l] = content]
    /\ Watch
    /\ UNCHANGED <<env, pc, at, outcome>>

Start ==
    /\ pc = "idle" /\ at = 1
    /\ outcome = NoOutcome
    /\ held = {} /\ lacked = {}

Init == Start /\ \E w \in Worlds : env = w.env /\ file = w.file

Load == Begin \/ Probe \/ NotFound \/ Read

Next == Load \/ \E l \in Locations : Edit(l)

Spec == Init /\ [][Next]_vars

-----------------------------------------------------------------------------
Accepted == outcome.is = "config"

Absolute(path) == path.form = "absolute"

\* The state has its type, and what is loaded has the shape the other modules
\* take for granted: absolute roots with a depth, tiers 0 to 2, percentages.
TypeOK ==
    /\ env \in [explicit : BOOLEAN, var : BOOLEAN, home : BOOLEAN, watched : SUBSET Locations]
    /\ DOMAIN file = Locations
    /\ pc \in {"idle", "probe", "read", "done"}
    /\ at \in 1 .. Len(SearchPath) + 1
    /\ held \subseteq Locations /\ lacked \subseteq Locations
    /\ outcome.is \in {"none", "config", "unreadable", "unparsable", "invalid", "not found"}
    /\ (outcome.is = "none") = (pc # "done")
    /\ Accepted =>
          /\ outcome.config.settings.target \in outcome.config.settings.low .. 100
          /\ Absolute(outcome.config.settings.quarantine)
          /\ \A i \in DOMAIN outcome.config.roots :
                Absolute(outcome.config.roots[i].path) /\ outcome.config.roots[i].max_depth > 0
          /\ \A i \in DOMAIN outcome.config.rules : outcome.config.rules[i].tier \in 0 .. 2

\* The locations that may be read, and those that come before l.
Allowed ==
    IF env.explicit THEN {"explicit"}
    ELSE {l \in {"var", "home"} : env[l]} \cup {"etc"}

Ahead(l) ==
    CASE l = "etc" -> Allowed \ {"etc"}
      [] l = "home" -> Allowed \ {"etc", "home"}
      [] OTHER -> {}

\* The first file wins, whatever is wrong with it, and with an explicit path there is no
\* other, while files come, go and are replaced between the questions of the search: a
\* load that ends at a location passes over those before it only if there was no file
\* at them at some moment of the load, and finds nothing only if that is so of all.  No
\* more is promised: a file moved to a location already passed is missed (config.rs,
\* search_path and load: "First hit wins").
FirstFileWins ==
    pc = "done" =>
        IF outcome.is = "not found" THEN ~env.explicit /\ Allowed \subseteq lacked
        ELSE /\ outcome.from \in Allowed /\ Ahead(outcome.from) \subseteq lacked
             /\ \/ outcome.from \in held
                \/ env.explicit /\ outcome.is = "unreadable" /\ "explicit" \in lacked

\* What a text has to be like, said without the order in which it is looked at: the
\* values that count for a key, the form a path has in the end, and the rules of a kind.
Own(raw, key) ==
    UNION {table[key] : table \in IF raw.machine[Host] # {} THEN raw.machine[Host]
                                  ELSE raw.machine[Short]}
Set(raw, key) == IF Own(raw, key) # {} THEN Own(raw, key) ELSE raw.global[key]
Named(path) == IF path.form = "home" THEN "absolute" ELSE path.form
Kind(raw, k) == {r \in {raw.rules[i] : i \in DOMAIN raw.rules} : r.kind = k}

EntryGood(r) == r.name # "" /\ r.tier \in {0, 1, 2} /\ r.os \subseteq SUBSET {"linux", "macos"}
CommandGood(r) ==
    /\ \E argv \in r.command : argv # <<>> /\ \A i \in DOMAIN argv : argv[i] = "plain"
    /\ r.dir_name \cup r.glob \cup r.sibling \cup r.ancestor = {}
    /\ r.min_idle = {} /\ r.orphaned_only = {} /\ r.max_depth = {}
PathGood(r) ==
    /\ r.command = {}
    /\ r.dir_name = {} <=> r.glob # {}
    /\ "slashed" \notin r.dir_name \cup r.sibling \cup r.ancestor
    /\ r.glob \cap {"dotdot", "malformed"} = {}
    /\ "empty" \notin r.sibling \cup r.ancestor
    /\ env.home \/ r.glob # {"home"}

WellFormed(raw) ==
    LET low == IF Set(raw, "low") = {} THEN {15} ELSE Set(raw, "low")
        target == IF Set(raw, "target") = {} THEN {25} ELSE Set(raw, "target")
        set == Set(raw, "quarantine") \cup Set(raw, "heartbeats")
               \cup UNION {{d[i] : i \in DOMAIN d} : d \in Set(raw, "deny")}
    IN
    /\ raw.rules # <<>>
    /\ raw.roots = <<>> => Kind(raw, "path") = {}
    \* Without a home there is nothing that begins with ~, also by default.
    /\ env.home \/ /\ \A p \in set : p.form # "home"
                   /\ Set(raw, "quarantine") # {} /\ Set(raw, "heartbeats") # {}
                   /\ \A i \in DOMAIN raw.roots : raw.roots[i].path.form # "home"
    /\ \A l \in low, t \in target : l <= t /\ t <= 100
    /\ Set(raw, "staleness") \subseteq {"fine"} /\ Set(raw, "pin") \subseteq {"plain"}
    /\ \A q \in Set(raw, "quarantine") : q.form # "relative"
    /\ \A i, j \in DOMAIN raw.roots :
          /\ raw.roots[i].path.form # "relative" /\ raw.roots[i].max_depth # {0}
          /\ i # j => \/ raw.roots[i].path.name # raw.roots[j].path.name
                      \/ Named(raw.roots[i].path) # Named(raw.roots[j].path)
    /\ \A i, j \in DOMAIN raw.rules : i # j => raw.rules[i].name # raw.rules[j].name
    /\ \A r \in Kind(raw, "command") : EntryGood(r) /\ CommandGood(r)
    /\ \A r \in Kind(raw, "path") : EntryGood(r) /\ PathGood(r)

\* A text that is read is accepted exactly if it is well formed on this machine,
\* and then every root and every rule of it is there, in its order (config.rs,
\* resolve).
AcceptedIffWellFormed ==
    /\ Accepted =>
          /\ WellFormed(outcome.raw)
          /\ Len(outcome.config.roots) = Len(outcome.raw.roots)
          /\ Len(outcome.config.rules) = Len(outcome.raw.rules)
          /\ \A i \in DOMAIN outcome.raw.rules :
                outcome.config.rules[i].name = outcome.raw.rules[i].name
    /\ outcome.is = "invalid" => ~WellFormed(outcome.raw)

=============================================================================
