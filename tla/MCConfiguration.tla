-------------------------- MODULE MCConfiguration ---------------------------
(* Texts for the configuration file: a good one and what differs from it in  *)
(* its tables, its roots or its rules.                                       *)
EXTENDS Setup

MCHost == "box.example"
MCShort == "box"
MCWords == STRING

Path(form, name) == [form |-> form, name |-> name]

Blank == [dry_run |-> {}, low |-> {}, target |-> {}, staleness |-> {}, pin |-> {},
          quarantine |-> {}, heartbeats |-> {}, deny |-> {}]

Placed == [Blank EXCEPT !.quarantine = {Path("absolute", "q")},
                        !.heartbeats = {Path("absolute", "h")}]

GoodRule == [name |-> "r", kind |-> "path", tier |-> 0, dir_name |-> {"plain"}, glob |-> {},
             sibling |-> {}, ancestor |-> {}, min_idle |-> {}, orphaned_only |-> {},
             max_depth |-> {}, os |-> {}, command |-> {}]

GoodCommand == [GoodRule EXCEPT !.kind = "command", !.dir_name = {}, !.command = {<<"plain">>}]

GoodRoot == [path |-> Path("absolute", "a"), max_depth |-> {}]

Good == [global |-> Blank, machine |-> NoTables, roots |-> <<GoodRoot>>, rules |-> <<GoodRule>>]

\* Tables: [global], the two names of this machine, and another machine's.
Marks == {[t EXCEPT !.low = l, !.target = u] :
            t \in {Blank, Placed}, l \in {{}, {25}, {101}}, u \in {{}, {20}, {101}}}
Odd(t) == {[t EXCEPT !.staleness = {"below one"}], [t EXCEPT !.pin = {"empty"}],
           [t EXCEPT !.pin = {"slashed"}], [t EXCEPT !.quarantine = {Path("relative", "q")}],
           [t EXCEPT !.heartbeats = {Path("relative", "h")}],
           [t EXCEPT !.deny = {<<Path("absolute", "a"), Path("home", "a")>>}],
           [t EXCEPT !.dry_run = {FALSE}]}
OwnTable == {{Blank}, {[Blank EXCEPT !.low = {25}]}, {[Blank EXCEPT !.target = {10}]},
        {[Placed EXCEPT !.low = {101}, !.pin = {"plain"}]}}
Machines == {NoTables} \cup
    {[NoTables EXCEPT ![m] = t] : m \in Hosts, t \in OwnTable} \cup
    {[NoTables EXCEPT !["box.example"] = t, !["box"] = u] : t \in OwnTable, u \in OwnTable}
Tables == {[Good EXCEPT !.global = g, !.machine = m] : g \in Marks \cup Odd(Placed), m \in Machines}

\* Roots: up to two, with or without a rule that wants one.
ARoot == [path : {Path("absolute", "a"), Path("home", "a"), Path("relative", "a"),
                  Path("absolute", "b")}, max_depth : {{}, {0}, {3}}]
ManyRoots == {[Good EXCEPT !.roots = rs, !.rules = ts] :
    rs \in {<<>>} \cup {<<r>> : r \in ARoot} \cup {<<r, t>> : r \in ARoot, t \in ARoot},
    ts \in {<<>>, <<GoodRule>>, <<GoodCommand>>}}

\* Rules: each key of a path rule and of a command rule in turn, alone, after a
\* good rule of the same name and after one of another name.
ARule == UNION {{[r EXCEPT !.name = ""], [r EXCEPT !.tier = 2], [r EXCEPT !.tier = 3],
                 [r EXCEPT !.max_depth = {2}], [r EXCEPT !.min_idle = {6}],
                 [r EXCEPT !.orphaned_only = {TRUE}]}
                \cup {[r EXCEPT !.dir_name = d, !.glob = g] :
                        d \in {{}, {"plain"}, {"slashed"}, {"empty"}},
                        g \in {{}, {"plain"}, {"home"}, {"dotdot"}, {"malformed"}}}
                \cup {[r EXCEPT !.sibling = s, !.ancestor = a] :
                        s \in {{}, {"plain"}, {"empty"}}, a \in {{}, {"plain"}, {"slashed"}}}
                \cup {[r EXCEPT !.os = {o}] : o \in SUBSET {"linux", "macos", "other"}}
                \cup {[r EXCEPT !.command = c] :
                        c \in {{}, {<<>>}, {<<"plain">>}, {<<"plain", "substituted">>}}} :
                r \in {GoodRule, GoodCommand}}
ManyRules == {[Good EXCEPT !.rules = rs] :
    rs \in {<<>>} \cup {<<r>> : r \in ARule}
           \cup {<<[GoodRule EXCEPT !.name = n], r>> : n \in {"r", "s"}, r \in ARule}}

Environment(explicit, var, home, watched) ==
    [explicit |-> explicit, var |-> var, home |-> home, watched |-> watched]

\* Every text, at one location and left alone.
Alone(text) == [explicit |-> Absent, var |-> Absent, home |-> Absent, etc |-> text]
TextWorlds ==
    {[env |-> Environment(FALSE, FALSE, home, {}), file |-> Alone(text), homes |-> {}] :
        home \in BOOLEAN, text \in Tables \cup ManyRoots \cup ManyRules}

\* Few texts, at every location and edited.
Bad == [Good EXCEPT !.rules = <<>>]
Deep == [Good EXCEPT !.roots = <<[GoodRoot EXCEPT !.max_depth = {0}]>>]
MCEdits ==
    [explicit |-> {Absent, Locked, Good}, var |-> {Absent, Folder, Garbage, Good},
     home |-> {Absent, Bad, Good, Deep}, etc |-> {Absent, Locked, Good}]
SearchWorlds ==
    {[env |-> Environment(e, v, h, Locations), file |-> Alone(Good), homes |-> {}] : e, v, h \in BOOLEAN}

\* Homes: ~/docs/dev/{app,lib}, ~/tools/.app, deeper ones, and none.
Home(parent) ==
    [parent |-> parent, name |-> [d \in DOMAIN parent |-> <<"d1", "d2", "d3", "d4", "d5", "d6">>[d]],
     place |-> [d \in DOMAIN parent |-> d], conventional |-> {}, hidden |-> {}, never |-> {}, projects |-> {}, closed |-> {}, links |-> {},
     programs |-> {}, caches |-> {}]

Workstation == [Home(<<0, 1, 2, 2, 0, 5>>) EXCEPT
    !.projects = {3, 4, 6}, !.hidden = {6}, !.programs = {"rust", "node"}, !.caches = {"browsers"}]
Usual == [Home(<<0, 0, 1, 0>>) EXCEPT
    !.conventional = {1, 2}, !.links = {2}, !.projects = {3}, !.programs = {"python", "docker"},
    !.caches = {"gradle", "pnpm", "uv", "go", "xcode"}]

\* The same with names that need escapes: one that ends the string, one read otherwise.
Renamed(name) == [Workstation EXCEPT !.name[2] = name]
MCAwkward == {"say \"hi\"", "a\\tb"}
MCMisread == [name \in MCAwkward |-> IF name = "a\\tb" THEN "d9" ELSE Garbage]

\* A chain of five directories and a sixth beside the second, with projects anywhere
\* and something in the way.  There init is not let write: only what it finds matters.
Chains ==
    {[Home(<<0, 1, 2, 3, 4, 1>>) EXCEPT !.projects = ps, !.hidden = way[1], !.never = way[2],
                                        !.closed = way[3], !.links = way[4],
                                        !.place = [d \in 1 .. 6 |-> IF d \in way[5] THEN 501 ELSE d]] :
        ps \in SUBSET (1 .. 6),
        way \in {<<{}, {}, {}, {}, {}>>, <<{2}, {}, {}, {}, {}>>, <<{}, {1}, {}, {}, {}>>,
                 <<{}, {}, {3}, {}, {}>>, <<{}, {}, {}, {3, 6}, {}>>, <<{}, {}, {}, {}, {2, 4}>>}}

SetupWorlds ==
    {[env |-> Environment(FALSE, TRUE, TRUE, {"var"}), file |-> Alone(Good), homes |-> {Workstation}]}
    \cup {[env |-> Environment(FALSE, v, TRUE, {}), file |-> Alone(Good),
            homes |-> {Renamed(name)}] : v \in BOOLEAN, name \in MCAwkward}
    \cup {[env |-> Environment(e, v, h, {}), file |-> Alone(Good), homes |-> {Usual}] :
              e, v, h \in BOOLEAN}
    \cup {[env |-> Environment(TRUE, FALSE, TRUE, {}),
            file |-> [Alone(Absent) EXCEPT !.explicit = Folder], homes |-> {c}] : c \in Chains}

MCWorlds == TextWorlds \cup SearchWorlds \cup SetupWorlds
=============================================================================
