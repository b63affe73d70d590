-------------------------------- MODULE Setup --------------------------------
(***************************************************************************)
(* `reap init` (commands/init.rs, catalog.rs): looks at the home directory *)
(* and the toolchains of this machine, renders a first configuration and   *)
(* writes it where the next command will look for it, while commands load  *)
(* the configuration and people edit it (module Configuration).  It may be *)
(* killed, and the disk may be full.                                       *)
(*                                                                         *)
(* Directories of the home directory are numbered, in path order, 0 being  *)
(* the home directory itself.                                              *)
(***************************************************************************)
EXTENDS Configuration, FiniteSets

CONSTANTS
    System,     \* reap_platform::os_name
    Cuts,       \* after how many rules a text that is being written may end
    Awkward,    \* names that do not stand for themselves between quotes in TOML
    Misread     \* Misread[name]: the name TOML reads there, or Garbage

SearchDepth == 3
Limit == 500

Tools == {"rust", "node", "pnpm", "python", "uv", "go", "gradle", "docker"}

\* w.homes is what init may find in world w: directories and toolchains.
ASSUME SetupOK ==
    /\ System \in {"linux", "macos"} /\ Cuts \subseteq Nat
    /\ Awkward \subseteq Words /\ Misread \in [Awkward -> Words \cup {Garbage}]
    /\ \A w \in Worlds : \A h \in w.homes :
          /\ h.parent \in Seq(Nat) /\ \A d \in DOMAIN h.parent : h.parent[d] < d
          /\ h.name \in [DOMAIN h.parent -> Words]
          /\ \A c, d \in DOMAIN h.parent : h.name[c] = h.name[d] => c = d
          /\ h.place \in [DOMAIN h.parent -> Nat \ {0}]
          /\ h.conventional \cup h.hidden \cup h.never \cup h.projects \cup h.closed
             \cup h.links \subseteq DOMAIN h.parent
          /\ \A d \in h.conventional \cup h.never : h.parent[d] = 0
          /\ h.programs \subseteq Tools
          /\ h.caches \subseteq (Tools \ {"python", "docker"}) \cup {"browsers", "xcode"}

VARIABLES
    homes,      \* what init finds: it is not run where there is nothing to find
    setup,      \* the command: where it is, whether --force, the text to be written, the
                \* names of the roots it has detected
    ours        \* locations that hold what it has written of its text

\* For the properties: whether nobody else has touched a location since it began.
VARIABLE calm

setupVars == <<homes, setup, ours, calm>>

-----------------------------------------------------------------------------
(* detect_roots. *)

\* What is looked at of directory d: of its first 500 entries, files included, those
\* that are directories and no links.  A project may have a hidden name.
Inside(h, d) == {c \in DOMAIN h.parent \ h.links : h.parent[c] = d /\ h.place[c] <= Limit}

Claimed(h, d) == d # 0 /\ Inside(h, d) \cap h.projects # {}

\* Below what it claims it does not look, nor below hidden names, nor, in the home
\* directory itself, below some names where there is never code.
Below(h, dirs) ==
    (UNION {Inside(h, d) \ (h.hidden \cup h.never) : d \in {e \in dirs : ~Claimed(h, e)}})
        \ h.closed

Searched(h, deepest) ==
    LET level[depth \in 0 .. deepest] == IF depth = 0 THEN {0} ELSE Below(h, level[depth - 1])
    IN UNION {level[depth] : depth \in 0 .. deepest}

\* Mutant: the deepest directories are not looked into.
DetectRoots_Shallow(h) ==
    IF h.conventional # {} THEN h.conventional
    ELSE {d \in Searched(h, SearchDepth - 1) : Claimed(h, d)}

DetectRoots(h) ==
    IF h.conventional # {} THEN h.conventional
    ELSE {d \in Searched(h, SearchDepth) : Claimed(h, d)}

-----------------------------------------------------------------------------
(* The catalogue. *)

Basic(name, tier) ==
    [name |-> name, kind |-> "path", tier |-> tier, dir_name |-> {}, glob |-> {},
     sibling |-> {}, ancestor |-> {}, min_idle |-> {48}, orphaned_only |-> {},
     max_depth |-> {}, os |-> {}, command |-> {}]

Dir(rule) == [rule EXCEPT !.dir_name = {"plain"}]
Glob(rule) == [rule EXCEPT !.glob = {"plain"}]
Command(rule) == [rule EXCEPT !.kind = "command", !.command = {<<"plain">>}, !.min_idle = {}]
OnMac(rule) == [rule EXCEPT !.os = {{"macos"}}]

Entry(stack, rule) == [stack |-> stack, extra |-> {}, depth |-> 0, rule |-> rule]
InCache(stack, rule, cache, depth) ==
    [stack |-> stack, extra |-> {cache}, depth |-> depth, rule |-> [rule EXCEPT !.glob = {"home"}]]

Catalog == <<
    Entry("generic", Dir(Basic("python-bytecode", 0))),
    Entry("python", Glob(Basic("python-tool-caches", 0))),
    Entry("rust", [Dir(Basic("cargo-target", 0)) EXCEPT !.sibling = {"plain"}]),
    Entry("generic", Glob(Basic("coverage-output", 0))),
    Entry("go", Command(Basic("go-build-cache", 0))),
    Entry("node", [Dir(Basic("node-modules", 1)) EXCEPT !.sibling = {"plain"}]),
    Entry("python", [Glob(Basic("python-venv", 1)) EXCEPT !.ancestor = {"plain"}]),
    InCache("xcode", OnMac(Basic("xcode-derived-data", 1)), "DerivedData", 1),
    Entry("xcode", OnMac(Command(Basic("xcode-unavailable-simulators", 1)))),
    InCache("browsers", Basic("playwright-browsers", 1), "ms-playwright", 1),
    Entry("docker", Command(Basic("docker-dangling-images", 1))),
    InCache("rust", Basic("cargo-registry-cache", 2), "registry", 2),
    Entry("pnpm", Command(Basic("pnpm-store", 2))),
    Entry("node", Command(Basic("npm-cache", 2))),
    Entry("uv", Command(Basic("uv-cache", 2))),
    InCache("gradle", Basic("gradle-caches", 2), "gradle", 1),
    Entry("docker", Command(Basic("docker-build-cache", 2))) >>

Stacks == {Catalog[i].stack : i \in DOMAIN Catalog}

ASSUME WordsOK ==
    /\ {"linux", "macos", "quarantine", "heartbeats", "code"} \subseteq Words
    /\ \A i \in DOMAIN Catalog : {Catalog[i].rule.name} \cup Catalog[i].extra \subseteq Words
    /\ "code" \notin Awkward /\ \A i \in DOMAIN Catalog : Catalog[i].extra \cap Awkward = {}

\* Caches lie where init does not look for code: in hidden directories, and in Library.
ASSUME CachesApart ==
    \A w \in Worlds : \A h \in w.homes : \A d \in DOMAIN h.name :
        \A i \in DOMAIN Catalog : h.name[d] \notin Catalog[i].extra

\* catalog::detect: a program on PATH, or the directory it keeps its cache in.
Detect(h) ==
    {"generic"} \cup h.programs \cup (h.caches \ (IF System = "macos" THEN {} ELSE {"xcode"}))

-----------------------------------------------------------------------------
(* render. *)

RootAt(name, depth) == [path |-> UnderHome(name), max_depth |-> {depth}]

\* The i-th of a set of numbers has i - 1 before it.
Ordered(S) ==
    [i \in 1 .. Cardinality(S) |-> CHOOSE x \in S : Cardinality({y \in S : y < x}) = i - 1]

CodeRoots(h) ==
    IF DetectRoots(h) = {} THEN <<RootAt("code", 6)>>
    ELSE LET found == Ordered(DetectRoots(h)) IN
         [i \in DOMAIN found |-> RootAt(h.name[found[i]], 6)]

\* Whatever platform the entry is for.
ExtraRoots(stacks) ==
    LET with == Ordered({i \in DOMAIN Catalog : Catalog[i].stack \in stacks /\ Catalog[i].extra # {}})
    IN [i \in DOMAIN with |->
           RootAt(CHOOSE x \in Catalog[with[i]].extra : TRUE, Catalog[with[i]].depth)]

RulesFor(stacks) ==
    LET for == Ordered({i \in DOMAIN Catalog :
                   /\ Catalog[i].stack \in stacks
                   /\ \A systems \in Catalog[i].rule.os : System \in systems})
    IN [i \in DOMAIN for |-> Catalog[for[i]].rule]

Globals ==
    [dry_run |-> {TRUE}, low |-> {15}, target |-> {25}, staleness |-> {}, pin |-> {"plain"},
     quarantine |-> {UnderHome("quarantine")}, heartbeats |-> {UnderHome("heartbeats")},
     deny |-> {<<>>}]

NoTables == [m \in Hosts |-> {}]

\* Mutant: what is written is armed.
Render_Armed(h, stacks) ==
    [global |-> [Globals EXCEPT !.dry_run = {FALSE}], machine |-> NoTables,
     roots |-> CodeRoots(h) \o ExtraRoots(stacks), rules |-> RulesFor(stacks)]

Render(h, stacks) ==
    [global |-> Globals, machine |-> NoTables,
     roots |-> CodeRoots(h) \o ExtraRoots(stacks), rules |-> RulesFor(stacks)]

Nothing == [global |-> [key \in DOMAIN Globals |-> {}], machine |-> NoTables,
            roots |-> <<>>, rules |-> <<>>]

Spoils(name) == name \in Awkward /\ Misread[name] = Garbage

ReadBack(name) == IF name \in Awkward THEN Misread[name] ELSE name

\* What the text parses to: paths are put between quotes as they are, without escapes,
\* so that a quote or a backslash in the name of a directory spoils the file, or makes
\* it name another directory.
Parsed(text) ==
    IF \E i \in DOMAIN text.roots : Spoils(text.roots[i].path.name) THEN Garbage
    ELSE [text EXCEPT !.roots =
             [i \in DOMAIN text.roots |-> [text.roots[i] EXCEPT !.path.name = ReadBack(@)]]]

\* What a load may find of a text of which only the beginning has been written: no
\* TOML, only tables, or rules of which the last lacks its later keys.
Beginnings(text) ==
    {Garbage, Nothing} \cup
    IF text = Garbage THEN {}
    ELSE {[text EXCEPT !.rules = <<>>]} \cup
    {[text EXCEPT !.rules =
         [i \in 1 .. n |-> IF i < n THEN @[i]
                           ELSE [@[i] EXCEPT !.sibling = {}, !.ancestor = {},
                                             !.min_idle = {}, !.os = {}]]] :
        n \in Cuts \cap DOMAIN text.rules}

-----------------------------------------------------------------------------
(* The command. *)

\* Mutant: always the place below the home directory.
Target_Home == "home"

\* The first location of the search path; HOME is set, or init gives up.
Target == SearchPath[1]

NoText == [is |-> "none"]
Idle == [pc |-> "idle", force |-> FALSE, text |-> NoText, roots |-> {}]

LoadSame == UNCHANGED <<env, pc, at, outcome, homes>>

\* Detection and rendering, with --detect or for every toolchain.
InitRender ==
    /\ setup.pc \in {"idle", "done", "failed"} /\ env.home
    /\ \E h \in homes, force \in BOOLEAN : \E stacks \in {Detect(h), Stacks} :
          setup' = [pc |-> "check", force |-> force, text |-> Parsed(Render(h, stacks)),
                    roots |-> {h.name[d] : d \in DetectRoots(h)}]
    /\ calm' = TRUE
    /\ UNCHANGED <<file, held, lacked, ours>> /\ LoadSame

\* target.exists().
InitCheck ==
    /\ setup.pc = "check"
    /\ setup' = [setup EXCEPT !.pc =
           IF file[Target] # Absent /\ ~setup.force THEN "failed" ELSE "truncate"]
    /\ UNCHANGED <<file, held, lacked, ours, calm>> /\ LoadSame

\* fs::write opens the file, which empties it.
InitTruncate ==
    /\ setup.pc = "truncate"
    /\ IF file[Target] \in {Folder, Locked}
       THEN /\ setup' = [setup EXCEPT !.pc = "failed"]
            /\ UNCHANGED <<file, held, lacked, ours>>
       ELSE /\ setup' = [setup EXCEPT !.pc = "write"]
            /\ file' = [file EXCEPT ![Target] = Nothing]
            /\ Watch
            /\ ours' = ours \cup {Target}
    /\ UNCHANGED calm /\ LoadSame

\* What is written goes to the file that was opened, if it is still there.
Put(text) == file' = IF Target \in ours THEN [file EXCEPT ![Target] = text] ELSE file

InitWritePart ==
    /\ setup.pc = "write"
    /\ setup' = [setup EXCEPT !.pc = "rest"]
    /\ \E text \in Beginnings(setup.text) : Put(text)
    /\ UNCHANGED <<held, lacked, ours, calm>> /\ LoadSame

InitWriteRest ==
    /\ setup.pc = "rest"
    /\ setup' = [setup EXCEPT !.pc = "done"]
    /\ Put(setup.text)
    /\ UNCHANGED <<held, lacked, ours, calm>> /\ LoadSame

\* A directory that cannot be made, a file that cannot be opened, a full disk; or
\* the process is killed.
InitFails ==
    /\ setup.pc \in {"check", "truncate", "write", "rest"}
    /\ setup' = [setup EXCEPT !.pc = "failed"]
    /\ UNCHANGED <<file, held, lacked, ours, calm>> /\ LoadSame

EditDuring(l) ==
    /\ Edit(l)
    /\ ours' = ours \ {l}
    /\ calm' = FALSE
    /\ UNCHANGED <<homes, setup>>

SetupInit ==
    /\ Start
    /\ \E w \in Worlds : env = w.env /\ file = w.file /\ homes = w.homes
    /\ setup = Idle /\ ours = {} /\ calm = FALSE

SetupNext ==
    \/ Load /\ UNCHANGED setupVars
    \/ \E l \in Locations : EditDuring(l)
    \/ InitRender \/ InitCheck \/ InitTruncate \/ InitWritePart \/ InitWriteRest \/ InitFails

SetupSpec == SetupInit /\ [][SetupNext]_<<vars, setupVars>>

-----------------------------------------------------------------------------
(* Properties. *)

\* When init has written and nobody else interferes, the next command finds this
\* text before any other, and accepts it with removal off (init.rs, run: "so init
\* writes where the next command will look"), if every directory it detected has a name
\* that stands for itself between quotes.  After a directory with a quote or a backslash
\* in its name was detected (init.rs:229-233), the file may be refused; if it parses
\* all the same, removal is off.
InitIsObeyed ==
    setup.pc = "done" /\ calm
    => /\ Target \in Allowed /\ file[Target] = setup.text
       /\ \A l \in Ahead(Target) : ~IsFile(file[l])
       /\ setup.roots \cap Awkward = {} => setup.text # Garbage /\ Accepts(setup.text)
       /\ setup.text # Garbage => Settings(setup.text).dry_run

\* No load ever takes removal to be armed from what init has written, however
\* little of it there was (init.rs: "What it writes is always dry_run = true").
InitNeverArms ==
    [][pc = "read" /\ pc' = "done" /\ SearchPath[at] \in ours /\ outcome'.is = "config"
       => outcome'.config.settings.dry_run]_<<vars, setupVars>>

\* The directories above d, the home directory left out.
Above(h, d) ==
    LET up[e \in {0} \cup DOMAIN h.parent] ==
            IF e = 0 \/ h.parent[e] = 0 THEN {} ELSE {h.parent[e]} \cup up[h.parent[e]]
    IN up[d]

\* Without a conventional directory every project that lies two to four levels below
\* the home directory, and which nothing hides, lies in exactly one root, which is
\* never the home directory; and a root is there for the projects right inside it
\* (init.rs, detect_roots: "rather than declaring a broad ancestor").  Hidden is also
\* what comes after the 500th entry of a directory, in whatever order the file system
\* lists it (init.rs:104): of that nothing is said.
EveryProjectHasItsRoot ==
    \A h \in homes : h.conventional = {} =>
        LET roots == DetectRoots(h)
            above(p) == Above(h, p)
            seen(p) == /\ p \notin h.links /\ Cardinality(above(p)) \in 1 .. SearchDepth
                       /\ above(p) \cap (h.hidden \cup h.never \cup h.links \cup h.closed) = {}
                       /\ \A d \in above(p) \cup {p} : h.place[d] <= Limit
        IN /\ \A p \in h.projects : seen(p) => Cardinality(roots \cap above(p)) = 1
           /\ \A r \in roots : /\ roots \cap Above(h, r) = {}
                              /\ \E p \in h.projects : h.parent[p] = r
=============================================================================
