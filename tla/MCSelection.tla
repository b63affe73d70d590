---------------------------- MODULE MCSelection -----------------------------
(* code (1) holds a directory target (2) and web (3); web holds target (4),  *)
(* which holds deps (5), which holds a target of its own (6).                *)
EXTENDS Selection, TLC

CargoToml == "Cargo.toml"
Keep == ".reap-keep"

AboveOf == <<{0}, {0, 1}, {0, 1}, {0, 1, 3}, {0, 1, 3, 4}, {0, 1, 3, 4, 5}>>
NameOf == <<"code", "target", "web", "target", "deps", "target">>

\* The second rule also matches what the first one does, near the root.
TwoRules == <<
    [tier |-> 0, name |-> "target", sibling |-> CargoToml, ancestor |-> NoFile,
     cap |-> NoFile, orphaned |-> FALSE, idle |-> TRUE],
    [tier |-> 1, name |-> "target", sibling |-> NoFile, ancestor |-> GitDir,
     cap |-> 2, orphaned |-> TRUE, idle |-> FALSE] >>

RootAt(d, cap) == [dir |-> d, via |-> "real", cap |-> cap]
OneRoot == <<RootAt(1, 4)>>

\* Nested either way round, with a tight cap outside, inside a match; and a root
\* spelled through a link.
ManyRootLists ==
    {OneRoot, <<RootAt(1, 1), RootAt(3, 4)>>, <<RootAt(3, 4), RootAt(1, 4)>>,
     <<RootAt(1, 4), RootAt(5, 2)>>, <<RootAt(5, 2), RootAt(1, 4)>>,
     <<[dir |-> 1, via |-> "link", cap |-> 4]>>}
JustOneRoot == {OneRoot}

Directories == [n \in Entries |-> "dir"]
SomeKinds == {Directories, [Directories EXCEPT ![5] = "link"]}
AllDirectories == {Directories}

With(cargo, keep, git) ==
    [d \in Entries \cup {0} |->
        (IF d \in cargo THEN {CargoToml} ELSE {}) \cup (IF d \in keep THEN {Keep} ELSE {})
        \cup (IF d \in git THEN {GitDir} ELSE {})]
SomeContents ==
    {With({3, 5}, {}, {}), With({3, 5}, {}, {1}), With({5}, {}, {1}),
     With({3, 5}, {1}, {}), With({1, 3, 5}, {5}, {}), With({3}, {3}, {3})}
PinnedInside == {With({3, 5}, {5}, {})}

NoClaims == [readable |-> TRUE, live |-> {}]
Claim1(session, paths, bad) ==
    [readable |-> TRUE, live |-> {[session |-> session, paths |-> paths, unreadable |-> bad]}]
SomeIndexes ==
    {NoClaims, [NoClaims EXCEPT !.readable = FALSE],
     Claim1("job", {[node |-> 5, via |-> "real"]}, FALSE), Claim1("target", {}, TRUE)}
Unclaimed == {NoClaims}

OneDenied == {[node |-> 2, via |-> "link"]}
KeepInWeb == {<<3, Keep>>}
=============================================================================
