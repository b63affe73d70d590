------------------------ MODULE ConfigurationProofs -------------------------
(***************************************************************************)
(* Proofs about modules Configuration and Setup: for every text, location, *)
(* environment and machine, and whatever people and `reap init` write      *)
(* while the configuration is looked for and read.                         *)
(***************************************************************************)
EXTENDS Setup, FiniteSetTheorems, WellFoundedInduction, TLAPS

-----------------------------------------------------------------------------
(* The two loops of resolve. *)

LEMMA LeastNumber ==
    ASSUME NEW T, T \subseteq Nat, T # {}
    PROVE  \E x \in T : \A y \in T : x <= y
<1> DEFINE R == OpToRel(<, Nat)
<1>1. IsWellFoundedOn(R, Nat)
  BY NatLessThanWellFounded
<1>2. \A x, y \in Nat : y < x => <<y, x>> \in R
  BY DEF OpToRel
<1> HIDE DEF R
<1>3. PICK x \in T : \A y \in T : ~ (<<y, x>> \in R)
  BY <1>1, WFMin
<1>4. \A y \in T : ~ (y < x)
  BY <1>2, <1>3
<1>5. \A y \in T : x <= y
  BY <1>4
<1> QED BY <1>5

\* A function that obeys the equation of a loop is the one whose value after
\* each entry is known.
LEMMA LoopIs ==
    ASSUME NEW n \in Nat, NEW f, NEW G, NEW start,
           f[0] = start, G[0] = start,
           \A i \in 1 .. n : f[i - 1] = G[i - 1] => f[i] = G[i]
    PROVE  f[n] = G[n]
<1> DEFINE T == {i \in 0 .. n : f[i] # G[i]}
<1>1. SUFFICES ASSUME f[n] # G[n] PROVE FALSE
  OBVIOUS
<1>2. T \subseteq Nat /\ T # {}
  BY <1>1
<1> HIDE DEF T
<1>3. PICK x \in T : \A y \in T : x <= y
  BY <1>2, LeastNumber
<1>4. x \in 0 .. n /\ f[x] # G[x]
  BY <1>3 DEF T
<1>5. x # 0
  BY <1>4
<1>6. x - 1 \in 0 .. n /\ ~ (x <= x - 1) /\ x \in 1 .. n
  BY <1>4, <1>5
<1>7. f[x - 1] = G[x - 1]
  BY <1>3, <1>6 DEF T
<1> QED BY <1>4, <1>6, <1>7

LEMMA OneMore ==
    ASSUME NEW i \in Nat, NEW f, i # 0
    PROVE  Append([j \in 1 .. i - 1 |-> f[j]], f[i]) = [j \in 1 .. i |-> f[j]]
<1>1. [j \in 1 .. i - 1 |-> f[j]] \in Seq({f[j] : j \in 1 .. i})
  OBVIOUS
<1>2. Len([j \in 1 .. i - 1 |-> f[j]]) = i - 1
  OBVIOUS
<1> QED BY <1>1, <1>2

\* The roots up to the i-th are all fine, and no two of them are one place.
RootsFine(raw, i) ==
    \A j \in 1 .. i :
        /\ Expandable(raw.roots[j].path)
        /\ Root(raw.roots[j]).path.form = "absolute"
        /\ Root(raw.roots[j]).max_depth # 0
        /\ \A k \in 1 .. i : j # k => Root(raw.roots[j]).path # Root(raw.roots[k]).path

RootsAfter(raw, i) ==
    IF RootsFine(raw, i)
    THEN [ok |-> TRUE, seen |-> {Root(raw.roots[j]).path : j \in 1 .. i},
          out |-> [j \in 1 .. i |-> Root(raw.roots[j])]]
    ELSE Refused

LEMMA RootsStep ==
    ASSUME NEW raw, raw.roots \in Seq(RootText), NEW i \in 1 .. Len(raw.roots)
    PROVE  AddRoot(RootsAfter(raw, i - 1), raw.roots[i]) = RootsAfter(raw, i)
<1> DEFINE Here == /\ Expandable(raw.roots[i].path)
                   /\ Root(raw.roots[i]).path.form = "absolute"
                   /\ Root(raw.roots[i]).max_depth # 0
           Seen == {Root(raw.roots[j]).path : j \in 1 .. i - 1}
<1>0. i \in Nat /\ i # 0 /\ i - 1 \in Nat
  OBVIOUS
<1>1. RootsFine(raw, i) <=> RootsFine(raw, i - 1) /\ Here /\ Root(raw.roots[i]).path \notin Seen
  <2>1. ASSUME RootsFine(raw, i) PROVE RootsFine(raw, i - 1) /\ Here /\ Root(raw.roots[i]).path \notin Seen
    BY <2>1, <1>0 DEF RootsFine
  <2>2. ASSUME RootsFine(raw, i - 1), Here, Root(raw.roots[i]).path \notin Seen
        PROVE  RootsFine(raw, i)
    BY <2>2, <1>0 DEF RootsFine
  <2> QED BY <2>1, <2>2
<1>2. CASE RootsFine(raw, i)
  <2>1. RootsAfter(raw, i - 1) = [ok |-> TRUE, seen |-> Seen,
                                  out |-> [j \in 1 .. i - 1 |-> Root(raw.roots[j])]]
    BY <1>1, <1>2 DEF RootsAfter
  <2>2. Append([j \in 1 .. i - 1 |-> Root(raw.roots[j])], Root(raw.roots[i]))
        = [j \in 1 .. i |-> Root(raw.roots[j])]
    <3> DEFINE f == [j \in 1 .. i |-> Root(raw.roots[j])]
    <3>1. Append([j \in 1 .. i - 1 |-> f[j]], f[i]) = [j \in 1 .. i |-> f[j]]
      <4> HIDE DEF f
      <4> QED BY <1>0, OneMore
    <3>2. [j \in 1 .. i - 1 |-> f[j]] = [j \in 1 .. i - 1 |-> Root(raw.roots[j])]
      BY <1>0
    <3> QED BY <1>0, <3>1, <3>2
  <2>3. Seen \cup {Root(raw.roots[i]).path} = {Root(raw.roots[j]).path : j \in 1 .. i}
    BY <1>0
  <2>4. \A S, out : Root(raw.roots[i]).path \notin S =>
           AddRoot([ok |-> TRUE, seen |-> S, out |-> out], raw.roots[i])
           = [ok |-> TRUE, seen |-> S \cup {Root(raw.roots[i]).path},
              out |-> Append(out, Root(raw.roots[i]))]
    BY <1>1, <1>2 DEF AddRoot
  <2>5. AddRoot(RootsAfter(raw, i - 1), raw.roots[i])
        = [ok |-> TRUE, seen |-> Seen \cup {Root(raw.roots[i]).path},
           out |-> Append([j \in 1 .. i - 1 |-> Root(raw.roots[j])], Root(raw.roots[i]))]
    <3> HIDE DEF Seen
    <3> QED BY <1>1, <1>2, <2>1, <2>4
  <2> QED BY <1>2, <2>2, <2>3, <2>5 DEF RootsAfter
<1>3. CASE ~ RootsFine(raw, i)
  <2>1. CASE ~ RootsFine(raw, i - 1)
    <3>1. ~ RootsAfter(raw, i - 1).ok
      BY <2>1 DEF RootsAfter, Refused
    <3>2. AddRoot(RootsAfter(raw, i - 1), raw.roots[i]) = Refused
      <4> HIDE DEF RootsAfter
      <4> QED BY <3>1 DEF AddRoot
    <3> QED BY <1>3, <3>2 DEF RootsAfter
  <2>2. CASE RootsFine(raw, i - 1)
    <3>1. ~ Here \/ Root(raw.roots[i]).path \in Seen
      BY <1>1, <1>3, <2>2
    <3>2. RootsAfter(raw, i - 1).seen = Seen
      BY <2>2 DEF RootsAfter
    <3> QED BY <1>3, <3>1, <3>2 DEF RootsAfter, AddRoot, Refused
  <2> QED BY <2>1, <2>2
<1> QED BY <1>2, <1>3

\* The loop over the roots accepts them exactly if all are fine, and then yields them all.
LEMMA RootsAre ==
    ASSUME NEW raw, raw.roots \in Seq(RootText)
    PROVE  Roots(raw) = RootsAfter(raw, Len(raw.roots))
<1> DEFINE n == Len(raw.roots)
           E(f) == f = [i \in 0 .. n |-> IF i = 0 THEN Running(<<>>) ELSE AddRoot(f[i - 1], raw.roots[i])]
           G == [i \in 0 .. n |-> RootsAfter(raw, i)]
           loop == CHOOSE f : E(f)
<1>0. n \in Nat
  OBVIOUS
<1>1. RootsAfter(raw, 0) = Running(<<>>)
  <2>1. RootsFine(raw, 0)
    BY DEF RootsFine
  <2>2. {Root(raw.roots[j]).path : j \in 1 .. 0} = {}
    OBVIOUS
  <2>3. [j \in 1 .. 0 |-> Root(raw.roots[j])] = <<>>
    OBVIOUS
  <2> QED BY <2>1, <2>2, <2>3 DEF RootsAfter, Running
<1>2. \A i \in 1 .. n : G[i - 1] = RootsAfter(raw, i - 1)
  BY <1>0
<1>3. \A i \in 0 .. n : G[i] = IF i = 0 THEN Running(<<>>) ELSE AddRoot(G[i - 1], raw.roots[i])
  BY <1>0, <1>1, <1>2, RootsStep
<1>4. E(G)
  <2> HIDE DEF G
  <2>1. G = [i \in 0 .. n |-> G[i]]
    BY DEF G
  <2> QED BY <1>3, <2>1
<1>5. E(loop)
  <2> HIDE DEF E, G
  <2> QED BY <1>4
<1>6. Roots(raw) = loop[n]
  BY DEF Roots
<1> HIDE DEF loop
<1>7. loop[0] = G[0] /\ \A i \in 1 .. n : loop[i - 1] = G[i - 1] => loop[i] = G[i]
  <2>1. \A i \in 0 .. n : loop[i] = IF i = 0 THEN Running(<<>>) ELSE AddRoot(loop[i - 1], raw.roots[i])
    BY <1>5
  <2> HIDE DEF G
  <2> QED BY <1>0, <1>3, <2>1
<1>8. loop[n] = G[n]
  <2> HIDE DEF G, n
  <2> QED BY <1>0, <1>7, LoopIs
<1> QED BY <1>0, <1>6, <1>8
\* The rules up to the i-th are all fine, and no two of them have one name.
RulesFine(raw, i) ==
    \A j \in 1 .. i :
        /\ CommonOK(raw.rules[j], {})
        /\ IF raw.rules[j].kind = "command" THEN CommandOK(raw.rules[j]) ELSE PathOK(raw.rules[j])
        /\ \A k \in 1 .. i : j # k => raw.rules[j].name # raw.rules[k].name

RulesAfter(raw, i) ==
    IF RulesFine(raw, i)
    THEN [ok |-> TRUE, seen |-> {raw.rules[j].name : j \in 1 .. i},
          out |-> [j \in 1 .. i |-> Rule(raw.rules[j])]]
    ELSE Refused

LEMMA CommonIs ==
    \A r, seen : CommonOK(r, seen) <=> CommonOK(r, {}) /\ r.name \notin seen
BY DEF CommonOK

LEMMA RulesStep ==
    ASSUME NEW raw, raw.rules \in Seq(RuleText), NEW i \in 1 .. Len(raw.rules)
    PROVE  AddRule(RulesAfter(raw, i - 1), raw.rules[i]) = RulesAfter(raw, i)
<1> DEFINE Here == /\ CommonOK(raw.rules[i], {})
                   /\ IF raw.rules[i].kind = "command" THEN CommandOK(raw.rules[i])
                      ELSE PathOK(raw.rules[i])
           Seen == {raw.rules[j].name : j \in 1 .. i - 1}
<1>0. i \in Nat /\ i # 0 /\ i - 1 \in Nat
  OBVIOUS
<1>1. RulesFine(raw, i) <=> RulesFine(raw, i - 1) /\ Here /\ raw.rules[i].name \notin Seen
  <2>1. ASSUME RulesFine(raw, i) PROVE RulesFine(raw, i - 1) /\ Here /\ raw.rules[i].name \notin Seen
    BY <2>1, <1>0 DEF RulesFine
  <2>2. ASSUME RulesFine(raw, i - 1), Here, raw.rules[i].name \notin Seen
        PROVE  RulesFine(raw, i)
    BY <2>2, <1>0 DEF RulesFine
  <2> QED BY <2>1, <2>2
<1>2. CASE RulesFine(raw, i)
  <2>1. RulesAfter(raw, i - 1) = [ok |-> TRUE, seen |-> Seen,
                                  out |-> [j \in 1 .. i - 1 |-> Rule(raw.rules[j])]]
    BY <1>1, <1>2 DEF RulesAfter
  <2>2. Append([j \in 1 .. i - 1 |-> Rule(raw.rules[j])], Rule(raw.rules[i]))
        = [j \in 1 .. i |-> Rule(raw.rules[j])]
    <3> DEFINE f == [j \in 1 .. i |-> Rule(raw.rules[j])]
    <3>1. Append([j \in 1 .. i - 1 |-> f[j]], f[i]) = [j \in 1 .. i |-> f[j]]
      <4> HIDE DEF f
      <4> QED BY <1>0, OneMore
    <3>2. [j \in 1 .. i - 1 |-> f[j]] = [j \in 1 .. i - 1 |-> Rule(raw.rules[j])]
      BY <1>0
    <3> QED BY <1>0, <3>1, <3>2
  <2>3. Seen \cup {raw.rules[i].name} = {raw.rules[j].name : j \in 1 .. i}
    BY <1>0
  <2>4. \A S, out : raw.rules[i].name \notin S =>
           AddRule([ok |-> TRUE, seen |-> S, out |-> out], raw.rules[i])
           = [ok |-> TRUE, seen |-> S \cup {raw.rules[i].name},
              out |-> Append(out, Rule(raw.rules[i]))]
    BY <1>1, <1>2, CommonIs DEF AddRule
  <2>5. AddRule(RulesAfter(raw, i - 1), raw.rules[i])
        = [ok |-> TRUE, seen |-> Seen \cup {raw.rules[i].name},
           out |-> Append([j \in 1 .. i - 1 |-> Rule(raw.rules[j])], Rule(raw.rules[i]))]
    <3> HIDE DEF Seen
    <3> QED BY <1>1, <1>2, <2>1, <2>4
  <2> QED BY <1>2, <2>2, <2>3, <2>5 DEF RulesAfter
<1>3. CASE ~ RulesFine(raw, i)
  <2>1. CASE ~ RulesFine(raw, i - 1)
    <3>1. ~ RulesAfter(raw, i - 1).ok
      BY <2>1 DEF RulesAfter, Refused
    <3>2. AddRule(RulesAfter(raw, i - 1), raw.rules[i]) = Refused
      <4> HIDE DEF RulesAfter
      <4> QED BY <3>1 DEF AddRule
    <3> QED BY <1>3, <3>2 DEF RulesAfter
  <2>2. CASE RulesFine(raw, i - 1)
    <3>1. ~ Here \/ raw.rules[i].name \in Seen
      BY <1>1, <1>3, <2>2
    <3>2. RulesAfter(raw, i - 1).seen = Seen
      BY <2>2 DEF RulesAfter
    <3>3. ~ (Here /\ raw.rules[i].name \notin RulesAfter(raw, i - 1).seen)
      BY <3>1, <3>2
    <3>4. AddRule(RulesAfter(raw, i - 1), raw.rules[i]) = Refused
      <4> HIDE DEF RulesAfter
      <4> QED BY <3>3, CommonIs DEF AddRule
    <3> QED BY <1>3, <3>4 DEF RulesAfter
  <2> QED BY <2>1, <2>2
<1> QED BY <1>2, <1>3

\* The loop over the rules accepts them exactly if all are fine, and then yields them all.
LEMMA RulesAre ==
    ASSUME NEW raw, raw.rules \in Seq(RuleText)
    PROVE  Rules(raw) = RulesAfter(raw, Len(raw.rules))
<1> DEFINE n == Len(raw.rules)
           E(f) == f = [i \in 0 .. n |-> IF i = 0 THEN Running(<<>>) ELSE AddRule(f[i - 1], raw.rules[i])]
           G == [i \in 0 .. n |-> RulesAfter(raw, i)]
           loop == CHOOSE f : E(f)
<1>0. n \in Nat
  OBVIOUS
<1>1. RulesAfter(raw, 0) = Running(<<>>)
  <2>1. RulesFine(raw, 0)
    BY DEF RulesFine
  <2>2. {raw.rules[j].name : j \in 1 .. 0} = {}
    OBVIOUS
  <2>3. [j \in 1 .. 0 |-> Rule(raw.rules[j])] = <<>>
    OBVIOUS
  <2> QED BY <2>1, <2>2, <2>3 DEF RulesAfter, Running
<1>2. \A i \in 1 .. n : G[i - 1] = RulesAfter(raw, i - 1)
  BY <1>0
<1>3. \A i \in 0 .. n : G[i] = IF i = 0 THEN Running(<<>>) ELSE AddRule(G[i - 1], raw.rules[i])
  BY <1>0, <1>1, <1>2, RulesStep
<1>4. E(G)
  <2> HIDE DEF G
  <2>1. G = [i \in 0 .. n |-> G[i]]
    BY DEF G
  <2> QED BY <1>3, <2>1
<1>5. E(loop)
  <2> HIDE DEF E, G
  <2> QED BY <1>4
<1>6. Rules(raw) = loop[n]
  BY DEF Rules
<1> HIDE DEF loop
<1>7. loop[0] = G[0] /\ \A i \in 1 .. n : loop[i - 1] = G[i - 1] => loop[i] = G[i]
  <2>1. \A i \in 0 .. n : loop[i] = IF i = 0 THEN Running(<<>>) ELSE AddRule(loop[i - 1], raw.rules[i])
    BY <1>5
  <2> HIDE DEF G
  <2> QED BY <1>0, <1>3, <2>1
<1>8. loop[n] = G[n]
  <2> HIDE DEF G, n
  <2> QED BY <1>0, <1>7, LoopIs
<1> QED BY <1>0, <1>6, <1>8
-----------------------------------------------------------------------------
(* What is accepted is what is well formed. *)

Keys == {"dry_run", "low", "target", "staleness", "pin", "quarantine", "heartbeats", "deny"}

LEMMA OwnIs ==
    \A raw, key : Own(raw, key) = UNION {table[key] : table \in Overlay(raw)}
BY DEF Own, Overlay

LEMMA GivenIs ==
    \A S, default : \/ S = {} /\ Given(S, default) = default
                    \/ Given(S, default) \in S
BY DEF Given

LEMMA TextIs ==
    ASSUME NEW raw \in Text, Singles(raw)
    PROVE  /\ raw.global \in Table /\ Single(raw.global)
           /\ Overlay(raw) \subseteq Table
           /\ \A t \in Overlay(raw) : Single(t) /\ Overlay(raw) = {t}
           /\ raw.roots \in Seq(RootText) /\ raw.rules \in Seq(RuleText)
<1>1. Host \in Hosts /\ Short \in Hosts
  BY ConfigurationOK
<1>2. \A m \in Hosts : raw.machine[m] \subseteq Table
  BY DEF Text
<1>3. \A m \in Hosts : \A t \in raw.machine[m] : Single(t) /\ raw.machine[m] = {t}
  BY DEF Singles
<1>4. raw.global \in Table /\ raw.roots \in Seq(RootText) /\ raw.rules \in Seq(RuleText)
  BY DEF Text
<1>5. Single(raw.global)
  BY DEF Singles
<1>6. Overlay(raw) = raw.machine[Host] \/ Overlay(raw) = raw.machine[Short]
  BY DEF Overlay
<1> QED BY <1>1, <1>2, <1>3, <1>4, <1>5, <1>6

LEMMA TableIs ==
    ASSUME NEW table \in Table
    PROVE  /\ DOMAIN table = Keys
           /\ table["low"] \subseteq Nat /\ table["target"] \subseteq Nat
           /\ table["quarantine"] \subseteq PathText /\ table["heartbeats"] \subseteq PathText
           /\ table["deny"] \subseteq Seq(PathText)
BY DEF Table, Keys

\* A key has the one value that is set, or its default.
LEMMA PickIs ==
    ASSUME NEW raw \in Text, Singles(raw), NEW key \in Keys, NEW default
    PROVE  IF Set(raw, key) = {} THEN Pick(raw, key, default) = default
           ELSE Set(raw, key) = {Pick(raw, key, default)}
<1>1. \A t \in Table : Single(t) => \A u, v \in t[key] : u = v
  BY TableIs DEF Single
<1>2. CASE Overlay(raw) = {}
  <2>1. Own(raw, key) = {}
    BY <1>2, OwnIs
  <2>2. Pick(raw, key, default) = Given(raw.global[key], Given(raw.global[key], default))
    BY <1>2 DEF Pick, Given
  <2>3. \A u, v \in raw.global[key] : u = v
    BY <1>1, TextIs
  <2> QED BY <2>1, <2>2, <2>3, GivenIs DEF Set
<1>3. CASE Overlay(raw) # {}
  <2>1. PICK t : t \in Overlay(raw)
    BY <1>3
  <2>2. Overlay(raw) = {t} /\ Single(t) /\ t \in Table
    BY <2>1, TextIs
  <2>3. Given(Overlay(raw), raw.global) = t
    BY <2>2, GivenIs
  <2>4. Own(raw, key) = t[key]
    BY <2>2, OwnIs
  <2>5. Pick(raw, key, default) = Given(t[key], Given(raw.global[key], default))
    BY <2>3 DEF Pick
  <2>6. (\A u, v \in t[key] : u = v) /\ (\A u, v \in raw.global[key] : u = v)
    BY <1>1, <2>2, TextIs
  <2> QED BY <2>4, <2>5, <2>6, GivenIs DEF Set
<1> QED BY <1>2, <1>3

LEMMA SetIs ==
    ASSUME NEW raw \in Text, Singles(raw)
    PROVE  /\ Set(raw, "low") \subseteq Nat /\ Set(raw, "target") \subseteq Nat
           /\ Set(raw, "quarantine") \subseteq PathText /\ Set(raw, "heartbeats") \subseteq PathText
           /\ Set(raw, "deny") \subseteq Seq(PathText)
<1>1. \A key \in Keys : \A S : (\A t \in Table : t[key] \subseteq S) => Set(raw, key) \subseteq S
  BY TextIs, OwnIs DEF Set
<1> QED BY <1>1, TableIs DEF Keys

SettingsFine(raw) ==
    LET low == IF Set(raw, "low") = {} THEN {15} ELSE Set(raw, "low")
        target == IF Set(raw, "target") = {} THEN {25} ELSE Set(raw, "target")
        paths == Set(raw, "quarantine") \cup Set(raw, "heartbeats")
                 \cup UNION {{d[i] : i \in DOMAIN d} : d \in Set(raw, "deny")}
    IN
    /\ \A l \in low, t \in target : l <= t /\ t <= 100
    /\ Set(raw, "staleness") \subseteq {"fine"} /\ Set(raw, "pin") \subseteq {"plain"}
    /\ \A q \in Set(raw, "quarantine") : q.form # "relative"
    /\ env.home \/ /\ \A p \in paths : p.form # "home"
                   /\ Set(raw, "quarantine") # {} /\ Set(raw, "heartbeats") # {}

LEMMA PathIs ==
    /\ \A p \in PathText : p.form # "relative" <=> Expanded(p).form = "absolute"
    /\ \A name : Expanded(UnderHome(name)).form = "absolute" /\ UnderHome(name).form = "home"
BY DEF PathText, Expanded, UnderHome

LEMMA SettingsAre ==
    ASSUME NEW raw \in Text, Singles(raw), env.home \in BOOLEAN
    PROVE  SettingsOK(Settings(raw)) <=> SettingsFine(raw)
<1> DEFINE low == Pick(raw, "low", 15)
           target == Pick(raw, "target", 25)
           staleness == Pick(raw, "staleness", "fine")
           pin == Pick(raw, "pin", "plain")
           quarantine == Pick(raw, "quarantine", UnderHome("quarantine"))
           heartbeats == Pick(raw, "heartbeats", UnderHome("heartbeats"))
           deny == Pick(raw, "deny", <<>>)
<1>1. SettingsOK(Settings(raw)) <=>
        /\ Expandable(quarantine) /\ Expandable(heartbeats)
        /\ low <= 100 /\ target <= 100 /\ target >= low
        /\ staleness = "fine" /\ pin = "plain"
        /\ Expanded(quarantine).form = "absolute"
        /\ \A i \in DOMAIN deny : Expandable(deny[i])
  BY DEF SettingsOK, Settings
<1>2. /\ IF Set(raw, "low") = {} THEN low = 15 ELSE Set(raw, "low") = {low}
      /\ IF Set(raw, "target") = {} THEN target = 25 ELSE Set(raw, "target") = {target}
  BY PickIs DEF Keys
<1>3. low \in Nat /\ target \in Nat
  BY <1>2, SetIs
<1>4. /\ IF Set(raw, "staleness") = {} THEN staleness = "fine" ELSE Set(raw, "staleness") = {staleness}
      /\ IF Set(raw, "pin") = {} THEN pin = "plain" ELSE Set(raw, "pin") = {pin}
  BY PickIs DEF Keys
<1>5. /\ IF Set(raw, "quarantine") = {} THEN quarantine = UnderHome("quarantine")
         ELSE Set(raw, "quarantine") = {quarantine}
      /\ IF Set(raw, "heartbeats") = {} THEN heartbeats = UnderHome("heartbeats")
         ELSE Set(raw, "heartbeats") = {heartbeats}
  BY PickIs DEF Keys
<1>6. IF Set(raw, "deny") = {} THEN deny = <<>> ELSE Set(raw, "deny") = {deny}
  BY PickIs DEF Keys
<1> HIDE DEF low, target, staleness, pin, quarantine, heartbeats, deny
<1>7. (\A l \in (IF Set(raw, "low") = {} THEN {15} ELSE Set(raw, "low")),
          t \in (IF Set(raw, "target") = {} THEN {25} ELSE Set(raw, "target")) : l <= t /\ t <= 100)
      <=> low <= 100 /\ target <= 100 /\ target >= low
  BY <1>2, <1>3
<1>8. /\ Set(raw, "staleness") \subseteq {"fine"} <=> staleness = "fine"
      /\ Set(raw, "pin") \subseteq {"plain"} <=> pin = "plain"
  BY <1>4
<1>9. (\A q \in Set(raw, "quarantine") : q.form # "relative") <=> Expanded(quarantine).form = "absolute"
  BY <1>5, SetIs, PathIs
<1>10. \A d : (\A i \in DOMAIN d : d[i].form # "home") <=>
              \A p \in {d[i] : i \in DOMAIN d} : p.form # "home"
  OBVIOUS
<1>11. (\A p \in UNION {{d[i] : i \in DOMAIN d} : d \in Set(raw, "deny")} : p.form # "home")
       <=> \A i \in DOMAIN deny : deny[i].form # "home"
  <2>1. CASE Set(raw, "deny") = {}
    BY <1>6, <2>1
  <2>2. CASE Set(raw, "deny") = {deny}
    BY <2>2
  <2> QED BY <1>6, <2>1, <2>2
<1>12. (\A p \in Set(raw, "quarantine") : p.form # "home") /\ Set(raw, "quarantine") # {}
       <=> quarantine.form # "home"
  BY <1>5, PathIs
<1>13. (\A p \in Set(raw, "heartbeats") : p.form # "home") /\ Set(raw, "heartbeats") # {}
       <=> heartbeats.form # "home"
  BY <1>5, PathIs
<1>14. \A p : Expandable(p) <=> env.home \/ p.form # "home"
  BY DEF Expandable
<1> QED BY <1>1, <1>7, <1>8, <1>9, <1>11, <1>12, <1>13, <1>14 DEF SettingsFine

RootsGood(raw) ==
    /\ env.home \/ \A i \in DOMAIN raw.roots : raw.roots[i].path.form # "home"
    /\ \A i, j \in DOMAIN raw.roots :
          /\ raw.roots[i].path.form # "relative" /\ raw.roots[i].max_depth # {0}
          /\ i # j => \/ raw.roots[i].path.name # raw.roots[j].path.name
                      \/ Named(raw.roots[i].path) # Named(raw.roots[j].path)

LEMMA PlaceIs ==
    \A p, q \in PathText :
        Expanded(p) = Expanded(q) <=> p.name = q.name /\ Named(p) = Named(q)
<1> TAKE p, q \in PathText
<1>1. p = [form |-> p.form, name |-> p.name] /\ q = [form |-> q.form, name |-> q.name]
  BY DEF PathText
<1>2. /\ Expanded(p) = [form |-> Named(p), name |-> p.name]
      /\ Expanded(q) = [form |-> Named(q), name |-> q.name]
  BY <1>1 DEF Expanded, Named
<1> QED BY <1>2

LEMMA RootsAccepted ==
    ASSUME NEW raw \in Text, Singles(raw), env.home \in BOOLEAN
    PROVE  Roots(raw).ok <=> RootsGood(raw)
<1> DEFINE n == Len(raw.roots)
<1>1. raw.roots \in Seq(RootText) /\ n \in Nat /\ DOMAIN raw.roots = 1 .. n
  BY TextIs
<1>2. \A i \in 1 .. n : /\ raw.roots[i].path \in PathText /\ raw.roots[i].max_depth \subseteq Nat
                        /\ \A u, v \in raw.roots[i].max_depth : u = v
  <2>1. \A r \in RootText : r.path \in PathText /\ r.max_depth \subseteq Nat
    BY DEF RootText
  <2>2. \A i \in 1 .. n : raw.roots[i] \in RootText
    BY <1>1
  <2>3. \A i \in 1 .. n : \A u, v \in raw.roots[i].max_depth : u = v
    BY <1>1 DEF Singles
  <2> HIDE DEF n
  <2> QED BY <2>1, <2>2, <2>3
<1>3. Roots(raw).ok <=> RootsFine(raw, n)
  BY <1>1, RootsAre DEF RootsAfter, Refused
<1>4. \A i \in 1 .. n : /\ Root(raw.roots[i]).path = Expanded(raw.roots[i].path)
                        /\ Root(raw.roots[i]).max_depth = Given(raw.roots[i].max_depth, 8)
  BY DEF Root
<1>5. \A i \in 1 .. n : Root(raw.roots[i]).max_depth # 0 <=> raw.roots[i].max_depth # {0}
  <2> TAKE i \in 1 .. n
  <2> DEFINE depth == raw.roots[i].max_depth
  <2>1. \A u, v \in depth : u = v
    BY <1>2
  <2>2. \/ depth = {} /\ Given(depth, 8) = 8
        \/ Given(depth, 8) \in depth
    BY GivenIs
  <2> HIDE DEF depth
  <2>3. Given(depth, 8) # 0 <=> depth # {0}
    BY <2>1, <2>2
  <2> QED BY <1>4, <2>3 DEF depth
<1>6. \A i \in 1 .. n : Root(raw.roots[i]).path.form = "absolute"
                        <=> raw.roots[i].path.form # "relative"
  BY <1>2, <1>4, PathIs
<1>7. \A i, j \in 1 .. n : Root(raw.roots[i]).path # Root(raw.roots[j]).path
         <=> \/ raw.roots[i].path.name # raw.roots[j].path.name
             \/ Named(raw.roots[i].path) # Named(raw.roots[j].path)
  BY <1>2, <1>4, PlaceIs
<1>8. \A i \in 1 .. n : Expandable(raw.roots[i].path) <=> env.home \/ raw.roots[i].path.form # "home"
  BY DEF Expandable
<1>9. RootsGood(raw) <=>
        \A i \in 1 .. n :
          /\ env.home \/ raw.roots[i].path.form # "home"
          /\ raw.roots[i].path.form # "relative" /\ raw.roots[i].max_depth # {0}
          /\ \A j \in 1 .. n : i # j => \/ raw.roots[i].path.name # raw.roots[j].path.name
                                        \/ Named(raw.roots[i].path) # Named(raw.roots[j].path)
  BY <1>1 DEF RootsGood
<1> HIDE DEF n
<1> QED BY <1>3, <1>5, <1>6, <1>7, <1>8, <1>9 DEF RootsFine

RuleGood(r) ==
    /\ EntryGood(r)
    /\ r.kind = "command" => CommandGood(r)
    /\ r.kind = "path" => PathGood(r)

SingleRule(r) ==
    \A key \in {"dir_name", "glob", "sibling", "ancestor", "min_idle", "orphaned_only",
                "max_depth", "os", "command"} : \A u, v \in r[key] : u = v

LEMMA RuleAccepted ==
    ASSUME NEW r \in RuleText, SingleRule(r), env.home \in BOOLEAN
    PROVE  /\ CommonOK(r, {})
           /\ IF r.kind = "command" THEN CommandOK(r) ELSE PathOK(r)
           <=> RuleGood(r)
<1>1. /\ \A u, v \in r.dir_name : u = v
      /\ \A u, v \in r.glob : u = v
      /\ \A u, v \in r.os : u = v
      /\ \A u, v \in r.command : u = v
  BY DEF SingleRule
<1>2. /\ r.kind \in {"path", "command"} /\ r.tier \in Nat
      /\ r.dir_name \subseteq Names /\ r.sibling \subseteq Names /\ r.ancestor \subseteq Names
      /\ r.glob \subseteq {"plain", "home", "dotdot", "malformed"}
      /\ r.os \subseteq SUBSET Words
      /\ r.command \subseteq Seq({"plain", "substituted"})
  BY DEF RuleText
<1>3. r.tier <= 2 <=> r.tier \in {0, 1, 2}
  BY <1>2
<1>4. Given(r.os, {}) \subseteq {"linux", "macos"} <=> r.os \subseteq SUBSET {"linux", "macos"}
  BY <1>1, GivenIs
<1>5. CommonOK(r, {}) <=> EntryGood(r)
  BY <1>3, <1>4 DEF CommonOK, EntryGood
<1>6. ASSUME r.kind = "command"
      PROVE  CommandOK(r) <=> CommandGood(r)
  <2> DEFINE argv == Given(r.command, <<>>)
  <2>1. argv # <<>> /\ (\A i \in DOMAIN argv : argv[i] # "substituted")
        <=> \E a \in r.command : a # <<>> /\ \A i \in DOMAIN a : a[i] = "plain"
    <3>1. \A a \in r.command : \A i \in DOMAIN a : a[i] = "plain" <=> a[i] # "substituted"
      BY <1>2
    <3>2. \/ r.command = {} /\ argv = <<>>
          \/ argv \in r.command /\ \A a \in r.command : a = argv
      BY <1>1, GivenIs
    <3> HIDE DEF argv
    <3> QED BY <3>1, <3>2
  <2>2. (\A key \in {"dir_name", "glob", "sibling", "ancestor", "min_idle",
                     "orphaned_only", "max_depth"} : r[key] = {})
        <=> /\ r.dir_name \cup r.glob \cup r.sibling \cup r.ancestor = {}
            /\ r.min_idle = {} /\ r.orphaned_only = {} /\ r.max_depth = {}
    OBVIOUS
  <2> QED BY <2>1, <2>2 DEF CommandOK, CommandGood
<1>7. ASSUME r.kind = "path"
      PROVE  PathOK(r) <=> PathGood(r)
  <2>1. Bare(r.sibling) /\ Bare(r.ancestor)
        <=> "slashed" \notin r.sibling \cup r.ancestor /\ "empty" \notin r.sibling \cup r.ancestor
    BY <1>2 DEF Bare, Names
  <2>2. r.dir_name \subseteq {"plain", "empty"} <=> "slashed" \notin r.dir_name
    BY <1>2 DEF Names
  <2>3. r.glob = {} \/ r.glob = {"plain"} \/ r.glob = {"home"} \/ r.glob \cap {"dotdot", "malformed"} # {}
    BY <1>1, <1>2
  <2> QED BY <2>1, <2>2, <2>3 DEF PathOK, PathGood
<1> QED BY <1>2, <1>5, <1>6, <1>7 DEF RuleGood

RulesGood(raw) ==
    /\ \A i, j \in DOMAIN raw.rules : i # j => raw.rules[i].name # raw.rules[j].name
    /\ \A i \in DOMAIN raw.rules : RuleGood(raw.rules[i])

LEMMA RulesAccepted ==
    ASSUME NEW raw \in Text, Singles(raw), env.home \in BOOLEAN
    PROVE  Rules(raw).ok <=> RulesGood(raw)
<1> DEFINE n == Len(raw.rules)
<1>1. raw.rules \in Seq(RuleText) /\ n \in Nat /\ DOMAIN raw.rules = 1 .. n
  BY TextIs
<1>2. \A i \in 1 .. n : raw.rules[i] \in RuleText /\ SingleRule(raw.rules[i])
  BY <1>1 DEF Singles, SingleRule
<1>3. Rules(raw).ok <=> RulesFine(raw, n)
  BY <1>1, RulesAre DEF RulesAfter, Refused
<1>4. \A i \in 1 .. n :
         RuleGood(raw.rules[i]) <=>
           /\ CommonOK(raw.rules[i], {})
           /\ IF raw.rules[i].kind = "command" THEN CommandOK(raw.rules[i]) ELSE PathOK(raw.rules[i])
  BY <1>2, RuleAccepted
<1> HIDE DEF n
<1> QED BY <1>1, <1>3, <1>4 DEF RulesGood, RulesFine

LEMMA WellFormedIs ==
    ASSUME NEW raw \in Text, Singles(raw), env.home \in BOOLEAN
    PROVE  WellFormed(raw) <=> /\ raw.rules # <<>> /\ HasRoots(raw)
                               /\ SettingsFine(raw) /\ RootsGood(raw) /\ RulesGood(raw)
<1> DEFINE Rules1 == \A r \in Kind(raw, "command") : EntryGood(r) /\ CommandGood(r)
           Rules2 == \A r \in Kind(raw, "path") : EntryGood(r) /\ PathGood(r)
<1>1. WellFormed(raw) <=> /\ raw.rules # <<>>
                          /\ raw.roots = <<>> => Kind(raw, "path") = {}
                          /\ SettingsFine(raw) /\ RootsGood(raw)
                          /\ \A i, j \in DOMAIN raw.rules : i # j => raw.rules[i].name # raw.rules[j].name
                          /\ Rules1 /\ Rules2
  BY DEF WellFormed, SettingsFine, RootsGood
<1>2. DOMAIN raw.rules = 1 .. Len(raw.rules) /\ \A i \in DOMAIN raw.rules : raw.rules[i] \in RuleText
  BY TextIs
<1>3. \A i \in DOMAIN raw.rules : raw.rules[i].kind \in {"path", "command"}
  BY <1>2 DEF RuleText
<1>4. \A i \in DOMAIN raw.rules : raw.rules[i] \in Kind(raw, raw.rules[i].kind)
  BY DEF Kind
<1>5. \A k : \A r \in Kind(raw, k) : r.kind = k /\ \E i \in DOMAIN raw.rules : r = raw.rules[i]
  BY DEF Kind
<1>6. (raw.roots = <<>> => Kind(raw, "path") = {}) <=> HasRoots(raw)
  BY <1>4, <1>5 DEF HasRoots
<1>7. (\A i \in DOMAIN raw.rules : RuleGood(raw.rules[i])) <=> Rules1 /\ Rules2
  <2>1. ASSUME \A i \in DOMAIN raw.rules : RuleGood(raw.rules[i])
        PROVE  Rules1 /\ Rules2
    BY <1>5, <2>1 DEF RuleGood
  <2>2. ASSUME Rules1, Rules2, NEW i \in DOMAIN raw.rules
        PROVE  RuleGood(raw.rules[i])
    <3>1. \/ raw.rules[i].kind = "path" /\ raw.rules[i] \in Kind(raw, "path")
          \/ raw.rules[i].kind = "command" /\ raw.rules[i] \in Kind(raw, "command")
      BY <1>3, <1>4
    <3> QED BY <2>2, <3>1 DEF RuleGood
  <2> QED BY <2>1, <2>2
<1> HIDE DEF Rules1, Rules2
<1> QED BY <1>1, <1>6, <1>7 DEF RulesGood

\* resolve refuses a text exactly if it is not well formed on this machine, and
\* what it accepts it takes whole.
LEMMA AcceptsIs ==
    ASSUME NEW raw \in Text, Singles(raw), env.home \in BOOLEAN
    PROVE  /\ Accepts(raw) <=> WellFormed(raw)
           /\ Accepts(raw) =>
                 /\ Roots(raw).out = [i \in 1 .. Len(raw.roots) |-> Root(raw.roots[i])]
                 /\ Rules(raw).out = [i \in 1 .. Len(raw.rules) |-> Rule(raw.rules[i])]
<1>1. raw.roots \in Seq(RootText) /\ raw.rules \in Seq(RuleText)
  BY TextIs
<1>2. /\ Roots(raw).ok <=> RootsGood(raw)
      /\ Rules(raw).ok <=> RulesGood(raw)
      /\ SettingsOK(Settings(raw)) <=> SettingsFine(raw)
  BY RootsAccepted, RulesAccepted, SettingsAre
<1>3. Roots(raw).ok => Roots(raw).out = [i \in 1 .. Len(raw.roots) |-> Root(raw.roots[i])]
  BY <1>1, RootsAre DEF RootsAfter, Refused
<1>4. Rules(raw).ok => Rules(raw).out = [i \in 1 .. Len(raw.rules) |-> Rule(raw.rules[i])]
  BY <1>1, RulesAre DEF RulesAfter, Refused
<1>5. [i \in 1 .. Len(raw.rules) |-> Rule(raw.rules[i])] = <<>> <=> raw.rules = <<>>
  <2>1. Len([i \in 1 .. Len(raw.rules) |-> Rule(raw.rules[i])]) = Len(raw.rules)
    BY <1>1
  <2>2. raw.rules = <<>> <=> Len(raw.rules) = 0
    BY <1>1
  <2>3. CASE raw.rules = <<>>
    BY <2>3
  <2>4. CASE raw.rules # <<>>
    BY <2>1, <2>2, <2>4
  <2> QED BY <2>3, <2>4
<1> QED BY <1>2, <1>3, <1>4, <1>5, WellFormedIs DEF Accepts

-----------------------------------------------------------------------------
(* What init writes. *)

Before(S, x) == Cardinality({y \in S : y < x})

Numbered(S, n) == \A y \in S : y \in Nat /\ 1 <= y /\ y <= n

LEMMA BeforeIs ==
    ASSUME NEW n \in Nat, NEW S, Numbered(S, n)
    PROVE  /\ IsFiniteSet(S) /\ Cardinality(S) \in Nat
           /\ \A x \in Nat : Before(S, x) \in 0 .. Cardinality(S)
           /\ Before(S, 0) = 0 /\ Before(S, n + 1) = Cardinality(S)
           /\ \A x \in Nat : Before(S, x + 1) = IF x \in S THEN Before(S, x) + 1 ELSE Before(S, x)
<1>0. \A y \in S : y \in Nat /\ 1 <= y /\ y <= n
  BY DEF Numbered
<1>1. IsFiniteSet(S) /\ Cardinality(S) \in Nat
  BY <1>0, FS_BoundedSetOfNaturals, FS_CardinalityType
<1>2. ASSUME NEW x \in Nat
      PROVE  IsFiniteSet({y \in S : y < x}) /\ Before(S, x) \in 0 .. Cardinality(S)
  BY <1>1, FS_Subset, FS_CardinalityType DEF Before
<1>3. Before(S, 0) = 0
  <2>1. {y \in S : y < 0} = {}
    BY <1>0
  <2> QED BY <2>1, FS_EmptySet DEF Before
<1>4. Before(S, n + 1) = Cardinality(S)
  <2>1. {y \in S : y < n + 1} = S
    BY <1>0
  <2> QED BY <2>1 DEF Before
<1>5. ASSUME NEW x \in Nat
      PROVE  Before(S, x + 1) = IF x \in S THEN Before(S, x) + 1 ELSE Before(S, x)
  <2>1. CASE x \in S
    <3>1. {y \in S : y < x + 1} = {y \in S : y < x} \cup {x} /\ x \notin {y \in S : y < x}
      <4>1. \A y \in S : y < x + 1 <=> y < x \/ y = x
        BY <1>0
      <4>2. ~ (x < x)
        OBVIOUS
      <4> QED BY <2>1, <4>1, <4>2
    <3> QED BY <1>2, <2>1, <3>1, FS_AddElement DEF Before
  <2>2. CASE x \notin S
    <3>1. {y \in S : y < x + 1} = {y \in S : y < x}
      BY <1>0, <2>2
    <3> QED BY <2>2, <3>1 DEF Before
  <2> QED BY <2>1, <2>2
<1> QED BY <1>1, <1>2, <1>3, <1>4, <1>5

\* The least x by which as many are counted is the one after the i-th.
LEMMA IthExists ==
    ASSUME NEW n \in Nat, NEW S, Numbered(S, n), NEW i \in 1 .. Cardinality(S)
    PROVE  \E x \in S : Before(S, x) = i - 1
<1> DEFINE T == {x \in Nat : Before(S, x) >= i}
<1>0. Cardinality(S) \in Nat /\ i \in Nat /\ i >= 1
  BY BeforeIs
<1>1. T \subseteq Nat /\ T # {}
  <2>1. n + 1 \in T
    BY <1>0, BeforeIs
  <2> QED BY <2>1
<1> HIDE DEF T
<1>2. PICK x \in T : \A y \in T : x <= y
  BY <1>1, LeastNumber
<1>3. x \in Nat /\ Before(S, x) >= i /\ x # 0
  BY <1>0, <1>2, BeforeIs DEF T
<1>4. x - 1 \in Nat /\ x - 1 \notin T /\ (x - 1) + 1 = x
  BY <1>2, <1>3
<1>5. ~ (Before(S, x - 1) >= i)
  BY <1>4 DEF T
<1>6. /\ Before(S, x) = IF x - 1 \in S THEN Before(S, x - 1) + 1 ELSE Before(S, x - 1)
      /\ Before(S, x - 1) \in 0 .. Cardinality(S) /\ Before(S, x) \in 0 .. Cardinality(S)
  BY <1>3, <1>4, BeforeIs
<1>7. x - 1 \in S /\ Before(S, x - 1) = i - 1
  BY <1>0, <1>3, <1>5, <1>6
<1> QED BY <1>7

\* Ordered lists the members of a set, each once.
LEMMA OrderedIs ==
    ASSUME NEW n \in Nat, NEW S, Numbered(S, n)
    PROVE  /\ Cardinality(S) \in Nat /\ DOMAIN Ordered(S) = 1 .. Cardinality(S)
           /\ \A i \in 1 .. Cardinality(S) : Ordered(S)[i] \in S
           /\ \A i, j \in 1 .. Cardinality(S) : Ordered(S)[i] = Ordered(S)[j] => i = j
           /\ Cardinality(S) = 0 <=> S = {}
<1>1. Cardinality(S) \in Nat /\ DOMAIN Ordered(S) = 1 .. Cardinality(S)
  BY BeforeIs DEF Ordered
<1>2. \A i \in 1 .. Cardinality(S) : Ordered(S)[i] \in S /\ Before(S, Ordered(S)[i]) = i - 1
  <2> TAKE i \in 1 .. Cardinality(S)
  <2>1. \E x \in S : Cardinality({y \in S : y < x}) = i - 1
    BY IthExists DEF Before
  <2>2. Ordered(S)[i] = CHOOSE x \in S : Cardinality({y \in S : y < x}) = i - 1
    BY DEF Ordered
  <2> QED BY <2>1, <2>2 DEF Before
<1>3. \A i, j \in 1 .. Cardinality(S) : Ordered(S)[i] = Ordered(S)[j] => i = j
  BY <1>1, <1>2
<1>4. Cardinality(S) = 0 <=> S = {}
  BY BeforeIs, FS_EmptySet
<1> QED BY <1>1, <1>2, <1>3, <1>4

\* The rules of the catalogue: what they say, and what they leave out.
HasItsKeys(r) ==
    r = [name |-> r.name, kind |-> r.kind, tier |-> r.tier, dir_name |-> r.dir_name,
         glob |-> r.glob, sibling |-> r.sibling, ancestor |-> r.ancestor,
         min_idle |-> r.min_idle, orphaned_only |-> r.orphaned_only,
         max_depth |-> r.max_depth, os |-> r.os, command |-> r.command]

Shape(r) ==
    /\ HasItsKeys(r)
    /\ r.name # "" /\ r.tier \in {0, 1, 2}
    /\ r.os = {} \/ r.os = {{"macos"}}
    /\ r.orphaned_only = {} /\ r.max_depth = {}
    /\ \/ /\ r.kind = "path" /\ r.command = {} /\ r.min_idle = {48}
          /\ r.sibling = {} \/ r.sibling = {"plain"}
          /\ r.ancestor = {} \/ r.ancestor = {"plain"}
          /\ \/ r.dir_name = {"plain"} /\ r.glob = {}
             \/ r.dir_name = {} /\ r.glob = {"plain"}
             \/ r.dir_name = {} /\ r.glob = {"home"}
       \/ /\ r.kind = "command" /\ r.command = {<<"plain">>} /\ r.min_idle = {}
          /\ r.sibling = {} /\ r.ancestor = {} /\ r.dir_name = {} /\ r.glob = {}

LEMMA ShapeIs ==
    ASSUME NEW r, Shape(r), r.name \in Words
    PROVE  r \in RuleText /\ SingleRule(r) /\ (env.home => RuleGood(r))
<1>1. "macos" \in Words
  BY WordsOK
<1>2. r.os \subseteq SUBSET Words /\ r.os \subseteq SUBSET {"linux", "macos"}
  <2>1. r.os = {} \/ r.os = {{"macos"}}
    BY DEF Shape
  <2>2. CASE r.os = {{"macos"}}
    BY <1>1, <2>2
  <2> QED BY <2>1, <2>2
<1>3. <<"plain">> \in Seq({"plain", "substituted"})
  OBVIOUS
<1>4. {<<"plain">>} \subseteq Seq({"plain", "substituted"})
  BY <1>3
<1>5. /\ r.kind \in {"path", "command"} /\ r.tier \in Nat
      /\ r.orphaned_only \subseteq BOOLEAN /\ r.max_depth \subseteq Nat
      /\ r.glob \subseteq {"plain", "home", "dotdot", "malformed"}
  <2>1. r.kind \in {"path", "command"} /\ r.tier \in Nat
    <3>1. r.kind = "path" \/ r.kind = "command"
      BY DEF Shape
    <3>2. r.tier = 0 \/ r.tier = 1 \/ r.tier = 2
      BY DEF Shape
    <3> QED BY <3>1, <3>2
  <2>2. r.orphaned_only = {} /\ r.max_depth = {}
    BY DEF Shape
  <2>3. r.glob = {} \/ r.glob = {"plain"} \/ r.glob = {"home"}
    BY DEF Shape
  <2> QED BY <2>1, <2>2, <2>3
<1>6. r.dir_name \subseteq Names /\ r.sibling \subseteq Names /\ r.ancestor \subseteq Names
  BY DEF Shape, Names
<1>7. r.min_idle \subseteq Nat /\ r.command \subseteq Seq({"plain", "substituted"})
  <2>1. r.min_idle = {} \/ r.min_idle = {48}
    BY DEF Shape
  <2>2. r.command = {} \/ r.command = {<<"plain">>}
    BY DEF Shape
  <2>3. r.min_idle \subseteq Nat
    BY <2>1
  <2>4. r.command \subseteq Seq({"plain", "substituted"})
    BY <1>4, <2>2
  <2> QED BY <2>3, <2>4
<1>8. r \in RuleText
  <2>1. HasItsKeys(r)
    BY DEF Shape
  <2> QED BY <1>2, <1>5, <1>6, <1>7, <2>1 DEF RuleText, HasItsKeys
<1>9. SingleRule(r)
  <2>1. /\ r["dir_name"] = {} \/ r["dir_name"] = {"plain"}
        /\ r["glob"] = {} \/ r["glob"] = {"plain"} \/ r["glob"] = {"home"}
        /\ r["sibling"] = {} \/ r["sibling"] = {"plain"}
        /\ r["ancestor"] = {} \/ r["ancestor"] = {"plain"}
        /\ r["min_idle"] = {} \/ r["min_idle"] = {48}
        /\ r["os"] = {} \/ r["os"] = {{"macos"}}
        /\ r["command"] = {} \/ r["command"] = {<<"plain">>}
        /\ r["orphaned_only"] = {} /\ r["max_depth"] = {}
    BY DEF Shape
  <2>2. \A S, x : S = {} \/ S = {x} => \A u, v \in S : u = v
    OBVIOUS
  <2>3. \A u, v \in r["dir_name"] : u = v
    BY <2>1
  <2>4. \A u, v \in r["glob"] : u = v
    BY <2>1
  <2>5. \A u, v \in r["sibling"] : u = v
    BY <2>1
  <2>6. \A u, v \in r["ancestor"] : u = v
    BY <2>1
  <2>7. \A u, v \in r["min_idle"] : u = v
    BY <2>1
  <2>8. \A u, v \in r["os"] : u = v
    BY <2>1, <2>2
  <2>9. \A u, v \in r["command"] : u = v
    BY <2>1, <2>2
  <2>10. (\A u, v \in r["orphaned_only"] : u = v) /\ (\A u, v \in r["max_depth"] : u = v)
    BY <2>1
  <2> QED BY <2>3, <2>4, <2>5, <2>6, <2>7, <2>8, <2>9, <2>10 DEF SingleRule
<1>10. EntryGood(r)
  BY <1>2 DEF Shape, EntryGood
<1>11. ASSUME r.kind = "command" PROVE CommandGood(r)
  <2>1. <<"plain">> # <<>> /\ \A i \in DOMAIN <<"plain">> : <<"plain">>[i] = "plain"
    OBVIOUS
  <2>2. \E argv \in r.command : argv # <<>> /\ \A i \in DOMAIN argv : argv[i] = "plain"
    BY <1>11, <2>1 DEF Shape
  <2> QED BY <1>11, <2>2 DEF Shape, CommandGood
<1>12. ASSUME r.kind = "path", env.home PROVE PathGood(r)
  BY <1>12 DEF Shape, PathGood
<1> QED BY <1>8, <1>9, <1>10, <1>11, <1>12 DEF RuleGood

LEMMA RulesShaped ==
    ASSUME NEW name, name # "", NEW tier \in {0, 1, 2}, NEW r
    PROVE  /\ r = Dir(Basic(name, tier)) => Shape(r) /\ r.name = name
           /\ r = [Dir(Basic(name, tier)) EXCEPT !.sibling = {"plain"}] => Shape(r) /\ r.name = name
           /\ r = Glob(Basic(name, tier)) => Shape(r) /\ r.name = name
           /\ r = [Glob(Basic(name, tier)) EXCEPT !.ancestor = {"plain"}] => Shape(r) /\ r.name = name
           /\ r = [Basic(name, tier) EXCEPT !.glob = {"home"}] => Shape(r) /\ r.name = name
           /\ r = [OnMac(Basic(name, tier)) EXCEPT !.glob = {"home"}] => Shape(r) /\ r.name = name
           /\ r = Command(Basic(name, tier)) => Shape(r) /\ r.name = name
           /\ r = OnMac(Command(Basic(name, tier))) => Shape(r) /\ r.name = name
<1>1. ASSUME r = Dir(Basic(name, tier))
      PROVE  Shape(r) /\ r.name = name
  <2>1. HasItsKeys(r)
    BY <1>1 DEF Basic, Dir, HasItsKeys
  <2>2. /\ r.name = name /\ r.tier = tier /\ r.kind = "path" /\ r.command = {}
        /\ r.min_idle = {48} /\ r.os = {} /\ r.dir_name = {"plain"} /\ r.glob = {}
        /\ r.sibling = {} /\ r.ancestor = {} /\ r.orphaned_only = {} /\ r.max_depth = {}
    BY <1>1 DEF Basic, Dir
  <2> QED BY <2>1, <2>2 DEF Shape
<1>2. ASSUME r = [Dir(Basic(name, tier)) EXCEPT !.sibling = {"plain"}]
      PROVE  Shape(r) /\ r.name = name
  <2>1. HasItsKeys(r)
    BY <1>2 DEF Basic, Dir, HasItsKeys
  <2>2. /\ r.name = name /\ r.tier = tier /\ r.kind = "path" /\ r.command = {}
        /\ r.min_idle = {48} /\ r.os = {} /\ r.dir_name = {"plain"} /\ r.glob = {}
        /\ r.sibling = {"plain"} /\ r.ancestor = {} /\ r.orphaned_only = {} /\ r.max_depth = {}
    BY <1>2 DEF Basic, Dir
  <2> QED BY <2>1, <2>2 DEF Shape
<1>3. ASSUME r = Glob(Basic(name, tier))
      PROVE  Shape(r) /\ r.name = name
  <2>1. HasItsKeys(r)
    BY <1>3 DEF Basic, Glob, HasItsKeys
  <2>2. /\ r.name = name /\ r.tier = tier /\ r.kind = "path" /\ r.command = {}
        /\ r.min_idle = {48} /\ r.os = {} /\ r.dir_name = {} /\ r.glob = {"plain"}
        /\ r.sibling = {} /\ r.ancestor = {} /\ r.orphaned_only = {} /\ r.max_depth = {}
    BY <1>3 DEF Basic, Glob
  <2> QED BY <2>1, <2>2 DEF Shape
<1>4. ASSUME r = [Glob(Basic(name, tier)) EXCEPT !.ancestor = {"plain"}]
      PROVE  Shape(r) /\ r.name = name
  <2>1. HasItsKeys(r)
    BY <1>4 DEF Basic, Glob, HasItsKeys
  <2>2. /\ r.name = name /\ r.tier = tier /\ r.kind = "path" /\ r.command = {}
        /\ r.min_idle = {48} /\ r.os = {} /\ r.dir_name = {} /\ r.glob = {"plain"}
        /\ r.sibling = {} /\ r.ancestor = {"plain"} /\ r.orphaned_only = {} /\ r.max_depth = {}
    BY <1>4 DEF Basic, Glob
  <2> QED BY <2>1, <2>2 DEF Shape
<1>5. ASSUME r = [Basic(name, tier) EXCEPT !.glob = {"home"}]
      PROVE  Shape(r) /\ r.name = name
  <2>1. HasItsKeys(r)
    BY <1>5 DEF Basic, HasItsKeys
  <2>2. /\ r.name = name /\ r.tier = tier /\ r.kind = "path" /\ r.command = {}
        /\ r.min_idle = {48} /\ r.os = {} /\ r.dir_name = {} /\ r.glob = {"home"}
        /\ r.sibling = {} /\ r.ancestor = {} /\ r.orphaned_only = {} /\ r.max_depth = {}
    BY <1>5 DEF Basic
  <2> QED BY <2>1, <2>2 DEF Shape
<1>6. ASSUME r = [OnMac(Basic(name, tier)) EXCEPT !.glob = {"home"}]
      PROVE  Shape(r) /\ r.name = name
  <2>1. HasItsKeys(r)
    BY <1>6 DEF Basic, OnMac, HasItsKeys
  <2>2. /\ r.name = name /\ r.tier = tier /\ r.kind = "path" /\ r.command = {}
        /\ r.min_idle = {48} /\ r.os = {{"macos"}} /\ r.dir_name = {} /\ r.glob = {"home"}
        /\ r.sibling = {} /\ r.ancestor = {} /\ r.orphaned_only = {} /\ r.max_depth = {}
    BY <1>6 DEF Basic, OnMac
  <2> QED BY <2>1, <2>2 DEF Shape
<1>7. ASSUME r = Command(Basic(name, tier))
      PROVE  Shape(r) /\ r.name = name
  <2>1. HasItsKeys(r)
    BY <1>7 DEF Basic, Command, HasItsKeys
  <2>2. /\ r.name = name /\ r.tier = tier /\ r.kind = "command" /\ r.command = {<<"plain">>}
        /\ r.min_idle = {} /\ r.os = {} /\ r.dir_name = {} /\ r.glob = {}
        /\ r.sibling = {} /\ r.ancestor = {} /\ r.orphaned_only = {} /\ r.max_depth = {}
    BY <1>7 DEF Basic, Command
  <2> QED BY <2>1, <2>2 DEF Shape
<1>8. ASSUME r = OnMac(Command(Basic(name, tier)))
      PROVE  Shape(r) /\ r.name = name
  <2>1. HasItsKeys(r)
    BY <1>8 DEF Basic, Command, OnMac, HasItsKeys
  <2>2. /\ r.name = name /\ r.tier = tier /\ r.kind = "command" /\ r.command = {<<"plain">>}
        /\ r.min_idle = {} /\ r.os = {{"macos"}} /\ r.dir_name = {} /\ r.glob = {}
        /\ r.sibling = {} /\ r.ancestor = {} /\ r.orphaned_only = {} /\ r.max_depth = {}
    BY <1>8 DEF Basic, Command, OnMac
  <2> QED BY <2>1, <2>2 DEF Shape
<1> QED BY <1>1, <1>2, <1>3, <1>4, <1>5, <1>6, <1>7, <1>8

\* The catalogue, entry by entry.
LEMMA CatalogShaped ==
    /\ DOMAIN Catalog = 1 .. 17
    /\ \A i \in DOMAIN Catalog : Shape(Catalog[i].rule)
    /\ \A i, j \in DOMAIN Catalog : Catalog[i].rule.name = Catalog[j].rule.name => i = j
    /\ Catalog[1].stack = "generic" /\ Catalog[1].rule.os = {}
    /\ \A i \in DOMAIN Catalog : Catalog[i].extra # {} =>
          /\ Catalog[i].depth \in Nat \ {0}
          /\ \E x : Catalog[i].extra = {x}
          /\ "code" \notin Catalog[i].extra
    /\ \A i, j \in DOMAIN Catalog : Catalog[i].extra \cap Catalog[j].extra # {} => i = j
<1> DEFINE named == <<"python-bytecode", "python-tool-caches", "cargo-target", "coverage-output",
                    "go-build-cache", "node-modules", "python-venv", "xcode-derived-data",
                    "xcode-unavailable-simulators", "playwright-browsers", "docker-dangling-images", "cargo-registry-cache",
                    "pnpm-store", "npm-cache", "uv-cache", "gradle-caches",
                    "docker-build-cache">>
<1>0. DOMAIN Catalog = 1 .. 17
  BY DEF Catalog
<1>1. /\ Catalog[1].stack = "generic" /\ Shape(Catalog[1].rule) /\ Catalog[1].rule.name = "python-bytecode"
      /\ Catalog[1].extra = {} /\ Catalog[1].depth = 0
  <2>1. Catalog[1] = Entry("generic", Dir(Basic("python-bytecode", 0)))
    BY DEF Catalog
  <2>2. Catalog[1].rule = Dir(Basic("python-bytecode", 0))
    BY <2>1 DEF Entry
  <2>3. Shape(Catalog[1].rule) /\ Catalog[1].rule.name = "python-bytecode"
    BY <2>2, RulesShaped
  <2> QED BY <2>1, <2>3 DEF Entry
<1>2. /\ Catalog[2].stack = "python" /\ Shape(Catalog[2].rule) /\ Catalog[2].rule.name = "python-tool-caches"
      /\ Catalog[2].extra = {} /\ Catalog[2].depth = 0
  <2>1. Catalog[2] = Entry("python", Glob(Basic("python-tool-caches", 0)))
    BY DEF Catalog
  <2>2. Catalog[2].rule = Glob(Basic("python-tool-caches", 0))
    BY <2>1 DEF Entry
  <2>3. Shape(Catalog[2].rule) /\ Catalog[2].rule.name = "python-tool-caches"
    BY <2>2, RulesShaped
  <2> QED BY <2>1, <2>3 DEF Entry
<1>3. /\ Catalog[3].stack = "rust" /\ Shape(Catalog[3].rule) /\ Catalog[3].rule.name = "cargo-target"
      /\ Catalog[3].extra = {} /\ Catalog[3].depth = 0
  <2>1. Catalog[3] = Entry("rust", [Dir(Basic("cargo-target", 0)) EXCEPT !.sibling = {"plain"}])
    BY DEF Catalog
  <2>2. Catalog[3].rule = [Dir(Basic("cargo-target", 0)) EXCEPT !.sibling = {"plain"}]
    BY <2>1 DEF Entry
  <2>3. Shape(Catalog[3].rule) /\ Catalog[3].rule.name = "cargo-target"
    BY <2>2, RulesShaped
  <2> QED BY <2>1, <2>3 DEF Entry
<1>4. /\ Catalog[4].stack = "generic" /\ Shape(Catalog[4].rule) /\ Catalog[4].rule.name = "coverage-output"
      /\ Catalog[4].extra = {} /\ Catalog[4].depth = 0
  <2>1. Catalog[4] = Entry("generic", Glob(Basic("coverage-output", 0)))
    BY DEF Catalog
  <2>2. Catalog[4].rule = Glob(Basic("coverage-output", 0))
    BY <2>1 DEF Entry
  <2>3. Shape(Catalog[4].rule) /\ Catalog[4].rule.name = "coverage-output"
    BY <2>2, RulesShaped
  <2> QED BY <2>1, <2>3 DEF Entry
<1>5. /\ Catalog[5].stack = "go" /\ Shape(Catalog[5].rule) /\ Catalog[5].rule.name = "go-build-cache"
      /\ Catalog[5].extra = {} /\ Catalog[5].depth = 0
  <2>1. Catalog[5] = Entry("go", Command(Basic("go-build-cache", 0)))
    BY DEF Catalog
  <2>2. Catalog[5].rule = Command(Basic("go-build-cache", 0))
    BY <2>1 DEF Entry
  <2>3. Shape(Catalog[5].rule) /\ Catalog[5].rule.name = "go-build-cache"
    BY <2>2, RulesShaped
  <2> QED BY <2>1, <2>3 DEF Entry
<1>6. /\ Catalog[6].stack = "node" /\ Shape(Catalog[6].rule) /\ Catalog[6].rule.name = "node-modules"
      /\ Catalog[6].extra = {} /\ Catalog[6].depth = 0
  <2>1. Catalog[6] = Entry("node", [Dir(Basic("node-modules", 1)) EXCEPT !.sibling = {"plain"}])
    BY DEF Catalog
  <2>2. Catalog[6].rule = [Dir(Basic("node-modules", 1)) EXCEPT !.sibling = {"plain"}]
    BY <2>1 DEF Entry
  <2>3. Shape(Catalog[6].rule) /\ Catalog[6].rule.name = "node-modules"
    BY <2>2, RulesShaped
  <2> QED BY <2>1, <2>3 DEF Entry
<1>7. /\ Catalog[7].stack = "python" /\ Shape(Catalog[7].rule) /\ Catalog[7].rule.name = "python-venv"
      /\ Catalog[7].extra = {} /\ Catalog[7].depth = 0
  <2>1. Catalog[7] = Entry("python", [Glob(Basic("python-venv", 1)) EXCEPT !.ancestor = {"plain"}])
    BY DEF Catalog
  <2>2. Catalog[7].rule = [Glob(Basic("python-venv", 1)) EXCEPT !.ancestor = {"plain"}]
    BY <2>1 DEF Entry
  <2>3. Shape(Catalog[7].rule) /\ Catalog[7].rule.name = "python-venv"
    BY <2>2, RulesShaped
  <2> QED BY <2>1, <2>3 DEF Entry
<1>8. /\ Catalog[8].stack = "xcode" /\ Shape(Catalog[8].rule) /\ Catalog[8].rule.name = "xcode-derived-data"
      /\ Catalog[8].extra = {"DerivedData"} /\ Catalog[8].depth = 1
  <2>1. Catalog[8] = InCache("xcode", OnMac(Basic("xcode-derived-data", 1)), "DerivedData", 1)
    BY DEF Catalog
  <2>2. Catalog[8].rule = [OnMac(Basic("xcode-derived-data", 1)) EXCEPT !.glob = {"home"}]
    BY <2>1 DEF InCache
  <2>3. Shape(Catalog[8].rule) /\ Catalog[8].rule.name = "xcode-derived-data"
    BY <2>2, RulesShaped
  <2> QED BY <2>1, <2>3 DEF InCache
<1>9. /\ Catalog[9].stack = "xcode" /\ Shape(Catalog[9].rule) /\ Catalog[9].rule.name = "xcode-unavailable-simulators"
      /\ Catalog[9].extra = {} /\ Catalog[9].depth = 0
  <2>1. Catalog[9] = Entry("xcode", OnMac(Command(Basic("xcode-unavailable-simulators", 1))))
    BY DEF Catalog
  <2>2. Catalog[9].rule = OnMac(Command(Basic("xcode-unavailable-simulators", 1)))
    BY <2>1 DEF Entry
  <2>3. Shape(Catalog[9].rule) /\ Catalog[9].rule.name = "xcode-unavailable-simulators"
    BY <2>2, RulesShaped
  <2> QED BY <2>1, <2>3 DEF Entry
<1>10. /\ Catalog[10].stack = "browsers" /\ Shape(Catalog[10].rule) /\ Catalog[10].rule.name = "playwright-browsers"
      /\ Catalog[10].extra = {"ms-playwright"} /\ Catalog[10].depth = 1
  <2>1. Catalog[10] = InCache("browsers", Basic("playwright-browsers", 1), "ms-playwright", 1)
    BY DEF Catalog
  <2>2. Catalog[10].rule = [Basic("playwright-browsers", 1) EXCEPT !.glob = {"home"}]
    BY <2>1 DEF InCache
  <2>3. Shape(Catalog[10].rule) /\ Catalog[10].rule.name = "playwright-browsers"
    BY <2>2, RulesShaped
  <2> QED BY <2>1, <2>3 DEF InCache
<1>11. /\ Catalog[11].stack = "docker" /\ Shape(Catalog[11].rule) /\ Catalog[11].rule.name = "docker-dangling-images"
      /\ Catalog[11].extra = {} /\ Catalog[11].depth = 0
  <2>1. Catalog[11] = Entry("docker", Command(Basic("docker-dangling-images", 1)))
    BY DEF Catalog
  <2>2. Catalog[11].rule = Command(Basic("docker-dangling-images", 1))
    BY <2>1 DEF Entry
  <2>3. Shape(Catalog[11].rule) /\ Catalog[11].rule.name = "docker-dangling-images"
    BY <2>2, RulesShaped
  <2> QED BY <2>1, <2>3 DEF Entry
<1>12. /\ Catalog[12].stack = "rust" /\ Shape(Catalog[12].rule) /\ Catalog[12].rule.name = "cargo-registry-cache"
      /\ Catalog[12].extra = {"registry"} /\ Catalog[12].depth = 2
  <2>1. Catalog[12] = InCache("rust", Basic("cargo-registry-cache", 2), "registry", 2)
    BY DEF Catalog
  <2>2. Catalog[12].rule = [Basic("cargo-registry-cache", 2) EXCEPT !.glob = {"home"}]
    BY <2>1 DEF InCache
  <2>3. Shape(Catalog[12].rule) /\ Catalog[12].rule.name = "cargo-registry-cache"
    BY <2>2, RulesShaped
  <2> QED BY <2>1, <2>3 DEF InCache
<1>13. /\ Catalog[13].stack = "pnpm" /\ Shape(Catalog[13].rule) /\ Catalog[13].rule.name = "pnpm-store"
      /\ Catalog[13].extra = {} /\ Catalog[13].depth = 0
  <2>1. Catalog[13] = Entry("pnpm", Command(Basic("pnpm-store", 2)))
    BY DEF Catalog
  <2>2. Catalog[13].rule = Command(Basic("pnpm-store", 2))
    BY <2>1 DEF Entry
  <2>3. Shape(Catalog[13].rule) /\ Catalog[13].rule.name = "pnpm-store"
    BY <2>2, RulesShaped
  <2> QED BY <2>1, <2>3 DEF Entry
<1>14. /\ Catalog[14].stack = "node" /\ Shape(Catalog[14].rule) /\ Catalog[14].rule.name = "npm-cache"
      /\ Catalog[14].extra = {} /\ Catalog[14].depth = 0
  <2>1. Catalog[14] = Entry("node", Command(Basic("npm-cache", 2)))
    BY DEF Catalog
  <2>2. Catalog[14].rule = Command(Basic("npm-cache", 2))
    BY <2>1 DEF Entry
  <2>3. Shape(Catalog[14].rule) /\ Catalog[14].rule.name = "npm-cache"
    BY <2>2, RulesShaped
  <2> QED BY <2>1, <2>3 DEF Entry
<1>15. /\ Catalog[15].stack = "uv" /\ Shape(Catalog[15].rule) /\ Catalog[15].rule.name = "uv-cache"
      /\ Catalog[15].extra = {} /\ Catalog[15].depth = 0
  <2>1. Catalog[15] = Entry("uv", Command(Basic("uv-cache", 2)))
    BY DEF Catalog
  <2>2. Catalog[15].rule = Command(Basic("uv-cache", 2))
    BY <2>1 DEF Entry
  <2>3. Shape(Catalog[15].rule) /\ Catalog[15].rule.name = "uv-cache"
    BY <2>2, RulesShaped
  <2> QED BY <2>1, <2>3 DEF Entry
<1>16. /\ Catalog[16].stack = "gradle" /\ Shape(Catalog[16].rule) /\ Catalog[16].rule.name = "gradle-caches"
      /\ Catalog[16].extra = {"gradle"} /\ Catalog[16].depth = 1
  <2>1. Catalog[16] = InCache("gradle", Basic("gradle-caches", 2), "gradle", 1)
    BY DEF Catalog
  <2>2. Catalog[16].rule = [Basic("gradle-caches", 2) EXCEPT !.glob = {"home"}]
    BY <2>1 DEF InCache
  <2>3. Shape(Catalog[16].rule) /\ Catalog[16].rule.name = "gradle-caches"
    BY <2>2, RulesShaped
  <2> QED BY <2>1, <2>3 DEF InCache
<1>17. /\ Catalog[17].stack = "docker" /\ Shape(Catalog[17].rule) /\ Catalog[17].rule.name = "docker-build-cache"
      /\ Catalog[17].extra = {} /\ Catalog[17].depth = 0
  <2>1. Catalog[17] = Entry("docker", Command(Basic("docker-build-cache", 2)))
    BY DEF Catalog
  <2>2. Catalog[17].rule = Command(Basic("docker-build-cache", 2))
    BY <2>1 DEF Entry
  <2>3. Shape(Catalog[17].rule) /\ Catalog[17].rule.name = "docker-build-cache"
    BY <2>2, RulesShaped
  <2> QED BY <2>1, <2>3 DEF Entry
<1> HIDE DEF Shape
<1>20. \A i \in 1 .. 17 : Shape(Catalog[i].rule) /\ Catalog[i].rule.name = named[i]
  BY <1>1, <1>2, <1>3, <1>4, <1>5, <1>6, <1>7, <1>8, <1>9, <1>10, <1>11, <1>12, <1>13, <1>14, <1>15, <1>16, <1>17
<1>21. \A i, j \in 1 .. 17 : named[i] = named[j] => i = j
  OBVIOUS
<1>22. Catalog[1].rule.os = {}
  BY DEF Catalog, Entry, Dir, Basic
<1>23. \A i \in 1 .. 17 : \/ Catalog[i].extra = {}
                         \/ i = 8 \/ i = 10 \/ i = 12 \/ i = 16
  BY <1>1, <1>2, <1>3, <1>4, <1>5, <1>6, <1>7, <1>8, <1>9, <1>10, <1>11, <1>12, <1>13, <1>14, <1>15, <1>16, <1>17
<1> HIDE DEF named
<1>24. \A i \in 1 .. 17 : Catalog[i].extra # {} =>
          /\ Catalog[i].depth \in Nat \ {0}
          /\ \E x : Catalog[i].extra = {x}
          /\ "code" \notin Catalog[i].extra
  <2> TAKE i \in 1 .. 17
  <2>1. Catalog[i].extra # {} => Catalog[i].depth = 1 \/ Catalog[i].depth = 2
    BY <1>8, <1>10, <1>12, <1>16, <1>23
  <2>2. Catalog[i].extra # {} => \E x : x # "code" /\ Catalog[i].extra = {x}
    BY <1>8, <1>10, <1>12, <1>16, <1>23
  <2> QED BY <2>1, <2>2
<1>25. \A i, j \in 1 .. 17 : Catalog[i].extra \cap Catalog[j].extra # {} => i = j
  BY <1>8, <1>10, <1>12, <1>16, <1>23
<1>26. \A i, j \in 1 .. 17 : Catalog[i].rule.name = Catalog[j].rule.name => i = j
  BY <1>20, <1>21
<1>27. Catalog[1].stack = "generic"
  BY <1>1
<1>28. \A i \in 1 .. 17 : Shape(Catalog[i].rule)
  BY <1>20
<1> QED BY <1>0, <1>22, <1>24, <1>25, <1>26, <1>27, <1>28

LEMMA HomeIs ==
    ASSUME NEW w \in Worlds, NEW h \in w.homes
    PROVE  /\ Len(h.parent) \in Nat /\ DOMAIN h.parent = 1 .. Len(h.parent)
           /\ \A d \in DOMAIN h.parent : h.parent[d] \in Nat /\ h.parent[d] < d
           /\ DOMAIN h.name = DOMAIN h.parent
           /\ \A d \in DOMAIN h.parent : h.name[d] \in Words
           /\ \A c, d \in DOMAIN h.parent : h.name[c] = h.name[d] => c = d
<1>1. h.parent \in Seq(Nat)
  BY SetupOK
<1>2. h.name \in [DOMAIN h.parent -> Words]
  BY SetupOK
<1>3. \A d \in DOMAIN h.parent : h.parent[d] < d
  BY SetupOK
<1>4. \A c, d \in DOMAIN h.parent : h.name[c] = h.name[d] => c = d
  BY SetupOK
<1> QED BY <1>1, <1>2, <1>3, <1>4

LEMMA DetectedIs ==
    ASSUME NEW w \in Worlds, NEW h \in w.homes
    PROVE  Numbered(DetectRoots(h), Len(h.parent))
<1>1. ASSUME NEW d, Claimed(h, d)
      PROVE  d \in DOMAIN h.parent
  <2>1. PICK c \in DOMAIN h.parent : h.parent[c] = d
    BY <1>1 DEF Claimed, Inside
  <2>2. d # 0
    BY <1>1 DEF Claimed
  <2> QED BY <2>1, <2>2, HomeIs
<1>2. h.conventional \subseteq DOMAIN h.parent
  BY SetupOK
<1>3. DetectRoots(h) \subseteq DOMAIN h.parent
  BY <1>1, <1>2 DEF DetectRoots
<1> QED BY <1>3, HomeIs DEF Numbered

LEMMA UnderHomeIs ==
    \A name : UnderHome(name).name = name /\ UnderHome(name).form = "home"
BY DEF UnderHome

LEMMA CatalogNumbered ==
    ASSUME NEW S, S \subseteq DOMAIN Catalog
    PROVE  Numbered(S, 17)
<1>1. DOMAIN Catalog = 1 .. 17
  BY CatalogShaped
<1>2. \A y \in 1 .. 17 : y \in Nat /\ 1 <= y /\ y <= 17
  OBVIOUS
<1> QED BY <1>1, <1>2 DEF Numbered

LEMMA RootAtIs ==
    ASSUME NEW name \in Words, NEW depth \in Nat
    PROVE  /\ RootAt(name, depth) \in RootText
           /\ RootAt(name, depth).path = UnderHome(name)
           /\ RootAt(name, depth).max_depth = {depth}
BY DEF RootAt, RootText, PathText, UnderHome

LEMMA CodeRootsAre ==
    ASSUME NEW w \in Worlds, NEW h \in w.homes
    PROVE  /\ CodeRoots(h) \in Seq(RootText) /\ CodeRoots(h) # <<>>
           /\ \A i \in DOMAIN CodeRoots(h) : \E name \in Words :
                /\ CodeRoots(h)[i] = RootAt(name, 6)
                /\ name = "code" \/ \E d \in DetectRoots(h) : name = h.name[d]
           /\ \A i, j \in DOMAIN CodeRoots(h) :
                CodeRoots(h)[i].path.name = CodeRoots(h)[j].path.name => i = j
<1>1. CASE DetectRoots(h) = {}
  <2>1. CodeRoots(h) = <<RootAt("code", 6)>>
    BY <1>1 DEF CodeRoots
  <2>2. RootAt("code", 6) \in RootText /\ "code" \in Words
    BY RootAtIs, WordsOK
  <2> QED BY <2>1, <2>2
<1>2. CASE DetectRoots(h) # {}
  <2> DEFINE found == Ordered(DetectRoots(h))
             n == Cardinality(DetectRoots(h))
  <2>1. /\ n \in Nat /\ DOMAIN found = 1 .. n /\ n # 0
        /\ \A i \in 1 .. n : found[i] \in DetectRoots(h)
        /\ \A i, j \in 1 .. n : found[i] = found[j] => i = j
    <3>1. Len(h.parent) \in Nat
      BY HomeIs
    <3> QED BY <1>2, <3>1, DetectedIs, OrderedIs
  <2>2. CodeRoots(h) = [i \in DOMAIN found |-> RootAt(h.name[found[i]], 6)]
    BY <1>2 DEF CodeRoots
  <2> HIDE DEF found, n
  <2>3. \A i \in 1 .. n : found[i] \in DOMAIN h.parent
    BY <2>1, HomeIs, DetectedIs DEF Numbered
  <2>4. \A i \in 1 .. n : h.name[found[i]] \in Words
    BY <2>3, HomeIs
  <2>5. \A i \in 1 .. n : /\ CodeRoots(h)[i] = RootAt(h.name[found[i]], 6)
                          /\ CodeRoots(h)[i] \in RootText
                          /\ CodeRoots(h)[i].path = UnderHome(h.name[found[i]])
    BY <2>1, <2>2, <2>4, RootAtIs
  <2>6. CodeRoots(h) \in Seq(RootText) /\ DOMAIN CodeRoots(h) = 1 .. n /\ CodeRoots(h) # <<>>
    <3>1. DOMAIN CodeRoots(h) = 1 .. n
      BY <2>1, <2>2
    <3>2. CodeRoots(h) = [i \in 1 .. n |-> CodeRoots(h)[i]]
      BY <2>1, <2>2
    <3>3. CodeRoots(h) \in Seq(RootText)
      BY <2>1, <2>5, <3>2
    <3> QED BY <2>1, <3>1, <3>3
  <2>7. \A i \in 1 .. n : CodeRoots(h)[i].path.name = h.name[found[i]]
    BY <2>5, UnderHomeIs
  <2>8. \A i, j \in 1 .. n : h.name[found[i]] = h.name[found[j]] => i = j
    BY <2>1, <2>3, HomeIs
  <2>9. ASSUME NEW i \in 1 .. n
        PROVE  \E name \in Words : /\ CodeRoots(h)[i] = RootAt(name, 6)
                                   /\ \E d \in DetectRoots(h) : name = h.name[d]
    BY <2>1, <2>4, <2>5
  <2> QED BY <2>6, <2>7, <2>8, <2>9
<1> QED BY <1>1, <1>2

LEMMA ExtraRootsAre ==
    ASSUME NEW stacks
    PROVE  /\ ExtraRoots(stacks) \in Seq(RootText)
           /\ \A i \in DOMAIN ExtraRoots(stacks) : \E name \in Words, k \in DOMAIN Catalog :
                /\ ExtraRoots(stacks)[i] = RootAt(name, Catalog[k].depth)
                /\ Catalog[k].depth \in Nat \ {0}
                /\ name \in Catalog[k].extra
           /\ \A i, j \in DOMAIN ExtraRoots(stacks) :
                ExtraRoots(stacks)[i].path.name = ExtraRoots(stacks)[j].path.name => i = j
<1> DEFINE S == {i \in DOMAIN Catalog : Catalog[i].stack \in stacks /\ Catalog[i].extra # {}}
           with == Ordered(S)
           n == Cardinality(S)
           name(i) == CHOOSE x \in Catalog[with[i]].extra : TRUE
<1>1. Numbered(S, 17)
  BY CatalogNumbered
<1>2. /\ n \in Nat /\ DOMAIN with = 1 .. n
      /\ \A i \in 1 .. n : with[i] \in S
      /\ \A i, j \in 1 .. n : with[i] = with[j] => i = j
  <2> HIDE DEF S
  <2> QED BY <1>1, OrderedIs
<1>3. ExtraRoots(stacks) = [i \in DOMAIN with |-> RootAt(name(i), Catalog[with[i]].depth)]
  BY DEF ExtraRoots
<1>4. \A i \in 1 .. n : with[i] \in DOMAIN Catalog /\ Catalog[with[i]].extra # {}
  BY <1>2
<1> HIDE DEF S, with, n
<1>5. \A i \in 1 .. n : name(i) \in Catalog[with[i]].extra
  BY <1>4
<1> HIDE DEF name
<1>6. \A i \in 1 .. n : name(i) \in Words /\ Catalog[with[i]].depth \in Nat \ {0}
  BY <1>4, <1>5, CatalogShaped, WordsOK
<1>7. \A i \in 1 .. n : /\ ExtraRoots(stacks)[i] = RootAt(name(i), Catalog[with[i]].depth)
                        /\ ExtraRoots(stacks)[i] \in RootText
                        /\ ExtraRoots(stacks)[i].path = UnderHome(name(i))
  BY <1>2, <1>3, <1>6, RootAtIs
<1>8. DOMAIN ExtraRoots(stacks) = 1 .. n /\ ExtraRoots(stacks) \in Seq(RootText)
  <2>1. DOMAIN ExtraRoots(stacks) = 1 .. n
    BY <1>2, <1>3
  <2>2. ExtraRoots(stacks) = [i \in 1 .. n |-> ExtraRoots(stacks)[i]]
    BY <1>2, <1>3
  <2>3. ExtraRoots(stacks) \in Seq(RootText)
    BY <1>2, <1>7, <2>2
  <2> QED BY <2>1, <2>3
<1>9. \A i \in 1 .. n : ExtraRoots(stacks)[i].path.name = name(i)
  BY <1>7, UnderHomeIs
<1>10. \A i, j \in 1 .. n : name(i) = name(j) => i = j
  BY <1>2, <1>4, <1>5, CatalogShaped
<1> QED BY <1>4, <1>5, <1>6, <1>7, <1>8, <1>9, <1>10

LEMMA RulesForAre ==
    ASSUME NEW stacks
    PROVE  /\ RulesFor(stacks) \in Seq(RuleText)
           /\ "generic" \in stacks => RulesFor(stacks) # <<>>
           /\ \A i \in DOMAIN RulesFor(stacks) :
                /\ SingleRule(RulesFor(stacks)[i])
                /\ env.home => RuleGood(RulesFor(stacks)[i])
           /\ \A i, j \in DOMAIN RulesFor(stacks) :
                RulesFor(stacks)[i].name = RulesFor(stacks)[j].name => i = j
<1> DEFINE S == {i \in DOMAIN Catalog :
                   /\ Catalog[i].stack \in stacks
                   /\ \A systems \in Catalog[i].rule.os : System \in systems}
           for == Ordered(S)
           n == Cardinality(S)
<1>1. Numbered(S, 17)
  BY CatalogNumbered
<1>2. /\ n \in Nat /\ DOMAIN for = 1 .. n
      /\ \A i \in 1 .. n : for[i] \in S
      /\ \A i, j \in 1 .. n : for[i] = for[j] => i = j
      /\ n = 0 <=> S = {}
  <2> HIDE DEF S
  <2> QED BY <1>1, OrderedIs
<1>3. RulesFor(stacks) = [i \in DOMAIN for |-> Catalog[for[i]].rule]
  BY DEF RulesFor
<1>4. \A i \in 1 .. n : for[i] \in DOMAIN Catalog
  BY <1>2
<1>5. "generic" \in stacks => 1 \in S
  <2>1. DOMAIN Catalog = 1 .. 17 /\ Catalog[1].stack = "generic" /\ Catalog[1].rule.os = {}
    BY CatalogShaped
  <2> QED BY <2>1
<1>6. "generic" \in stacks => n # 0
  BY <1>2, <1>5
<1> HIDE DEF S, for, n
<1>7. \A k \in DOMAIN Catalog : /\ Catalog[k].rule \in RuleText /\ SingleRule(Catalog[k].rule)
                                /\ env.home => RuleGood(Catalog[k].rule)
  BY CatalogShaped, ShapeIs, WordsOK
<1>8. DOMAIN RulesFor(stacks) = 1 .. n /\ \A i \in 1 .. n : RulesFor(stacks)[i] = Catalog[for[i]].rule
  BY <1>2, <1>3
<1>9. RulesFor(stacks) = [i \in 1 .. n |-> RulesFor(stacks)[i]]
  BY <1>2, <1>3
<1>10. RulesFor(stacks) \in Seq(RuleText)
  BY <1>2, <1>4, <1>7, <1>8, <1>9
<1>11. "generic" \in stacks => RulesFor(stacks) # <<>>
  BY <1>2, <1>6, <1>8, <1>10
<1>12. \A i, j \in 1 .. n : RulesFor(stacks)[i].name = RulesFor(stacks)[j].name => i = j
  <2>1. \A k, l \in DOMAIN Catalog : Catalog[k].rule.name = Catalog[l].rule.name => k = l
    BY CatalogShaped
  <2> QED BY <1>2, <1>4, <1>8, <2>1
<1> QED BY <1>4, <1>7, <1>8, <1>10, <1>11, <1>12

\* A text whose parts are right and single.
LEMMA TextMade ==
    ASSUME NEW global \in Table, Single(global),
           NEW somewhere \in Seq(RootText), \A i \in DOMAIN somewhere : \A u, v \in somewhere[i].max_depth : u = v,
           NEW something \in Seq(RuleText), \A i \in DOMAIN something : SingleRule(something[i]),
           NEW t, t = [global |-> global, machine |-> NoTables, roots |-> somewhere, rules |-> something]
    PROVE  t \in Text /\ Singles(t) /\ Standing(t)
<1>1. NoTables \in [Hosts -> SUBSET Table] /\ \A m \in Hosts : NoTables[m] = {}
  BY DEF NoTables
<1>2. t \in Text
  BY <1>1 DEF Text
<1>3. Singles(t)
  BY <1>1 DEF Singles, SingleRule
<1> QED BY <1>2, <1>3 DEF Standing

LEMMA TablesMade ==
    /\ Globals \in Table /\ Single(Globals)
    /\ [key \in DOMAIN Globals |-> {}] \in Table /\ Single([key \in DOMAIN Globals |-> {}])
<1>1. /\ UnderHome("quarantine") \in PathText /\ UnderHome("heartbeats") \in PathText
  BY WordsOK DEF UnderHome, PathText
<1>2. <<>> \in Seq(PathText)
  OBVIOUS
<1>3. Globals \in Table
  <2>1. {<<>>} \subseteq Seq(PathText)
    BY <1>2
  <2>2. {15} \subseteq Nat /\ {25} \subseteq Nat /\ {"plain"} \subseteq Names
    BY DEF Names
  <2>3. /\ {UnderHome("quarantine")} \subseteq PathText /\ {UnderHome("heartbeats")} \subseteq PathText
    BY <1>1
  <2> QED BY <2>1, <2>2, <2>3 DEF Globals, Table
<1>4. Single(Globals)
  <2>1. DOMAIN Globals = Keys
    BY <1>3, TableIs
  <2>2. /\ Globals["dry_run"] = {TRUE} /\ Globals["low"] = {15} /\ Globals["target"] = {25}
        /\ Globals["staleness"] = {} /\ Globals["pin"] = {"plain"}
        /\ Globals["quarantine"] = {UnderHome("quarantine")}
        /\ Globals["heartbeats"] = {UnderHome("heartbeats")} /\ Globals["deny"] = {<<>>}
    BY DEF Globals
  <2>3. \A key \in Keys : Globals[key] = {} \/ \E x : Globals[key] = {x}
    BY <2>2 DEF Keys
  <2> QED BY <2>1, <2>3 DEF Single
<1>5. DOMAIN Globals = Keys
  BY <1>3, TableIs
<1>6. [key \in Keys |-> {}] \in Table
  BY DEF Keys, Table
<1>7. Single([key \in Keys |-> {}])
  BY DEF Single
<1> QED BY <1>3, <1>4, <1>5, <1>6, <1>7

LEMMA EmptySeqs == <<>> \in Seq(RootText) /\ <<>> \in Seq(RuleText) /\ DOMAIN <<>> = {}
OBVIOUS

\* The names of the directories that are detected.
Detected(h) == {h.name[d] : d \in DetectRoots(h)}

LEMMA RootsMade ==
    ASSUME NEW w \in Worlds, NEW h \in w.homes, NEW stacks
    PROVE  LET made == CodeRoots(h) \o ExtraRoots(stacks) IN
           /\ made \in Seq(RootText) /\ made # <<>>
           /\ \A i \in DOMAIN made : /\ made[i].path.form = "home"
                                     /\ \E d \in Nat \ {0} : made[i].max_depth = {d}
                                     /\ made[i].path.name \in Awkward =>
                                           made[i].path.name \in Detected(h)
           /\ \A i, j \in DOMAIN made : made[i].path.name = made[j].path.name => i = j
<1> DEFINE c == CodeRoots(h)
           e == ExtraRoots(stacks)
           made == c \o e
<1>1. c \in Seq(RootText) /\ c # <<>> /\ e \in Seq(RootText)
  BY CodeRootsAre, ExtraRootsAre
<1>2. \A i \in DOMAIN c : /\ c[i].path.form = "home" /\ c[i].max_depth = {6}
                          /\ \/ c[i].path.name = "code"
                             \/ \E d \in DetectRoots(h) : c[i].path.name = h.name[d]
  <2>1. \A i \in DOMAIN c : \E name \in Words :
           c[i] = RootAt(name, 6) /\ (name = "code" \/ \E d \in DetectRoots(h) : name = h.name[d])
    BY CodeRootsAre
  <2> HIDE DEF c
  <2> QED BY <2>1, RootAtIs, UnderHomeIs
<1>3. \A i \in DOMAIN e : /\ e[i].path.form = "home" /\ \E d \in Nat \ {0} : e[i].max_depth = {d}
                          /\ \E k \in DOMAIN Catalog : e[i].path.name \in Catalog[k].extra
  <2>1. \A i \in DOMAIN e : \E name \in Words, k \in DOMAIN Catalog :
           e[i] = RootAt(name, Catalog[k].depth) /\ Catalog[k].depth \in Nat \ {0} /\ name \in Catalog[k].extra
    BY ExtraRootsAre
  <2> HIDE DEF e
  <2> QED BY <2>1, RootAtIs, UnderHomeIs
<1>4. /\ \A i, j \in DOMAIN c : c[i].path.name = c[j].path.name => i = j
      /\ \A i, j \in DOMAIN e : e[i].path.name = e[j].path.name => i = j
  BY CodeRootsAre, ExtraRootsAre
<1> HIDE DEF c, e
<1>5. \A i \in DOMAIN c, j \in DOMAIN e : c[i].path.name # e[j].path.name
  <2> TAKE i \in DOMAIN c, j \in DOMAIN e
  <2>1. PICK k \in DOMAIN Catalog : e[j].path.name \in Catalog[k].extra
    BY <1>3
  <2>2. "code" \notin Catalog[k].extra
    BY <2>1, CatalogShaped
  <2>3. \A d \in DetectRoots(h) : h.name[d] \notin Catalog[k].extra
    BY <2>1, CachesApart, DetectedIs, HomeIs DEF Numbered
  <2> QED BY <1>2, <2>1, <2>2, <2>3
<1>6. /\ made \in Seq(RootText) /\ Len(made) = Len(c) + Len(e)
      /\ Len(c) \in Nat /\ Len(e) \in Nat /\ Len(c) # 0
      /\ DOMAIN c = 1 .. Len(c) /\ DOMAIN e = 1 .. Len(e) /\ DOMAIN made = 1 .. Len(made)
  BY <1>1
<1>7. \A i \in DOMAIN made :
         \/ i \in DOMAIN c /\ made[i] = c[i]
         \/ i - Len(c) \in DOMAIN e /\ i \notin DOMAIN c /\ made[i] = e[i - Len(c)]
  BY <1>1, <1>6
<1>8. made # <<>>
  BY <1>6
<1> HIDE DEF made
<1>9. \A i \in DOMAIN made : /\ made[i].path.form = "home"
                             /\ \E d \in Nat \ {0} : made[i].max_depth = {d}
                             /\ made[i].path.name \in Awkward => made[i].path.name \in Detected(h)
  <2>1. \A i \in DOMAIN c : c[i].path.name \in Awkward => c[i].path.name \in Detected(h)
    BY <1>2, WordsOK DEF Detected
  <2>2. \A i \in DOMAIN e : e[i].path.name \notin Awkward
    BY <1>3, WordsOK
  <2> QED BY <1>2, <1>3, <1>7, <2>1, <2>2
<1>10. ASSUME NEW i \in DOMAIN made, NEW j \in DOMAIN made, made[i].path.name = made[j].path.name
       PROVE  i = j
  <2>0. i \in Nat /\ j \in Nat
    BY <1>6
  <2>1. CASE i \in DOMAIN c /\ j \in DOMAIN c
    BY <1>4, <1>7, <1>10, <2>1
  <2>2. CASE i \in DOMAIN c /\ j \notin DOMAIN c
    BY <1>5, <1>7, <1>10, <2>2
  <2>3. CASE i \notin DOMAIN c /\ j \in DOMAIN c
    BY <1>5, <1>7, <1>10, <2>3
  <2>4. CASE i \notin DOMAIN c /\ j \notin DOMAIN c
    <3>1. i - Len(c) = j - Len(c)
      BY <1>4, <1>7, <1>10, <2>4
    <3> QED BY <1>6, <2>0, <3>1
  <2> QED BY <2>1, <2>2, <2>3, <2>4
<1> QED BY <1>6, <1>8, <1>9, <1>10 DEF made, c, e

\* With no table for a machine the keys of [global] count.
LEMMA GlobalsCount ==
    ASSUME NEW t, t.machine = NoTables
    PROVE  \A key : Own(t, key) = {} /\ Set(t, key) = t.global[key]
<1>1. NoTables[Host] = {} /\ NoTables[Short] = {}
  BY ConfigurationOK DEF NoTables
<1>2. \A key : Own(t, key) = {}
  BY <1>1 DEF Own
<1> QED BY <1>2 DEF Set

\* What init renders parses, and where ~ means something it is well formed.
LEMMA RenderIs ==
    ASSUME NEW w \in Worlds, NEW h \in w.homes, NEW stacks
    PROVE  /\ Render(h, stacks) \in Text /\ Singles(Render(h, stacks))
           /\ Standing(Render(h, stacks))
           /\ env.home /\ "generic" \in stacks => WellFormed(Render(h, stacks))
<1> DEFINE made == CodeRoots(h) \o ExtraRoots(stacks)
           rules == RulesFor(stacks)
           t == Render(h, stacks)
<1>1. t = [global |-> Globals, machine |-> NoTables, roots |-> made, rules |-> rules]
  BY DEF Render
<1>2. /\ made \in Seq(RootText) /\ made # <<>>
      /\ \A i \in DOMAIN made : /\ made[i].path.form = "home"
                                /\ \E d \in Nat \ {0} : made[i].max_depth = {d}
      /\ \A i, j \in DOMAIN made : made[i].path.name = made[j].path.name => i = j
  BY RootsMade
<1>3. /\ rules \in Seq(RuleText)
      /\ "generic" \in stacks => rules # <<>>
      /\ \A i \in DOMAIN rules : SingleRule(rules[i]) /\ (env.home => RuleGood(rules[i]))
      /\ \A i, j \in DOMAIN rules : rules[i].name = rules[j].name => i = j
  BY RulesForAre
<1> HIDE DEF made, rules, t
<1>4. t \in Text /\ Singles(t) /\ Standing(t)
  <2>1. \A i \in DOMAIN made : \A u, v \in made[i].max_depth : u = v
    BY <1>2
  <2> QED BY <1>1, <1>2, <1>3, <2>1, TablesMade, TextMade
<1>6. \A key : Set(t, key) = Globals[key]
  BY <1>1, GlobalsCount
<1>8. ASSUME env.home, "generic" \in stacks
      PROVE  WellFormed(t)
  <2>1. t.roots = made /\ t.rules = rules
    BY <1>1
  <2>2. rules # <<>> /\ HasRoots(t)
    BY <1>2, <1>3, <1>8, <2>1 DEF HasRoots
  <2>3. RootsGood(t)
    BY <1>2, <1>8, <2>1 DEF RootsGood
  <2>4. RulesGood(t)
    BY <1>3, <1>8, <2>1 DEF RulesGood
  <2>5. SettingsFine(t)
    <3>1. /\ Set(t, "low") = {15} /\ Set(t, "target") = {25}
          /\ Set(t, "staleness") = {} /\ Set(t, "pin") = {"plain"}
          /\ Set(t, "quarantine") = {UnderHome("quarantine")}
      BY <1>6 DEF Globals
    <3> QED BY <1>8, <3>1, UnderHomeIs DEF SettingsFine
  <2> QED BY <1>4, <1>8, <2>1, <2>2, <2>3, <2>4, <2>5, WellFormedIs
<1> QED BY <1>4, <1>8 DEF t

LEMMA MarksAreNoTexts ==
    /\ \A mark \in {Absent, Folder, Locked, Garbage} : mark \notin Text
    /\ Garbage \notin {Absent, Folder} /\ Locked \notin {Absent, Folder}
BY ConfigurationOK

LEMMA CutRule ==
    ASSUME NEW r \in RuleText, SingleRule(r)
    PROVE  LET cut == [r EXCEPT !.sibling = {}, !.ancestor = {}, !.min_idle = {}, !.os = {}] IN
           cut \in RuleText /\ SingleRule(cut)
<1> DEFINE cut == [r EXCEPT !.sibling = {}, !.ancestor = {}, !.min_idle = {}, !.os = {}]
<1>1. cut \in RuleText
  BY DEF RuleText
<1>2. /\ cut["dir_name"] = r["dir_name"] /\ cut["glob"] = r["glob"] /\ cut["sibling"] = {}
      /\ cut["ancestor"] = {} /\ cut["min_idle"] = {} /\ cut["os"] = {}
      /\ cut["orphaned_only"] = r["orphaned_only"] /\ cut["max_depth"] = r["max_depth"]
      /\ cut["command"] = r["command"]
  BY DEF RuleText
<1> HIDE DEF cut
<1>3. SingleRule(cut)
  BY <1>2 DEF SingleRule
<1> QED BY <1>1, <1>3 DEF cut

\* A text as init writes it, if what it writes is a text.
Wrote(t) ==
    /\ t \in Text /\ Singles(t)
    /\ t = [global |-> Globals, machine |-> NoTables, roots |-> t.roots, rules |-> t.rules]

\* Names that stand for themselves are read as they were written; otherwise the text is
\* none, or the same with other roots.
LEMMA ParsedIs ==
    ASSUME NEW w \in Worlds, NEW h \in w.homes, NEW stacks
    PROVE  LET p == Parsed(Render(h, stacks)) IN
           /\ p = Garbage \/ Wrote(p)
           /\ Standing(p)
           /\ Detected(h) \cap Awkward = {} => p = Render(h, stacks)
<1> DEFINE made == CodeRoots(h) \o ExtraRoots(stacks)
           t == Render(h, stacks)
           back == [i \in DOMAIN made |-> [made[i] EXCEPT !.path.name = ReadBack(@)]]
<1>1. /\ t = [global |-> Globals, machine |-> NoTables, roots |-> made, rules |-> t.rules]
      /\ t \in Text /\ Singles(t)
  BY RenderIs DEF Render
<1>2. /\ made \in Seq(RootText)
      /\ \A i \in DOMAIN made : /\ \E d \in Nat \ {0} : made[i].max_depth = {d}
                                /\ made[i].path.name \in Awkward => made[i].path.name \in Detected(h)
  BY RootsMade
<1>3. t.rules \in Seq(RuleText) /\ \A i \in DOMAIN t.rules : SingleRule(t.rules[i])
  <2>1. t.rules \in Seq(RuleText)
    BY <1>1, TextIs
  <2> QED BY <1>1, <2>1 DEF Singles, SingleRule
<1>4. Parsed(t) = IF \E i \in DOMAIN made : Spoils(made[i].path.name) THEN Garbage
                  ELSE [t EXCEPT !.roots = back]
  <2> HIDE DEF made, t
  <2>1. t.roots = made
    BY <1>1
  <2> QED BY <2>1 DEF Parsed
<1> HIDE DEF made, t
<1>5. \A i \in DOMAIN made : made[i] \in RootText /\ made[i].path.name \in Words
  <2>1. \A i \in DOMAIN made : made[i] \in RootText
    BY <1>2
  <2> QED BY <2>1 DEF RootText, PathText
<1>6. CASE \E i \in DOMAIN made : Spoils(made[i].path.name)
  <2>1. Parsed(t) = Garbage
    BY <1>4, <1>6
  <2>2. PICK i \in DOMAIN made : Spoils(made[i].path.name)
    BY <1>6
  <2>3. made[i].path.name \in Awkward
    BY <2>2 DEF Spoils
  <2>4. Detected(h) \cap Awkward # {}
    BY <1>2, <2>3
  <2> QED BY <2>1, <2>4 DEF Standing, t
<1>7. CASE ~ \E i \in DOMAIN made : Spoils(made[i].path.name)
  <2>1. Parsed(t) = [global |-> Globals, machine |-> NoTables, roots |-> back, rules |-> t.rules]
    <3> HIDE DEF back
    <3>1. Parsed(t) = [t EXCEPT !.roots = back]
      BY <1>4, <1>7
    <3> QED BY <1>1, <3>1
  <2>2. \A i \in DOMAIN made : ReadBack(made[i].path.name) \in Words
    <3> TAKE i \in DOMAIN made
    <3>1. made[i].path.name \in Awkward => Misread[made[i].path.name] \in Words \cup {Garbage}
      BY SetupOK
    <3> QED BY <1>5, <1>7, <3>1 DEF ReadBack, Spoils
  <2>3. \A i \in DOMAIN made : back[i] \in RootText /\ back[i].max_depth = made[i].max_depth
    BY <1>5, <2>2 DEF RootText, PathText
  <2>4. back \in Seq(RootText) /\ DOMAIN back = DOMAIN made
    <3>1. made \in Seq(RootText) /\ DOMAIN made = 1 .. Len(made) /\ Len(made) \in Nat
      BY <1>2
    <3>2. back = [i \in 1 .. Len(made) |-> back[i]]
      BY <3>1
    <3>3. \A i \in 1 .. Len(made) : back[i] \in RootText
      BY <2>3, <3>1
    <3> HIDE DEF back
    <3>4. back \in Seq(RootText)
      BY <3>1, <3>2, <3>3
    <3>5. DOMAIN back = 1 .. Len(made)
      BY <3>2
    <3> QED BY <3>1, <3>4, <3>5
  <2>5. \A i \in DOMAIN back : \A u, v \in back[i].max_depth : u = v
    <3> HIDE DEF back
    <3> QED BY <1>2, <2>3, <2>4
  <2>6. Wrote(Parsed(t)) /\ Standing(Parsed(t))
    <3> HIDE DEF back
    <3>1. Parsed(t) \in Text /\ Singles(Parsed(t)) /\ Standing(Parsed(t))
      BY <1>3, <2>1, <2>4, <2>5, TablesMade, TextMade
    <3>2. Parsed(t).roots = back /\ Parsed(t).rules = t.rules
      BY <2>1
    <3> QED BY <2>1, <3>1, <3>2 DEF Wrote
  <2>7. ASSUME Detected(h) \cap Awkward = {}
        PROVE  Parsed(t) = t
    <3>1. \A i \in DOMAIN made : ReadBack(made[i].path.name) = made[i].path.name
      BY <1>2, <2>7 DEF ReadBack
    <3>2. \A i \in DOMAIN made : back[i] = made[i]
      BY <1>5, <3>1 DEF RootText, PathText
    <3>3. made = [i \in DOMAIN made |-> made[i]]
      BY <1>2
    <3>4. back = made
      BY <3>2, <3>3
    <3> HIDE DEF back
    <3> QED BY <1>1, <2>1, <3>4
  <2> QED BY <2>6, <2>7 DEF t
<1> QED BY <1>6, <1>7

\* Of what init writes, the beginning stands where a file stands, and it parses or is garbage.
LEMMA BeginningsStand ==
    ASSUME NEW t, t = Garbage \/ Wrote(t), NEW b \in Beginnings(t)
    PROVE  Standing(b) /\ IsFile(b)
<1> DEFINE cut(n) == [i \in 1 .. n |-> IF i < n THEN t.rules[i]
                                       ELSE [t.rules[i] EXCEPT !.sibling = {}, !.ancestor = {},
                                                               !.min_idle = {}, !.os = {}]]
<1>4. ASSUME Standing(b), b \in Text \/ b = Garbage
      PROVE  IsFile(b)
    BY <1>4, MarksAreNoTexts DEF IsFile
<1>5. CASE b = Garbage
  BY <1>4, <1>5 DEF Standing
<1>6. CASE b = Nothing
  BY <1>4, <1>6, EmptySeqs, TablesMade, TextMade DEF Nothing
<1>0. SUFFICES ASSUME b # Garbage, b # Nothing PROVE Standing(b) /\ IsFile(b)
  BY <1>5, <1>6
<1>1. Wrote(t)
  BY <1>0 DEF Beginnings
<1>11. /\ t = [global |-> Globals, machine |-> NoTables, roots |-> t.roots, rules |-> t.rules]
      /\ t \in Text /\ Singles(t) /\ t # Garbage
  BY <1>1, MarksAreNoTexts DEF Wrote
<1>2. \/ b = [t EXCEPT !.rules = <<>>]
      \/ \E n \in Cuts \cap DOMAIN t.rules : b = [t EXCEPT !.rules = cut(n)]
  BY <1>0, <1>11 DEF Beginnings
<1>3. /\ t.roots \in Seq(RootText) /\ t.rules \in Seq(RuleText)
      /\ \A i \in DOMAIN t.roots : \A u, v \in t.roots[i].max_depth : u = v
      /\ \A i \in DOMAIN t.rules : SingleRule(t.rules[i])
  <2>1. t.roots \in Seq(RootText) /\ t.rules \in Seq(RuleText)
    BY <1>11, TextIs
  <2> QED BY <1>11, <2>1 DEF Singles, SingleRule
<1>7. CASE b = [t EXCEPT !.rules = <<>>]
  <2>1. b = [global |-> Globals, machine |-> NoTables, roots |-> t.roots, rules |-> <<>>]
    BY <1>11, <1>7
  <2> QED BY <1>3, <1>4, <2>1, EmptySeqs, TablesMade, TextMade
<1>8. ASSUME NEW n \in Cuts \cap DOMAIN t.rules, b = [t EXCEPT !.rules = cut(n)]
      PROVE  Standing(b) /\ IsFile(b)
  <2>1. b = [global |-> Globals, machine |-> NoTables, roots |-> t.roots, rules |-> cut(n)]
    <3> HIDE DEF cut
    <3> QED BY <1>11, <1>8
  <2>2. n \in Nat /\ \A i \in 1 .. n : i \in DOMAIN t.rules
    BY <1>3
  <2>3. \A i \in 1 .. n : cut(n)[i] \in RuleText /\ SingleRule(cut(n)[i])
    <3> TAKE i \in 1 .. n
    <3>1. t.rules[i] \in RuleText /\ SingleRule(t.rules[i])
      BY <1>3, <2>2
    <3>2. CASE i < n
      BY <3>1, <3>2
    <3>3. CASE ~ (i < n)
      BY <3>1, <3>3, CutRule
    <3> QED BY <3>2, <3>3
  <2>4. cut(n) = [i \in 1 .. n |-> cut(n)[i]] /\ DOMAIN cut(n) = 1 .. n
    OBVIOUS
  <2> HIDE DEF cut
  <2>5. cut(n) \in Seq(RuleText)
    BY <2>2, <2>3, <2>4
  <2> QED BY <1>3, <1>4, <2>1, <2>3, <2>4, <2>5, TablesMade, TextMade
<1> QED BY <1>2, <1>7, <1>8

-----------------------------------------------------------------------------
(* What holds in every state. *)

Environments == [explicit : BOOLEAN, var : BOOLEAN, home : BOOLEAN, watched : SUBSET Locations]

\* The world does not change, and what stands at a location is one of the things that may.
\* Where init has written there is a file.
WorldInv ==
    /\ \E w \in Worlds : env = w.env /\ homes = w.homes
    /\ env \in Environments
    /\ file = [l \in Locations |-> file[l]]
    /\ \A l \in Locations : Standing(file[l])
    /\ ours \subseteq Locations /\ \A l \in ours : IsFile(file[l])

Rendered ==
    \E h \in homes : \E stacks :
        /\ "generic" \in stacks
        /\ setup.text = Parsed(Render(h, stacks)) /\ setup.roots = Detected(h)

SetupInv ==
    /\ setup = [pc |-> setup.pc, force |-> setup.force, text |-> setup.text, roots |-> setup.roots]
    /\ setup.pc \in {"idle", "check", "truncate", "write", "rest", "done", "failed"}
    /\ setup.pc \in {"check", "truncate", "write", "rest", "done"} => env.home /\ Rendered

Inv == WorldInv /\ SetupInv

LEMMA Joined ==
    ASSUME NEW S, NEW s \in Seq(S), NEW t \in Seq(S)
    PROVE  /\ s \o t \in Seq(S) /\ Len(s \o t) = Len(s) + Len(t)
           /\ \A i \in 1 .. Len(s) + Len(t) :
                 (s \o t)[i] = IF i <= Len(s) THEN s[i] ELSE t[i - Len(s)]
           /\ s \o <<>> = s /\ <<>> \o s = s
OBVIOUS

LEMMA JoinedLocations ==
    ASSUME NEW a \in Locations, NEW b \in Locations, NEW c \in Locations
    PROVE  /\ <<a>> \o <<b>> \o <<c>> = <<a, b, c>>
           /\ <<a>> \o <<>> \o <<c>> = <<a, c>>
           /\ <<>> \o <<b>> \o <<c>> = <<b, c>>
<1>1. \A x \in Locations : <<x>> \in Seq(Locations) /\ Len(<<x>>) = 1 /\ <<x>>[1] = x
  OBVIOUS
<1>2. \A x, y \in Locations : <<x>> \o <<y>> = <<x, y>>
  <2> TAKE x, y \in Locations
  <2> DEFINE s == <<x>> \o <<y>>
  <2>1. s \in Seq(Locations) /\ Len(s) = 2 /\ s[1] = x /\ s[2] = y
    BY <1>1, Joined
  <2> HIDE DEF s
  <2>2. s = <<s[1], s[2]>>
    BY <2>1
  <2> QED BY <2>1, <2>2 DEF s
<1>3. <<a, b>> \o <<c>> = <<a, b, c>>
  <2> DEFINE s == <<a, b>> \o <<c>>
  <2>1. <<a, b>> \in Seq(Locations) /\ Len(<<a, b>>) = 2
    OBVIOUS
  <2>2. s \in Seq(Locations) /\ Len(s) = 3 /\ s[1] = a /\ s[2] = b /\ s[3] = c
    BY <1>1, <2>1, Joined
  <2> HIDE DEF s
  <2>3. s = <<s[1], s[2], s[3]>>
    BY <2>2
  <2> QED BY <2>2, <2>3 DEF s
<1>4. <<a>> \o <<>> = <<a>> /\ <<>> \o <<b>> = <<b>>
  BY <1>1, Joined
<1> QED BY <1>2, <1>3, <1>4

LEMMA SearchPathIs ==
    ASSUME env \in Environments
    PROVE  /\ Len(SearchPath) \in Nat /\ SearchPath \in Seq(Locations)
           /\ Target \in Locations
           /\ \A k \in 1 .. Len(SearchPath) : SearchPath[k] \in Allowed
           /\ \A l \in Allowed : \E k \in 1 .. Len(SearchPath) : SearchPath[k] = l
           /\ Allowed \subseteq Locations
           /\ \A k \in 1 .. Len(SearchPath) : \A l \in Ahead(SearchPath[k]) :
                 \E i \in 1 .. Len(SearchPath) : i < k /\ SearchPath[i] = l
<1>1. env.explicit \in BOOLEAN /\ env.var \in BOOLEAN /\ env.home \in BOOLEAN
  BY DEF Environments
<1>2. CASE env.explicit
  <2>1. SearchPath = <<"explicit">> /\ Allowed = {"explicit"}
    BY <1>2 DEF SearchPath, Allowed
  <2> QED BY <2>1 DEF Target, Ahead, Locations
<1>3. CASE ~ env.explicit /\ env.var /\ env.home
  <2>1. SearchPath = <<"var", "home", "etc">>
    <3>1. <<"var">> \o <<"home">> \o <<"etc">> = <<"var", "home", "etc">>
      BY JoinedLocations DEF Locations
    <3> QED BY <1>3, <3>1 DEF SearchPath, If
  <2>2. Allowed = {"var", "home", "etc"}
    <3>1. {l \in {"var", "home"} : env[l]} = {"var", "home"}
      BY <1>3
    <3> QED BY <1>3, <3>1 DEF Allowed
  <2> QED BY <2>1, <2>2 DEF Target, Ahead, Locations
<1>4. CASE ~ env.explicit /\ env.var /\ ~ env.home
  <2>1. SearchPath = <<"var", "etc">>
    <3>1. <<"var">> \o <<>> \o <<"etc">> = <<"var", "etc">>
      BY JoinedLocations DEF Locations
    <3> QED BY <1>4, <3>1 DEF SearchPath, If
  <2>2. Allowed = {"var", "etc"}
    <3>1. {l \in {"var", "home"} : env[l]} = {"var"}
      BY <1>4
    <3> QED BY <1>4, <3>1 DEF Allowed
  <2> QED BY <2>1, <2>2 DEF Target, Ahead, Locations
<1>5. CASE ~ env.explicit /\ ~ env.var /\ env.home
  <2>1. SearchPath = <<"home", "etc">>
    <3>1. <<>> \o <<"home">> \o <<"etc">> = <<"home", "etc">>
      BY JoinedLocations DEF Locations
    <3> QED BY <1>5, <3>1 DEF SearchPath, If
  <2>2. Allowed = {"home", "etc"}
    <3>1. {l \in {"var", "home"} : env[l]} = {"home"}
      BY <1>5
    <3> QED BY <1>5, <3>1 DEF Allowed
  <2> QED BY <2>1, <2>2 DEF Target, Ahead, Locations
<1>6. CASE ~ env.explicit /\ ~ env.var /\ ~ env.home
  <2>1. SearchPath = <<"etc">> /\ Allowed = {"etc"}
    BY <1>6 DEF SearchPath, Allowed, If
  <2> QED BY <2>1 DEF Target, Ahead, Locations
<1> QED BY <1>1, <1>2, <1>3, <1>4, <1>5, <1>6

allvars == <<vars, setupVars>>

LEMMA WorldStays ==
    ASSUME [SetupNext]_allvars
    PROVE  env' = env /\ homes' = homes
<1>1. CASE Load /\ UNCHANGED setupVars
  BY <1>1 DEF Load, Begin, Probe, NotFound, Read, setupVars
<1>2. ASSUME NEW l \in Locations, EditDuring(l)
      PROVE  env' = env /\ homes' = homes
  BY <1>2 DEF EditDuring, Edit
<1>3. CASE InitRender \/ InitCheck \/ InitTruncate \/ InitWritePart \/ InitWriteRest \/ InitFails
  BY <1>3 DEF InitRender, InitCheck, InitTruncate, InitWritePart, InitWriteRest, InitFails, LoadSame
<1>4. CASE UNCHANGED allvars
  BY <1>4 DEF allvars, vars, setupVars
<1> QED BY <1>1, <1>2, <1>3, <1>4 DEF SetupNext

LEMMA DetectsGeneric ==
    ASSUME NEW h, NEW stacks \in {Detect(h), Stacks}
    PROVE  "generic" \in stacks
<1>1. "generic" \in Detect(h)
  BY DEF Detect
<1>2. "generic" \in Stacks
  <2>1. DOMAIN Catalog = 1 .. 17 /\ Catalog[1].stack = "generic"
    BY CatalogShaped
  <2> QED BY <2>1 DEF Stacks
<1> QED BY <1>1, <1>2

\* What init may put where it has written.
LEMMA WritesStand ==
    ASSUME WorldInv, Rendered
    PROVE  /\ Standing(setup.text) /\ IsFile(setup.text)
           /\ \A b \in Beginnings(setup.text) : Standing(b) /\ IsFile(b)
<1>1. PICK w \in Worlds : homes = w.homes
  BY DEF WorldInv
<1>2. PICK h \in w.homes : \E stacks : setup.text = Parsed(Render(h, stacks))
  BY <1>1 DEF Rendered
<1>3. PICK stacks : setup.text = Parsed(Render(h, stacks))
  BY <1>2
<1>4. Standing(setup.text) /\ (setup.text = Garbage \/ Wrote(setup.text))
  BY <1>3, ParsedIs
<1>5. IsFile(setup.text)
  BY <1>4, MarksAreNoTexts DEF IsFile, Wrote
<1>6. \A b \in Beginnings(setup.text) : Standing(b) /\ IsFile(b)
  BY <1>4, BeginningsStand
<1> QED BY <1>4, <1>5, <1>6

LEMMA NothingStands == Standing(Nothing) /\ IsFile(Nothing)
<1>1. Standing(Nothing) /\ Nothing \in Text
  BY EmptySeqs, TablesMade, TextMade DEF Nothing
<1> QED BY <1>1, MarksAreNoTexts DEF IsFile

FilesTyped == file = [l \in Locations |-> file[l]] /\ \A l \in Locations : Standing(file[l])

\* A file that is replaced by a file.
LEMMA FileReplaced ==
    ASSUME FilesTyped, NEW l \in Locations, NEW text, Standing(text),
           file' = [file EXCEPT ![l] = text]
    PROVE  FilesTyped' /\ file'[l] = text /\ \A k \in Locations \ {l} : file'[k] = file[k]
<1>1. /\ file' = [k \in Locations |-> IF k = l THEN text ELSE file[k]]
  BY DEF FilesTyped
<1> QED BY <1>1 DEF FilesTyped

LEMMA PutKeeps ==
    ASSUME WorldInv, NEW text, Standing(text), IsFile(text), Put(text)
    PROVE  FilesTyped' /\ \A l \in Locations : IsFile(file'[l]) = IsFile(file[l])
<1>1. CASE Target \in ours
  <2>1. Target \in Locations /\ IsFile(file[Target])
    BY <1>1 DEF WorldInv
  <2>2. file' = [file EXCEPT ![Target] = text]
    BY <1>1 DEF Put
  <2>3. FilesTyped' /\ file'[Target] = text /\ \A k \in Locations \ {Target} : file'[k] = file[k]
    BY <2>1, <2>2, FileReplaced DEF WorldInv, FilesTyped
  <2>4. IsFile(file'[Target]) = TRUE /\ IsFile(file[Target]) = TRUE
    BY <2>1, <2>3 DEF IsFile
  <2> QED BY <2>3, <2>4
<1>2. CASE Target \notin ours
  BY <1>2 DEF Put, WorldInv, FilesTyped
<1> QED BY <1>1, <1>2

\* How the files change in a step: a load leaves them alone; an edit touches one that is
\* watched; init empties its target, where there is something or nothing, but no folder;
\* and otherwise what is a file stays one.
LEMMA FilesChange ==
    ASSUME Inv, [SetupNext]_allvars
    PROVE  /\ FilesTyped'
           /\ \/ file' = file /\ ours' = ours
              \/ \E l \in Locations : /\ EditDuring(l)
                                      /\ \A k \in Locations \ {l} : file'[k] = file[k]
              \/ /\ InitTruncate /\ file[Target] # Folder
                 /\ IsFile(file'[Target]) /\ ours' = ours \cup {Target}
                 /\ \A k \in Locations \ {Target} : file'[k] = file[k]
              \/ /\ InitWritePart \/ InitWriteRest
                 /\ ours' = ours
                 /\ \A l \in Locations : IsFile(file'[l]) = IsFile(file[l])
<1>0. FilesTyped /\ Target \in Locations
  BY SearchPathIs DEF Inv, WorldInv, FilesTyped
<1>1. CASE (Load /\ UNCHANGED setupVars) \/ UNCHANGED allvars \/ InitRender \/ InitCheck \/ InitFails
  <2>1. file' = file /\ ours' = ours
    BY <1>1 DEF Load, Begin, Probe, NotFound, Read, setupVars, allvars, vars, InitRender,
                InitCheck, InitFails
  <2> QED BY <1>0, <2>1 DEF FilesTyped
<1>2. ASSUME NEW l \in Locations, EditDuring(l)
      PROVE  FilesTyped' /\ \A k \in Locations \ {l} : file'[k] = file[k]
  <2>1. PICK content \in Edits[l] : file' = [file EXCEPT ![l] = content]
    BY <1>2 DEF EditDuring, Edit
  <2>2. Standing(content)
    BY <1>2, <2>1, ConfigurationOK
  <2> QED BY <1>0, <2>1, <2>2, FileReplaced
<1>3. CASE InitTruncate
  <2>1. CASE file[Target] \in {Folder, Locked}
    <3>1. file' = file /\ ours' = ours
      BY <1>3, <2>1 DEF InitTruncate
    <3> QED BY <1>0, <3>1 DEF FilesTyped
  <2>2. CASE file[Target] \notin {Folder, Locked}
    <3>1. file' = [file EXCEPT ![Target] = Nothing] /\ ours' = ours \cup {Target}
      BY <1>3, <2>2 DEF InitTruncate
    <3>2. FilesTyped' /\ file'[Target] = Nothing /\ \A k \in Locations \ {Target} : file'[k] = file[k]
      BY <1>0, <3>1, NothingStands, FileReplaced
    <3>3. IsFile(file'[Target])
      BY <3>2, NothingStands DEF IsFile
    <3> QED BY <1>3, <2>2, <3>1, <3>2, <3>3
  <2> QED BY <2>1, <2>2
<1>4. CASE InitWritePart
  <2>1. Rendered /\ ours' = ours
    BY <1>4 DEF InitWritePart, Inv, SetupInv
  <2>2. PICK b \in Beginnings(setup.text) : Put(b)
    BY <1>4 DEF InitWritePart
  <2> QED BY <1>4, <2>1, <2>2, WritesStand, PutKeeps DEF Inv
<1>5. CASE InitWriteRest
  <2>1. Rendered /\ ours' = ours /\ Put(setup.text)
    BY <1>5 DEF InitWriteRest, Inv, SetupInv
  <2> QED BY <1>5, <2>1, WritesStand, PutKeeps DEF Inv
<1> QED BY <1>1, <1>2, <1>3, <1>4, <1>5 DEF SetupNext

LEMMA SetupChanges ==
    ASSUME SetupInv, env.home \in BOOLEAN, [SetupNext]_allvars
    PROVE  SetupInv'
<1>0. env' = env /\ homes' = homes
  BY WorldStays
<1>1. CASE (Load /\ UNCHANGED setupVars) \/ UNCHANGED allvars
  <2>1. setup' = setup
    BY <1>1 DEF setupVars, allvars
  <2> QED BY <1>0, <2>1 DEF SetupInv, Rendered
<1>2. ASSUME NEW l \in Locations, EditDuring(l)
      PROVE  SetupInv'
  <2>1. setup' = setup
    BY <1>2 DEF EditDuring
  <2> QED BY <1>0, <2>1 DEF SetupInv, Rendered
<1>3. CASE InitRender
  <2>1. PICK h \in homes, force \in BOOLEAN : \E stacks \in {Detect(h), Stacks} :
           setup' = [pc |-> "check", force |-> force, text |-> Parsed(Render(h, stacks)),
                     roots |-> Detected(h)]
    BY <1>3 DEF InitRender, Detected
  <2>2. PICK stacks \in {Detect(h), Stacks} :
           setup' = [pc |-> "check", force |-> force, text |-> Parsed(Render(h, stacks)),
                     roots |-> Detected(h)]
    BY <2>1
  <2>3. env.home /\ "generic" \in stacks
    BY <1>3, DetectsGeneric DEF InitRender
  <2>4. /\ setup'.text = Parsed(Render(h, stacks)) /\ setup'.roots = Detected(h)
        /\ setup'.pc = "check"
        /\ setup' = [pc |-> setup'.pc, force |-> setup'.force, text |-> setup'.text, roots |-> setup'.roots]
    BY <2>2
  <2>5. Rendered' /\ env'.home
    BY <1>0, <2>3, <2>4 DEF Rendered
  <2> QED BY <2>4, <2>5 DEF SetupInv
<1>4. ASSUME NEW to, setup' = [setup EXCEPT !.pc = to],
             to \in {"truncate", "write", "rest", "done", "failed"},
             setup.pc \in {"check", "truncate", "write", "rest"}
      PROVE  SetupInv'
  <2>1. setup' = [pc |-> to, force |-> setup.force, text |-> setup.text, roots |-> setup.roots]
    BY <1>4 DEF SetupInv
  <2>2. env'.home /\ Rendered'
    BY <1>0, <1>4, <2>1 DEF SetupInv, Rendered
  <2>3. /\ setup' = [pc |-> setup'.pc, force |-> setup'.force, text |-> setup'.text, roots |-> setup'.roots]
        /\ setup'.pc = to
    BY <2>1
  <2> QED BY <1>4, <2>2, <2>3 DEF SetupInv
<1>5. CASE InitCheck
  BY <1>4, <1>5 DEF InitCheck
<1>6. CASE InitTruncate
  BY <1>4, <1>6 DEF InitTruncate
<1>7. CASE InitWritePart
  BY <1>4, <1>7 DEF InitWritePart
<1>8. CASE InitWriteRest
  BY <1>4, <1>8 DEF InitWriteRest
<1>9. CASE InitFails
  BY <1>4, <1>9 DEF InitFails
<1> QED BY <1>1, <1>2, <1>3, <1>5, <1>6, <1>7, <1>8, <1>9 DEF SetupNext

LEMMA WorldChanges ==
    ASSUME Inv, [SetupNext]_allvars
    PROVE  WorldInv'
<1>0. env' = env /\ homes' = homes /\ Target \in Locations
  BY WorldStays, SearchPathIs DEF Inv, WorldInv
<1>1. (\E w \in Worlds : env' = w.env /\ homes' = w.homes) /\ env' \in Environments
  BY <1>0 DEF Inv, WorldInv
<1>2. FilesTyped'
  BY FilesChange
<1>3. ours \subseteq Locations /\ \A l \in ours : IsFile(file[l])
  BY DEF Inv, WorldInv
<1>4. ours' \subseteq Locations /\ \A l \in ours' : IsFile(file'[l])
  <2>1. CASE file' = file /\ ours' = ours
    BY <1>3, <2>1
  <2>2. ASSUME NEW l \in Locations, EditDuring(l), \A k \in Locations \ {l} : file'[k] = file[k]
        PROVE  ours' \subseteq Locations /\ \A k \in ours' : IsFile(file'[k])
    <3>1. ours' = ours \ {l}
      BY <2>2 DEF EditDuring
    <3> QED BY <1>3, <2>2, <3>1
  <2>3. CASE /\ IsFile(file'[Target]) /\ ours' = ours \cup {Target}
             /\ \A k \in Locations \ {Target} : file'[k] = file[k]
    BY <1>0, <1>3, <2>3
  <2>4. CASE ours' = ours /\ \A l \in Locations : IsFile(file'[l]) = IsFile(file[l])
    BY <1>3, <2>4
  <2> QED BY FilesChange, <2>1, <2>2, <2>3, <2>4
<1> QED BY <1>1, <1>2, <1>4 DEF WorldInv, FilesTyped, IsFile

LEMMA Initially ==
    ASSUME SetupInit
    PROVE  Inv
<1>1. PICK w \in Worlds : env = w.env /\ file = w.file /\ homes = w.homes
  BY DEF SetupInit
<1>2. /\ w.env \in Environments /\ w.file = [l \in Locations |-> w.file[l]]
      /\ \A l \in Locations : Standing(w.file[l])
  BY ConfigurationOK DEF Environments
<1>3. setup = Idle /\ ours = {}
  BY DEF SetupInit
<1>4. WorldInv
  BY <1>1, <1>2, <1>3 DEF WorldInv
<1>5. SetupInv
  BY <1>3 DEF SetupInv, Idle
<1> QED BY <1>4, <1>5 DEF Inv

\* What stands at a location is nothing, a folder, something nobody may read, garbage, or
\* a text that parses; where init has written a file stands; and what it is about to
\* write is a text it has rendered (config.rs, load; init.rs, run).
THEOREM FilesStand == SetupSpec => []Inv
<1>1. Inv /\ [SetupNext]_allvars => Inv'
  BY SetupChanges, WorldChanges DEF Inv, WorldInv, Environments
<1> QED BY Initially, <1>1, PTL DEF SetupSpec, allvars

-----------------------------------------------------------------------------
(* The search. *)

\* While a load is under way all that stands and all that is missing is noted.  At the
\* locations that have been passed there has been no file at some moment, and there has
\* been one where the load reads, or has read.
Watched ==
    pc \in {"probe", "read"} =>
        \A l \in Locations : IF IsFile(file[l]) THEN l \in held ELSE l \in lacked

Passed == pc # "idle" => \A k \in 1 .. Len(SearchPath) : k < at => SearchPath[k] \in lacked

Found == pc \in {"read", "done"} /\ at \in 1 .. Len(SearchPath) => SearchPath[at] \in held

Returned ==
    pc = "done" =>
        \/ /\ at > Len(SearchPath)
           /\ IF env.explicit THEN outcome.is = "unreadable" /\ outcome.from = "explicit"
              ELSE outcome.is = "not found"
        \/ /\ at \in 1 .. Len(SearchPath)
           /\ outcome.is \in {"unreadable", "unparsable", "invalid", "config"}
           /\ outcome.from = SearchPath[at]

SearchInv ==
    /\ pc \in {"idle", "probe", "read", "done"} /\ at \in Nat \ {0}
    /\ held \subseteq Locations /\ lacked \subseteq Locations
    /\ (outcome.is = "none") = (pc # "done")
    /\ pc = "read" => at \in 1 .. Len(SearchPath)
    /\ Watched /\ Passed /\ Found /\ Returned

LEMMA OutcomeIs ==
    ASSUME NEW content
    PROVE  /\ Outcome(content).is \in {"unreadable", "unparsable", "invalid", "config"}
           /\ Outcome(content).from = SearchPath[at]
           /\ Outcome(content).is = "config" =>
                 Outcome(content).raw = content
                 /\ Outcome(content).config = Config(content) /\ Accepts(content)
           /\ Outcome(content).is = "invalid" => Outcome(content).raw = content /\ ~ Accepts(content)
           /\ Outcome(content).is \in {"config", "invalid"} =>
                 content \notin {Absent, Folder, Locked, Garbage}
<1>1. CASE content \in {Absent, Folder, Locked}
  BY <1>1 DEF Outcome, Error
<1>2. CASE content = Garbage
  BY <1>2, MarksAreNoTexts, ConfigurationOK DEF Outcome, Error
<1>3. CASE content \notin {Absent, Folder, Locked, Garbage} /\ Accepts(content)
  BY <1>3 DEF Outcome, Loaded
<1>4. CASE content \notin {Absent, Folder, Locked, Garbage} /\ ~ Accepts(content)
  BY <1>4 DEF Outcome
<1> QED BY <1>1, <1>2, <1>3, <1>4

\* What others do while a load is under way is noted, and nothing is forgotten.
LEMMA WatchNotes ==
    ASSUME held \subseteq Locations, lacked \subseteq Locations, pc' = pc, Watch
    PROVE  /\ held' \subseteq Locations /\ lacked' \subseteq Locations
           /\ held \subseteq held' /\ lacked \subseteq lacked' /\ Watched'
<1>1. CASE pc \in {"probe", "read"}
  <2>1. held' = held \cup WithFile(file') /\ lacked' = lacked \cup (Locations \ WithFile(file'))
    BY <1>1 DEF Watch
  <2>2. WithFile(file') \subseteq Locations
    BY DEF WithFile
  <2>3. \A l \in Locations : IF IsFile(file[l])' THEN l \in held' ELSE l \in lacked'
    BY <2>1 DEF WithFile, IsFile
  <2>4. Watched'
    BY <2>3 DEF Watched
  <2> QED BY <2>1, <2>2, <2>4
<1>2. CASE pc \notin {"probe", "read"}
  <2>1. held' = held /\ lacked' = lacked
    BY <1>2 DEF Watch
  <2>2. Watched'
    BY <1>2 DEF Watched
  <2> QED BY <2>1, <2>2
<1> QED BY <1>1, <1>2

LEMMA Noted ==
    ASSUME Inv, SearchInv,
           \/ \E l \in Locations : EditDuring(l)
           \/ InitRender \/ InitCheck \/ InitTruncate \/ InitWritePart \/ InitWriteRest \/ InitFails
           \/ UNCHANGED allvars
    PROVE  /\ pc' = pc /\ at' = at /\ outcome' = outcome /\ env' = env
           /\ held' \subseteq Locations /\ lacked' \subseteq Locations
           /\ held \subseteq held' /\ lacked \subseteq lacked' /\ Watched'
<1>0. held \subseteq Locations /\ lacked \subseteq Locations
  BY DEF SearchInv
<1>1. ASSUME NEW l \in Locations, EditDuring(l)
      PROVE  UNCHANGED <<pc, at, outcome, env>> /\ Watch
  BY <1>1 DEF EditDuring, Edit
<1>2. ASSUME InitTruncate, file[Target] \notin {Folder, Locked}
      PROVE  UNCHANGED <<pc, at, outcome, env>> /\ Watch
  BY <1>2 DEF InitTruncate, LoadSame
<1>3. ASSUME UNCHANGED <<pc, at, outcome, env, held, lacked>>,
             \A l \in Locations : IsFile(file'[l]) = IsFile(file[l])
      PROVE  /\ held' \subseteq Locations /\ lacked' \subseteq Locations
             /\ held \subseteq held' /\ lacked \subseteq lacked' /\ Watched'
  <2>1. \A l \in Locations : IsFile(file[l])' = IsFile(file[l])
    BY <1>3 DEF IsFile
  <2> QED BY <1>0, <1>3, <2>1 DEF SearchInv, Watched
<1>4. CASE InitTruncate /\ file[Target] \in {Folder, Locked}
  <2>1. UNCHANGED <<pc, at, outcome, env, held, lacked, file>>
    BY <1>4 DEF InitTruncate, LoadSame
  <2> QED BY <1>3, <2>1
<1>5. CASE InitWritePart \/ InitWriteRest
  <2>1. UNCHANGED <<pc, at, outcome, env, held, lacked>> /\ Rendered
    BY <1>5 DEF InitWritePart, InitWriteRest, LoadSame, Inv, SetupInv
  <2>2. \E text : Standing(text) /\ IsFile(text) /\ Put(text)
    BY <1>5, <2>1, WritesStand DEF InitWritePart, InitWriteRest, Inv
  <2>3. \A l \in Locations : IsFile(file'[l]) = IsFile(file[l])
    BY <2>2, PutKeeps DEF Inv
  <2> QED BY <1>3, <2>1, <2>3
<1>6. CASE InitRender \/ InitCheck \/ InitFails \/ UNCHANGED allvars
  <2>1. UNCHANGED <<pc, at, outcome, env, held, lacked, file>>
    BY <1>6 DEF InitRender, InitCheck, InitFails, LoadSame, allvars, vars
  <2> QED BY <1>3, <2>1
<1>7. ASSUME pc' = pc, Watch
      PROVE  /\ held' \subseteq Locations /\ lacked' \subseteq Locations
             /\ held \subseteq held' /\ lacked \subseteq lacked' /\ Watched'
  BY <1>0, <1>7, WatchNotes
<1>8. CASE (\E l \in Locations : EditDuring(l)) \/ (InitTruncate /\ file[Target] \notin {Folder, Locked})
  BY <1>1, <1>2, <1>7, <1>8
<1> QED BY <1>4, <1>5, <1>6, <1>8

LEMMA SearchUndisturbed ==
    ASSUME SearchInv, pc' = pc, at' = at, outcome' = outcome, env' = env,
           held' \subseteq Locations, lacked' \subseteq Locations,
           held \subseteq held', lacked \subseteq lacked', Watched'
    PROVE  SearchInv'
<1>1. SearchPath' = SearchPath
  BY DEF SearchPath
<1>2. Passed' /\ Found' /\ Returned'
  BY <1>1 DEF SearchInv, Passed, Found, Returned
<1> QED BY <1>1, <1>2 DEF SearchInv

LEMMA Beyond ==
    \A m, n \in Nat : m > n => m \notin 1 .. n /\ \A k \in 1 .. n : k < m
OBVIOUS

LEMMA LoadSearches ==
    ASSUME Inv, SearchInv, Load
    PROVE  SearchInv'
<1>0. env \in Environments
  BY DEF Inv, WorldInv
<1>1. file' = file /\ env' = env /\ SearchPath' = SearchPath
  BY DEF Load, Begin, Probe, NotFound, Read, SearchPath
<1>2. /\ Len(SearchPath) \in Nat /\ Len(SearchPath) # 0
      /\ \A k \in 1 .. Len(SearchPath) : SearchPath[k] \in Locations
  <2>1. Len(SearchPath) \in Nat /\ \A k \in 1 .. Len(SearchPath) : SearchPath[k] \in Locations
    BY <1>0, SearchPathIs
  <2> QED BY <1>0, <2>1, SearchPathIs DEF SearchPath, Allowed
<1>3. /\ at \in Nat /\ at # 0 /\ (outcome.is = "none") = (pc # "done")
      /\ held \subseteq Locations /\ lacked \subseteq Locations
  BY DEF SearchInv
<1>4. CASE Begin
  <2>1. /\ pc' = "probe" /\ at' = 1 /\ outcome' = NoOutcome
        /\ held' = WithFile(file) /\ lacked' = Locations \ WithFile(file)
    BY <1>4 DEF Begin
  <2>2. outcome'.is = "none"
    BY <2>1 DEF NoOutcome
  <2>3. Found' /\ Returned'
    BY <2>1 DEF Found, Returned
  <2>4. Passed'
    <3>1. \A k \in 1 .. Len(SearchPath) : ~ (k < 1)
      BY <1>2
    <3> QED BY <1>1, <2>1, <3>1 DEF Passed
  <2>5. Watched'
    <3>1. \A l \in Locations : IF IsFile(file[l])' THEN l \in held' ELSE l \in lacked'
      BY <1>1, <2>1 DEF WithFile, IsFile
    <3> QED BY <3>1 DEF Watched
  <2>6. at' \in Nat \ {0} /\ held' \subseteq Locations /\ lacked' \subseteq Locations
    BY <2>1 DEF WithFile
  <2>7. pc' \in {"idle", "probe", "read", "done"} /\ (outcome'.is = "none") = (pc' # "done") /\ pc' # "read"
    BY <2>1, <2>2
  <2> QED BY <2>3, <2>4, <2>5, <2>6, <2>7 DEF SearchInv
<1>5. ASSUME pc' \in {"probe", "read", "done"}, pc \in {"probe", "read"}, held' = held, lacked' = lacked
      PROVE  Watched'
  <2>1. \A l \in Locations : IF IsFile(file[l]) THEN l \in held ELSE l \in lacked
    BY <1>5 DEF SearchInv, Watched
  <2>2. \A l \in Locations : IsFile(file[l])' = IsFile(file[l])
    BY <1>1 DEF IsFile
  <2> QED BY <1>5, <2>1, <2>2 DEF Watched
<1>6. CASE Probe
  <2>1. /\ pc = "probe" /\ at <= Len(SearchPath) /\ outcome' = outcome
        /\ held' = held /\ lacked' = lacked
    BY <1>6 DEF Probe
  <2>2. at \in 1 .. Len(SearchPath) /\ SearchPath[at] \in Locations
    BY <1>2, <1>3, <2>1
  <2>3. \A k \in 1 .. Len(SearchPath) : k < at => SearchPath[k] \in lacked
    BY <2>1 DEF SearchInv, Passed
  <2>4. IF IsFile(file[SearchPath[at]]) THEN SearchPath[at] \in held ELSE SearchPath[at] \in lacked
    BY <2>1, <2>2 DEF SearchInv, Watched
  <2>5. CASE IsFile(file[SearchPath[at]])
    <3>1. pc' = "read" /\ at' = at
      BY <1>6, <2>5 DEF Probe
    <3>2. Passed' /\ Returned'
      BY <1>1, <2>1, <2>3, <3>1 DEF Passed, Returned
    <3>3. Found'
      BY <1>1, <2>1, <2>4, <2>5, <3>1 DEF Found
    <3>4. Watched'
      BY <1>5, <2>1, <3>1
    <3> QED BY <1>1, <1>3, <2>1, <2>2, <3>1, <3>2, <3>3, <3>4 DEF SearchInv
  <2>6. CASE ~ IsFile(file[SearchPath[at]])
    <3>1. pc' = "probe" /\ at' = at + 1
      BY <1>6, <2>6 DEF Probe
    <3>2. \A k \in 1 .. Len(SearchPath) : k < at + 1 => k < at \/ k = at
      BY <1>2, <1>3
    <3>3. Passed'
      BY <1>1, <2>1, <2>3, <2>4, <2>6, <3>1, <3>2 DEF Passed
    <3>4. Found' /\ Returned'
      BY <3>1 DEF Found, Returned
    <3>5. at' \in Nat \ {0}
      BY <1>3, <3>1
    <3>6. Watched'
      BY <1>5, <2>1, <3>1
    <3> QED BY <1>1, <1>3, <2>1, <3>1, <3>3, <3>4, <3>5, <3>6 DEF SearchInv
  <2> QED BY <2>5, <2>6
<1>7. CASE NotFound
  <2>1. /\ pc = "probe" /\ pc' = "done" /\ at > Len(SearchPath) /\ at' = at
        /\ held' = held /\ lacked' = lacked
        /\ outcome' = IF env.explicit THEN Error("unreadable", "explicit") ELSE [is |-> "not found"]
    BY <1>7 DEF NotFound
  <2>2. IF env.explicit THEN outcome'.is = "unreadable" /\ outcome'.from = "explicit"
        ELSE outcome'.is = "not found"
    BY <2>1 DEF Error
  <2>3. outcome'.is # "none"
    BY <2>2
  <2>4. at \notin 1 .. Len(SearchPath)
    <3>1. at > Len(SearchPath) /\ at \in Nat /\ Len(SearchPath) \in Nat
      BY <1>2, <1>3, <2>1
    <3> QED BY <3>1, Beyond
  <2>5. Passed'
    BY <1>1, <2>1 DEF SearchInv, Passed
  <2>6. Found' /\ Watched'
    BY <1>1, <1>5, <2>1, <2>4 DEF Found
  <2>7. Returned'
    BY <1>1, <2>1, <2>2 DEF Returned
  <2> QED BY <1>3, <2>1, <2>3, <2>5, <2>6, <2>7 DEF SearchInv
<1>8. CASE Read
  <2>1. /\ pc = "read" /\ pc' = "done" /\ at' = at /\ held' = held /\ lacked' = lacked
        /\ outcome' = Outcome(file[SearchPath[at]]) /\ at \in 1 .. Len(SearchPath)
    BY <1>8 DEF Read, SearchInv
  <2>2. /\ outcome'.is \in {"unreadable", "unparsable", "invalid", "config"}
        /\ outcome'.from = SearchPath[at]
    BY <2>1, OutcomeIs
  <2>3. Passed' /\ Found'
    BY <1>1, <2>1 DEF SearchInv, Passed, Found
  <2>4. Returned'
    BY <1>1, <2>1, <2>2 DEF Returned
  <2>5. outcome'.is # "none"
    BY <2>2
  <2>6. Watched'
    BY <1>5, <2>1
  <2> QED BY <1>3, <2>1, <2>3, <2>4, <2>5, <2>6 DEF SearchInv
<1> QED BY <1>4, <1>6, <1>7, <1>8 DEF Load

LEMMA SearchStep ==
    ASSUME Inv, SearchInv, [SetupNext]_allvars
    PROVE  SearchInv'
<1>1. CASE Load /\ UNCHANGED setupVars
  BY <1>1, LoadSearches
<1>2. CASE ~ (Load /\ UNCHANGED setupVars)
  BY <1>2, Noted, SearchUndisturbed DEF SetupNext
<1> QED BY <1>1, <1>2

LEMMA SearchFinds ==
    ASSUME Inv, SearchInv
    PROVE  FirstFileWins
<1> SUFFICES ASSUME pc = "done" PROVE FirstFileWins
  BY DEF FirstFileWins
<1> DEFINE n == Len(SearchPath)
<1>1. /\ n \in Nat /\ \A k \in 1 .. n : SearchPath[k] \in Allowed
      /\ \A l \in Allowed : \E k \in 1 .. n : SearchPath[k] = l
      /\ \A k \in 1 .. n : \A l \in Ahead(SearchPath[k]) : \E i \in 1 .. n : i < k /\ SearchPath[i] = l
  BY SearchPathIs DEF Inv, WorldInv
<1> HIDE DEF n
<1>2. \A k \in 1 .. n : k < at => SearchPath[k] \in lacked
  BY DEF SearchInv, Passed, n
<1>3. CASE at \in 1 .. n
  <2>1. outcome.is # "not found" /\ outcome.from = SearchPath[at] /\ SearchPath[at] \in held
    <3>1. at \in Nat
      BY DEF SearchInv
    <3>2. ~ (at > n)
      BY <1>1, <1>3, <3>1
    <3> QED BY <1>3, <3>2 DEF SearchInv, Returned, Found, n
  <2>2. Ahead(SearchPath[at]) \subseteq lacked
    BY <1>1, <1>2, <1>3
  <2> QED BY <1>1, <1>3, <2>1, <2>2 DEF FirstFileWins
<1>4. CASE at \notin 1 .. n
  <2>1. /\ at > n /\ at \in Nat
        /\ IF env.explicit THEN outcome.is = "unreadable" /\ outcome.from = "explicit"
           ELSE outcome.is = "not found"
    BY <1>4 DEF SearchInv, Returned, n
  <2>2. Allowed \subseteq lacked
    <3>1. \A k \in 1 .. n : k < at
      BY <1>1, <2>1, Beyond
    <3> QED BY <1>1, <1>2, <3>1
  <2>3. CASE env.explicit
    <3>1. Allowed = {"explicit"} /\ Ahead("explicit") = {}
      BY <2>3 DEF Allowed, Ahead
    <3> QED BY <2>1, <2>2, <2>3, <3>1 DEF FirstFileWins
  <2>4. CASE ~ env.explicit
    BY <2>1, <2>2, <2>4 DEF FirstFileWins
  <2> QED BY <2>3, <2>4
<1> QED BY <1>3, <1>4

LEMMA TheSearch == SetupSpec => []SearchInv
<1>1. SetupInit => SearchInv
  <2> SUFFICES ASSUME SetupInit PROVE SearchInv
    OBVIOUS
  <2>1. pc = "idle" /\ at = 1 /\ outcome = NoOutcome /\ held = {} /\ lacked = {}
    BY DEF SetupInit, Start
  <2>2. outcome.is = "none"
    BY <2>1 DEF NoOutcome
  <2>3. Watched /\ Passed /\ Found /\ Returned
    BY <2>1 DEF Watched, Passed, Found, Returned
  <2>4. at \in Nat \ {0} /\ held \subseteq Locations /\ lacked \subseteq Locations
    BY <2>1
  <2>5. pc \in {"idle", "probe", "read", "done"} /\ (outcome.is = "none") = (pc # "done") /\ pc # "read"
    BY <2>1, <2>2
  <2> QED BY <2>3, <2>4, <2>5 DEF SearchInv
<1>2. Inv /\ SearchInv /\ [SetupNext]_allvars => SearchInv'
  BY SearchStep
<1> QED BY FilesStand, <1>1, <1>2, PTL DEF SetupSpec, allvars

\* While others write, remove and create files during the load, the first file wins: a
\* location is passed over only if at some moment of the load there was no file at it,
\* and what is returned is what was made of a file that stood there (config.rs,
\* search_path and load).
THEOREM TheFirstFileWins == SetupSpec => []FirstFileWins
BY FilesStand, TheSearch, SearchFinds, PTL

-----------------------------------------------------------------------------
(* What a load returns. *)

\* What is accepted is a text that is well formed here, and its roots and its rules are
\* all there; what is called invalid is a text that is not.
AllThere(raw) ==
    /\ outcome.config.roots = [i \in 1 .. Len(raw.roots) |-> Root(raw.roots[i])]
    /\ outcome.config.rules = [i \in 1 .. Len(raw.rules) |-> Rule(raw.rules[i])]

Honest ==
    \A raw : outcome.is \in {"config", "invalid"} /\ outcome.raw = raw =>
        /\ raw \in Text
        /\ WellFormed(raw) <=> Accepted
        /\ Accepted => AllThere(raw)

LEMMA SameDemands ==
    ASSUME env' = env
    PROVE  \A raw : WellFormed(raw)' <=> WellFormed(raw)
BY DEF WellFormed, PathGood, EntryGood, CommandGood, Set, Own, Named, Kind

LEMMA ConfigIs ==
    ASSUME NEW raw
    PROVE  Config(raw).roots = Roots(raw).out /\ Config(raw).rules = Rules(raw).out
           /\ Config(raw).settings.dry_run = Settings(raw).dry_run
BY DEF Config, Settings

LEMMA ReadHonestly ==
    ASSUME Inv, SearchInv, Read
    PROVE  Honest'
<1>1. env' = env /\ at \in 1 .. Len(SearchPath) /\ outcome' = Outcome(file[SearchPath[at]])
  BY DEF Read, SearchInv
<1>2. Standing(file[SearchPath[at]]) /\ env.home \in BOOLEAN
  BY <1>1, SearchPathIs DEF Inv, WorldInv, Environments
<1> DEFINE content == file[SearchPath[at]]
<1> HIDE DEF content
<1>3. outcome' = Outcome(content) /\ Standing(content)
  BY <1>1, <1>2 DEF content
<1>4. ASSUME NEW raw, outcome'.is \in {"config", "invalid"}, outcome'.raw = raw
      PROVE  /\ raw \in Text
             /\ WellFormed(raw) <=> outcome'.is = "config"
             /\ outcome'.is = "config" =>
                   /\ outcome'.config.roots = [i \in 1 .. Len(raw.roots) |-> Root(raw.roots[i])]
                   /\ outcome'.config.rules = [i \in 1 .. Len(raw.rules) |-> Rule(raw.rules[i])]
  <2>1. content \notin {Absent, Folder, Locked, Garbage} /\ raw = content
    BY <1>3, <1>4, OutcomeIs
  <2>2. raw \in Text /\ Singles(raw)
    BY <1>3, <2>1 DEF Standing
  <2>3. outcome'.is = "config" <=> Accepts(raw)
    BY <1>3, <1>4, <2>1, OutcomeIs
  <2>4. outcome'.is = "config" => outcome'.config = Config(raw)
    BY <1>3, <2>1, OutcomeIs
  <2> QED BY <1>2, <2>2, <2>3, <2>4, AcceptsIs, ConfigIs
<1> QED BY <1>1, <1>4, SameDemands DEF Honest, Accepted, AllThere

LEMMA HonestStep ==
    ASSUME Inv, SearchInv, Honest, [SetupNext]_allvars
    PROVE  Honest'
<1>1. env' = env
  BY WorldStays
<1>2. CASE Load /\ UNCHANGED setupVars /\ ~ Read
  <2>1. outcome' = outcome \/ outcome'.is \notin {"config", "invalid"}
    <3>1. CASE Begin
      BY <3>1 DEF Begin, NoOutcome
    <3>2. CASE Probe
      BY <3>2 DEF Probe
    <3>3. CASE NotFound
      <4>1. outcome' = IF env.explicit THEN Error("unreadable", "explicit") ELSE [is |-> "not found"]
        BY <3>3 DEF NotFound
      <4>2. outcome'.is = IF env.explicit THEN "unreadable" ELSE "not found"
        BY <4>1 DEF Error
      <4> QED BY <4>2
    <3> QED BY <1>2, <3>1, <3>2, <3>3 DEF Load
  <2> QED BY <1>1, <2>1, SameDemands DEF Honest, Accepted, AllThere
<1>3. CASE Read
  BY <1>3, ReadHonestly
<1>4. CASE ~ (Load /\ UNCHANGED setupVars)
  <2>1. outcome' = outcome
    BY <1>4, Noted DEF SetupNext
  <2> QED BY <1>1, <2>1, SameDemands DEF Honest, Accepted, AllThere
<1> QED BY <1>2, <1>3, <1>4

LEMMA HonestyShows ==
    ASSUME Honest
    PROVE  AcceptedIffWellFormed
<1>1. CASE Accepted
  <2>1. outcome.raw \in Text /\ WellFormed(outcome.raw) /\ AllThere(outcome.raw)
    BY <1>1 DEF Honest, Accepted
  <2> DEFINE raw == outcome.raw
             n == Len(raw.roots)
             m == Len(raw.rules)
  <2>2. raw.roots \in Seq(RootText) /\ raw.rules \in Seq(RuleText)
    BY <2>1 DEF Text
  <2>3. n \in Nat /\ m \in Nat /\ DOMAIN raw.rules = 1 .. m
    BY <2>2
  <2>4. /\ outcome.config.roots = [i \in 1 .. n |-> Root(raw.roots[i])]
        /\ outcome.config.rules = [i \in 1 .. m |-> Rule(raw.rules[i])]
    BY <2>1 DEF AllThere
  <2> HIDE DEF n, m
  <2>5. Len(outcome.config.roots) = n /\ Len(outcome.config.rules) = m
    BY <2>3, <2>4
  <2>6. \A r : Rule(r).name = r.name
    BY DEF Rule
  <2>7. \A i \in DOMAIN raw.rules : outcome.config.rules[i].name = raw.rules[i].name
    BY <2>3, <2>4, <2>6
  <2> QED BY <1>1, <2>1, <2>5, <2>7 DEF AcceptedIffWellFormed, Accepted, n, m
<1>2. CASE ~ Accepted
  BY <1>2 DEF Honest, AcceptedIffWellFormed, Accepted
<1> QED BY <1>1, <1>2

\* A text that is read is accepted exactly if it is well formed on this machine, and its
\* roots and rules are all there, whoever replaces it meanwhile (config.rs, resolve).
THEOREM WhatIsAcceptedIsWellFormed == SetupSpec => []AcceptedIffWellFormed
<1>1. SetupInit => Honest
  BY DEF SetupInit, Start, NoOutcome, Honest
<1>2. Inv /\ SearchInv /\ Honest /\ [SetupNext]_allvars => Honest'
  BY HonestStep
<1>3. SetupSpec => []Honest
  BY FilesStand, TheSearch, <1>1, <1>2, PTL DEF SetupSpec, allvars
<1> QED BY <1>3, HonestyShows, PTL

\* What a load has returned has the shape the other modules take for granted, and the
\* search has gone no further than one past the last location.
Shaped ==
    Accepted =>
        /\ outcome.config.settings.target \in outcome.config.settings.low .. 100
        /\ Absolute(outcome.config.settings.quarantine)
        /\ \A i \in DOMAIN outcome.config.roots :
              Absolute(outcome.config.roots[i].path) /\ outcome.config.roots[i].max_depth > 0
        /\ \A i \in DOMAIN outcome.config.rules : outcome.config.rules[i].tier \in 0 .. 2

Searching ==
    /\ at \in 1 .. Len(SearchPath) + 1
    /\ outcome.is \in {"none", "config", "unreadable", "unparsable", "invalid", "not found"}

LEMMA SettingsShaped ==
    ASSUME NEW raw \in Text, Singles(raw), SettingsOK(Settings(raw))
    PROVE  /\ Config(raw).settings.target \in Config(raw).settings.low .. 100
           /\ Absolute(Config(raw).settings.quarantine)
<1>1. /\ Settings(raw).low = Pick(raw, "low", 15)
      /\ Settings(raw).target = Pick(raw, "target", 25)
  BY DEF Settings
<1>2. Settings(raw).low \in Nat /\ Settings(raw).target \in Nat
  <2>1. {"low", "target"} \subseteq Keys
    BY DEF Keys
  <2>2. Pick(raw, "low", 15) \in Nat
    BY <2>1, PickIs, SetIs
  <2>3. Pick(raw, "target", 25) \in Nat
    BY <2>1, PickIs, SetIs
  <2> QED BY <1>1, <2>2, <2>3
<1>3. /\ Config(raw).settings.low = Settings(raw).low
      /\ Config(raw).settings.target = Settings(raw).target
      /\ Config(raw).settings.quarantine = Expanded(Settings(raw).quarantine)
  BY DEF Config, Settings
<1> QED BY <1>2, <1>3 DEF SettingsOK, Absolute

LEMMA RootsShaped ==
    ASSUME NEW raw \in Text, Singles(raw), RootsGood(raw), NEW i \in DOMAIN raw.roots
    PROVE  Absolute(Root(raw.roots[i]).path) /\ Root(raw.roots[i]).max_depth > 0
<1>1. raw.roots[i] \in RootText
  BY TextIs
<1>2. raw.roots[i].path \in PathText /\ raw.roots[i].max_depth \subseteq Nat
  BY <1>1 DEF RootText
<1>3. raw.roots[i].path.form # "relative" /\ raw.roots[i].max_depth # {0}
  BY DEF RootsGood
<1>4. \A u, v \in raw.roots[i].max_depth : u = v
  BY DEF Singles
<1>5. /\ Root(raw.roots[i]).path = Expanded(raw.roots[i].path)
      /\ Root(raw.roots[i]).max_depth = Given(raw.roots[i].max_depth, 8)
  BY DEF Root
<1>6. Root(raw.roots[i]).max_depth \in Nat \ {0}
  BY <1>2, <1>3, <1>4, <1>5, GivenIs
<1> QED BY <1>2, <1>3, <1>5, <1>6, PathIs DEF Absolute

LEMMA RulesShape ==
    ASSUME NEW raw \in Text, Singles(raw), RulesGood(raw), NEW i \in DOMAIN raw.rules
    PROVE  Rule(raw.rules[i]).tier \in 0 .. 2
<1>1. RuleGood(raw.rules[i])
  BY DEF RulesGood
<1>2. Rule(raw.rules[i]).tier = raw.rules[i].tier
  BY DEF Rule
<1>3. raw.rules[i].tier \in {0, 1, 2}
  BY <1>1 DEF RuleGood, EntryGood
<1>4. \A n \in {0, 1, 2} : n \in 0 .. 2
  OBVIOUS
<1> QED BY <1>2, <1>3, <1>4

LEMMA AcceptedIsShaped ==
    ASSUME NEW raw \in Text, Singles(raw), env.home \in BOOLEAN, Accepts(raw)
    PROVE  /\ Config(raw).settings.target \in Config(raw).settings.low .. 100
           /\ Absolute(Config(raw).settings.quarantine)
           /\ \A i \in DOMAIN Config(raw).roots :
                 Absolute(Config(raw).roots[i].path) /\ Config(raw).roots[i].max_depth > 0
           /\ \A i \in DOMAIN Config(raw).rules : Config(raw).rules[i].tier \in 0 .. 2
<1>1. raw.roots \in Seq(RootText) /\ raw.rules \in Seq(RuleText)
  BY TextIs
<1>2. /\ Config(raw).roots = [i \in 1 .. Len(raw.roots) |-> Root(raw.roots[i])]
      /\ Config(raw).rules = [i \in 1 .. Len(raw.rules) |-> Rule(raw.rules[i])]
  BY AcceptsIs, ConfigIs
<1>3. SettingsOK(Settings(raw)) /\ RootsGood(raw) /\ RulesGood(raw)
  BY RootsAccepted, RulesAccepted DEF Accepts
<1>4. DOMAIN raw.roots = 1 .. Len(raw.roots) /\ DOMAIN raw.rules = 1 .. Len(raw.rules)
  BY <1>1
<1>5. \A i \in DOMAIN Config(raw).roots :
         Absolute(Config(raw).roots[i].path) /\ Config(raw).roots[i].max_depth > 0
  BY <1>2, <1>3, <1>4, RootsShaped
<1>6. \A i \in DOMAIN Config(raw).rules : Config(raw).rules[i].tier \in 0 .. 2
  BY <1>2, <1>3, <1>4, RulesShape
<1> QED BY <1>3, <1>5, <1>6, SettingsShaped

LEMMA ShapeStep ==
    ASSUME Inv, SearchInv, Shaped, Searching, [SetupNext]_allvars
    PROVE  Shaped' /\ Searching'
<1>1. env' = env /\ SearchPath' = SearchPath /\ env.home \in BOOLEAN
  <2>1. env' = env /\ env.home \in BOOLEAN
    BY WorldStays DEF Inv, WorldInv, Environments
  <2> QED BY <2>1 DEF SearchPath
<1>2. Len(SearchPath) \in Nat /\ Len(SearchPath) # 0
  <2>1. Len(SearchPath) \in Nat
    BY SearchPathIs DEF Inv, WorldInv
  <2> QED BY <2>1, SearchPathIs DEF SearchPath, Allowed, Inv, WorldInv
<1>3. CASE Begin
  <2>1. at' = 1 /\ outcome' = NoOutcome
    BY <1>3 DEF Begin
  <2>2. outcome'.is = "none"
    BY <2>1 DEF NoOutcome
  <2>3. 1 \in 1 .. Len(SearchPath) + 1
    BY <1>2
  <2> QED BY <1>1, <2>1, <2>2, <2>3 DEF Shaped, Searching, Accepted
<1>4. CASE Probe
  <2>1. at' \in 1 .. Len(SearchPath) + 1 /\ outcome' = outcome
    <3>1. at <= Len(SearchPath) /\ (at' = at \/ at' = at + 1) /\ outcome' = outcome
      BY <1>4 DEF Probe
    <3>2. at \in 1 .. Len(SearchPath) + 1
      BY DEF Searching
    <3> QED BY <1>2, <3>1, <3>2
  <2> QED BY <1>1, <2>1 DEF Shaped, Searching, Accepted, Absolute
<1>5. CASE NotFound
  <2>1. /\ outcome' = IF env.explicit THEN Error("unreadable", "explicit") ELSE [is |-> "not found"]
        /\ at' = at
    BY <1>5 DEF NotFound
  <2>2. outcome'.is = IF env.explicit THEN "unreadable" ELSE "not found"
    BY <2>1 DEF Error
  <2> QED BY <1>1, <2>1, <2>2 DEF Shaped, Searching, Accepted
<1>6. CASE Read
  <2>1. at' = at /\ at \in 1 .. Len(SearchPath) /\ outcome' = Outcome(file[SearchPath[at]])
    BY <1>6 DEF Read, SearchInv
  <2>2. Standing(file[SearchPath[at]])
    BY <2>1, SearchPathIs DEF Inv, WorldInv
  <2> DEFINE content == file[SearchPath[at]]
  <2>3. outcome' = Outcome(content) /\ Standing(content)
    BY <2>1, <2>2
  <2> HIDE DEF content
  <2>4. ASSUME outcome'.is = "config"
        PROVE  outcome'.config = Config(content) /\ content \in Text /\ Singles(content)
               /\ Accepts(content)
    BY <2>3, <2>4, OutcomeIs DEF Standing
  <2>5. Shaped'
    BY <1>1, <2>4, AcceptedIsShaped DEF Shaped, Accepted, Absolute
  <2>6. outcome'.is \in {"unreadable", "unparsable", "invalid", "config"}
    BY <2>3, OutcomeIs
  <2> QED BY <1>1, <2>1, <2>5, <2>6 DEF Searching
<1>7. CASE ~ (Load /\ UNCHANGED setupVars)
  <2>1. outcome' = outcome /\ at' = at
    BY <1>7, Noted DEF SetupNext
  <2> QED BY <1>1, <2>1 DEF Shaped, Searching, Accepted, Absolute
<1> QED BY <1>3, <1>4, <1>5, <1>6, <1>7 DEF Load

\* The state of a load has its type, and every configuration it returns has absolute roots
\* with a depth, an absolute quarantine, tiers 0 to 2 and percentages in order, whatever
\* the files say and whoever replaces them meanwhile (config.rs, resolve).
THEOREM ConfigurationTypes == SetupSpec => []TypeOK
<1>1. SetupInit => Shaped /\ Searching
  <2> SUFFICES ASSUME SetupInit PROVE Shaped /\ Searching
    OBVIOUS
  <2>1. at = 1 /\ outcome = NoOutcome
    BY DEF SetupInit, Start
  <2>2. outcome.is = "none"
    BY <2>1 DEF NoOutcome
  <2>3. env \in Environments
    BY Initially DEF Inv, WorldInv
  <2>4. Len(SearchPath) \in Nat
    BY <2>3, SearchPathIs
  <2> QED BY <2>1, <2>2, <2>4 DEF Shaped, Searching, Accepted
<1>2. Inv /\ SearchInv /\ Shaped /\ Searching /\ [SetupNext]_allvars => Shaped' /\ Searching'
  BY ShapeStep
<1>3. SetupSpec => [](Shaped /\ Searching)
  BY FilesStand, TheSearch, <1>1, <1>2, PTL DEF SetupSpec, allvars
<1>4. Inv /\ SearchInv /\ Shaped /\ Searching => TypeOK
  BY DEF Inv, WorldInv, Environments, SearchInv, Shaped, Searching, TypeOK
<1> QED BY FilesStand, TheSearch, <1>3, <1>4, PTL

-----------------------------------------------------------------------------
(* What init has written. *)

\* While nobody else has touched its target since it began, what init writes goes there.
Undisturbed ==
    calm => /\ setup.pc \in {"write", "rest", "done"} => Target \in ours
            /\ setup.pc = "done" => file[Target] = setup.text

LEMMA UndisturbedStep ==
    ASSUME Inv, Undisturbed, [SetupNext]_allvars
    PROVE  Undisturbed'
<1>1. Target' = Target /\ Target \in Locations
  BY WorldStays, SearchPathIs DEF Target, SearchPath, Inv, WorldInv
<1>2. CASE (Load /\ UNCHANGED setupVars) \/ UNCHANGED allvars
  <2>1. calm' = calm /\ setup' = setup /\ ours' = ours /\ file' = file
    BY <1>2 DEF Load, Begin, Probe, NotFound, Read, setupVars, allvars, vars
  <2> QED BY <1>1, <2>1 DEF Undisturbed
<1>3. ASSUME NEW l \in Locations, EditDuring(l)
      PROVE  Undisturbed'
  BY <1>3 DEF EditDuring, Undisturbed
<1>4. ASSUME NEW to, setup' = [setup EXCEPT !.pc = to]
      PROVE  setup'.pc = to /\ setup'.text = setup.text
  BY <1>4 DEF Inv, SetupInv
<1>5. CASE InitRender
  <2>1. setup'.pc = "check"
    BY <1>5 DEF InitRender
  <2> QED BY <2>1 DEF Undisturbed
<1>6. CASE InitCheck
  <2>1. setup'.pc \in {"failed", "truncate"}
    BY <1>4, <1>6 DEF InitCheck
  <2> QED BY <2>1 DEF Undisturbed
<1>7. CASE InitTruncate
  <2>1. setup'.pc = "failed" \/ (setup'.pc = "write" /\ ours' = ours \cup {Target})
    BY <1>4, <1>7 DEF InitTruncate
  <2> QED BY <1>1, <2>1 DEF Undisturbed
<1>8. CASE InitWritePart
  <2>1. setup.pc = "write" /\ setup'.pc = "rest" /\ ours' = ours /\ calm' = calm
    BY <1>4, <1>8 DEF InitWritePart
  <2> QED BY <1>1, <2>1 DEF Undisturbed
<1>9. CASE InitWriteRest
  <2>1. /\ setup.pc = "rest" /\ setup'.pc = "done" /\ setup'.text = setup.text
        /\ ours' = ours /\ calm' = calm /\ Put(setup.text)
    BY <1>4, <1>9 DEF InitWriteRest
  <2>2. Target \in ours => file'[Target] = setup.text
    BY <1>1, <2>1 DEF Put, Inv, WorldInv
  <2> QED BY <1>1, <2>1, <2>2 DEF Undisturbed
<1>10. CASE InitFails
  <2>1. setup'.pc = "failed"
    BY <1>4, <1>10 DEF InitFails
  <2> QED BY <2>1 DEF Undisturbed
<1> QED BY <1>2, <1>3, <1>5, <1>6, <1>7, <1>8, <1>9, <1>10 DEF SetupNext

LEMMA Obeyed ==
    ASSUME Inv, Undisturbed
    PROVE  InitIsObeyed
<1> SUFFICES ASSUME setup.pc = "done", calm
             PROVE  /\ Target \in Allowed /\ file[Target] = setup.text
                    /\ \A l \in Ahead(Target) : ~ IsFile(file[l])
                    /\ setup.roots \cap Awkward = {} => setup.text # Garbage /\ Accepts(setup.text)
                    /\ setup.text # Garbage => Settings(setup.text).dry_run
  BY DEF InitIsObeyed
<1>1. file[Target] = setup.text
  BY DEF Undisturbed
<1>2. Target \in Allowed /\ Ahead(Target) = {}
  <2>1. 1 \in 1 .. Len(SearchPath)
    <3>1. Len(SearchPath) \in Nat /\ Len(SearchPath) # 0
      BY SearchPathIs DEF SearchPath, Allowed, Inv, WorldInv
    <3> QED BY <3>1
  <2>2. \A i \in 1 .. Len(SearchPath) : ~ (i < 1)
    BY SearchPathIs DEF Inv, WorldInv
  <2> QED BY <2>1, <2>2, SearchPathIs DEF Inv, WorldInv, Target
<1>3. PICK w \in Worlds : homes = w.homes
  BY DEF Inv, WorldInv
<1>4. PICK h \in w.homes : \E stacks :
           /\ "generic" \in stacks
           /\ setup.text = Parsed(Render(h, stacks)) /\ setup.roots = Detected(h)
  BY <1>3 DEF Inv, SetupInv, Rendered
<1>5. PICK stacks : /\ "generic" \in stacks
                    /\ setup.text = Parsed(Render(h, stacks)) /\ setup.roots = Detected(h)
  BY <1>4
<1>6. env.home /\ env.home \in BOOLEAN
  BY DEF Inv, SetupInv, WorldInv, Environments
<1>7. ASSUME setup.roots \cap Awkward = {}
      PROVE  setup.text # Garbage /\ Accepts(setup.text)
  <2>1. setup.text = Render(h, stacks)
    BY <1>5, <1>7, ParsedIs
  <2>2. setup.text \in Text /\ Singles(setup.text) /\ WellFormed(setup.text)
    BY <1>5, <1>6, <2>1, RenderIs
  <2> QED BY <1>6, <2>2, AcceptsIs, MarksAreNoTexts
<1>8. ASSUME setup.text # Garbage
      PROVE  Settings(setup.text).dry_run
  <2>1. Wrote(setup.text)
    BY <1>5, <1>8, ParsedIs
  <2>2. /\ setup.text \in Text /\ Singles(setup.text)
        /\ setup.text.machine = NoTables /\ setup.text.global = Globals
    BY <2>1 DEF Wrote
  <2>3. Set(setup.text, "dry_run") = {TRUE}
    <3>1. Set(setup.text, "dry_run") = Globals["dry_run"]
      BY <2>2, GlobalsCount
    <3> QED BY <3>1 DEF Globals
  <2>4. Pick(setup.text, "dry_run", TRUE) = TRUE
    BY <2>2, <2>3, PickIs DEF Keys
  <2> QED BY <2>4 DEF Settings
<1> QED BY <1>1, <1>2, <1>7, <1>8

\* When init has written and nobody else has interfered, the next command finds this text
\* before any other; it accepts it if the name of every directory that was detected
\* stands for itself between quotes; and removal is off in it, however its paths are read
\* (init.rs, run: "so init writes where the next command will look"; render, where paths
\* are written without escapes).
THEOREM TheFirstConfigurationIsObeyed == SetupSpec => []InitIsObeyed
<1>1. SetupInit => Undisturbed
  BY DEF SetupInit, Undisturbed
<1>2. Inv /\ Undisturbed /\ [SetupNext]_allvars => Undisturbed'
  BY UndisturbedStep
<1>3. SetupSpec => []Undisturbed
  BY FilesStand, <1>1, <1>2, PTL DEF SetupSpec, allvars
<1> QED BY FilesStand, <1>3, Obeyed, PTL

\* A text in which removal is not armed.
Off(content) == content \in Text => Set(content, "dry_run") \subseteq {TRUE}

LEMMA TablesOff ==
    ASSUME NEW t, t.machine = NoTables, t.global["dry_run"] \subseteq {TRUE}
    PROVE  Off(t)
BY GlobalsCount DEF Off

LEMMA NothingOff == Off(Nothing)
<1>1. Nothing.machine = NoTables /\ Nothing.global["dry_run"] = {}
  BY DEF Nothing, Globals
<1> QED BY <1>1, TablesOff

LEMMA WrittenOff ==
    ASSUME NEW t, t = Garbage \/ Wrote(t)
    PROVE  Off(t) /\ \A b \in Beginnings(t) : Off(b)
<1>1. Off(Garbage) /\ Off(Nothing) /\ Globals["dry_run"] = {TRUE}
  BY MarksAreNoTexts, NothingOff DEF Off, Globals
<1>2. CASE t = Garbage
  BY <1>1, <1>2 DEF Beginnings
<1>3. CASE Wrote(t)
  <2>1. t = [global |-> Globals, machine |-> NoTables, roots |-> t.roots, rules |-> t.rules]
    BY <1>3 DEF Wrote
  <2>2. t.machine = NoTables /\ t.global = Globals
    BY <2>1
  <2>3. \A rs : LET b == [t EXCEPT !.rules = rs] IN b.machine = NoTables /\ b.global = Globals
    BY <2>1
  <2>4. \A b \in Beginnings(t) : b = Garbage \/ b = Nothing \/ \E rs : b = [t EXCEPT !.rules = rs]
    BY DEF Beginnings
  <2>5. ASSUME NEW b, NEW rs, b = [t EXCEPT !.rules = rs]
        PROVE  Off(b)
    BY <1>1, <2>3, <2>5, TablesOff
  <2>6. Off(t)
    BY <1>1, <2>2, TablesOff
  <2> QED BY <1>1, <2>4, <2>5, <2>6
<1> QED BY <1>2, <1>3

LEMMA RenderedOff ==
    ASSUME Inv, Rendered
    PROVE  Off(setup.text) /\ \A b \in Beginnings(setup.text) : Off(b)
<1>1. PICK w \in Worlds : homes = w.homes
  BY DEF Inv, WorldInv
<1>2. PICK h \in w.homes : \E stacks : setup.text = Parsed(Render(h, stacks))
  BY <1>1 DEF Rendered
<1>3. setup.text = Garbage \/ Wrote(setup.text)
  BY <1>2, ParsedIs
<1> QED BY <1>3, WrittenOff

OursOff == \A l \in ours : Off(file[l])

LEMMA OursOffStep ==
    ASSUME Inv, OursOff, [SetupNext]_allvars
    PROVE  OursOff'
<1>1. Target \in Locations /\ file = [l \in Locations |-> file[l]] /\ ours \subseteq Locations
  BY SearchPathIs DEF Inv, WorldInv
<1>2. SUFFICES \A l \in ours' : Off(file'[l])
  BY DEF OursOff, Off, Set, Own
<1>3. CASE file' = file /\ ours' = ours
  BY <1>3 DEF OursOff
<1>4. ASSUME NEW l \in Locations, EditDuring(l)
      PROVE  \A k \in ours' : Off(file'[k])
  <2>1. ours' = ours \ {l} /\ \E content : file' = [file EXCEPT ![l] = content]
    BY <1>4 DEF EditDuring, Edit
  <2>2. \A k \in ours' : file'[k] = file[k]
    BY <1>1, <2>1
  <2> QED BY <2>1, <2>2 DEF OursOff
<1>5. ASSUME NEW text, file' = [file EXCEPT ![Target] = text], ours' \subseteq ours \cup {Target},
             Off(text)
      PROVE  \A k \in ours' : Off(file'[k])
  <2>1. file'[Target] = text /\ \A k \in ours \ {Target} : file'[k] = file[k]
    BY <1>1, <1>5
  <2> QED BY <1>5, <2>1 DEF OursOff
<1>6. CASE InitTruncate
  BY <1>3, <1>5, <1>6, NothingOff DEF InitTruncate
<1>7. ASSUME NEW text, Put(text), ours' = ours, Off(text)
      PROVE  \A k \in ours' : Off(file'[k])
  BY <1>3, <1>5, <1>7 DEF Put
<1>8. CASE InitWritePart
  <2>1. PICK b \in Beginnings(setup.text) : Put(b)
    BY <1>8 DEF InitWritePart
  <2>2. Rendered /\ ours' = ours
    BY <1>8 DEF InitWritePart, Inv, SetupInv
  <2> QED BY <1>7, <2>1, <2>2, RenderedOff
<1>9. CASE InitWriteRest
  <2>1. Rendered /\ ours' = ours /\ Put(setup.text)
    BY <1>9 DEF InitWriteRest, Inv, SetupInv
  <2> QED BY <1>7, <2>1, RenderedOff
<1>10. CASE (Load /\ UNCHANGED setupVars) \/ UNCHANGED allvars \/ InitRender \/ InitCheck \/ InitFails
  <2>1. file' = file /\ ours' = ours
    BY <1>10 DEF Load, Begin, Probe, NotFound, Read, setupVars, allvars, vars, InitRender,
                 InitCheck, InitFails
  <2> QED BY <1>3, <2>1
<1> QED BY <1>4, <1>6, <1>8, <1>9, <1>10 DEF SetupNext

LEMMA ReadsOff ==
    ASSUME Inv, SearchInv, OursOff, [SetupNext]_allvars,
           pc = "read", pc' = "done", SearchPath[at] \in ours, outcome'.is = "config"
    PROVE  outcome'.config.settings.dry_run
<1>1. Read
  <2>1. CASE Load
    BY <2>1 DEF Load, Begin, Probe, NotFound
  <2>2. CASE ~ (Load /\ UNCHANGED setupVars)
    BY <2>2, Noted DEF SetupNext
  <2> QED BY <2>1, <2>2
<1> DEFINE content == file[SearchPath[at]]
<1>2. outcome' = Outcome(content) /\ Off(content) /\ Standing(content)
  BY <1>1 DEF Read, OursOff, Inv, WorldInv
<1> HIDE DEF content
<1>3. outcome'.config = Config(content) /\ content \in Text /\ Singles(content)
  BY <1>2, OutcomeIs DEF Standing
<1>4. Pick(content, "dry_run", TRUE) = TRUE
  <2>1. Set(content, "dry_run") \subseteq {TRUE}
    BY <1>2, <1>3 DEF Off
  <2> QED BY <1>3, <2>1, PickIs DEF Keys
<1>5. Settings(content).dry_run = TRUE
  BY <1>4 DEF Settings
<1> QED BY <1>3, <1>5, ConfigIs

\* However much of its text init has written when a load comes by, removal is not armed
\* (init.rs: "What it writes is always dry_run = true").
THEOREM WhatInitWritesArmsNothing == SetupSpec => InitNeverArms
<1>1. SetupInit => OursOff
  BY DEF SetupInit, OursOff
<1>2. Inv /\ OursOff /\ [SetupNext]_allvars => OursOff'
  BY OursOffStep
<1>3. SetupSpec => []OursOff
  BY FilesStand, <1>1, <1>2, PTL DEF SetupSpec, allvars
<1>4. Inv /\ SearchInv /\ OursOff /\ [SetupNext]_allvars
      => [pc = "read" /\ pc' = "done" /\ SearchPath[at] \in ours /\ outcome'.is = "config"
          => outcome'.config.settings.dry_run]_allvars
  BY ReadsOff
<1> QED BY FilesStand, TheSearch, <1>3, <1>4, PTL DEF SetupSpec, InitNeverArms, allvars

-----------------------------------------------------------------------------
(* Where init looks for code. *)

\* What lies above each of the directories 0 .. k.
WaysUp(P, f, k) ==
    f = [e \in 0 .. k |-> IF e = 0 \/ P[e] = 0 THEN {} ELSE {P[e]} \cup f[P[e]]]

LEMMA WaysUpExist ==
    ASSUME NEW n \in Nat, NEW P, \A d \in 1 .. n : P[d] \in Nat /\ P[d] < d
    PROVE  \E f : WaysUp(P, f, n)
<1> DEFINE T == {k \in 0 .. n : ~ \E f : WaysUp(P, f, k)}
<1>1. SUFFICES ASSUME T # {} PROVE FALSE
  BY DEF T
<1>2. T \subseteq Nat
  OBVIOUS
<1> HIDE DEF T
<1>3. PICK x \in T : \A y \in T : x <= y
  BY <1>1, <1>2, LeastNumber
<1>4. x \in 0 .. n /\ ~ \E f : WaysUp(P, f, x)
  BY <1>3 DEF T
<1>5. x # 0
  <2> DEFINE f == [e \in 0 .. 0 |-> {}]
  <2>1. WaysUp(P, f, 0)
    BY DEF WaysUp
  <2> HIDE DEF f
  <2> QED BY <1>4, <2>1
<1>6. x - 1 \in 0 .. n /\ ~ (x <= x - 1) /\ x \in 1 .. n /\ x \in Nat
  BY <1>4, <1>5
<1>7. PICK g : WaysUp(P, g, x - 1)
  BY <1>3, <1>6 DEF T
<1> DEFINE f == [e \in 0 .. x |-> IF e = 0 \/ P[e] = 0 THEN {} ELSE {P[e]} \cup g[P[e]]]
<1>8. \A e \in 0 .. x : e # 0 => P[e] \in 0 .. x - 1
  BY <1>6
<1>9. \A e \in 0 .. x - 1 : f[e] = g[e]
  <2> TAKE e \in 0 .. x - 1
  <2>1. e \in 0 .. x
    BY <1>6
  <2>2. g[e] = IF e = 0 \/ P[e] = 0 THEN {} ELSE {P[e]} \cup g[P[e]]
    BY <1>7 DEF WaysUp
  <2> QED BY <2>1, <2>2
<1>10. \A e \in 0 .. x : f[e] = IF e = 0 \/ P[e] = 0 THEN {} ELSE {P[e]} \cup f[P[e]]
  <2> TAKE e \in 0 .. x
  <2>1. f[e] = IF e = 0 \/ P[e] = 0 THEN {} ELSE {P[e]} \cup g[P[e]]
    OBVIOUS
  <2> HIDE DEF f
  <2> QED BY <1>8, <1>9, <2>1
<1>11. f = [e \in 0 .. x |-> f[e]]
  OBVIOUS
<1> HIDE DEF f
<1>12. WaysUp(P, f, x)
  BY <1>10, <1>11 DEF WaysUp
<1> QED BY <1>4, <1>12

\* What lies above a directory is its parent and what lies above that, the home
\* directory left out.
LEMMA AboveIs ==
    ASSUME NEW w \in Worlds, NEW h \in w.homes
    PROVE  /\ Above(h, 0) = {}
           /\ \A d \in DOMAIN h.parent :
                 /\ Above(h, d) = IF h.parent[d] = 0 THEN {}
                                  ELSE {h.parent[d]} \cup Above(h, h.parent[d])
                 /\ Above(h, d) \subseteq DOMAIN h.parent
<1> DEFINE n == Len(h.parent)
           P == h.parent
           E(f) == f = [e \in {0} \cup DOMAIN h.parent |->
                           IF e = 0 \/ h.parent[e] = 0 THEN {} ELSE {h.parent[e]} \cup f[h.parent[e]]]
           up == CHOOSE f : E(f)
<1>1. n \in Nat /\ DOMAIN P = 1 .. n /\ \A d \in 1 .. n : P[d] \in Nat /\ P[d] < d
  BY HomeIs
<1>2. {0} \cup DOMAIN h.parent = 0 .. n
  <2> HIDE DEF n
  <2> QED BY <1>1
<1>3. \E f : E(f)
  <2> HIDE DEF n, P
  <2>1. PICK f : WaysUp(P, f, n)
    BY <1>1, WaysUpExist
  <2>2. E(f)
    BY <1>2, <2>1 DEF WaysUp, P
  <2> HIDE DEF E
  <2> QED BY <2>2
<1>4. E(up)
  <2> HIDE DEF E
  <2> QED BY <1>3
<1>5. \A d : Above(h, d) = up[d]
  BY DEF Above
<1>6. \A e \in 0 .. n : up[e] = IF e = 0 \/ P[e] = 0 THEN {} ELSE {P[e]} \cup up[P[e]]
  <2> HIDE DEF up
  <2> QED BY <1>2, <1>4
<1> HIDE DEF up, n, P, E
<1>7. \A e \in 0 .. n : up[e] \subseteq 1 .. n
  <2> DEFINE T == {e \in 0 .. n : ~ (up[e] \subseteq 1 .. n)}
  <2>1. SUFFICES ASSUME T # {} PROVE FALSE
    OBVIOUS
  <2>2. T \subseteq Nat
    OBVIOUS
  <2> HIDE DEF T
  <2>3. PICK x \in T : \A y \in T : x <= y
    BY <2>1, <2>2, LeastNumber
  <2>4. x \in 0 .. n /\ ~ (up[x] \subseteq 1 .. n)
    BY <2>3 DEF T
  <2>5. x # 0 /\ P[x] # 0 /\ up[x] = {P[x]} \cup up[P[x]]
    BY <1>6, <2>4
  <2>6. P[x] \in 0 .. n /\ P[x] \in 1 .. n /\ ~ (x <= P[x])
    BY <1>1, <2>4, <2>5
  <2>7. up[P[x]] \subseteq 1 .. n
    BY <2>3, <2>6 DEF T
  <2> QED BY <2>4, <2>5, <2>6, <2>7
<1>8. 0 \in 0 .. n /\ \A d \in 1 .. n : d \in 0 .. n /\ d # 0
  BY <1>1
<1>9. up[0] = {}
  BY <1>6, <1>8
<1>10. \A d \in 1 .. n : /\ up[d] = IF P[d] = 0 THEN {} ELSE {P[d]} \cup up[P[d]]
                         /\ up[d] \subseteq 1 .. n
  BY <1>6, <1>7, <1>8
<1>11. \A d \in DOMAIN P : /\ Above(h, d) = IF P[d] = 0 THEN {} ELSE {P[d]} \cup Above(h, P[d])
                          /\ Above(h, d) \subseteq DOMAIN P
  <2> TAKE d \in DOMAIN P
  <2>1. DOMAIN P = 1 .. n /\ d \in 1 .. n
    BY <1>1
  <2>2. up[d] = (IF P[d] = 0 THEN {} ELSE {P[d]} \cup up[P[d]]) /\ up[d] \subseteq 1 .. n
    BY <1>10, <2>1
  <2> QED BY <1>5, <2>1, <2>2
<1>12. Above(h, 0) = {}
  BY <1>5, <1>9
<1> QED BY <1>11, <1>12 DEF P

\* The search goes through four levels.
LEMMA SearchedIs ==
    ASSUME NEW h
    PROVE  LET one == Below(h, {0})
               two == Below(h, one)
               three == Below(h, two)
           IN Searched(h, SearchDepth) = {0} \cup one \cup two \cup three
<1> DEFINE one == Below(h, {0})
           two == Below(h, one)
           three == Below(h, two)
           E(f) == f = [depth \in 0 .. 3 |-> IF depth = 0 THEN {0} ELSE Below(h, f[depth - 1])]
           level == CHOOSE f : E(f)
           G == [depth \in 0 .. 3 |-> IF depth = 0 THEN {0} ELSE IF depth = 1 THEN one
                                      ELSE IF depth = 2 THEN two ELSE three]
<1> HIDE DEF one, two, three
<1>1. E(G)
  <2>1. 0 .. 3 = {0, 1, 2, 3}
    OBVIOUS
  <2>2. G[0] = {0} /\ G[1] = one /\ G[2] = two /\ G[3] = three
    BY <2>1
  <2>3. G = [depth \in 0 .. 3 |-> G[depth]]
    OBVIOUS
  <2> HIDE DEF G
  <2>4. \A depth \in 0 .. 3 : G[depth] = IF depth = 0 THEN {0} ELSE Below(h, G[depth - 1])
    BY <2>1, <2>2 DEF one, two, three
  <2> QED BY <2>3, <2>4
<1>2. E(level)
  <2> HIDE DEF E, G
  <2> QED BY <1>1
<1>3. Searched(h, SearchDepth) = UNION {level[depth] : depth \in 0 .. 3}
  BY DEF Searched, SearchDepth
<1> HIDE DEF level
<1>4. level[0] = {0} /\ level[1] = one /\ level[2] = two /\ level[3] = three
  BY <1>2 DEF one, two, three
<1> HIDE DEF E
<1>5. 0 .. 3 = {0, 1, 2, 3}
  OBVIOUS
<1>6. UNION {level[depth] : depth \in {0, 1, 2, 3}} = level[0] \cup level[1] \cup level[2] \cup level[3]
  OBVIOUS
<1> QED BY <1>3, <1>4, <1>5, <1>6 DEF one, two, three

\* A directory that nothing hides.
Open(h, x) ==
    /\ x \in DOMAIN h.parent /\ x \notin h.links \cup h.hidden \cup h.never \cup h.closed
    /\ h.place[x] <= Limit

LEMMA BelowIs ==
    ASSUME NEW h, NEW dirs, NEW x
    PROVE  x \in Below(h, dirs) <=> Open(h, x) /\ h.parent[x] \in dirs /\ ~ Claimed(h, h.parent[x])
<1>1. x \in Below(h, dirs)
      <=> \E d \in {e \in dirs : ~ Claimed(h, e)} :
             x \in (Inside(h, d) \ (h.hidden \cup h.never)) \ h.closed
  BY DEF Below
<1>2. \A d : x \in Inside(h, d) <=> /\ x \in DOMAIN h.parent \ h.links /\ h.parent[x] = d
                                   /\ h.place[x] <= Limit
  BY DEF Inside
<1> QED BY <1>1, <1>2 DEF Open

\* Nothing that lies above what is searched is a project's directory.
LEMMA SearchedFromAbove ==
    ASSUME NEW w \in Worlds, NEW h \in w.homes, NEW x \in Searched(h, SearchDepth)
    PROVE  \A a \in Above(h, x) : ~ Claimed(h, a)
<1> DEFINE one == Below(h, {0})
           two == Below(h, one)
           three == Below(h, two)
<1>1. Above(h, 0) = {}
  BY AboveIs
<1>2. ASSUME NEW y, Open(h, y), ~ Claimed(h, h.parent[y]),
             \A a \in Above(h, h.parent[y]) : ~ Claimed(h, a)
      PROVE  \A a \in Above(h, y) : ~ Claimed(h, a)
  <2>1. Above(h, y) = IF h.parent[y] = 0 THEN {} ELSE {h.parent[y]} \cup Above(h, h.parent[y])
    BY <1>2, AboveIs DEF Open
  <2> QED BY <1>2, <2>1
<1>3. \A dirs : \A y \in Below(h, dirs) :
         Open(h, y) /\ h.parent[y] \in dirs /\ ~ Claimed(h, h.parent[y])
  BY BelowIs
<1>4. \A y \in one : \A a \in Above(h, y) : ~ Claimed(h, a)
  BY <1>1, <1>2, <1>3
<1>5. \A y \in two : \A a \in Above(h, y) : ~ Claimed(h, a)
  <2> HIDE DEF one
  <2> QED BY <1>2, <1>3, <1>4
<1>6. \A y \in three : \A a \in Above(h, y) : ~ Claimed(h, a)
  <2> HIDE DEF two
  <2> QED BY <1>2, <1>3, <1>5
<1>7. x \in {0} \cup one \cup two \cup three
  BY SearchedIs
<1> HIDE DEF one, two, three
<1> QED BY <1>1, <1>4, <1>5, <1>6, <1>7

LEMMA OneMoreMember ==
    ASSUME NEW S, IsFiniteSet(S), NEW x, x \notin S, NEW k \in Nat, Cardinality(S) = k
    PROVE  IsFiniteSet(S \cup {x}) /\ Cardinality(S \cup {x}) = k + 1
BY FS_AddElement

LEMMA FourAreTooMany ==
    ASSUME NEW n \in Nat, NEW S, S \subseteq 1 .. n, NEW a \in S, NEW b \in S, NEW c \in S, NEW d \in S,
           b < a, c < b, d < c
    PROVE  Cardinality(S) \notin 1 .. 3
<1>1. IsFiniteSet(S) /\ Cardinality(S) \in Nat
  <2>1. IsFiniteSet(1 .. n)
    BY FS_Interval
  <2>2. IsFiniteSet(S)
    BY <2>1, FS_Subset
  <2> QED BY <2>2, FS_CardinalityType
<1>2. a \in Nat /\ b \in Nat /\ c \in Nat /\ d \in Nat
  OBVIOUS
<1> DEFINE one == {d}
           two == one \cup {c}
           three == two \cup {b}
           four == three \cup {a}
<1>3. c \notin one /\ b \notin two /\ a \notin three
  BY <1>2
<1>4. four \subseteq S
  OBVIOUS
<1>5. IsFiniteSet(one) /\ Cardinality(one) = 1
  BY FS_Singleton
<1> HIDE DEF one
<1>6. IsFiniteSet(two) /\ Cardinality(two) = 2
  BY <1>3, <1>5, OneMoreMember
<1> HIDE DEF two
<1>7. IsFiniteSet(three) /\ Cardinality(three) = 3
  BY <1>3, <1>6, OneMoreMember
<1> HIDE DEF three
<1>8. IsFiniteSet(four) /\ Cardinality(four) = 4
  BY <1>3, <1>7, OneMoreMember
<1> HIDE DEF four
<1>9. 4 <= Cardinality(S)
  BY <1>1, <1>4, <1>8, FS_Subset
<1> QED BY <1>1, <1>9

\* A project's directory that is searched is the only root above the project, if all the
\* others there lie above it or below it.
LEMMA OnlyRoot ==
    ASSUME NEW w \in Worlds, NEW h \in w.homes, h.conventional = {}, NEW S,
           NEW t \in S, t \in Searched(h, SearchDepth), Claimed(h, t),
           \A x \in S \ {t} : t \in Above(h, x) \/ x \in Above(h, t)
    PROVE  Cardinality(DetectRoots(h) \cap S) = 1
<1>1. DetectRoots(h) = {d \in Searched(h, SearchDepth) : Claimed(h, d)}
  BY DEF DetectRoots
<1>2. \A x \in S \ {t} : x \notin DetectRoots(h)
  BY <1>1, SearchedFromAbove
<1>3. DetectRoots(h) \cap S = {t}
  BY <1>1, <1>2
<1> QED BY <1>3, FS_Singleton

LEMMA Rooted ==
    ASSUME NEW w \in Worlds, NEW h \in w.homes, h.conventional = {},
           NEW p \in h.projects, p \notin h.links, Cardinality(Above(h, p)) \in 1 .. SearchDepth,
           Above(h, p) \cap (h.hidden \cup h.never \cup h.links \cup h.closed) = {},
           \A d \in Above(h, p) \cup {p} : h.place[d] <= Limit
    PROVE  Cardinality(DetectRoots(h) \cap Above(h, p)) = 1
<1> DEFINE a == h.parent[p]
           b == h.parent[a]
           c == h.parent[b]
           one == Below(h, {0})
           two == Below(h, one)
           three == Below(h, two)
<1>1. /\ p \in DOMAIN h.parent /\ Above(h, p) \subseteq DOMAIN h.parent
      /\ \A x \in Above(h, p) : Open(h, x)
  BY SetupOK, AboveIs DEF Open
<1>2. a # 0 /\ Above(h, p) = {a} \cup Above(h, a)
  <2>1. Above(h, p) # {}
    <3>1. Cardinality({}) = 0
      BY FS_EmptySet
    <3>2. 0 \notin 1 .. SearchDepth
      BY DEF SearchDepth
    <3> QED BY <3>1, <3>2
  <2>2. Above(h, p) = IF h.parent[p] = 0 THEN {} ELSE {h.parent[p]} \cup Above(h, h.parent[p])
    BY <1>1, AboveIs
  <2> QED BY <2>1, <2>2
<1>3. Claimed(h, a) /\ ~ Claimed(h, 0)
  BY <1>1, <1>2 DEF Claimed, Inside
<1>4. \A x \in Above(h, p) :
         /\ x \in Searched(h, SearchDepth) <=> x = 0 \/ x \in one \/ x \in two \/ x \in three
         /\ x \in one <=> h.parent[x] = 0
         /\ x \in two <=> h.parent[x] \in one /\ ~ Claimed(h, h.parent[x])
         /\ x \in three <=> h.parent[x] \in two /\ ~ Claimed(h, h.parent[x])
  <2> TAKE x \in Above(h, p)
  <2>1. Searched(h, SearchDepth) = {0} \cup one \cup two \cup three
    BY SearchedIs
  <2>2. x \in one <=> h.parent[x] = 0
    BY <1>1, <1>3, BelowIs
  <2>3. x \in two <=> h.parent[x] \in one /\ ~ Claimed(h, h.parent[x])
    <3> HIDE DEF one
    <3> QED BY <1>1, BelowIs
  <2>4. x \in three <=> h.parent[x] \in two /\ ~ Claimed(h, h.parent[x])
    <3> HIDE DEF two
    <3> QED BY <1>1, BelowIs
  <2> HIDE DEF one, two, three
  <2> QED BY <2>1, <2>2, <2>3, <2>4
<1>5. \A x \in Above(h, p) : Above(h, x) = IF h.parent[x] = 0 THEN {}
                                           ELSE {h.parent[x]} \cup Above(h, h.parent[x])
  BY <1>1, AboveIs
<1>6. a \in Above(h, p)
  BY <1>2
<1> HIDE DEF one, two, three, a
<1>7. CASE b = 0
  <2>1. Above(h, p) = {a}
    BY <1>2, <1>5, <1>6, <1>7
  <2>2. a \in Searched(h, SearchDepth)
    BY <1>4, <1>6, <1>7
  <2> QED BY <1>3, <1>6, <2>1, <2>2, OnlyRoot
<1>8. CASE b # 0 /\ c = 0
  <2>1. Above(h, a) = {b} \cup Above(h, b)
    BY <1>5, <1>6, <1>8
  <2>2. b \in Above(h, p)
    BY <1>2, <2>1
  <2>3. Above(h, b) = {}
    BY <1>5, <1>8, <2>2
  <2>4. Above(h, p) = {a, b} /\ Above(h, a) = {b}
    BY <1>2, <2>1, <2>3
  <2>5. b \in one /\ b \in Searched(h, SearchDepth)
    BY <1>4, <1>8, <2>2
  <2>6. CASE Claimed(h, b)
    BY <2>2, <2>4, <2>5, <2>6, OnlyRoot
  <2>7. CASE ~ Claimed(h, b)
    <3>1. a \in Searched(h, SearchDepth)
      BY <1>4, <1>6, <2>5, <2>7
    <3> QED BY <1>3, <1>6, <2>4, <3>1, OnlyRoot
  <2> QED BY <2>6, <2>7
<1>9. CASE b # 0 /\ c # 0
  <2>1. Above(h, a) = {b} \cup Above(h, b)
    BY <1>5, <1>6, <1>9
  <2>2. b \in Above(h, p)
    BY <1>2, <2>1
  <2>3. Above(h, b) = {c} \cup Above(h, c)
    BY <1>5, <1>9, <2>2
  <2>4. c \in Above(h, p)
    BY <1>2, <2>1, <2>3
  <2>5. h.parent[c] = 0
    <3> DEFINE d == h.parent[c]
    <3>1. SUFFICES ASSUME d # 0 PROVE FALSE
      OBVIOUS
    <3>2. d \in Above(h, p)
      <4>1. d \in Above(h, c)
        BY <1>5, <2>4, <3>1
      <4> QED BY <1>2, <2>1, <2>3, <4>1
    <3>3. b < a /\ c < b /\ d < c
      BY <1>1, <1>6, <2>2, <2>4, HomeIs
    <3>4. Len(h.parent) \in Nat /\ Above(h, p) \subseteq 1 .. Len(h.parent)
      BY <1>1, HomeIs
    <3> HIDE DEF b, c, d
    <3>5. Cardinality(Above(h, p)) \notin 1 .. 3
      BY <1>6, <2>2, <2>4, <3>2, <3>3, <3>4, FourAreTooMany
    <3> QED BY <3>5 DEF SearchDepth
  <2>6. Above(h, c) = {}
    BY <1>5, <2>4, <2>5
  <2>7. Above(h, p) = {a, b, c} /\ Above(h, a) = {b, c} /\ Above(h, b) = {c}
    BY <1>2, <2>1, <2>3, <2>6
  <2>8. c \in one /\ c \in Searched(h, SearchDepth)
    BY <1>4, <2>4, <2>5
  <2>9. CASE Claimed(h, c)
    BY <2>4, <2>7, <2>8, <2>9, OnlyRoot
  <2>10. CASE ~ Claimed(h, c) /\ Claimed(h, b)
    <3>1. b \in Searched(h, SearchDepth)
      BY <1>4, <2>2, <2>8, <2>10
    <3> QED BY <2>2, <2>7, <2>10, <3>1, OnlyRoot
  <2>11. CASE ~ Claimed(h, c) /\ ~ Claimed(h, b)
    <3>1. b \in two
      BY <1>4, <2>2, <2>8, <2>11
    <3>2. a \in Searched(h, SearchDepth)
      BY <1>4, <1>6, <2>11, <3>1
    <3> QED BY <1>3, <1>6, <2>7, <3>2, OnlyRoot
  <2> QED BY <2>9, <2>10, <2>11
<1> QED BY <1>7, <1>8, <1>9

\* Without a conventional directory every project two to four levels below the home
\* directory, which nothing hides, and which like each directory above it is among the
\* first 500 entries of its directory, lies in exactly one root; no root lies in another;
\* and each is there for the projects right inside it (init.rs, detect_roots).
THEOREM EveryProjectIsCovered == SetupSpec => []EveryProjectHasItsRoot
<1>1. ASSUME Inv
      PROVE  EveryProjectHasItsRoot
  <2>1. PICK w \in Worlds : homes = w.homes
    BY <1>1 DEF Inv, WorldInv
  <2>2. ASSUME NEW h \in w.homes, h.conventional = {}, NEW r \in DetectRoots(h)
        PROVE  DetectRoots(h) \cap Above(h, r) = {} /\ \E p \in h.projects : h.parent[p] = r
    <3>1. DetectRoots(h) = {d \in Searched(h, SearchDepth) : Claimed(h, d)}
      BY <2>2 DEF DetectRoots
    <3>2. DetectRoots(h) \cap Above(h, r) = {}
      BY <2>2, <3>1, SearchedFromAbove
    <3>3. \E p \in h.projects : h.parent[p] = r
      BY <2>2, <3>1 DEF Claimed, Inside
    <3> QED BY <3>2, <3>3
  <2> QED BY <2>1, <2>2, Rooted DEF EveryProjectHasItsRoot
<1> QED BY FilesStand, <1>1, PTL
=============================================================================
