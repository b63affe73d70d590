--------------------------- MODULE PlacementProofs ---------------------------
(***************************************************************************)
(* Proofs about module Placement, for every arrangement of roots, matches, *)
(* markers and quarantine in every tree of directories, and whatever else  *)
(* is built, removed or killed meanwhile.                                  *)
(*                                                                         *)
(* What lies above a directory is a recursive function, of where things    *)
(* are made or of where they are.  The first part says once what such a    *)
(* function is, by the least number principle in the place of induction.   *)
(***************************************************************************)
EXTENDS Placement, WellFoundedInduction, TLAPS

-----------------------------------------------------------------------------
(* Ways up. *)

LEMMA LeastNumber ==
    ASSUME NEW T, T \subseteq Nat, T # {}
    PROVE  \E x \in T : \A y \in T : x <= y
<1> DEFINE R == OpToRel(<, Nat)
<1>1. IsWellFoundedOn(R, Nat)
  BY NatLessThanWellFounded
<1>2. \A x, y \in Nat : y < x => <<y, x>> \in R
  BY DEF OpToRel
<1> HIDE DEF R
<1>3. PICK x \in T : \A y \in T : ~ (<<y, x>> \in R)
  BY <1>1, WFMin
<1>4. \A y \in T : ~ (y < x)
  BY <1>2, <1>3
<1>5. \A y \in T : x <= y
  BY <1>4
<1> QED BY <1>5

\* u leads from each member of S to another or out of it, into E; f collects what
\* one meets on the way.
Leads(u, S, E) == \A n \in S : u[n] \in S \cup E
Collects(f, u, S, E) ==
    \A n \in S : f[n] = IF u[n] \in E THEN {} ELSE {u[n]} \cup f[u[n]]

\* On no way does one come round.
Sinks(rank, u, S, E) ==
    \A n \in S : rank[n] \in Nat /\ (u[n] \notin E => rank[u[n]] < rank[n])

\* The sets that have the way from each of their members.
Follows(C, u, S, E) == \A m \in C \cap S : u[m] \notin E => u[m] \in C

\* There is such a function: the least sets that have the way on.
LEMMA WayExists ==
    ASSUME NEW S, NEW E, NEW u, Leads(u, S, E)
    PROVE  \E g : g = [n \in S |-> IF u[n] \in E THEN {} ELSE {u[n]} \cup g[u[n]]]
<1> DEFINE Has(C, n) == (u[n] \notin E => u[n] \in C) /\ Follows(C, u, S, E)
           Up(n) == {a \in S : \A C \in SUBSET S : Has(C, n) => a \in C}
           g == [n \in S |-> Up(n)]
<1>1. ASSUME NEW n \in S, u[n] \in E
      PROVE  Up(n) = {}
  <2>1. Has({}, n)
    BY <1>1 DEF Follows
  <2> QED BY <2>1
<1>2. ASSUME NEW n \in S, u[n] \notin E
      PROVE  Up(n) = {u[n]} \cup Up(u[n])
  <2>1. u[n] \in S
    BY <1>2 DEF Leads
  <2>2. ASSUME NEW a \in Up(n), a # u[n], NEW C \in SUBSET S, Has(C, u[n])
        PROVE  a \in C
    <3>1. Has(C \cup {u[n]}, n) /\ C \cup {u[n]} \in SUBSET S
      BY <2>1, <2>2 DEF Follows
    <3> HIDE DEF Has
    <3> QED BY <2>2, <3>1
  <2>3. ASSUME NEW a \in Up(u[n]), NEW C \in SUBSET S, Has(C, n)
        PROVE  a \in C
    <3>1. Has(C, u[n])
      BY <1>2, <2>1, <2>3 DEF Follows
    <3> HIDE DEF Has
    <3> QED BY <2>3, <3>1
  <2>4. \A C \in SUBSET S : Has(C, n) => u[n] \in C
    BY <1>2
  <2> HIDE DEF Has
  <2> QED BY <2>1, <2>2, <2>3, <2>4
<1> HIDE DEF Up
<1>3. g = [n \in S |-> IF u[n] \in E THEN {} ELSE {u[n]} \cup g[u[n]]]
  BY <1>1, <1>2 DEF Leads
<1> QED BY <1>3

\* What has the way on from n has all that is above n.
LEMMA WayWithin ==
    ASSUME NEW S, NEW E, NEW u, NEW f, NEW rank,
           Leads(u, S, E), Collects(f, u, S, E), Sinks(rank, u, S, E),
           NEW C, Follows(C, u, S, E), NEW n \in S, u[n] \notin E => u[n] \in C
    PROVE  f[n] \subseteq C
<1> DEFINE Bad == {m \in S : (u[m] \notin E => u[m] \in C) /\ ~ (f[m] \subseteq C)}
           T == {rank[m] : m \in Bad}
<1>1. SUFFICES ASSUME Bad # {} PROVE FALSE
  OBVIOUS
<1>2. T \subseteq Nat /\ T # {}
  BY <1>1 DEF Sinks
<1>3. PICK x \in T : \A y \in T : x <= y
  BY <1>2, LeastNumber
<1>4. PICK m \in Bad : rank[m] = x
  OBVIOUS
<1>5. u[m] \notin E /\ u[m] \in S /\ u[m] \in C
  BY <1>4 DEF Collects, Leads
<1>6. f[m] = {u[m]} \cup f[u[m]]
  BY <1>4, <1>5 DEF Collects
<1>7. u[m] \in Bad
  BY <1>4, <1>5, <1>6 DEF Follows
<1>8. rank[u[m]] \in Nat /\ rank[m] \in Nat /\ rank[u[m]] < rank[m] /\ rank[u[m]] \in T
  BY <1>4, <1>5, <1>7 DEF Sinks
<1> QED BY <1>3, <1>4, <1>8

\* What is above n is a chain in S that ends; and what is above a member of it is
\* the rest of it.
LEMMA WayUp ==
    ASSUME NEW S, NEW E, NEW u, NEW f, NEW rank,
           Leads(u, S, E), Collects(f, u, S, E), Sinks(rank, u, S, E), NEW n \in S
    PROVE  /\ f[n] \subseteq S
           /\ n \notin f[n]
           /\ \A a \in f[n] : f[a] \subseteq f[n]
           /\ \A a, b \in f[n] : a = b \/ a \in f[b] \/ b \in f[a]
<1>1. f[n] \subseteq S
  <2>1. Follows(S, u, S, E) /\ (u[n] \notin E => u[n] \in S)
    BY DEF Leads, Follows
  <2> QED BY <2>1, WayWithin
<1>2. n \notin f[n]
  <2> DEFINE C == {a \in S : rank[a] < rank[n]}
  <2>1. Follows(C, u, S, E) /\ (u[n] \notin E => u[n] \in C)
    BY DEF Leads, Follows, Sinks
  <2>2. f[n] \subseteq C
    <3> HIDE DEF C
    <3> QED BY <2>1, WayWithin
  <2> QED BY <2>2 DEF Sinks
<1>3. \A a \in f[n] : f[a] \subseteq f[n]
  <2> DEFINE C == {a \in S : f[a] \subseteq f[n]}
  <2>1. Follows(C, u, S, E) /\ (u[n] \notin E => u[n] \in C)
    BY DEF Leads, Follows, Collects
  <2>2. f[n] \subseteq C
    <3> HIDE DEF C
    <3> QED BY <2>1, WayWithin
  <2> QED BY <2>2
<1>4. ASSUME NEW b \in f[n]
      PROVE  \A a \in f[n] : a = b \/ a \in f[b] \/ b \in f[a]
  <2> DEFINE C == {a \in S : a = b \/ a \in f[b] \/ b \in f[a]}
  <2>1. b \in S /\ u[n] \notin E /\ u[n] \in S /\ f[n] = {u[n]} \cup f[u[n]]
    BY <1>1, <1>4 DEF Collects, Leads
  <2>2. u[n] \in C
    BY <2>1, <1>4
  <2>3. ASSUME NEW m \in C, u[m] \notin E
        PROVE  u[m] \in C
    <3>1. u[m] \in S /\ f[m] = {u[m]} \cup f[u[m]]
      BY <2>3 DEF Collects, Leads
    <3>2. CASE m = b
      BY <3>1, <3>2
    <3>3. CASE b \in f[m]
      BY <3>1, <3>3
    <3>4. CASE m \in f[b]
      <4> DEFINE D == {a \in S : f[a] \subseteq f[b]}
      <4>1. Follows(D, u, S, E) /\ (u[b] \notin E => u[b] \in D)
        BY <2>1 DEF Leads, Follows, Collects
      <4>2. f[b] \subseteq D
        <5> HIDE DEF D
        <5> QED BY <2>1, <4>1, WayWithin
      <4> QED BY <3>1, <3>4, <4>2
    <3> QED BY <2>3, <3>2, <3>3, <3>4
  <2>4. Follows(C, u, S, E)
    BY <2>3 DEF Follows
  <2>5. f[n] \subseteq C
    <3> HIDE DEF C
    <3> QED BY <2>2, <2>4, WayWithin
  <2> QED BY <2>5
<1> QED BY <1>1, <1>2, <1>3, <1>4

-----------------------------------------------------------------------------
(* Where directories are made. *)

LEMMA HomeIs ==
    /\ Leads(Home, Dirs, {0})
    /\ Collects(HomeAbove, Home, Dirs, {0})
    /\ Sinks([d \in Dirs |-> d], Home, Dirs, {0})
<1>1. Leads(Home, Dirs, {0})
  BY PlacementOK DEF Leads
<1>2. PICK g : g = [n \in Dirs |-> IF Home[n] \in {0} THEN {} ELSE {Home[n]} \cup g[Home[n]]]
  BY <1>1, WayExists
<1>3. g = [n \in Dirs |-> IF Home[n] = 0 THEN {} ELSE {Home[n]} \cup g[Home[n]]]
  BY <1>2
<1>4. HomeAbove = [d \in Dirs |-> IF Home[d] = 0 THEN {} ELSE {Home[d]} \cup HomeAbove[Home[d]]]
  BY <1>3 DEF HomeAbove
<1>5. Collects(HomeAbove, Home, Dirs, {0})
  <2> HIDE DEF HomeAbove
  <2> QED BY <1>4 DEF Collects
<1>6. Sinks([d \in Dirs |-> d], Home, Dirs, {0})
  BY PlacementOK DEF Sinks
<1> QED BY <1>1, <1>5, <1>6

LEMMA HomeUp ==
    ASSUME NEW d \in Dirs
    PROVE  /\ HomeAbove[d] = IF Home[d] = 0 THEN {} ELSE {Home[d]} \cup HomeAbove[Home[d]]
           /\ Home[d] # 0 => Home[d] \in Dirs
           /\ HomeAbove[d] \subseteq Dirs
           /\ d \notin HomeAbove[d]
           /\ \A a \in HomeAbove[d] : HomeAbove[a] \subseteq HomeAbove[d]
           /\ \A a, b \in HomeAbove[d] : a = b \/ a \in HomeAbove[b] \/ b \in HomeAbove[a]
<1> HIDE DEF HomeAbove
<1>1. HomeAbove[d] = IF Home[d] = 0 THEN {} ELSE {Home[d]} \cup HomeAbove[Home[d]]
  BY HomeIs DEF Collects
<1> QED BY <1>1, HomeIs, WayUp, PlacementOK

Path == {Q} \cup HomeAbove[Q]

\* A directory is where it was made, in the quarantine, or nowhere; the quarantine
\* is never in itself.
Placed(v) ==
    /\ v \in [Nodes -> Dirs \cup {0, Gone}]
    /\ \A d \in Dirs : v[d] \in {Home[d], Q, Gone}
    /\ \A d \in Path : v[d] \in {Home[d], Gone}
    /\ v[Scratch] \in Dirs \cup {Gone}

AboveIn(v) ==
    CHOOSE g : g = [n \in Nodes |-> IF v[n] \in {0, Gone} THEN {} ELSE {v[n]} \cup g[v[n]]]

StandsIn(v, d) == v[d] = Home[d] /\ \A a \in HomeAbove[d] : v[a] = Home[a]

LEMMA AboveNow == Above = AboveIn(up) /\ \A d : Stands(d) <=> StandsIn(up, d)
BY DEF Above, AboveIn, Stands, StandsIn

LEMMA QIsDir == site \in Sites => Q \in Dirs /\ Path \subseteq Dirs
<1> HIDE DEF HomeAbove
<1> SUFFICES ASSUME site \in Sites PROVE Q \in Dirs /\ Path \subseteq Dirs
  OBVIOUS
<1>1. Q \in Dirs
  BY PlacementOK DEF Q
<1>2. HomeAbove[Q] \subseteq Dirs
  BY <1>1, HomeUp
<1> QED BY <1>1, <1>2 DEF Path

\* Directories that are no part of the quarantine's path go into it at most once, so
\* every way up ends.
LEMMA AboveIs ==
    ASSUME site \in Sites, NEW v, Placed(v)
    PROVE  /\ Leads(v, Nodes, {0, Gone})
           /\ Collects(AboveIn(v), v, Nodes, {0, Gone})
           /\ \E rank : Sinks(rank, v, Nodes, {0, Gone})
<1> HIDE DEF HomeAbove
<1>1. Leads(v, Nodes, {0, Gone})
  BY DEF Leads, Placed, Nodes
<1>2. PICK g : g = [n \in Nodes |-> IF v[n] \in {0, Gone} THEN {} ELSE {v[n]} \cup g[v[n]]]
  BY <1>1, WayExists
<1>3. AboveIn(v) = [n \in Nodes |->
                      IF v[n] \in {0, Gone} THEN {} ELSE {v[n]} \cup AboveIn(v)[v[n]]]
  BY <1>2 DEF AboveIn
<1>4. Collects(AboveIn(v), v, Nodes, {0, Gone})
  BY <1>3 DEF Collects
<1> DEFINE rank == [n \in Nodes |-> IF n \in Path THEN n
                                    ELSE IF n \in Dirs THEN n + Q
                                    ELSE IF v[n] \in Dirs THEN v[n] + Q + 1 ELSE 0]
<1>5. Q \in Dirs /\ Path \subseteq Dirs /\ Dirs \subseteq Nat \ {0} /\ Scratch \notin Dirs
      /\ Gone \notin Dirs \cup {0} /\ Nodes = Dirs \cup {Scratch}
  BY QIsDir, PlacementOK DEF Nodes
<1>6. ASSUME NEW n \in Nodes PROVE rank[n] \in Nat
  <2>1. Q \in Nat /\ (n \in Dirs => n \in Nat) /\ (v[n] \in Dirs => v[n] \in Nat)
    BY <1>5
  <2> QED BY <1>5, <2>1
<1>7. \A d \in Path : Home[d] # 0 => Home[d] \in Path /\ Home[d] < d
  <2> SUFFICES ASSUME NEW d \in Path, Home[d] # 0 PROVE Home[d] \in Path /\ Home[d] < d
    OBVIOUS
  <2>1. d \in Dirs /\ Home[d] < d
    BY <1>5, PlacementOK
  <2>2. HomeAbove[d] \subseteq HomeAbove[Q]
    BY <1>5, HomeUp DEF Path
  <2>3. Home[d] \in HomeAbove[d]
    BY <2>1, HomeUp
  <2> QED BY <2>1, <2>2, <2>3 DEF Path
<1>8. ASSUME NEW n \in Nodes, v[n] \notin {0, Gone}
      PROVE  rank[v[n]] < rank[n]
  <2>1. v[n] \in Dirs
    BY <1>8 DEF Placed
  <2>2. CASE n \in Path
    <3>1. v[n] = Home[n] /\ Home[n] \in Path /\ Home[n] < n
      BY <1>7, <1>8, <2>2 DEF Placed
    <3> QED BY <1>5, <2>2, <3>1 DEF Nodes
  <2>3. CASE n \in Dirs \ Path
    <3>1. CASE v[n] = Q
      <4>1. Q \in Path /\ n \in Nat \ {0} /\ Q \in Nat
        BY <1>5, <2>3 DEF Path
      <4> QED BY <1>5, <2>3, <3>1, <4>1
    <3>2. CASE v[n] = Home[n]
      <4>1. Home[n] < n /\ Home[n] \in Nat \ {0} /\ n \in Nat /\ Q \in Nat \ {0}
        BY <1>5, <2>1, <2>3, <3>2, PlacementOK
      <4> QED BY <1>5, <2>1, <2>3, <3>2, <4>1
    <3> QED BY <1>8, <2>3, <3>1, <3>2 DEF Placed
  <2>4. CASE n = Scratch
    <3>1. v[n] \in Nat /\ Q \in Nat
      BY <1>5, <2>1
    <3> QED BY <1>5, <2>1, <2>4, <3>1
  <2> QED BY <1>5, <2>2, <2>3, <2>4
<1>9. Sinks(rank, v, Nodes, {0, Gone})
  BY <1>6, <1>8 DEF Sinks
<1> QED BY <1>1, <1>4, <1>9

LEMMA AboveUp ==
    ASSUME site \in Sites, NEW v, Placed(v), NEW n \in Nodes
    PROVE  LET A == AboveIn(v) IN
           /\ A[n] = IF v[n] \in {0, Gone} THEN {} ELSE {v[n]} \cup A[v[n]]
           /\ A[n] \subseteq Dirs
           /\ n \notin A[n]
           /\ \A a \in A[n] : A[a] \subseteq A[n]
           /\ \A a, b \in A[n] : a = b \/ a \in A[b] \/ b \in A[a]
<1> HIDE DEF HomeAbove
<1>1. PICK rank : Sinks(rank, v, Nodes, {0, Gone})
  BY AboveIs
<1>2. Leads(v, Nodes, {0, Gone}) /\ Collects(AboveIn(v), v, Nodes, {0, Gone})
  BY AboveIs
<1>3. Follows(Dirs, v, Nodes, {0, Gone}) /\ (v[n] \notin {0, Gone} => v[n] \in Dirs)
  BY DEF Follows, Placed, Nodes
<1>4. AboveIn(v)[n] \subseteq Dirs
  BY <1>1, <1>2, <1>3, WayWithin
<1>5. /\ n \notin AboveIn(v)[n]
      /\ \A a \in AboveIn(v)[n] : AboveIn(v)[a] \subseteq AboveIn(v)[n]
      /\ \A a, b \in AboveIn(v)[n] : a = b \/ a \in AboveIn(v)[b] \/ b \in AboveIn(v)[a]
  BY <1>1, <1>2, WayUp
<1> QED BY <1>2, <1>4, <1>5 DEF Collects

\* Where a directory stands its path is what is above it.
LEMMA StandingPath ==
    ASSUME site \in Sites, NEW v, Placed(v), NEW d \in Dirs, StandsIn(v, d)
    PROVE  /\ AboveIn(v)[d] = HomeAbove[d]
           /\ \A a \in HomeAbove[d] : StandsIn(v, a)
<1> HIDE DEF HomeAbove
<1>1. \A e \in Dirs : StandsIn(v, e) => \A a \in HomeAbove[e] : StandsIn(v, a)
  BY HomeUp DEF StandsIn
<1> DEFINE Bad == {e \in Dirs : StandsIn(v, e) /\ AboveIn(v)[e] # HomeAbove[e]}
<1>2. Bad = {}
  <2> SUFFICES ASSUME Bad # {} PROVE FALSE
    OBVIOUS
  <2>1. Bad \subseteq Nat
    BY PlacementOK
  <2>2. PICK e \in Bad : \A x \in Bad : e <= x
    BY <2>1, LeastNumber
  <2>3. /\ HomeAbove[e] = IF Home[e] = 0 THEN {} ELSE {Home[e]} \cup HomeAbove[Home[e]]
        /\ AboveIn(v)[e] = IF v[e] \in {0, Gone} THEN {} ELSE {v[e]} \cup AboveIn(v)[v[e]]
        /\ v[e] = Home[e] /\ e \in Dirs /\ StandsIn(v, e)
        /\ Home[e] # 0 => Home[e] \in Dirs
    BY HomeUp, AboveUp DEF StandsIn, Nodes
  <2>4. Home[e] # 0 /\ Home[e] # Gone
    BY <2>2, <2>3, PlacementOK DEF Nodes
  <2>5. Home[e] \in Bad
    BY <1>1, <2>2, <2>3, <2>4
  <2>6. Home[e] < e /\ e \in Nat /\ Home[e] \in Nat
    BY <2>1, <2>3, <2>5, PlacementOK
  <2> QED BY <2>2, <2>5, <2>6
<1> QED BY <1>1, <1>2

-----------------------------------------------------------------------------
(* The inductive invariant. *)

\* What a rule matches strictly below a root, with no marker from the root down to it.
Good(m) ==
    /\ m \in site.match
    /\ \E r \in HomeAbove[m] \cap site.roots :
          site.pinned \cap (({m} \cup HomeAbove[m]) \ HomeAbove[r]) = {}

Excused(d) == \E m \in {d} \cup HomeAbove[d] : Good(m)

\* Directories v with those of l lost: what holds an existing one exists; the
\* quarantine stays; nothing is taken but what may be.
WorldOK(v, l) ==
    /\ Placed(v)
    /\ \A n \in Nodes : v[n] \in Dirs => v[v[n]] # Gone
    /\ l \subseteq Dirs /\ \A d \in l : v[d] = Gone
    /\ \A d \in Path \ l : StandsIn(v, d)
    /\ \A d \in Dirs \ l : v[d] # Home[d] /\ Q \notin HomeAbove[d] \cup {d} => Excused(d)

\* What is planned was a match below a root, with no marker from the root down, when
\* it was planned.
Promised(c) ==
    /\ c.node \in site.match
    /\ \E r \in c.chain \cap site.roots :
          site.pinned \cap (({c.node} \cup c.chain) \ HomeAbove[r]) = {}

Cand == [node : Dirs, chain : SUBSET Dirs]

Sweeps ==
    [pc : {"idle", "plan", "open", "list", "recover", "stage", "drain", "done"},
     sees : SUBSET site.roots, cands : SUBSET Cand, todo : SUBSET (Nodes \cup Cand),
     staged : SUBSET Dirs, errors : BOOLEAN,
     exit : {"none", "INTERNAL", "PARTIAL", "NOTHING_TO_DO", "SUCCESS"}]

SweepOK(s) ==
    /\ s \in Sweeps
    /\ s.pc = "recover" => s.todo \subseteq Nodes
    /\ s.pc = "stage" => s.todo \subseteq s.cands
    /\ s.pc = "drain" => s.todo \subseteq s.staged
    /\ s.pc \in {"idle", "plan", "open", "list", "done"} => s.todo = {}
    /\ \A c \in s.cands : c.chain \cap s.sees # {}
    /\ s.staged \subseteq {c.node : c \in s.cands}
    /\ s.pc \in {"idle", "plan"} => s.staged = {} /\ s.cands = {}

DoctorOK(a) ==
    a \in [pc : {"idle", "look", "ensure", "test", "rename", "clean", "done"},
           root : Dirs \cup {0}, todo : SUBSET site.roots, usable : SUBSET site.roots,
           failed : BOOLEAN, exit : {"none", "PARTIAL", "SUCCESS"}]

Types ==
    /\ site \in Sites
    /\ mode \in [Nodes -> Modes] /\ mode[Scratch] = "open"
    /\ quiet \subseteq {"sweep", "doctor"}
    /\ SweepOK(sweep) /\ DoctorOK(doctor)

Inv == Types /\ WorldOK(up, lost) /\ \A c \in sweep.cands : Promised(c)

\* What is below the quarantine stands there, or has it above where it was made.
LEMMA BelowQ ==
    ASSUME site \in Sites, Placed(up), NEW n \in Nodes, up[n] = Q,
           NEW d \in Dirs, Stands(d), d \in Tree(n)
    PROVE  Q \in HomeAbove[d]
<1> HIDE DEF HomeAbove
<1>1. Above[d] = HomeAbove[d]
  BY StandingPath, AboveNow
<1>2. n \in {d} \cup Above[d] /\ Q \in Dirs
  BY QIsDir DEF Tree
<1>3. Q \in Above[n]
  <2>1. Q \notin {0, Gone} /\ Above = AboveIn(up)
    BY <1>2, AboveNow, PlacementOK DEF Nodes
  <2>2. AboveIn(up)[n] = {Q} \cup AboveIn(up)[Q]
    BY <2>1, AboveUp
  <2> QED BY <2>1, <2>2
<1>4. \A a \in Above[d] : Above[a] \subseteq Above[d]
  BY AboveUp, AboveNow DEF Nodes
<1> QED BY <1>1, <1>2, <1>3, <1>4

LEMMA PathUp ==
    ASSUME site \in Sites
    PROVE  /\ \A d \in Path : d \in Dirs /\ Q \notin HomeAbove[d] /\ HomeAbove[d] \subseteq Path
           /\ \A d \in Dirs : Q \in HomeAbove[d] => d \notin Path
<1> HIDE DEF HomeAbove
<1>1. Q \in Dirs /\ Path \subseteq Dirs
  BY QIsDir
<1> SUFFICES ASSUME NEW d \in Path
             PROVE  Q \notin HomeAbove[d] /\ HomeAbove[d] \subseteq Path
  BY <1>1
<1> QED BY <1>1, HomeUp DEF Path

\* What exists elsewhere than where it was made is somewhere in the quarantine: in
\* something that was taken.
LEMMA Displaced ==
    ASSUME site \in Sites, WorldOK(up, lost), NEW d \in Dirs, up[d] # Gone, ~ Stands(d),
           Q \notin HomeAbove[d] \cup {d}
    PROVE  Excused(d)
<1> HIDE DEF HomeAbove
<1> DEFINE Bad == {e \in Dirs : /\ up[e] # Gone /\ ~ Stands(e) /\ ~ Excused(e)
                                /\ Q \notin HomeAbove[e] \cup {e}}
<1>1. SUFFICES ASSUME Bad # {} PROVE FALSE
  OBVIOUS
<1>2. Bad \subseteq Nat
  BY PlacementOK
<1>3. PICK e \in Bad : \A x \in Bad : e <= x
  BY <1>1, <1>2, LeastNumber
<1>4. e \in Dirs /\ e \notin lost /\ up[e] = Home[e]
  BY <1>3 DEF WorldOK
<1>5. Home[e] # 0 /\ Home[e] \in Dirs /\ HomeAbove[e] = {Home[e]} \cup HomeAbove[Home[e]]
  BY <1>3, <1>4, HomeUp DEF Stands
<1>6. up[Home[e]] # Gone
  BY <1>4, <1>5 DEF WorldOK, Nodes
<1>7. ~ Stands(Home[e])
  BY <1>3, <1>4, <1>5 DEF Stands
<1>8. ~ Excused(Home[e])
  BY <1>3, <1>5 DEF Excused
<1>9. Home[e] \in Bad
  BY <1>3, <1>5, <1>6, <1>7, <1>8
<1>10. Home[e] < e /\ e \in Nat /\ Home[e] \in Nat
  BY <1>2, <1>4, <1>9, PlacementOK
<1> QED BY <1>3, <1>9, <1>10

\* Something is removed with all it holds: by somebody else, who is held to nothing,
\* or from the quarantine.
LEMMA Taken ==
    ASSUME site \in Sites, WorldOK(up, lost), NEW v \in [Nodes -> Dirs \cup {0, Gone}],
           NEW l, lost \subseteq l, l \subseteq Dirs,
           \A m \in Nodes : v[m] \in {up[m], Gone},
           \A m \in Nodes : up[m] \in Dirs /\ v[m] # Gone => v[up[m]] # Gone,
           \A d \in l : v[d] = Gone,
           \A d \in Dirs \ l : v[d] # up[d] /\ Stands(d) => Q \in HomeAbove[d]
    PROVE  WorldOK(v, l)
<1> HIDE DEF HomeAbove
<1>1. Placed(up) /\ Q \in Dirs /\ Path \subseteq Dirs /\ Gone \notin Dirs \cup {0}
  BY QIsDir, PlacementOK DEF WorldOK, Nodes
<1>2. Placed(v)
  BY <1>1 DEF Placed, Nodes
<1>3. \A n \in Nodes : v[n] \in Dirs => v[v[n]] # Gone
  BY <1>1
<1>4. ASSUME NEW d \in Path \ l
      PROVE  StandsIn(v, d)
  <2>1. d \in Dirs /\ Stands(d) /\ StandsIn(up, d) /\ Q \notin HomeAbove[d]
    BY <1>1, AboveNow, PathUp DEF WorldOK
  <2>2. v[d] = up[d] /\ up[d] = Home[d]
    BY <2>1 DEF Nodes, StandsIn
  <2> DEFINE C == {a \in Dirs : v[a] # Gone /\ StandsIn(up, a)}
  <2>3. \A a \in Dirs : StandsIn(up, a) => \A b \in HomeAbove[a] : StandsIn(up, b)
    BY HomeUp DEF StandsIn
  <2>4. ASSUME NEW a \in C, Home[a] # 0
        PROVE  Home[a] \in C
    <3>1. up[a] = Home[a] /\ Home[a] \in Dirs /\ Home[a] \in HomeAbove[a]
      BY <2>4, HomeUp DEF StandsIn
    <3> QED BY <2>3, <2>4, <3>1 DEF Nodes
  <2>5. d \in C
    BY <1>1, <2>1, <2>2, PlacementOK
  <2>6. HomeAbove[d] \subseteq C
    <3>1. Follows(C, Home, Dirs, {0}) /\ (Home[d] \notin {0} => Home[d] \in C)
      BY <2>4, <2>5 DEF Follows
    <3> HIDE DEF C
    <3> QED BY <2>1, <3>1, HomeIs, WayWithin
  <2>7. \A a \in HomeAbove[d] : v[a] = Home[a]
    BY <2>6 DEF StandsIn, Nodes
  <2> QED BY <2>2, <2>7 DEF StandsIn
<1>5. ASSUME NEW d \in Dirs \ l, v[d] # Home[d], Q \notin HomeAbove[d] \cup {d}
      PROVE  Excused(d)
  <2>1. CASE v[d] = up[d]
    BY <1>5, <2>1 DEF WorldOK
  <2>2. CASE v[d] # up[d]
    BY <1>5, <2>2, Displaced DEF Nodes
  <2> QED BY <2>1, <2>2
<1> QED BY <1>2, <1>3, <1>4, <1>5 DEF WorldOK

\* Directories are made, each in one that exists.
LEMMA Made ==
    ASSUME site \in Sites, WorldOK(up, lost), NEW v \in [Nodes -> Dirs \cup {0, Gone}],
           NEW B \in SUBSET Dirs,
           \A m \in Nodes : v[m] = IF m \in B THEN Home[m] ELSE up[m],
           \A d \in B : Home[d] # 0 => v[Home[d]] # Gone,
           \A d \in B \cap Path : StandsIn(v, d)
    PROVE  WorldOK(v, lost \ B)
<1> HIDE DEF HomeAbove
<1>1. Placed(up) /\ Q \in Dirs /\ Path \subseteq Dirs /\ Gone \notin Dirs \cup {0}
      /\ Scratch \notin Dirs /\ \A d \in Dirs : Home[d] \in Dirs \cup {0}
  BY QIsDir, PlacementOK DEF WorldOK, Nodes
<1>2. Placed(v)
  BY <1>1 DEF Placed, Nodes
<1>3. ASSUME NEW n \in Nodes, v[n] \in Dirs
      PROVE  v[v[n]] # Gone
  <2>1. CASE n \in B
    <3>1. v[n] = Home[n]
      BY <2>1
    <3>2. Home[n] # 0
      BY <1>3, <3>1, PlacementOK
    <3> QED BY <2>1, <3>1, <3>2
  <2>2. CASE n \notin B
    <3>1. v[n] = up[n] /\ up[n] \in Dirs /\ up[up[n]] # Gone /\ up[n] \in Nodes
      BY <1>3, <2>2 DEF WorldOK, Nodes
    <3> QED BY <1>1, <3>1
  <2> QED BY <2>1, <2>2
<1>4. ASSUME NEW d \in Path \ (lost \ B)
      PROVE  StandsIn(v, d)
  <2>1. CASE d \in B
    BY <1>4, <2>1
  <2>2. CASE d \notin B
    <3>1. StandsIn(up, d) /\ d \in Dirs /\ HomeAbove[d] \subseteq Dirs
      BY <1>1, <1>4, <2>2, HomeUp DEF WorldOK
    <3> QED BY <3>1 DEF StandsIn, Nodes
  <2> QED BY <2>1, <2>2
<1>5. \A d \in Dirs \ (lost \ B) :
         v[d] # Home[d] /\ Q \notin HomeAbove[d] \cup {d} => Excused(d)
  BY DEF WorldOK, Nodes
<1> QED BY <1>2, <1>3, <1>4, <1>5 DEF WorldOK, Nodes

\* A candidate goes into the quarantine.
LEMMA Moved ==
    ASSUME site \in Sites, WorldOK(up, lost), NEW c \in Cand, Promised(c), CanStage(c)
    PROVE  WorldOK([up EXCEPT ![c.node] = Q], lost)
<1> HIDE DEF HomeAbove
<1> DEFINE n == c.node
           v == [up EXCEPT ![n] = Q]
<1>1. Placed(up) /\ Q \in Dirs /\ Path \subseteq Dirs /\ Gone \notin Dirs \cup {0} /\ n \in Dirs
  BY QIsDir, PlacementOK DEF WorldOK, Nodes, Cand
<1>2. up[n] # Gone /\ Above[n] = c.chain /\ Stands(Q) /\ Q \notin Tree(n)
  BY DEF CanStage, CanRename
<1>3. n \notin Path
  <2>1. Above[Q] = HomeAbove[Q]
    BY <1>1, <1>2, StandingPath, AboveNow
  <2> QED BY <1>1, <1>2, <2>1 DEF Path, Tree, Nodes
<1>4. v \in [Nodes -> Dirs \cup {0, Gone}] /\ v[n] = Q /\ \A m \in Nodes \ {n} : v[m] = up[m]
  BY <1>1 DEF Placed, Nodes
<1> HIDE DEF v
<1>5. Placed(v)
  BY <1>1, <1>3, <1>4, PlacementOK DEF Placed, Nodes
<1>6. up[Q] # Gone
  BY <1>1, <1>2, PlacementOK DEF Stands, Nodes
<1>7. \A m \in Nodes : v[m] \in Dirs => v[v[m]] # Gone
  BY <1>1, <1>4, <1>6 DEF WorldOK, Nodes
<1>8. lost \subseteq Dirs /\ \A d \in lost : v[d] = Gone
  BY <1>2, <1>4 DEF WorldOK, Nodes
<1>9. \A d \in Path \ lost : StandsIn(v, d)
  BY <1>1, <1>3, <1>4, PathUp DEF WorldOK, StandsIn, Nodes
<1>10. ASSUME Q \notin HomeAbove[n] \cup {n}
       PROVE  Excused(n)
  <2>1. CASE ~ Stands(n)
    BY <1>1, <1>2, <1>10, <2>1, Displaced
  <2>2. CASE Stands(n)
    <3>1. HomeAbove[n] = c.chain
      BY <1>1, <1>2, <2>2, StandingPath, AboveNow
    <3>2. Good(n)
      BY <3>1 DEF Good, Promised
    <3> QED BY <3>2 DEF Excused
  <2> QED BY <2>1, <2>2
<1>11. \A d \in Dirs \ lost : v[d] # Home[d] /\ Q \notin HomeAbove[d] \cup {d} => Excused(d)
  BY <1>4, <1>10 DEF WorldOK, Nodes
<1> QED BY <1>5, <1>7, <1>8, <1>9, <1>11 DEF WorldOK, v

\* A doctor's scratch directory is somewhere that exists.
LEMMA Scratched ==
    ASSUME site \in Sites, WorldOK(up, lost), NEW r \in Dirs, up[r] # Gone
    PROVE  WorldOK([up EXCEPT ![Scratch] = r], lost)
<1> HIDE DEF HomeAbove
<1> DEFINE v == [up EXCEPT ![Scratch] = r]
<1>1. Placed(up) /\ Path \subseteq Dirs /\ Gone \notin Dirs \cup {0} /\ Scratch \notin Dirs
  BY QIsDir, PlacementOK DEF WorldOK, Nodes
<1>2. v \in [Nodes -> Dirs \cup {0, Gone}] /\ v[Scratch] = r /\ \A d \in Dirs : v[d] = up[d]
  BY <1>1 DEF Placed, Nodes
<1> HIDE DEF v
<1>3. Placed(v)
  BY <1>1, <1>2 DEF Placed, Nodes
<1>4. ASSUME NEW n \in Nodes, v[n] \in Dirs
      PROVE  v[v[n]] # Gone
  <2>1. CASE n = Scratch
    BY <1>2, <2>1
  <2>2. CASE n \in Dirs
    <3>1. v[n] = up[n] /\ v[v[n]] = up[v[n]]
      BY <1>2, <1>4, <2>2
    <3> QED BY <1>4, <3>1 DEF WorldOK
  <2> QED BY <2>1, <2>2 DEF Nodes
<1>5. \A d \in Path \ lost : StandsIn(v, d)
  BY <1>1, <1>2, PathUp DEF WorldOK, StandsIn
<1>6. lost \subseteq Dirs /\ \A d \in lost : v[d] = Gone
  BY <1>2 DEF WorldOK
<1>7. \A d \in Dirs \ lost : v[d] # Home[d] /\ Q \notin HomeAbove[d] \cup {d} => Excused(d)
  BY <1>2 DEF WorldOK
<1> QED BY <1>3, <1>4, <1>5, <1>6, <1>7 DEF WorldOK, v

-----------------------------------------------------------------------------
(* Removals. *)

\* What stays of a tree stays where it is: with each directory that one stands in.
LEMMA RemainsUp ==
    ASSUME site \in Sites, Placed(up), NEW n \in Nodes, NEW m \in Remains(n), m # n
    PROVE  up[m] \in Remains(n)
<1> HIDE DEF HomeAbove
<1>1. m \in Nodes /\ n \in Above[m] /\ m \in Tree(n)
  BY DEF Remains, Tree
<1>2. up[m] \in Nodes /\ up[m] \notin {0, Gone} /\ Above[m] = {up[m]} \cup Above[up[m]]
  BY <1>1, AboveUp, AboveNow DEF Placed, Nodes
<1>3. up[m] \in Tree(n) /\ Above[up[m]] \subseteq Above[m]
  BY <1>1, <1>2 DEF Tree
<1>4. CASE \E k \in Tree(m) : Stuck(k)
  <2>1. PICK k \in Tree(m) : Stuck(k)
    BY <1>4
  <2>2. k \in Nodes /\ (k = m \/ m \in Above[k])
    BY <1>1, <2>1 DEF Tree
  <2>3. up[m] \in Above[k]
    BY <1>2, <2>2, AboveUp, AboveNow
  <2>4. k \in Tree(up[m])
    BY <2>2, <2>3 DEF Tree
  <2> QED BY <1>3, <2>1, <2>4 DEF Remains
<1>5. CASE \E a \in Above[m] \cap Tree(n) : mode[a] = "shut"
  <2>1. PICK a \in Above[m] \cap Tree(n) : mode[a] = "shut"
    BY <1>5
  <2>2. CASE a = up[m]
    <3>1. Stuck(up[m]) /\ up[m] \in Tree(up[m])
      BY <2>1, <2>2 DEF Stuck, Tree
    <3> QED BY <1>3, <3>1 DEF Remains
  <2>3. CASE a \in Above[up[m]]
    BY <1>3, <2>1, <2>3 DEF Remains
  <2> QED BY <1>2, <2>1, <2>2, <2>3
<1> QED BY <1>4, <1>5 DEF Remains

\* An entry of the quarantine is removed, or a scratch directory.
LEMMA Removal ==
    ASSUME site \in Sites, WorldOK(up, lost), NEW n \in Nodes, up[n] = Q \/ n = Scratch
    PROVE  WorldOK(RemoveFrom(n), lost)
<1> HIDE DEF HomeAbove
<1> DEFINE v == RemoveFrom(n)
<1>1. Placed(up) /\ Q \in Dirs /\ 0 \notin Dirs /\ Gone \notin Dirs \cup {0}
      /\ Scratch \notin Dirs
  BY QIsDir, PlacementOK DEF WorldOK, Nodes
<1>2. v \in [Nodes -> Dirs \cup {0, Gone}]
  BY <1>1 DEF RemoveFrom, Placed
<1>3. \A m \in Nodes : v[m] = IF m \in Tree(n) \ Remains(n) THEN Gone ELSE up[m]
  BY DEF RemoveFrom
<1> HIDE DEF v
<1>4. ASSUME NEW m \in Nodes, up[m] \in Dirs, v[m] # Gone
      PROVE  v[up[m]] # Gone
  <2>1. up[m] \in Nodes /\ up[up[m]] # Gone
    BY <1>4 DEF WorldOK, Nodes
  <2>2. ASSUME up[m] \in Tree(n)
        PROVE  up[m] \in Remains(n)
    <3>1. Above[m] = {up[m]} \cup Above[up[m]] /\ m \notin Above[m]
      <4>1. Above[m] = {up[m]} \cup Above[up[m]]
        BY <1>1, <1>4, AboveIs, AboveNow DEF Collects
      <4>2. m \notin Above[m]
        BY <1>1, AboveUp, AboveNow
      <4> QED BY <4>1, <4>2
    <3>2. n \in Above[m]
      BY <2>2, <3>1 DEF Tree
    <3>3. m \in Tree(n) /\ m # n
      BY <1>4, <3>1, <3>2 DEF Tree
    <3>4. m \in Remains(n)
      BY <1>3, <1>4, <3>3
    <3> QED BY <1>1, <3>3, <3>4, RemainsUp
  <2> QED BY <1>3, <2>1, <2>2
<1>5. ASSUME NEW d \in Dirs, v[d] # up[d], Stands(d)
      PROVE  Q \in HomeAbove[d]
  <2>1. d \in Tree(n)
    BY <1>3, <1>5 DEF Nodes
  <2>2. n # Scratch
    <3>1. Above[d] \subseteq Dirs
      BY <1>1, AboveUp, AboveNow DEF Nodes
    <3> QED BY <1>1, <2>1, <3>1 DEF Tree
  <2> QED BY <1>1, <1>5, <2>1, <2>2, BelowQ
<1>6. \A m \in Nodes : v[m] \in {up[m], Gone}
  BY <1>3
<1>7. \A d \in lost : v[d] = Gone
  BY <1>6 DEF WorldOK, Nodes
<1>8. lost \subseteq Dirs
  BY DEF WorldOK
<1> QED BY <1>2, <1>4, <1>5, <1>6, <1>7, <1>8, Taken DEF v

\* Somebody else removes a directory.
LEMMA Vanished ==
    ASSUME site \in Sites, WorldOK(up, lost), NEW d \in Dirs
    PROVE  WorldOK([n \in Nodes |-> IF n \in Tree(d) THEN Gone ELSE up[n]],
                   lost \cup (Tree(d) \cap Dirs))
<1> HIDE DEF HomeAbove
<1> DEFINE v == [n \in Nodes |-> IF n \in Tree(d) THEN Gone ELSE up[n]]
           l == lost \cup (Tree(d) \cap Dirs)
<1>1. Placed(up) /\ 0 \notin Dirs /\ Gone \notin Dirs \cup {0}
  BY PlacementOK DEF WorldOK, Nodes
<1>2. v \in [Nodes -> Dirs \cup {0, Gone}] /\ \A m \in Nodes : v[m] \in {up[m], Gone}
  BY <1>1 DEF Placed
<1>3. \A m \in Nodes : v[m] = IF m \in Tree(d) THEN Gone ELSE up[m]
  OBVIOUS
<1> HIDE DEF v
<1>4. ASSUME NEW m \in Nodes, up[m] \in Dirs, v[m] # Gone
      PROVE  v[up[m]] # Gone
  <2>1. up[m] \in Nodes /\ up[up[m]] # Gone
    BY <1>4 DEF WorldOK, Nodes
  <2>2. Above[m] = {up[m]} \cup Above[up[m]]
    BY <1>1, <1>4, AboveIs, AboveNow DEF Collects
  <2>3. up[m] \notin Tree(d)
    BY <1>3, <1>4, <2>2 DEF Tree
  <2> QED BY <1>3, <2>1, <2>3
<1>5. lost \subseteq l /\ l \subseteq Dirs /\ \A e \in l : v[e] = Gone
  BY <1>2, <1>3 DEF WorldOK, Nodes
<1>6. \A e \in Dirs \ l : v[e] = up[e]
  BY <1>3 DEF Nodes
<1> QED
  <2> HIDE DEF l
  <2>1. WorldOK(v, l)
    BY <1>2, <1>4, <1>5, <1>6, Taken
  <2> QED BY <2>1 DEF v, l

\* Quarantine::ensure: all of the way to the quarantine stands.
LEMMA Ensured ==
    ASSUME site \in Sites, WorldOK(up, lost)
    PROVE  WorldOK([n \in Nodes |-> IF n \in Missing THEN Home[n] ELSE up[n]], lost \ Missing)
<1> HIDE DEF HomeAbove
<1> DEFINE v == [n \in Nodes |-> IF n \in Missing THEN Home[n] ELSE up[n]]
<1>1. Placed(up) /\ Path \subseteq Dirs /\ Missing \subseteq Path /\ Gone \notin Dirs \cup {0}
      /\ \A d \in Dirs : Home[d] \in Dirs \cup {0}
  BY QIsDir, PlacementOK DEF WorldOK, Nodes, Missing, Path
<1>2. v \in [Nodes -> Dirs \cup {0, Gone}]
      /\ \A m \in Nodes : v[m] = IF m \in Missing THEN Home[m] ELSE up[m]
  BY <1>1 DEF Placed
<1> HIDE DEF v
<1>3. \A d \in Path : v[d] = Home[d]
  BY <1>1, <1>2 DEF Missing, Path, Stands, Nodes
<1>4. \A d \in Path : StandsIn(v, d)
  BY <1>3, PathUp DEF StandsIn
<1>5. ASSUME NEW d \in Missing, Home[d] # 0
      PROVE  v[Home[d]] # Gone
  <2>1. Home[d] \in HomeAbove[d] /\ d \in Path
    BY <1>1, <1>5, HomeUp
  <2>2. Home[d] \in Path /\ Home[d] \in Dirs
    BY <2>1, <1>1, PathUp
  <2>3. Home[Home[d]] # Gone
    BY <1>1, <2>2
  <2> QED BY <1>3, <2>2, <2>3
<1>6. Missing \in SUBSET Dirs /\ \A d \in Missing \cap Path : StandsIn(v, d)
  BY <1>1, <1>4
<1>7. WorldOK(v, lost \ Missing)
  BY <1>2, <1>5, <1>6, Made
<1> QED BY <1>7 DEF v

\* A directory is made again where it was.
LEMMA Built ==
    ASSUME site \in Sites, WorldOK(up, lost), NEW d \in Dirs, up[d] = Gone,
           Home[d] # 0 => Stands(Home[d])
    PROVE  WorldOK([up EXCEPT ![d] = Home[d]], lost \ {d})
<1> HIDE DEF HomeAbove
<1> DEFINE v == [up EXCEPT ![d] = Home[d]]
<1>1. Placed(up) /\ Path \subseteq Dirs /\ Gone \notin Dirs \cup {0}
      /\ \A e \in Dirs : Home[e] \in Dirs \cup {0}
  BY QIsDir, PlacementOK DEF WorldOK, Nodes
<1>2. v \in [Nodes -> Dirs \cup {0, Gone}]
      /\ \A m \in Nodes : v[m] = IF m \in {d} THEN Home[m] ELSE up[m]
  BY <1>1 DEF Placed, Nodes
<1> HIDE DEF v
<1>3. Home[d] # 0 => v[Home[d]] # Gone /\ Home[d] \in Dirs /\ Home[d] # d
  <2> SUFFICES ASSUME Home[d] # 0 PROVE v[Home[d]] # Gone /\ Home[d] \in Dirs /\ Home[d] # d
    OBVIOUS
  <2>1. Home[d] \in Dirs /\ up[Home[d]] = Home[Home[d]]
    BY <1>1 DEF Stands
  <2>2. Home[Home[d]] # Gone
    BY <1>1, <2>1
  <2> QED BY <1>1, <1>2, <2>1, <2>2 DEF Nodes
<1>4. StandsIn(v, d)
  <2>1. v[d] = Home[d]
    BY <1>2 DEF Nodes
  <2>2. \A a \in HomeAbove[d] : up[a] = Home[a] /\ a \in Nodes /\ a # d
    BY HomeUp DEF Stands, Nodes
  <2> QED BY <1>2, <2>1, <2>2 DEF StandsIn
<1>5. {d} \in SUBSET Dirs /\ \A e \in {d} \cap Path : StandsIn(v, e)
  BY <1>4
<1>6. \A e \in {d} : Home[e] # 0 => v[Home[e]] # Gone
  BY <1>3
<1> HIDE DEF HomeAbove
<1>7. WorldOK(v, lost \ {d})
  BY <1>2, <1>5, <1>6, Made
<1> QED BY <1>7 DEF v

-----------------------------------------------------------------------------
(* Every step. *)

LEMMA PlannedIsPromised ==
    ASSUME Types, WorldOK(up, lost)
    PROVE  \A c \in Planned : c \in Cand /\ Promised(c) /\ c.chain \cap sweep.sees # {}
<1> HIDE DEF HomeAbove, Above
<1> SUFFICES ASSUME NEW c \in Planned
             PROVE  c \in Cand /\ Promised(c) /\ c.chain \cap sweep.sees # {}
  OBVIOUS
<1>1. PICK d \in UNION {Proposed(r) : r \in Walked} : c = [node |-> d, chain |-> Above[d]]
  BY DEF Planned
<1>2. PICK r \in Walked : d \in Proposed(r)
  BY <1>1
<1>3. /\ d \in Dirs /\ d \in site.match /\ r \in Above[d]
      /\ (Between(r, d) \cup {r}) \cap site.pinned = {}
      /\ r \in site.roots /\ Stands(r) /\ r \in sweep.sees
  BY <1>2 DEF Proposed, Reached, Walked, Contained
<1>4. Above[d] \subseteq Dirs
  BY <1>3, AboveUp, AboveNow DEF Types, WorldOK, Nodes
<1>5. Above[r] = HomeAbove[r]
  BY <1>3, <1>4, StandingPath, AboveNow DEF Types, WorldOK
<1>6. ({d} \cup Above[d]) \ HomeAbove[r] \subseteq Between(r, d) \cup {r}
  BY <1>5 DEF Between
<1>7. Promised(c)
  BY <1>1, <1>3, <1>6 DEF Promised
<1> QED BY <1>1, <1>3, <1>4, <1>7 DEF Cand

LEMMA InitInv == Init => Inv
<1> HIDE DEF HomeAbove
<1> SUFFICES ASSUME Init PROVE Inv
  OBVIOUS
<1>1. Types
  BY DEF Init, Types, SweepOK, Sweeps, DoctorOK, IdleSweep, IdleDoctor, Modes, Nodes
<1>2. PICK absent \in {{}, {Q}} :
         /\ \A d \in Dirs : Q \in HomeAbove[d] => absent = {}
         /\ up = [n \in Nodes |-> IF n \in absent \cup {Scratch} THEN Gone ELSE Home[n]]
         /\ lost = absent
  BY DEF Init
<1>3. Q \in Dirs /\ Path \subseteq Dirs /\ 0 \notin Dirs /\ Gone \notin Dirs \cup {0}
      /\ Scratch \notin Dirs /\ \A d \in Dirs : Home[d] \in Dirs \cup {0}
  BY QIsDir, PlacementOK DEF Types, Init, Nodes
<1>4. /\ \A d \in Dirs : up[d] = IF d \in absent THEN Gone ELSE Home[d]
      /\ up[Scratch] = Gone
      /\ up \in [Nodes -> Dirs \cup {0, Gone}]
  BY <1>2, <1>3 DEF Nodes
<1>5. Placed(up)
  BY <1>3, <1>4 DEF Placed
<1>6. ASSUME NEW n \in Nodes, up[n] \in Dirs
      PROVE  up[up[n]] # Gone
  <2>1. n \in Dirs /\ up[n] = Home[n] /\ Home[n] # 0
    BY <1>3, <1>4, <1>6 DEF Nodes
  <2>2. Home[n] \in HomeAbove[n]
    BY <2>1, HomeUp
  <2>3. up[n] \notin absent
    BY <1>2, <2>1, <2>2
  <2> QED BY <1>3, <1>4, <1>6, <2>3
<1>7. lost \subseteq Dirs /\ \A d \in lost : up[d] = Gone
  BY <1>2, <1>3, <1>4
<1>8. ASSUME NEW d \in Path \ lost
      PROVE  StandsIn(up, d)
  <2>1. d \in Dirs /\ Q \notin HomeAbove[d] /\ HomeAbove[d] \subseteq Dirs
    BY <1>1, <1>3, PathUp, HomeUp DEF Types
  <2> QED BY <1>2, <1>4, <1>8, <2>1 DEF StandsIn
<1>9. \A d \in Dirs \ lost : up[d] = Home[d]
  BY <1>2, <1>4
<1>10. WorldOK(up, lost)
  BY <1>5, <1>6, <1>7, <1>8, <1>9 DEF WorldOK
<1>11. sweep.cands = {}
  BY DEF Init, IdleSweep
<1> QED BY <1>1, <1>10, <1>11 DEF Inv

\* Types: the sweep's steps; those of the doctor and of the world.
LEMMA SweepSteps ==
    ASSUME SweepOK(sweep), Sweep,
           \A c \in Planned : c \in Cand /\ c.chain \cap sweep.sees # {}
    PROVE  SweepOK(sweep')
<1> HIDE DEF HomeAbove, Above
<1>1. ASSUME Load
      PROVE  SweepOK(sweep')
  <2>1. sweep' \in Sweeps
    BY <1>1 DEF SweepOK, Sweeps, Load, IdleSweep
  <2>2. \A c \in sweep'.cands : c.chain \cap sweep'.sees # {}
    BY <1>1 DEF SweepOK, Sweeps, Load, IdleSweep
  <2>3. /\ sweep'.staged \subseteq {c.node : c \in sweep'.cands}
        /\ sweep'.pc \in {"idle", "plan"} => sweep'.staged = {} /\ sweep'.cands = {}
    BY <1>1 DEF SweepOK, Sweeps, Load, IdleSweep, At
  <2>4. /\ sweep'.pc = "recover" => sweep'.todo \subseteq Nodes
        /\ sweep'.pc = "stage" => sweep'.todo \subseteq sweep'.cands
        /\ sweep'.pc = "drain" => sweep'.todo \subseteq sweep'.staged
        /\ sweep'.pc \in {"idle", "plan", "open", "list", "done"} => sweep'.todo = {}
    BY <1>1 DEF SweepOK, Sweeps, Load, IdleSweep, At
  <2> QED BY <2>1, <2>2, <2>3, <2>4 DEF SweepOK
<1>2. ASSUME Select
      PROVE  SweepOK(sweep')
  <2>1. sweep' \in Sweeps
    BY <1>2 DEF SweepOK, Sweeps, Select, WalkError, At
  <2>2. \A c \in sweep'.cands : c.chain \cap sweep'.sees # {}
    BY <1>2 DEF SweepOK, Sweeps, Select, WalkError, At
  <2>3. /\ sweep'.staged \subseteq {c.node : c \in sweep'.cands}
        /\ sweep'.pc \in {"idle", "plan"} => sweep'.staged = {} /\ sweep'.cands = {}
    BY <1>2 DEF SweepOK, Sweeps, Select, WalkError, At
  <2>4. /\ sweep'.pc = "recover" => sweep'.todo \subseteq Nodes
        /\ sweep'.pc = "stage" => sweep'.todo \subseteq sweep'.cands
        /\ sweep'.pc = "drain" => sweep'.todo \subseteq sweep'.staged
        /\ sweep'.pc \in {"idle", "plan", "open", "list", "done"} => sweep'.todo = {}
    BY <1>2 DEF SweepOK, Sweeps, Select, WalkError, At
  <2> QED BY <2>1, <2>2, <2>3, <2>4 DEF SweepOK
<1>3. ASSUME Open
      PROVE  SweepOK(sweep')
  <2>1. sweep' \in Sweeps
    BY <1>3 DEF SweepOK, Sweeps, Open, Refuse
  <2>2. \A c \in sweep'.cands : c.chain \cap sweep'.sees # {}
    BY <1>3 DEF SweepOK, Sweeps, Open, Refuse
  <2>3. /\ sweep'.staged \subseteq {c.node : c \in sweep'.cands}
        /\ sweep'.pc \in {"idle", "plan"} => sweep'.staged = {} /\ sweep'.cands = {}
    BY <1>3 DEF SweepOK, Sweeps, Open, Refuse, At
  <2>4. /\ sweep'.pc = "recover" => sweep'.todo \subseteq Nodes
        /\ sweep'.pc = "stage" => sweep'.todo \subseteq sweep'.cands
        /\ sweep'.pc = "drain" => sweep'.todo \subseteq sweep'.staged
        /\ sweep'.pc \in {"idle", "plan", "open", "list", "done"} => sweep'.todo = {}
    BY <1>3 DEF SweepOK, Sweeps, Open, Refuse, At
  <2> QED BY <2>1, <2>2, <2>3, <2>4 DEF SweepOK
<1>4. ASSUME ListQuarantine
      PROVE  SweepOK(sweep')
  <2>1. sweep' \in Sweeps
    BY <1>4 DEF SweepOK, Sweeps, ListQuarantine
  <2>2. \A c \in sweep'.cands : c.chain \cap sweep'.sees # {}
    BY <1>4 DEF SweepOK, Sweeps, ListQuarantine
  <2>3. /\ sweep'.staged \subseteq {c.node : c \in sweep'.cands}
        /\ sweep'.pc \in {"idle", "plan"} => sweep'.staged = {} /\ sweep'.cands = {}
    BY <1>4 DEF SweepOK, Sweeps, ListQuarantine, At
  <2>4. /\ sweep'.pc = "recover" => sweep'.todo \subseteq Nodes
        /\ sweep'.pc = "stage" => sweep'.todo \subseteq sweep'.cands
        /\ sweep'.pc = "drain" => sweep'.todo \subseteq sweep'.staged
        /\ sweep'.pc \in {"idle", "plan", "open", "list", "done"} => sweep'.todo = {}
    BY <1>4 DEF SweepOK, Sweeps, ListQuarantine, At
  <2> QED BY <2>1, <2>2, <2>3, <2>4 DEF SweepOK
<1>5. ASSUME RecoverEntry
      PROVE  SweepOK(sweep')
  <2>1. sweep' \in Sweeps
    <3>1. PICK n \in sweep.todo, raced \in BOOLEAN :
             sweep' = [sweep EXCEPT !.todo = @ \ {n},
                          !.errors = @ \/ raced \/ (up[n] = Q /\ Remains(n) # {})]
      BY <1>5 DEF RecoverEntry
    <3>2. (sweep.errors \/ raced \/ (up[n] = Q /\ Remains(n) # {})) \in BOOLEAN
      OBVIOUS
    <3> HIDE DEF Remains
    <3> QED BY <3>1, <3>2 DEF SweepOK, Sweeps
  <2>2. \A c \in sweep'.cands : c.chain \cap sweep'.sees # {}
    BY <1>5 DEF SweepOK, Sweeps, RecoverEntry
  <2>3. /\ sweep'.staged \subseteq {c.node : c \in sweep'.cands}
        /\ sweep'.pc \in {"idle", "plan"} => sweep'.staged = {} /\ sweep'.cands = {}
    BY <1>5 DEF SweepOK, Sweeps, RecoverEntry, At
  <2>4. /\ sweep'.pc = "recover" => sweep'.todo \subseteq Nodes
        /\ sweep'.pc = "stage" => sweep'.todo \subseteq sweep'.cands
        /\ sweep'.pc = "drain" => sweep'.todo \subseteq sweep'.staged
        /\ sweep'.pc \in {"idle", "plan", "open", "list", "done"} => sweep'.todo = {}
    BY <1>5 DEF SweepOK, Sweeps, RecoverEntry, At
  <2> QED BY <2>1, <2>2, <2>3, <2>4 DEF SweepOK
<1>6. ASSUME Verify
      PROVE  SweepOK(sweep')
  <2>1. CASE sweep' = [sweep EXCEPT !.pc = "stage", !.todo = sweep.cands]
    BY <2>1 DEF SweepOK, Sweeps
  <2>2. CASE Refuse /\ sweep.todo = {} /\ At("recover")
    BY <2>2 DEF SweepOK, Sweeps, Refuse, At
  <2> QED BY <1>6, <2>1, <2>2 DEF Verify
<1>7. ASSUME Stage
      PROVE  SweepOK(sweep')
  <2>1. PICK c \in sweep.todo :
           \/ sweep' = [sweep EXCEPT !.todo = @ \ {c}, !.staged = @ \cup {c.node}]
           \/ sweep' = [sweep EXCEPT !.todo = @ \ {c}, !.errors = TRUE]
    BY <1>7 DEF Stage
  <2>2. sweep.pc = "stage" /\ c \in sweep.cands
    BY <1>7 DEF Stage, At, SweepOK
  <2>3. c.node \in Dirs
    BY <2>2 DEF SweepOK, Sweeps, Cand
  <2>4. CASE sweep' = [sweep EXCEPT !.todo = @ \ {c}, !.staged = @ \cup {c.node}]
    BY <2>2, <2>3, <2>4 DEF SweepOK, Sweeps
  <2>5. CASE sweep' = [sweep EXCEPT !.todo = @ \ {c}, !.errors = TRUE]
    BY <2>2, <2>5 DEF SweepOK, Sweeps
  <2> QED BY <2>1, <2>4, <2>5
<1>8. ASSUME StageEnd
      PROVE  SweepOK(sweep')
  <2>1. sweep' \in Sweeps
    BY <1>8 DEF SweepOK, Sweeps, StageEnd, Nodes
  <2>2. \A c \in sweep'.cands : c.chain \cap sweep'.sees # {}
    BY <1>8 DEF SweepOK, Sweeps, StageEnd, Nodes
  <2>3. /\ sweep'.staged \subseteq {c.node : c \in sweep'.cands}
        /\ sweep'.pc \in {"idle", "plan"} => sweep'.staged = {} /\ sweep'.cands = {}
    BY <1>8 DEF SweepOK, Sweeps, StageEnd, Nodes, At
  <2>4. /\ sweep'.pc = "recover" => sweep'.todo \subseteq Nodes
        /\ sweep'.pc = "stage" => sweep'.todo \subseteq sweep'.cands
        /\ sweep'.pc = "drain" => sweep'.todo \subseteq sweep'.staged
        /\ sweep'.pc \in {"idle", "plan", "open", "list", "done"} => sweep'.todo = {}
    BY <1>8 DEF SweepOK, Sweeps, StageEnd, Nodes, At
  <2> QED BY <2>1, <2>2, <2>3, <2>4 DEF SweepOK
<1>9. ASSUME Drain
      PROVE  SweepOK(sweep')
  <2>1. PICK n \in sweep.todo, e \in BOOLEAN :
           sweep' = [sweep EXCEPT !.todo = @ \ {n}, !.errors = @ \/ e]
    BY <1>9 DEF Drain
  <2>2. sweep.pc = "drain"
    BY <1>9 DEF Drain, At
  <2> QED BY <2>1, <2>2 DEF SweepOK, Sweeps
<1>10. ASSUME Report
      PROVE  SweepOK(sweep')
  <2>1. sweep' \in Sweeps
    BY <1>10 DEF SweepOK, Sweeps, Report
  <2>2. \A c \in sweep'.cands : c.chain \cap sweep'.sees # {}
    BY <1>10 DEF SweepOK, Sweeps, Report
  <2>3. /\ sweep'.staged \subseteq {c.node : c \in sweep'.cands}
        /\ sweep'.pc \in {"idle", "plan"} => sweep'.staged = {} /\ sweep'.cands = {}
    BY <1>10 DEF SweepOK, Sweeps, Report, At
  <2>4. /\ sweep'.pc = "recover" => sweep'.todo \subseteq Nodes
        /\ sweep'.pc = "stage" => sweep'.todo \subseteq sweep'.cands
        /\ sweep'.pc = "drain" => sweep'.todo \subseteq sweep'.staged
        /\ sweep'.pc \in {"idle", "plan", "open", "list", "done"} => sweep'.todo = {}
    BY <1>10 DEF SweepOK, Sweeps, Report, At
  <2> QED BY <2>1, <2>2, <2>3, <2>4 DEF SweepOK
<1> QED BY <1>1, <1>2, <1>3, <1>4, <1>5, <1>6, <1>7, <1>8, <1>9, <1>10 DEF Sweep

LEMMA SweepTypes ==
    ASSUME Types, WorldOK(up, lost), Sweep
    PROVE  Types'
<1> HIDE DEF HomeAbove, Above
<1>1. SweepOK(sweep')
  BY PlannedIsPromised, SweepSteps DEF Types
<1>2. UNCHANGED <<site, doctor>> /\ quiet' \subseteq {"sweep", "doctor"}
  BY DEF Types, Sweep, Load, Select, Open, ListQuarantine, RecoverEntry, Verify, Stage, StageEnd,
         Drain, Report, WorldSame
<1>3. mode' \in [Nodes -> Modes] /\ mode'[Scratch] = "open"
  <2>1. UNCHANGED mode \/ Ensure
    BY DEF Sweep, Load, Select, Open, ListQuarantine, RecoverEntry, Verify, Stage, StageEnd,
           Drain, Report, WorldSame
  <2> QED BY <2>1 DEF Types, Ensure, Modes, Nodes
<1>4. SweepOK(sweep)' /\ DoctorOK(doctor)'
  BY <1>1, <1>2 DEF SweepOK, Sweeps, DoctorOK, Types
<1> QED BY <1>2, <1>3, <1>4 DEF Types

LEMMA OtherTypes ==
    ASSUME Types, Doctor \/ World
    PROVE  Types'
<1> HIDE DEF HomeAbove, Above
<1>0. site.roots \subseteq Dirs /\ Q \in Dirs /\ DoctorOK(doctor)
  BY QIsDir, PlacementOK DEF Types
<1>1. ASSUME Consult
      PROVE  DoctorOK(doctor')
  BY <1>0, <1>1 DEF DoctorOK, Consult, WorldSame, IdleDoctor, Asks
<1>2. ASSUME Look
      PROVE  DoctorOK(doctor')
  BY <1>0, <1>2 DEF DoctorOK, Look, WorldSame, Asks
<1>3. ASSUME EnsureQuarantine
      PROVE  DoctorOK(doctor')
  BY <1>0, <1>3 DEF DoctorOK, EnsureQuarantine, Ensure, Asks
<1>4. ASSUME Mkdir
      PROVE  DoctorOK(doctor')
  BY <1>0, <1>4 DEF DoctorOK, Mkdir, WorldSame, Asks
<1>5. ASSUME Rename
      PROVE  DoctorOK(doctor')
  BY <1>0, <1>5 DEF DoctorOK, Rename, WorldSame, Asks
<1>6. ASSUME Clean
      PROVE  DoctorOK(doctor')
  BY <1>0, <1>6 DEF DoctorOK, Clean, WorldSame, Asks
<1>7. ASSUME Verdict
      PROVE  DoctorOK(doctor')
  BY <1>0, <1>7 DEF DoctorOK, Verdict, WorldSame, Asks
<1>8. ASSUME World
      PROVE  DoctorOK(doctor')
  <2>1. doctor' = doctor \/ doctor' = IdleDoctor
    BY <1>8 DEF World, Build, Vanish, Close, CrashSweep, CrashDoctor
  <2>2. DoctorOK(IdleDoctor)
    BY DEF DoctorOK, IdleDoctor
  <2> QED BY <1>0, <2>1, <2>2
<1>9. DoctorOK(doctor')
  BY <1>1, <1>2, <1>3, <1>4, <1>5, <1>6, <1>7, <1>8 DEF Doctor
<1>10. UNCHANGED site /\ sweep' \in {sweep, IdleSweep} /\ quiet' \subseteq {"sweep", "doctor"}
  BY DEF Types, Doctor, Consult, Look, EnsureQuarantine, Mkdir, Rename, Clean, Verdict, WorldSame,
         World, Build, Vanish, Close, CrashSweep, CrashDoctor
<1>11. SweepOK(sweep')
  <2>1. SweepOK(IdleSweep)
    BY DEF SweepOK, Sweeps, IdleSweep
  <2> QED BY <1>10, <2>1 DEF Types
<1>12. mode' \in [Nodes -> Modes] /\ mode'[Scratch] = "open"
  <2>1. \/ UNCHANGED mode \/ Ensure
        \/ \E d \in Dirs, m \in Modes : mode' = [mode EXCEPT ![d] = m]
    BY PlacementOK DEF Doctor, Consult, Look, EnsureQuarantine, Mkdir, Rename, Clean, Verdict,
         WorldSame, World, Build, Vanish, Close, CrashSweep, CrashDoctor, Modes
  <2>2. CASE \E d \in Dirs, m \in Modes : mode' = [mode EXCEPT ![d] = m]
    BY <2>2, PlacementOK DEF Types, Nodes
  <2> QED BY <2>1, <2>2 DEF Types, Ensure, Modes, Nodes
<1>13. SweepOK(sweep)' /\ DoctorOK(doctor)'
  BY <1>9, <1>10, <1>11 DEF SweepOK, Sweeps, DoctorOK
<1> QED BY <1>10, <1>12, <1>13 DEF Types

\* Where directories are, and which are lost.
LEMMA WorldStep ==
    ASSUME Inv, Next
    PROVE  site' = site /\ WorldOK(up', lost')
<1> HIDE DEF HomeAbove, Above
<1>0. /\ Types /\ WorldOK(up, lost) /\ \A c \in sweep.cands : Promised(c)
      /\ site \in Sites /\ Gone \notin Dirs \cup {0} /\ CanBuild \cup CanVanish \subseteq Dirs
      /\ site.roots \subseteq Dirs /\ Q \in Dirs
      /\ \A d \in Dirs : Home[d] \in Dirs \cup {0}
  BY QIsDir, PlacementOK DEF Inv, Types, Nodes
<1>1. CASE UNCHANGED <<site, up, lost>>
  BY <1>0, <1>1
<1>2. CASE Open \/ EnsureQuarantine
  <2>1. site' = site /\ (UNCHANGED <<up, lost>> \/ Ensure)
    BY <1>2 DEF Open, EnsureQuarantine
  <2>2. CASE Ensure
    BY <1>0, <2>1, <2>2, Ensured DEF Ensure
  <2> QED BY <1>0, <2>1, <2>2
<1>3. CASE RecoverEntry \/ Drain
  <2>1. UNCHANGED <<site, lost>> /\ (up' = up \/ \E n \in Nodes : up[n] = Q /\ up' = RemoveFrom(n))
    BY <1>0, <1>3 DEF RecoverEntry, Drain, WorldSame, Types, SweepOK, Sweeps, At, Nodes
  <2> QED BY <1>0, <2>1, Removal
<1>4. CASE Stage
  <2>1. UNCHANGED <<site, lost>>
        /\ (up' = up \/ \E c \in sweep.todo : CanStage(c) /\ up' = [up EXCEPT ![c.node] = Q])
    BY <1>4 DEF Stage, WorldSame
  <2>2. \A c \in sweep.todo : c \in Cand /\ Promised(c)
    BY <1>0, <1>4 DEF Types, SweepOK, Sweeps, Stage, At
  <2> QED BY <1>0, <2>1, <2>2, Moved
<1>5. CASE Mkdir \/ Rename
  <2>1. UNCHANGED <<site, lost>>
        /\ (up' = up \/ \E r \in site.roots \cup {Q} : Stands(r) /\ up' = [up EXCEPT ![Scratch] = r])
    BY <1>0, <1>5 DEF Mkdir, Rename, CanRename, WorldSame, Types, DoctorOK
  <2>2. \A r \in Dirs : Stands(r) => up[r] # Gone
    BY <1>0 DEF Stands
  <2> QED BY <1>0, <2>1, <2>2, Scratched
<1>6. CASE Clean
  <2>1. UNCHANGED <<site, lost>> /\ (up' = up \/ up' = RemoveFrom(Scratch))
    BY <1>6 DEF Clean, WorldSame
  <2> QED BY <1>0, <2>1, Removal DEF Nodes
<1>7. CASE \E d \in CanBuild : Build(d)
  BY <1>0, <1>7, Built DEF Build
<1>8. CASE \E d \in CanVanish : Vanish(d)
  BY <1>0, <1>8, Vanished DEF Vanish
<1>9. CASE Load \/ Select \/ ListQuarantine \/ Verify \/ StageEnd \/ Report
  BY <1>1, <1>9 DEF Load, Select, ListQuarantine, Verify, StageEnd, Report, WorldSame
<1>10. CASE Consult \/ Look \/ Verdict
  BY <1>1, <1>10 DEF Consult, Look, Verdict, WorldSame
<1>11. CASE (\E d \in CanClose : Close(d)) \/ CrashSweep \/ CrashDoctor
  BY <1>1, <1>11 DEF Close, CrashSweep, CrashDoctor
<1> QED BY <1>2, <1>3, <1>4, <1>5, <1>6, <1>7, <1>8, <1>9, <1>10, <1>11
        DEF Next, Sweep, Doctor, World

LEMMA InvStep == Inv /\ [Next]_vars => Inv'
<1> HIDE DEF HomeAbove, Above
<1> SUFFICES ASSUME Inv, [Next]_vars PROVE Inv'
  OBVIOUS
<1>1. CASE Next
  <2>1. Types'
    BY <1>1, SweepTypes, OtherTypes DEF Inv, Next
  <2>2. site' = site /\ WorldOK(up', lost')
    BY <1>1, WorldStep
  <2>3. WorldOK(up, lost)'
    BY <2>2 DEF WorldOK, Placed, StandsIn, Excused, Good, Path, Q
  <2>4. \A c \in sweep'.cands : Promised(c)
    <3>1. sweep'.cands \subseteq sweep.cands \cup Planned
      <4>1. sweep'.cands \subseteq sweep.cands \cup Planned \/ sweep' = IdleSweep \/ sweep' = sweep
        BY <1>1 DEF Inv, Types, SweepOK, Sweeps, Next, Sweep, Load, Select, Open, ListQuarantine,
             RecoverEntry, Verify, Stage, StageEnd, Drain, Report, Refuse, IdleSweep, Doctor,
             Consult, Look, EnsureQuarantine, Mkdir, Rename, Clean, Verdict, World, Build, Vanish,
             Close, CrashSweep, CrashDoctor
      <4> QED BY <4>1 DEF IdleSweep
    <3> QED BY <3>1, PlannedIsPromised DEF Inv
  <2>5. (\A c \in sweep.cands : Promised(c))'
    BY <2>2, <2>4 DEF Promised
  <2> QED BY <2>1, <2>3, <2>5 DEF Inv
<1>2. CASE UNCHANGED vars
  BY <1>2 DEF Inv, Types, SweepOK, Sweeps, DoctorOK, WorldOK, Placed, StandsIn, Excused, Good, Path, Q, Promised, vars
<1> QED BY <1>1, <1>2

LEMMA PlacementInv == Spec => []Inv
BY InitInv, InvStep, PTL DEF Spec

\* What the variables hold, and what a step has still to do.
THEOREM PlacementTypes == Spec => []TypeOK
<1>1. Inv => TypeOK
  <2> HIDE DEF HomeAbove, Above
  <2> SUFFICES ASSUME Inv PROVE TypeOK
    OBVIOUS
  <2>1. up \in [Nodes -> Nodes \cup {0, Gone}] /\ \A d \in Dirs : up[d] \in {Home[d], Q, Gone}
    BY DEF Inv, WorldOK, Placed, Nodes
  <2> QED BY <2>1 DEF Inv, Types, SweepOK, Sweeps, DoctorOK, WorldOK, TypeOK, At
<1> QED BY <1>1, PlacementInv, PTL

\* Nothing outside the quarantine is taken away but what a rule matches strictly
\* below a root, with no marker from the root down to the match.
THEOREM NothingElseTaken == Spec => []OnlyMatchesTaken
<1>1. Inv => OnlyMatchesTaken
  <2> HIDE DEF HomeAbove
  <2> QED BY DEF Inv, WorldOK, OnlyMatchesTaken, Excused, Good
<1> QED BY <1>1, PlacementInv, PTL

\* The quarantine and what it stands in are never staged or removed.
THEOREM NothingTakesTheQuarantine == Spec => []QuarantineStays
<1>1. Inv => QuarantineStays
  <2> HIDE DEF HomeAbove
  <2> QED BY AboveNow DEF Inv, WorldOK, QuarantineStays, Path
<1> QED BY <1>1, PlacementInv, PTL

-----------------------------------------------------------------------------
(* While nobody but sweep and doctor changes anything. *)

QuietStep == Sweep \/ Doctor \/ CrashSweep \/ CrashDoctor

\* Of the way to the quarantine, what exists stands.
LEMMA PathThere ==
    ASSUME Inv, NEW d \in Path
    PROVE  /\ d \in Dirs
           /\ Stands(d) <=> up[d] # Gone
           /\ Stands(d) <=> d \notin lost
<1> HIDE DEF HomeAbove
<1>1. d \in Dirs /\ Home[d] # Gone
  BY QIsDir, PlacementOK DEF Inv, Types, Nodes
<1> QED BY <1>1, AboveNow DEF Inv, WorldOK, Stands

\* What exists, and not in the quarantine, stands.
LEMMA OutsideStands ==
    ASSUME Inv, NEW d \in Dirs, up[d] # Gone, Q \notin Above[d]
    PROVE  Stands(d)
<1> HIDE DEF HomeAbove
<1>0. site \in Sites /\ WorldOK(up, lost) /\ Placed(up)
  BY DEF Inv, Types, WorldOK
<1> DEFINE Bad == {e \in Dirs : up[e] # Gone /\ ~ Stands(e) /\ Q \notin Above[e]}
<1>1. SUFFICES ASSUME Bad # {} PROVE FALSE
  OBVIOUS
<1>2. Bad \subseteq Nat
  BY PlacementOK
<1>3. PICK e \in Bad : \A x \in Bad : e <= x
  BY <1>1, <1>2, LeastNumber
<1>4. Above[e] = IF up[e] \in {0, Gone} THEN {} ELSE {up[e]} \cup Above[up[e]]
  BY <1>0, <1>3, AboveUp, AboveNow DEF Nodes
<1>5. up[e] = Home[e]
  <2>1. Q \notin {0, Gone}
    BY <1>0, QIsDir, PlacementOK DEF Nodes
  <2> QED BY <1>0, <1>3, <1>4, <2>1 DEF Placed
<1>6. Home[e] # 0 /\ Home[e] \in Dirs /\ HomeAbove[e] = {Home[e]} \cup HomeAbove[Home[e]]
  BY <1>3, <1>5, HomeUp DEF Stands
<1>7. up[Home[e]] # Gone
  BY <1>0, <1>3, <1>5, <1>6 DEF WorldOK, Nodes
<1>8. ~ Stands(Home[e])
  BY <1>3, <1>5, <1>6 DEF Stands
<1>9. Q \notin Above[Home[e]]
  BY <1>3, <1>4, <1>5, <1>6
<1>10. Home[e] \in Bad
  BY <1>6, <1>7, <1>8, <1>9
<1>11. Home[e] < e /\ e \in Nat /\ Home[e] \in Nat
  BY <1>2, <1>3, <1>10, PlacementOK
<1> QED BY <1>3, <1>10, <1>11

LEMMA DoctorWorld ==
    ASSUME Inv, Doctor \/ CrashDoctor
    PROVE  /\ site' = site /\ lost' \subseteq lost
           /\ (mode' = mode /\ \A d \in Dirs : up'[d] = up[d]) \/ Ensure
<1> HIDE DEF HomeAbove, Above
<1>0. /\ Placed(up) /\ site \in Sites /\ Scratch \notin Dirs /\ Nodes = Dirs \cup {Scratch}
  BY PlacementOK DEF Inv, Types, WorldOK, Nodes
<1>1. CASE UNCHANGED <<site, up, mode, lost>>
  BY <1>1
<1>2. CASE EnsureQuarantine
  <2>1. UNCHANGED <<site, up, mode, lost>> \/ (site' = site /\ Ensure)
    BY <1>2 DEF EnsureQuarantine
  <2> QED BY <1>1, <2>1 DEF Ensure
<1>3. CASE Mkdir \/ Rename
  <2>1. /\ UNCHANGED <<site, mode, lost>>
        /\ up' = up \/ \E r \in Nodes \cup site.roots : up' = [up EXCEPT ![Scratch] = r]
    BY <1>0, <1>3, QIsDir DEF Mkdir, Rename, WorldSame, Inv, Types, DoctorOK
  <2> QED BY <1>0, <2>1 DEF Placed
<1>4. CASE Clean
  <2>1. UNCHANGED <<site, mode, lost>> /\ (up' = up \/ up' = RemoveFrom(Scratch))
    BY <1>4 DEF Clean, WorldSame
  <2>2. \A d \in Dirs : d \notin Tree(Scratch)
    BY <1>0, AboveUp, AboveNow DEF Tree
  <2> QED BY <1>0, <2>1, <2>2 DEF RemoveFrom
<1>5. CASE Consult \/ Look \/ Verdict \/ CrashDoctor
  BY <1>1, <1>5 DEF Consult, Look, Verdict, WorldSame, CrashDoctor
<1> QED BY <1>2, <1>3, <1>4, <1>5 DEF Doctor

LEMMA QuietWorld ==
    ASSUME Inv, QuietStep
    PROVE  /\ site' = site /\ lost' \subseteq lost
           /\ \/ mode' = mode /\ \A d \in Dirs : up'[d] = up[d]
              \/ Ensure
              \/ mode' = mode /\ \E n \in Nodes : up[n] = Q /\ up' = RemoveFrom(n)
              \/ /\ mode' = mode /\ Stage
                 /\ \E c \in sweep.todo : CanStage(c) /\ up' = [up EXCEPT ![c.node] = Q]
<1> HIDE DEF HomeAbove, Above
<1>0. SweepOK(sweep) /\ Nodes = Dirs \cup {Scratch}
  BY DEF Inv, Types, Nodes
<1>1. CASE UNCHANGED <<site, up, mode, lost>>
  BY <1>1
<1>2. CASE Open
  <2>1. UNCHANGED <<site, up, mode, lost>> \/ (site' = site /\ Ensure)
    BY <1>2 DEF Open
  <2> QED BY <1>1, <2>1 DEF Ensure
<1>3. CASE RecoverEntry \/ Drain
  <2>1. /\ UNCHANGED <<site, mode, lost>>
        /\ up' = up \/ \E n \in Nodes : up[n] = Q /\ up' = RemoveFrom(n)
    BY <1>0, <1>3 DEF RecoverEntry, Drain, WorldSame, SweepOK, Sweeps, At
  <2> QED BY <2>1
<1>4. CASE Stage
  BY <1>4 DEF Stage, WorldSame
<1>5. CASE Doctor \/ CrashDoctor
  BY <1>5, DoctorWorld
<1>6. CASE Load \/ Select \/ ListQuarantine \/ Verify \/ StageEnd \/ Report \/ CrashSweep
  BY <1>1, <1>6 DEF Load, Select, ListQuarantine, Verify, StageEnd, Report, WorldSame, CrashSweep
<1> QED BY <1>2, <1>3, <1>4, <1>5, <1>6 DEF QuietStep, Sweep

\* What is removed from the quarantine was in it.
LEMMA RemovalSpares ==
    ASSUME Inv, NEW n \in Nodes, up[n] = Q, NEW d \in Dirs, Stands(d), Q \notin HomeAbove[d]
    PROVE  RemoveFrom(n)[d] = up[d]
<1> HIDE DEF HomeAbove
<1> QED BY BelowQ DEF Inv, Types, WorldOK, RemoveFrom, Nodes

\* What stands outside the quarantine goes on standing, unless it is staged with
\* a candidate.
LEMMA QuietStands ==
    ASSUME Inv, QuietStep, NEW d \in Dirs, Stands(d), Q \notin HomeAbove[d],
           Stage => \A c \in sweep.todo : CanStage(c) => c.node \notin {d} \cup HomeAbove[d]
    PROVE  StandsIn(up', d)
<1> HIDE DEF HomeAbove, Above
<1> DEFINE W == {d} \cup HomeAbove[d]
<1>1. \A a \in W : a \in Dirs /\ Stands(a) /\ Q \notin HomeAbove[a] /\ up[a] = Home[a]
  BY HomeUp DEF Stands
<1>2. SUFFICES \A a \in W : up'[a] = up[a]
  BY <1>1 DEF Stands, StandsIn
<1>3. CASE \A a \in Dirs : up'[a] = up[a]
  BY <1>1, <1>3
<1>4. CASE Ensure
  BY <1>1, <1>4 DEF Ensure, Missing, Nodes
<1>5. CASE \E n \in Nodes : up[n] = Q /\ up' = RemoveFrom(n)
  BY <1>1, <1>5, RemovalSpares
<1>6. CASE Stage /\ \E c \in sweep.todo : CanStage(c) /\ up' = [up EXCEPT ![c.node] = Q]
  <2>1. PICK c \in sweep.todo : CanStage(c) /\ up' = [up EXCEPT ![c.node] = Q]
    BY <1>6
  <2>2. c.node \notin W
    BY <1>6, <2>1
  <2> QED BY <1>1, <2>1, <2>2 DEF Inv, WorldOK, Placed, Nodes
<1> QED BY <1>3, <1>4, <1>5, <1>6, QuietWorld

LEMMA QuietPath ==
    ASSUME Inv, QuietStep, NEW d \in Path, Stands(d)
    PROVE  StandsIn(up', d)
<1> HIDE DEF HomeAbove, Above
<1>1. WorldOK(up', lost') /\ lost' \subseteq lost
  BY WorldStep, QuietWorld DEF QuietStep, Next, World
<1>2. d \in Path \ lost'
  BY <1>1, PathThere
<1> QED BY <1>1, <1>2 DEF WorldOK

\* Modes change where the way to the quarantine is made.
LEMMA QuietMode ==
    ASSUME Inv, QuietStep, NEW d \in Dirs
    PROVE  mode'[d] = mode[d] \/ (d \in Path /\ up[d] = Gone /\ mode'[d] = "open")
<1> HIDE DEF HomeAbove, Above
<1>1. CASE mode' = mode
  BY <1>1
<1>2. CASE Ensure
  <2>1. d \in Missing => d \in Path /\ up[d] = Gone
    BY PathThere DEF Missing, Path
  <2> QED BY <1>2, <2>1 DEF Ensure, Nodes
<1> QED BY <1>1, <1>2, QuietWorld

\* And nothing else comes to stand.
LEMMA QuietNew ==
    ASSUME Inv, QuietStep, NEW d \in Dirs, ~ Stands(d), StandsIn(up', d)
    PROVE  d \in Path /\ mode'[d] = "open"
<1> HIDE DEF HomeAbove, Above
<1> DEFINE W == {d} \cup HomeAbove[d]
<1>1. W \subseteq Dirs /\ \A a \in W : up'[a] = Home[a] /\ Home[a] # Gone
  BY HomeUp, PlacementOK DEF StandsIn, Nodes
<1>2. ASSUME \A a \in W : up'[a] # up[a] => up[a] = Home[a]
      PROVE  FALSE
  BY <1>1, <1>2 DEF Stands
<1>3. CASE \A a \in Dirs : up'[a] = up[a]
  BY <1>1, <1>2, <1>3
<1>4. CASE Ensure
  <2>1. CASE d \in Missing
    BY <1>4, <2>1 DEF Ensure, Missing, Path, Nodes
  <2>2. CASE d \notin Missing
    <3> DEFINE C == {a \in W : up[a] = Home[a]}
    <3>1. \A a \in Missing : up[a] = Gone
      BY PathThere DEF Missing, Path
    <3>2. d \in C
      BY <1>1, <1>4, <2>2 DEF Ensure, Nodes
    <3>3. ASSUME NEW a \in C, Home[a] # 0
          PROVE  Home[a] \in C
      <4>1. Home[a] \in W /\ Home[a] \in Dirs
        <5>1. a \in Dirs /\ HomeAbove[a] \subseteq HomeAbove[d]
          BY <1>1, HomeUp
        <5>2. Home[a] \in HomeAbove[a] /\ Home[a] \in Dirs
          BY <3>3, <5>1, HomeUp
        <5> QED BY <5>1, <5>2
      <4>2. up[Home[a]] # Gone
        BY <1>1, <3>3, <4>1 DEF Inv, WorldOK, Nodes
      <4>3. Home[a] \notin Missing
        BY <3>1, <4>2
      <4>4. up'[Home[a]] = up[Home[a]]
        BY <1>4, <4>1, <4>3 DEF Ensure, Nodes
      <4> QED BY <1>1, <4>1, <4>4
    <3>4. HomeAbove[d] \subseteq C
      <4>1. Follows(C, Home, Dirs, {0}) /\ (Home[d] \notin {0} => Home[d] \in C)
        BY <3>2, <3>3 DEF Follows
      <4> HIDE DEF C
      <4> QED BY <4>1, HomeIs, WayWithin
    <3> QED BY <3>2, <3>4 DEF Stands
  <2> QED BY <2>1, <2>2
<1>5. CASE \E n \in Nodes : up[n] = Q /\ up' = RemoveFrom(n)
  <2>1. \A a \in Nodes : up'[a] \in {up[a], Gone}
    BY <1>5 DEF RemoveFrom
  <2> QED BY <1>1, <1>2, <2>1 DEF Nodes
<1>6. CASE Stage /\ \E c \in sweep.todo : CanStage(c) /\ up' = [up EXCEPT ![c.node] = Q]
  <2>1. PICK c \in sweep.todo : CanStage(c) /\ up' = [up EXCEPT ![c.node] = Q]
    BY <1>6
  <2>2. \A a \in Dirs : up'[a] # up[a] => a = c.node /\ up'[a] = Q
    BY <2>1 DEF Inv, WorldOK, Placed, Nodes
  <2>3. up[c.node] # Gone
    BY <2>1 DEF CanStage
  <2>4. \A a \in Dirs : up[a] \in {Home[a], Q, Gone}
    BY DEF Inv, WorldOK, Placed
  <2> QED BY <1>1, <1>2, <2>2, <2>3, <2>4
<1> QED BY <1>3, <1>4, <1>5, <1>6, QuietWorld

-----------------------------------------------------------------------------
(* The arrangement of the documentation, and what it was before the way to the *)
(* quarantine was made.                                                        *)

Settled ==
    /\ \A r \in site.roots : HomeAbove[r] \cap site.roots = {} /\ Q \notin HomeAbove[r] \cup {r}
    /\ site.foreign = {} /\ site.stubborn = {}
    /\ \A d \in Dirs : mode[d] = "open" \/ (d \in Path /\ up[d] = Gone)

LEMMA SettledBefore ==
    ASSUME Inv, QuietStep, Settled'
    PROVE  Settled
<1> HIDE DEF HomeAbove, Above
<1>1. site' = site
  BY QuietWorld
<1>2. ASSUME NEW d \in Dirs, mode[d] # "open"
      PROVE  d \in Path /\ up[d] = Gone
  <2>1. CASE mode'[d] = mode[d]
    <3>1. d \in Path /\ up'[d] = Gone
      BY <1>1, <1>2, <2>1 DEF Settled, Path, Q
    <3>2. ~ StandsIn(up', d)
      <4>1. Home[d] # Gone
        BY PlacementOK DEF Nodes
      <4> QED BY <3>1, <4>1 DEF StandsIn
    <3> QED BY <3>1, <3>2, QuietPath, PathThere
  <2> QED BY <2>1, QuietMode
<1> QED BY <1>1, <1>2 DEF Settled, Q

\* There, whatever exists is open, and can be renamed and removed.
LEMMA SettledOpen ==
    ASSUME Inv, Settled, NEW n \in Nodes, up[n] # Gone
    PROVE  mode[n] = "open"
<1> HIDE DEF HomeAbove, Above
<1> QED BY DEF Inv, Types, Settled, Nodes

LEMMA SettledEnsure ==
    ASSUME Inv, Settled
    PROVE  ~ CannotEnsure /\ ~ (Stands(Q) /\ mode[Q] \in {"sealed", "jammed"})
<1> HIDE DEF HomeAbove, Above
<1>1. Q \in Path /\ Q \in Dirs
  BY PathThere DEF Path
<1>2. ASSUME NEW d \in Missing, Home[d] \in Dirs \ Missing
      PROVE  mode[Home[d]] # "sealed"
  <2>1. d \in Path /\ d \in Dirs
    BY PathThere DEF Missing, Path
  <2>2. Home[d] \in HomeAbove[d] /\ HomeAbove[d] \subseteq Path
    <3>1. site \in Sites /\ Home[d] # 0
      BY <1>2, PlacementOK DEF Inv, Types
    <3> QED BY <2>1, <3>1, HomeUp, PathUp
  <2>3. Stands(Home[d])
    BY <1>2, <2>2 DEF Missing, Path
  <2>4. up[Home[d]] # Gone
    BY <2>2, <2>3, PathThere
  <2> QED BY <1>2, <2>4, SettledOpen DEF Nodes
<1>3. Stands(Q) => mode[Q] = "open"
  BY <1>1, PathThere, SettledOpen DEF Nodes
<1> QED BY <1>2, <1>3 DEF CannotEnsure

LEMMA SettledRename ==
    ASSUME Inv, Settled, Stands(Q), NEW d \in Dirs, up[d] # Gone
    PROVE  CanRename(d)
<1> HIDE DEF HomeAbove, Above
<1>1. mode[d] = "open" /\ mode[Q] # "sealed"
  BY SettledOpen, SettledEnsure DEF Nodes
<1>2. MountsOn(d) = MountsOn(Q)
  BY DEF MountsOn, Settled
<1> QED BY <1>1, <1>2 DEF CanRename

LEMMA SettledRemains ==
    ASSUME Inv, Settled, NEW n \in Nodes, up[n] = Q
    PROVE  Remains(n) = {}
<1> HIDE DEF HomeAbove, Above
<1>0. site \in Sites /\ Placed(up) /\ Q \in Dirs /\ Gone \notin Dirs
  BY QIsDir, PlacementOK DEF Inv, Types, WorldOK, Nodes
<1>1. ASSUME NEW m \in Tree(n)
      PROVE  m \in Nodes /\ up[m] # Gone
  <2>1. m = n \/ (m \in Nodes /\ n \in Above[m])
    BY DEF Tree
  <2>2. Above[m] = IF up[m] \in {0, Gone} THEN {} ELSE {up[m]} \cup Above[up[m]]
    BY <1>0, <2>1, AboveUp, AboveNow
  <2> QED BY <1>0, <2>1, <2>2
<1>2. ASSUME NEW m \in Tree(n), NEW k \in Tree(m)
      PROVE  k \in Tree(n)
  <2>1. m \in Nodes /\ k \in Nodes /\ (m = n \/ n \in Above[m]) /\ (k = m \/ m \in Above[k])
    BY <1>1 DEF Tree
  <2>2. m \in Above[k] => Above[m] \subseteq Above[k]
    BY <1>0, <2>1, AboveUp, AboveNow
  <2> QED BY <2>1, <2>2 DEF Tree
<1>3. ASSUME NEW k \in Tree(n)
      PROVE  ~ Stuck(k) /\ mode[k] # "shut"
  <2>1. k \in Nodes /\ up[k] # Gone /\ mode[k] = "open"
    BY <1>1, SettledOpen
  <2>2. ASSUME up[k] \in Nodes
        PROVE  mode[up[k]] # "sealed"
    <3>1. up[k] \in Dirs
      BY <1>0, <2>1, <2>2, PlacementOK DEF Placed, Nodes
    <3>2. up[up[k]] # Gone
      BY <2>1, <3>1 DEF Inv, WorldOK
    <3> QED BY <2>2, <3>2, SettledOpen
  <2> QED BY <2>1, <2>2 DEF Stuck, Settled
<1> QED BY <1>2, <1>3 DEF Remains

\* A root that stands is in no candidate, and stays.
LEMMA SettledRoot ==
    ASSUME Inv, QuietStep, Settled, NEW r \in site.roots, Stands(r)
    PROVE  StandsIn(up', r)
<1> HIDE DEF HomeAbove, Above
<1>0. site \in Sites /\ Placed(up) /\ r \in Dirs /\ SweepOK(sweep)
  BY PlacementOK DEF Inv, Types, WorldOK
<1>1. Above[r] = HomeAbove[r]
  BY <1>0, StandingPath, AboveNow
<1>2. ASSUME Stage, NEW c \in sweep.todo, CanStage(c)
      PROVE  c.node \notin {r} \cup HomeAbove[r]
  <2>1. c \in sweep.cands /\ c \in Cand
    BY <1>0, <1>2 DEF SweepOK, Sweeps, Stage, At
  <2>2. PICK s \in c.chain : s \in site.roots
    BY <2>1 DEF Inv, Promised
  <2>3. s \in Above[c.node] /\ c.node \in Nodes
    BY <1>2, <2>1 DEF CanStage, Cand, Nodes
  <2>4. ASSUME c.node \in Above[r] PROVE s \in Above[r]
    <3>1. r \in Nodes
      BY <1>0 DEF Nodes
    <3>2. \A a \in Above[r] : Above[a] \subseteq Above[r]
      BY <1>0, <3>1, AboveUp, AboveNow
    <3> QED BY <2>3, <2>4, <3>2
  <2> QED BY <1>1, <2>2, <2>3, <2>4 DEF Settled
<1> QED BY <1>0, <1>2, QuietStands DEF Settled

-----------------------------------------------------------------------------
(* The doctor there. *)

DoctorWell ==
    /\ doctor.pc \in {"look", "ensure", "test", "rename", "clean"} => ~ doctor.failed
    /\ doctor.pc \in {"ensure", "test", "rename", "clean"} =>
          \A r \in doctor.usable \cup doctor.todo : Stands(r)
    /\ doctor.pc \in {"look", "ensure"} => doctor.todo = {}
    /\ doctor.pc \in {"test", "rename", "clean"} => Stands(Q)
    /\ doctor.pc = "rename" => /\ doctor.root \in site.roots /\ Stands(doctor.root)
                               /\ up[Scratch] = doctor.root
    /\ doctor.pc = "done" /\ doctor.exit = "PARTIAL" => ~ site.git

DoctorInv == "doctor" \in quiet /\ Settled => DoctorWell

\* What the sweep removes or moves is not the scratch directory in its root.
LEMMA ScratchStays ==
    ASSUME Inv, Sweep, Settled, NEW r \in site.roots, Stands(r), up[Scratch] = r
    PROVE  up'[Scratch] = r
<1> HIDE DEF HomeAbove, Above
<1>0. site \in Sites /\ Placed(up) /\ r \in Dirs /\ SweepOK(sweep) /\ Scratch \in Nodes \ Dirs
      /\ 0 \notin Dirs /\ Gone \notin Dirs
  BY PlacementOK DEF Inv, Types, WorldOK, Nodes
<1>1. CASE up' = up
  BY <1>1
<1>2. CASE Open
  <2>1. up' = up \/ (Ensure /\ Missing \subseteq Dirs)
    BY <1>2, PathThere DEF Open, Missing, Path
  <2> QED BY <1>0, <2>1 DEF Ensure
<1>3. CASE RecoverEntry \/ Drain
  <2>1. up' = up \/ \E n \in Nodes : up[n] = Q /\ up' = RemoveFrom(n)
    BY <1>0, <1>3 DEF RecoverEntry, Drain, SweepOK, Sweeps, At, Nodes
  <2>2. ASSUME NEW n \in Nodes, up[n] = Q
        PROVE  Scratch \notin Tree(n)
    <3>1. Above[Scratch] = {r} \cup Above[r]
      BY <1>0, AboveUp, AboveNow
    <3>2. r \in Tree(n) => Q \in HomeAbove[r]
      BY <1>0, <2>2, BelowQ
    <3>3. n # Scratch
      BY <2>2 DEF Settled
    <3> QED BY <1>0, <3>1, <3>2, <3>3 DEF Tree, Settled, Nodes
  <2> QED BY <1>0, <2>1, <2>2 DEF RemoveFrom
<1>4. CASE Stage
  <2>1. up' = up \/ \E c \in sweep.todo : up' = [up EXCEPT ![c.node] = Q]
    BY <1>4 DEF Stage
  <2>2. \A c \in sweep.todo : c.node \in Dirs
    BY <1>0, <1>4 DEF Stage, SweepOK, Sweeps, At, Cand
  <2> QED BY <1>0, <2>1, <2>2 DEF Placed
<1> QED BY <1>1, <1>2, <1>3, <1>4
        DEF Sweep, Load, Select, ListQuarantine, Verify, StageEnd, Report

LEMMA DoctorInvStep ==
    ASSUME Inv, DoctorInv, [Next]_vars
    PROVE  DoctorInv'
<1> HIDE DEF HomeAbove, Above
<1> SUFFICES ASSUME ("doctor" \in quiet)', Settled' PROVE DoctorWell'
  BY DEF DoctorInv
<1>1. CASE UNCHANGED vars
  BY <1>1 DEF vars, DoctorInv, Settled, DoctorWell, Path, Q, Stands
<1>2. CASE Consult
  BY <1>2 DEF Consult, DoctorWell, IdleDoctor
<1>3. CASE CrashDoctor
  BY <1>3 DEF CrashDoctor, DoctorWell, IdleDoctor
<1>4. ASSUME Next, ~ Consult, ~ CrashDoctor
      PROVE  DoctorWell'
  <2>0. QuietStep
    <3>1. ~ (\E d \in Dirs : Build(d) \/ Vanish(d) \/ Close(d))
      BY DEF Build, Vanish, Close
    <3> QED BY <1>4, <3>1, PlacementOK DEF QuietStep, Next, World
  <2>1. "doctor" \in quiet
    BY <1>4, <2>0 DEF QuietStep, Sweep, Load, Select, Open, ListQuarantine, RecoverEntry, Verify,
         Stage, StageEnd, Drain, Report, Doctor, Look, EnsureQuarantine, Mkdir, Rename, Clean,
         Verdict, CrashSweep
  <2>2. Settled /\ DoctorWell /\ site' = site
    BY <2>0, <2>1, SettledBefore, QuietWorld DEF DoctorInv
  <2>3. \A r \in site.roots : Stands(r) => StandsIn(up', r)
    BY <2>0, <2>2, SettledRoot
  <2>4. Stands(Q) => StandsIn(up', Q)
    BY <2>0, QuietPath DEF Path
  <2>5. /\ DoctorOK(doctor) /\ site.roots \subseteq Dirs /\ Q \in Dirs
        /\ \A r \in site.roots : Home[r] # Gone
        /\ up \in [Nodes -> Dirs \cup {0, Gone}] /\ Scratch \in Nodes
    BY QIsDir, PlacementOK DEF Inv, Types, WorldOK, Placed, Nodes
  <2>6. /\ Stands(Q)' <=> StandsIn(up', Q)
        /\ \A r \in Dirs : Stands(r)' <=> StandsIn(up', r)
    BY <2>2 DEF Stands, StandsIn, Q
  <2>7. \A r \in site.roots : Stands(r) => up[r] # Gone /\ mode[r] = "open"
    BY <2>2, <2>5, SettledOpen DEF Stands, Nodes
  <2>8. CASE Sweep \/ CrashSweep
    <3>1. doctor' = doctor
      BY <2>8 DEF CrashSweep, Sweep, Load, Select, Open, ListQuarantine, RecoverEntry, Verify,
           Stage, StageEnd, Drain, Report
    <3>2. doctor.pc = "rename" => up'[Scratch] = doctor.root
      BY <2>2, <2>8, ScratchStays DEF DoctorWell, CrashSweep
    <3>3. \A r \in doctor.usable \cup doctor.todo : r \in site.roots
      BY <2>5 DEF DoctorOK
    <3> QED BY <2>2, <2>3, <2>4, <2>5, <2>6, <3>1, <3>2, <3>3 DEF DoctorWell
  <2>9. CASE Look
    <3>1. /\ doctor'.pc = "ensure" /\ doctor'.usable \subseteq {r \in site.roots : Stands(r)}
          /\ doctor'.todo = doctor.todo
          /\ doctor'.failed = \E r \in site.roots \ doctor'.usable : Stands(r)
          /\ {r \in site.roots : Stands(r)} \subseteq doctor'.usable
      BY <2>5, <2>7, <2>9 DEF Look, DoctorOK
    <3>2. doctor.todo = {}
      BY <2>2, <2>9 DEF Look, Asks, DoctorWell
    <3> QED BY <2>2, <2>3, <2>5, <2>6, <3>1, <3>2 DEF DoctorWell
  <2>10. CASE EnsureQuarantine
    <3>1. Ensure /\ doctor' = [doctor EXCEPT !.pc = "test", !.todo = doctor.usable]
      BY <2>2, <2>10, SettledEnsure DEF EnsureQuarantine
    <3>2. StandsIn(up', Q)
      BY <2>5, <3>1, PathThere DEF Ensure, Missing, StandsIn, Stands, Path, Nodes
    <3> QED BY <2>2, <2>3, <2>5, <2>6, <2>10, <3>1, <3>2
            DEF DoctorWell, DoctorOK, EnsureQuarantine, Asks
  <2>11. CASE Mkdir
    <3>1. PICK r \in doctor.todo :
             IF Stands(r) /\ mode[r] # "sealed"
             THEN /\ up' = [up EXCEPT ![Scratch] = r]
                  /\ doctor' = [doctor EXCEPT !.pc = "rename", !.root = r, !.todo = @ \ {r}]
             ELSE doctor' = [doctor EXCEPT !.failed = TRUE, !.todo = @ \ {r}]
      BY <2>11 DEF Mkdir
    <3>2. doctor.pc = "test" /\ r \in site.roots /\ Stands(r) /\ mode[r] = "open"
      BY <2>2, <2>5, <2>7, <2>11 DEF Mkdir, Asks, DoctorWell, DoctorOK
    <3>3. up'[Scratch] = r /\ doctor' = [doctor EXCEPT !.pc = "rename", !.root = r, !.todo = @ \ {r}]
      BY <2>5, <3>1, <3>2
    <3> QED BY <2>2, <2>3, <2>4, <2>5, <2>6, <3>2, <3>3 DEF DoctorWell, DoctorOK
  <2>12. CASE Rename
    <3>1. /\ doctor.pc = "rename" /\ Stands(Q) /\ doctor.root \in site.roots
          /\ Stands(doctor.root) /\ up[Scratch] = doctor.root
      BY <2>2, <2>12 DEF Rename, Asks, DoctorWell
    <3>2. ScratchThere /\ CanRename(doctor.root)
      BY <2>2, <2>5, <2>7, <3>1, SettledRename DEF ScratchThere
    <3>3. doctor' = [doctor EXCEPT !.pc = "clean", !.root = Q]
      BY <2>12, <3>2 DEF Rename
    <3> QED BY <2>2, <2>3, <2>4, <2>5, <2>6, <3>1, <3>3 DEF DoctorWell, DoctorOK
  <2>13. CASE Clean
    <3>1. doctor' = [doctor EXCEPT !.pc = "test", !.root = 0] /\ doctor.pc = "clean"
      BY <2>13 DEF Clean, Asks
    <3> QED BY <2>2, <2>3, <2>4, <2>5, <2>6, <3>1 DEF DoctorWell, DoctorOK
  <2>14. CASE Verdict
    <3>1. /\ doctor' = [doctor EXCEPT !.pc = "done",
                           !.exit = IF doctor.failed \/ ~site.git THEN "PARTIAL" ELSE "SUCCESS"]
          /\ ~ doctor.failed
      BY <2>2, <2>14 DEF Verdict, Asks, DoctorWell
    <3> QED BY <2>2, <2>5, <3>1 DEF DoctorWell, DoctorOK
  <2> QED BY <1>4, <2>0, <2>8, <2>9, <2>10, <2>11, <2>12, <2>13, <2>14 DEF QuietStep, Doctor
<1> QED BY <1>1, <1>2, <1>3, <1>4

LEMMA DoctorInvAlways == Spec => []DoctorInv
<1>1. Init => DoctorInv
  BY DEF Init, DoctorInv
<1>2. Inv /\ DoctorInv /\ [Next]_vars => DoctorInv'
  BY DoctorInvStep
<1> QED BY <1>1, <1>2, PlacementInv, PTL DEF Spec

LEMMA TidySettled == Tidy => Settled
<1> HIDE DEF HomeAbove
<1> QED BY DEF Tidy, Settled

\* The doctor has a failure to report only when there is one, even while a sweep
\* renames and removes around its scratch directory.
THEOREM DoctorIsJust == Spec => []DoctorFailsForCause
<1>1. DoctorInv => DoctorFailsForCause
  BY TidySettled DEF DoctorInv, DoctorFailsForCause, DoctorWell, Asks
<1> QED BY <1>1, DoctorInvAlways, PTL

-----------------------------------------------------------------------------
(* The sweep there. *)

NoTrouble == \A c \in sweep.cands : Q \notin c.chain /\ c.node \notin Path

SweepWell ==
    /\ sweep.pc \in {"plan", "open", "list", "recover", "stage", "drain"} => ~ sweep.errors
    /\ sweep.pc \in {"plan", "open", "list", "recover"} => \A r \in sweep.sees : Stands(r)
    /\ sweep.pc \in {"open", "list", "recover", "stage"} =>
          \A c, e \in sweep.cands : c.chain = HomeAbove[c.node] /\ c.node \notin e.chain
    /\ sweep.pc \in {"open", "list", "recover"} => \A c \in sweep.cands : Stands(c.node)
    /\ sweep.pc = "stage" => \A c \in sweep.todo : Stands(c.node)
    /\ sweep.pc = "done" => sweep.exit \notin {"INTERNAL", "PARTIAL"}

SweepInv == "sweep" \in quiet /\ Settled /\ NoTrouble => SweepWell

\* Where roots are apart candidates are, and each stands where it was found.
LEMMA PlannedApart ==
    ASSUME Inv, Settled, \A c \in Planned : Q \notin c.chain
    PROVE  \A c, e \in Planned :
              Stands(c.node) /\ c.chain = HomeAbove[c.node] /\ c.node \notin e.chain
<1> HIDE DEF HomeAbove, Above
<1>0. site \in Sites /\ Placed(up)
  BY DEF Inv, Types, WorldOK
<1>1. ASSUME NEW c \in Planned
      PROVE  /\ c.node \in Dirs \cap site.match /\ Stands(c.node)
             /\ c.chain = HomeAbove[c.node] /\ c.chain = Above[c.node]
             /\ \E r \in site.roots :
                   r \in c.chain /\ Between(r, c.node) \cap site.match \subseteq {c.node}
  <2>1. PICK d \in UNION {Proposed(r) : r \in Walked} : c = [node |-> d, chain |-> Above[d]]
    BY DEF Planned
  <2>2. PICK r \in Walked : d \in Proposed(r)
    BY <2>1
  <2>3. /\ d \in Dirs /\ d \in site.match /\ r \in Above[d] /\ r \in site.roots
        /\ Between(r, d) \cap site.match \subseteq {d}
    BY <2>2 DEF Proposed, Reached, Walked
  <2>4. up[d] # Gone
    <3>1. Above[d] = IF up[d] \in {0, Gone} THEN {} ELSE {up[d]} \cup Above[up[d]]
      BY <1>0, <2>3, AboveUp, AboveNow DEF Nodes
    <3> QED BY <2>3, <3>1
  <2>5. Stands(d)
    BY <2>1, <2>3, <2>4, OutsideStands
  <2>6. Above[d] = HomeAbove[d]
    BY <1>0, <2>3, <2>5, StandingPath, AboveNow
  <2> QED BY <2>1, <2>3, <2>5, <2>6
<1>2. ASSUME NEW c \in Planned, NEW e \in Planned, c.node \in e.chain
      PROVE  FALSE
  <2> DEFINE d == c.node
             f == e.node
  <2>1. PICK r \in site.roots :
           r \in HomeAbove[d] /\ Between(r, d) \cap site.match \subseteq {d}
    BY <1>1
  <2>2. PICK s \in site.roots :
           s \in HomeAbove[f] /\ Between(s, f) \cap site.match \subseteq {f}
    BY <1>1
  <2>3. d \in HomeAbove[f] /\ d \in Dirs /\ f \in Dirs
    BY <1>1, <1>2
  <2>4. HomeAbove[d] \subseteq HomeAbove[f] /\ f \notin HomeAbove[f] /\ d \notin HomeAbove[d]
    BY <2>3, HomeUp
  <2>5. r = s
    <3>1. r = s \/ r \in HomeAbove[s] \/ s \in HomeAbove[r]
      BY <2>1, <2>2, <2>3, <2>4, HomeUp
    <3> QED BY <3>1 DEF Settled
  <2>6. Stands(r) /\ r \in Dirs
    <3>1. r \in Dirs
      BY <2>1, <2>3, HomeUp
    <3>2. StandsIn(up, d)
      BY <1>1, AboveNow
    <3> QED BY <1>0, <2>1, <2>3, <3>1, <3>2, StandingPath, AboveNow
  <2>7. Above[r] = HomeAbove[r] /\ Above[f] = HomeAbove[f]
    BY <1>0, <1>1, <2>6, StandingPath, AboveNow
  <2>8. d \notin HomeAbove[r] \cup {r}
    <3>1. HomeAbove[r] \subseteq HomeAbove[d]
      BY <2>1, <2>3, HomeUp
    <3> QED BY <2>1, <2>4, <3>1
  <2>9. d \in Between(s, f)
    BY <2>3, <2>5, <2>7, <2>8 DEF Between
  <2> QED BY <1>1, <2>2, <2>3, <2>4, <2>9
<1> QED BY <1>1, <1>2

LEMMA SettledWalk ==
    ASSUME Inv, Settled
    PROVE  ~ WalkError
<1> HIDE DEF HomeAbove, Above
<1> SUFFICES ASSUME NEW r \in Walked, NEW d \in Reached(r) \cup {r}
             PROVE  mode[d] # "shut"
  BY DEF WalkError
<1>1. d \in Dirs
  BY PlacementOK DEF Walked, Reached, Inv, Types
<1>2. up[d] # Gone
  <2>1. CASE d = r
    BY <1>1, <2>1, PlacementOK DEF Walked, Stands, Nodes
  <2>2. CASE r \in Above[d]
    <3>1. Above[d] = IF up[d] \in {0, Gone} THEN {} ELSE {up[d]} \cup Above[up[d]]
      BY <1>1, AboveUp, AboveNow DEF Inv, Types, WorldOK, Nodes
    <3> QED BY <2>2, <3>1
  <2> QED BY <2>1, <2>2 DEF Reached
<1> QED BY <1>1, <1>2, SettledOpen DEF Nodes

LEMMA SettledStage ==
    ASSUME Inv, Settled, Stands(Q), NEW c \in Cand, Promised(c), c.node \notin Path,
           c.chain = HomeAbove[c.node], Stands(c.node)
    PROVE  CanStage(c)
<1> HIDE DEF HomeAbove, Above
<1> DEFINE n == c.node
<1>0. site \in Sites /\ Placed(up) /\ Q \in Dirs /\ n \in Dirs /\ 0 \notin Dirs /\ Gone \notin Dirs
      /\ Gone # 0
  BY QIsDir, PlacementOK DEF Inv, Types, WorldOK, Nodes, Cand
<1>1. Above[n] = c.chain /\ Above[Q] = HomeAbove[Q]
  BY <1>0, StandingPath, AboveNow
<1>2. HomeAbove[n] # {}
  BY DEF Promised
<1>3. up[n] = Home[n] /\ Home[n] \in Dirs
  BY <1>0, <1>2, HomeUp DEF Stands
<1>4. up[Home[n]] # Gone
  BY <1>0, <1>3 DEF Inv, WorldOK, Nodes
<1>5. CanRename(up[n])
  BY <1>3, <1>4, SettledRename
<1>6. Q \notin Tree(n)
  BY <1>1 DEF Tree, Path
<1> QED BY <1>0, <1>1, <1>3, <1>5, <1>6 DEF CanStage, Settled

LEMMA SweepQuiet ==
    ASSUME QuietStep, ~ Load, ("sweep" \in quiet)'
    PROVE  "sweep" \in quiet
<1> HIDE DEF HomeAbove, Above
<1>1. quiet' \in {quiet, quiet \ {"sweep"}, quiet \cup {"doctor"}}
  BY DEF QuietStep, Sweep, Select, Open, ListQuarantine, RecoverEntry, Verify, Stage, StageEnd,
       Drain, Report, Doctor, Consult, Look, EnsureQuarantine, Mkdir, Rename, Clean, Verdict,
       CrashSweep, CrashDoctor
<1> QED BY <1>1

\* Once it is made, the quarantine stands.
QuarantineInv ==
    "sweep" \in quiet /\ Settled /\ sweep.pc \in {"list", "recover", "stage", "drain", "done"}
    => Stands(Q)

LEMMA QuarantineInvStep ==
    ASSUME Inv, QuarantineInv, [Next]_vars
    PROVE  QuarantineInv'
<1> HIDE DEF HomeAbove, Above
<1> SUFFICES ASSUME ("sweep" \in quiet)', Settled',
                    sweep'.pc \in {"list", "recover", "stage", "drain", "done"}
             PROVE  Stands(Q)'
  BY DEF QuarantineInv
<1>1. CASE UNCHANGED vars
  BY <1>1 DEF vars, QuarantineInv, Settled, Path, Q, Stands
<1>2. CASE Next
  <2>0. QuietStep /\ ~ Load /\ ~ CrashSweep
    <3>1. ~ (\E d \in Dirs : Build(d) \/ Vanish(d) \/ Close(d))
      BY DEF Build, Vanish, Close
    <3>2. ~ Load /\ ~ CrashSweep
      <4>1. Load => sweep'.pc = "plan"
        BY DEF Load, IdleSweep
      <4>2. CrashSweep => sweep'.pc = "idle"
        BY DEF CrashSweep, IdleSweep
      <4> QED BY <4>1, <4>2
    <3> QED BY <1>2, <3>1, <3>2, PlacementOK DEF QuietStep, Next, World
  <2>1. "sweep" \in quiet /\ Settled /\ site' = site /\ SweepOK(sweep)
    BY <2>0, SweepQuiet, SettledBefore, QuietWorld DEF Inv, Types
  <2>2. CASE Open
    <3>1. Ensure
      BY <2>1, <2>2, SettledEnsure DEF Open
    <3>2. StandsIn(up', Q)
      BY <2>1, <3>1, PathThere DEF Ensure, Missing, StandsIn, Stands, Path, Nodes
    <3> QED BY <2>1, <3>2 DEF StandsIn, Stands, Q
  <2>3. ASSUME ~ Open
        PROVE  Stands(Q)'
    <3>1. sweep.pc \in {"list", "recover", "stage", "drain", "done"}
      BY <2>0, <2>1, <2>3 DEF QuietStep, Sweep, Select, ListQuarantine, RecoverEntry, Verify,
           Stage, StageEnd, Drain, Report, Doctor, Consult, Look, EnsureQuarantine, Mkdir, Rename,
           Clean, Verdict, CrashDoctor, At, SweepOK, Sweeps
    <3>2. StandsIn(up', Q)
      BY <2>0, <2>1, <3>1, QuietPath DEF QuarantineInv, Path
    <3> QED BY <2>1, <3>2 DEF StandsIn, Stands, Q
  <2> QED BY <2>2, <2>3
<1> QED BY <1>1, <1>2

LEMMA SweepInvStep ==
    ASSUME Inv, QuarantineInv, SweepInv, [Next]_vars
    PROVE  SweepInv'
<1> HIDE DEF HomeAbove, Above
<1> SUFFICES ASSUME ("sweep" \in quiet)', Settled', NoTrouble' PROVE SweepWell'
  BY DEF SweepInv
<1>1. CASE UNCHANGED vars
  BY <1>1 DEF vars, SweepInv, Settled, NoTrouble, SweepWell, Path, Q, Stands
<1>2. CASE Load
  <2>1. /\ sweep' = [IdleSweep EXCEPT !.pc = "plan", !.sees = {r \in site.roots : Stands(r)}]
        /\ up' = up
    BY <1>2 DEF Load
  <2> QED BY <2>1 DEF SweepWell, IdleSweep, Stands
<1>3. CASE CrashSweep
  BY <1>3 DEF CrashSweep, SweepWell, IdleSweep
<1>4. ASSUME Next, ~ Load, ~ CrashSweep
      PROVE  SweepWell'
  <2>0. QuietStep
    <3>1. ~ (\E d \in Dirs : Build(d) \/ Vanish(d) \/ Close(d))
      BY DEF Build, Vanish, Close
    <3> QED BY <1>4, <3>1, PlacementOK DEF QuietStep, Next, World
  <2>1. "sweep" \in quiet
    BY <1>4, <2>0, SweepQuiet
  <2>2. Settled /\ site' = site /\ Path' = Path
    BY <2>0, SettledBefore, QuietWorld DEF Path, Q
  <2>3. \A r \in site.roots : Stands(r) => StandsIn(up', r)
    BY <2>0, <2>2, SettledRoot
  <2>4. sweep.pc \in {"list", "recover", "stage", "drain", "done"} => Stands(Q)
    BY <2>1, <2>2 DEF QuarantineInv
  <2>5. /\ SweepOK(sweep) /\ site.roots \subseteq Dirs /\ Q \in Dirs
        /\ up \in [Nodes -> Dirs \cup {0, Gone}] /\ \A r \in Dirs : Home[r] # Gone
    BY QIsDir, PlacementOK DEF Inv, Types, WorldOK, Placed, Nodes
  <2>6. /\ Stands(Q)' <=> StandsIn(up', Q)
        /\ \A d \in Dirs : Stands(d)' <=> StandsIn(up', d)
    BY <2>2 DEF Stands, StandsIn, Q
  <2>7. CASE Select
    <3>1. /\ sweep' = [sweep EXCEPT !.pc = "open", !.cands = Planned, !.errors = WalkError]
          /\ up' = up /\ sweep.pc = "plan"
      BY <2>7 DEF Select, At
    <3>2. sweep'.cands = Planned /\ sweep'.pc = "open" /\ sweep'.sees = sweep.sees
          /\ sweep'.errors = WalkError /\ ~ WalkError
      BY <2>2, <2>5, <3>1, SettledWalk DEF SweepOK, Sweeps
    <3>3. \A c \in Planned : Q \notin c.chain
      BY <2>2, <3>2 DEF NoTrouble, Q
    <3>4. \A c, e \in Planned : Stands(c.node) /\ c.chain = HomeAbove[c.node] /\ c.node \notin e.chain
      BY <2>2, <3>3, PlannedApart
    <3>5. \A r \in sweep.sees : Stands(r)
      <4>1. NoTrouble
        BY <2>5, <3>1 DEF SweepOK, NoTrouble
      <4> QED BY <2>1, <2>2, <3>1, <4>1 DEF SweepInv, SweepWell
    <3> QED BY <3>1, <3>2, <3>4, <3>5 DEF SweepWell, Stands
  <2>8. ASSUME ~ Select
        PROVE  SweepWell'
    <3>0. sweep'.cands = sweep.cands
      BY <1>4, <2>0, <2>5, <2>8 DEF QuietStep, Sweep, Open, ListQuarantine, RecoverEntry, Verify,
           Refuse, Stage, StageEnd, Drain, Report, SweepOK, Sweeps, Doctor, Consult, Look,
           EnsureQuarantine, Mkdir, Rename, Clean, Verdict, CrashDoctor
    <3>1. NoTrouble
      BY <2>2, <3>0 DEF NoTrouble, Q
    <3>2. SweepWell
      BY <2>1, <2>2, <3>1 DEF SweepInv
    <3>3. \A c \in sweep.cands : c \in Cand /\ c.node \in Dirs /\ Promised(c)
      BY <2>5 DEF SweepOK, Sweeps, Cand, Inv
    <3>4. ASSUME ~ Stage, sweep.pc \in {"open", "list", "recover", "stage"},
                 NEW c \in sweep.cands, Stands(c.node)
          PROVE  StandsIn(up', c.node)
      <4>1. Q \notin HomeAbove[c.node]
        BY <3>1, <3>2, <3>4 DEF NoTrouble, SweepWell
      <4> QED BY <2>0, <3>3, <3>4, <4>1, QuietStands
    <3>5. CASE Doctor \/ CrashDoctor
      <4>1. sweep' = sweep /\ ~ Stage
        <5>1. sweep' = sweep
          BY <3>5 DEF Doctor, Consult, Look, EnsureQuarantine, Mkdir, Rename, Clean, Verdict,
               CrashDoctor
        <5>2. ASSUME Stage PROVE FALSE
          <6>1. PICK c \in sweep.todo :
                   \/ sweep' = [sweep EXCEPT !.todo = @ \ {c}, !.staged = @ \cup {c.node}]
                   \/ sweep' = [sweep EXCEPT !.todo = @ \ {c}, !.errors = TRUE]
            BY <5>2 DEF Stage
          <6>2. sweep'.todo = sweep.todo \ {c}
            BY <2>5, <6>1 DEF SweepOK, Sweeps
          <6> QED BY <5>1, <6>2
        <5> QED BY <5>1, <5>2
      <4>2. \A c \in sweep.todo : sweep.pc = "stage" => c \in sweep.cands
        BY <2>5 DEF SweepOK
      <4>3. sweep.sees \subseteq site.roots
        BY <2>5 DEF SweepOK, Sweeps
      <4> QED BY <2>3, <2>4, <2>5, <2>6, <3>2, <3>3, <3>4, <4>1, <4>2, <4>3 DEF SweepWell
    <3>6. CASE Open
      <4>1. Ensure /\ sweep' = [sweep EXCEPT !.pc = "list"] /\ sweep.pc = "open"
        BY <2>2, <3>6, SettledEnsure DEF Open, At
      <4>3. ~ Stage
        BY <4>1 DEF Stage, At
      <4>4. sweep.sees \subseteq site.roots
        BY <2>5 DEF SweepOK, Sweeps
      <4> QED BY <2>3, <2>5, <2>6, <3>2, <3>3, <3>4, <4>1, <4>3, <4>4
              DEF SweepWell, SweepOK, Sweeps
    <3>7. CASE ListQuarantine \/ RecoverEntry
      <4>1. /\ ~ Stage /\ sweep.pc \in {"list", "recover"} /\ sweep'.pc = "recover"
            /\ sweep'.sees = sweep.sees
        BY <2>5, <3>7 DEF ListQuarantine, RecoverEntry, Stage, At, SweepOK, Sweeps
      <4>2. ~ sweep'.errors
        <5>1. CASE ListQuarantine
          BY <2>5, <3>2, <5>1 DEF ListQuarantine, At, SweepOK, Sweeps, SweepWell
        <5>2. CASE RecoverEntry
          <6>1. PICK n \in sweep.todo, raced \in BOOLEAN :
                   /\ sweep' = [sweep EXCEPT !.todo = @ \ {n},
                                   !.errors = @ \/ raced \/ (up[n] = Q /\ Remains(n) # {})]
                   /\ quiet' = IF raced THEN quiet \ {"sweep"} ELSE quiet
            BY <5>2 DEF RecoverEntry
          <6>2. ~ raced
            BY <6>1
          <6>3. n \in Nodes /\ ~ sweep.errors
            BY <2>5, <3>2, <5>2 DEF RecoverEntry, At, SweepOK, SweepWell
          <6>4. ~ (up[n] = Q /\ Remains(n) # {})
            BY <2>2, <6>3, SettledRemains
          <6> QED BY <2>5, <6>1, <6>2, <6>3, <6>4 DEF SweepOK, Sweeps
        <5> QED BY <3>7, <5>1, <5>2
      <4>3. sweep.sees \subseteq site.roots
        BY <2>5 DEF SweepOK, Sweeps
      <4> QED BY <2>3, <2>4, <2>5, <2>6, <3>0, <3>2, <3>3, <3>4, <4>1, <4>2, <4>3 DEF SweepWell
    <3>8. CASE Verify
      <4>1. sweep.pc = "recover" /\ up' = up
        BY <3>8 DEF Verify, At
      <4>2. \A r \in sweep.sees : Stands(r) /\ CanRename(r)
        <5>1. \A r \in sweep.sees : Stands(r) /\ r \in Dirs /\ up[r] # Gone
          BY <2>5, <3>2, <4>1 DEF SweepWell, SweepOK, Sweeps, Stands
        <5> QED BY <2>2, <2>4, <4>1, <5>1, SettledRename
      <4>3. sweep' = [sweep EXCEPT !.pc = "stage", !.todo = sweep.cands]
        BY <3>8, <4>2 DEF Verify
      <4> QED BY <2>4, <2>5, <2>6, <3>2, <3>3, <4>1, <4>3 DEF SweepWell, SweepOK, Sweeps, Stands
    <3>9. CASE Stage
      <4>1. PICK c \in sweep.todo :
               IF CanStage(c)
               THEN /\ up' = [up EXCEPT ![c.node] = Q]
                    /\ sweep' = [sweep EXCEPT !.todo = @ \ {c}, !.staged = @ \cup {c.node}]
               ELSE sweep' = [sweep EXCEPT !.todo = @ \ {c}, !.errors = TRUE]
        BY <3>9 DEF Stage
      <4>2. sweep.pc = "stage" /\ sweep.todo \subseteq sweep.cands
        BY <2>5, <3>9 DEF Stage, At, SweepOK
      <4>3. \A e \in sweep.todo : e \in Cand /\ e.node \in Dirs /\ Promised(e) /\ Stands(e.node)
                                   /\ e.chain = HomeAbove[e.node] /\ c.node \notin e.chain
                                   /\ e.node \notin Path
        BY <3>1, <3>2, <3>3, <4>2 DEF SweepWell, NoTrouble
      <4>4. CanStage(c)
        BY <2>2, <2>4, <4>2, <4>3, SettledStage
      <4>5. ASSUME NEW e \in sweep.todo \ {c}
            PROVE  StandsIn(up', e.node)
        <5>1. e.node # c.node
          BY <4>3, <4>5 DEF Cand
        <5>2. HomeAbove[e.node] \subseteq Dirs
          BY <4>3, HomeUp
        <5> QED BY <2>5, <4>1, <4>3, <4>4, <5>1, <5>2 DEF Stands, StandsIn, Nodes
      <4>6. sweep' = [sweep EXCEPT !.todo = @ \ {c}, !.staged = @ \cup {c.node}]
        BY <4>1, <4>4
      <4> QED BY <2>4, <2>5, <2>6, <3>2, <4>2, <4>3, <4>5, <4>6 DEF SweepWell, SweepOK, Sweeps
    <3>10. CASE StageEnd
      <4>1. sweep' = [sweep EXCEPT !.pc = "drain", !.todo = sweep.staged] /\ sweep.pc = "stage"
        BY <3>10 DEF StageEnd, At
      <4> QED BY <2>4, <2>5, <2>6, <3>2, <4>1 DEF SweepWell, SweepOK, Sweeps
    <3>11. CASE Drain
      <4>1. PICK n \in sweep.todo :
               sweep' = [sweep EXCEPT !.todo = @ \ {n},
                                      !.errors = @ \/ (up[n] = Q /\ Remains(n) # {})]
        BY <3>11 DEF Drain
      <4>2. sweep.pc = "drain" /\ n \in Nodes /\ ~ sweep.errors
        BY <2>5, <3>2, <3>11 DEF Drain, At, SweepOK, Sweeps, SweepWell, Nodes
      <4>3. ~ (up[n] = Q /\ Remains(n) # {})
        BY <2>2, <4>2, SettledRemains
      <4> QED BY <2>4, <2>5, <2>6, <3>2, <4>1, <4>2, <4>3 DEF SweepWell, SweepOK, Sweeps
    <3>12. CASE Report
      <4>1. /\ sweep' = [sweep EXCEPT !.pc = "done",
                            !.exit = IF sweep.errors THEN "PARTIAL"
                                     ELSE IF sweep.cands = {} THEN "NOTHING_TO_DO" ELSE "SUCCESS"]
            /\ sweep.pc = "drain" /\ ~ sweep.errors
        BY <3>2, <3>12 DEF Report, At, SweepWell
      <4> QED BY <2>4, <2>5, <2>6, <3>2, <4>1 DEF SweepWell, SweepOK, Sweeps
    <3> QED BY <1>4, <2>0, <2>8, <3>5, <3>6, <3>7, <3>8, <3>9, <3>10, <3>11, <3>12
            DEF QuietStep, Sweep
  <2> QED BY <2>7, <2>8
<1> QED BY <1>1, <1>2, <1>3, <1>4

LEMMA QuarantineInvAlways == Spec => []QuarantineInv
<1>1. Init => QuarantineInv
  BY DEF Init, QuarantineInv
<1>2. Inv /\ QuarantineInv /\ [Next]_vars => QuarantineInv'
  BY QuarantineInvStep
<1> QED BY <1>1, <1>2, PlacementInv, PTL DEF Spec

LEMMA SweepInvAlways == Spec => []SweepInv
<1>1. Init => SweepInv
  BY DEF Init, SweepInv
<1>2. Inv /\ QuarantineInv /\ SweepInv /\ [Next]_vars => SweepInv'
  BY SweepInvStep
<1> QED BY <1>1, <1>2, PlacementInv, QuarantineInvAlways, PTL DEF Spec

\* Where roots are apart and nothing is shut, a sweep under which nothing changes fails
\* only over a candidate inside the quarantine or one around it.
THEOREM SweepIsJust == Spec => []FailsForCause
<1>1. Inv /\ QuarantineInv /\ SweepInv => FailsForCause
  <2> HIDE DEF HomeAbove, Above
  <2> SUFFICES ASSUME Inv, QuarantineInv, SweepInv, At("done"),
                      sweep.exit \in {"INTERNAL", "PARTIAL"}, "sweep" \in quiet, Tidy
               PROVE  \E c \in sweep.cands : Q \in c.chain \/ c.node \in Above[Q] \cup {Q}
    BY DEF FailsForCause
  <2>1. ~ NoTrouble /\ Stands(Q)
    BY TidySettled DEF SweepInv, QuarantineInv, SweepWell, At
  <2>2. Above[Q] = HomeAbove[Q]
    BY <2>1, QIsDir, StandingPath, AboveNow DEF Inv, Types, WorldOK
  <2> QED BY <2>1, <2>2 DEF NoTrouble, Path
<1> QED BY <1>1, PlacementInv, QuarantineInvAlways, SweepInvAlways, PTL

-----------------------------------------------------------------------------
(* What the doctor says of the sweep, wherever the roots are. *)

\* Between root r and the quarantine nothing is mounted.
SameMounts(r) == (HomeAbove[r] \cup {r}) \cap site.foreign = Path \cap site.foreign

\* Root r did not stand when the doctor looked: it has not come to stand since, or it
\* has been made as part of the way to the quarantine.
Late(r) ==
    /\ \A u \in doctor.usable : r \notin HomeAbove[u] \cup {u}
    /\ ~ Stands(r) \/ (r \in Path /\ mode[r] = "open")

\* The roots the doctor has tested.
Tested == (doctor.usable \ doctor.todo) \ (IF doctor.pc = "rename" THEN {doctor.root} ELSE {})

DoctorSaw ==
    /\ doctor.pc \in {"look", "ensure", "done"} => doctor.todo = {}
    /\ doctor.todo \subseteq doctor.usable
    /\ doctor.pc = "rename" => doctor.root \in doctor.usable
    /\ doctor.pc \in {"ensure", "test", "rename", "clean", "done"} /\ ~ doctor.failed =>
          \A r \in site.roots \ doctor.usable : Late(r)
    /\ doctor.pc \in {"test", "rename", "clean", "done"} /\ ~ doctor.failed =>
          \A r \in Tested : /\ Stands(Q) /\ mode[Q] # "sealed"
                            /\ SameMounts(r) /\ mode[r] # "sealed"
    /\ doctor.pc = "done" /\ doctor.exit = "SUCCESS" => ~ doctor.failed

DoctorSawInv == "doctor" \in quiet => DoctorSaw

LEMMA StandingMounts ==
    ASSUME Inv, NEW r \in Dirs, Stands(r), CanRename(r)
    PROVE  SameMounts(r)
<1> HIDE DEF HomeAbove, Above
<1>1. site \in Sites /\ Placed(up) /\ Q \in Dirs /\ Stands(Q)
  BY QIsDir DEF Inv, Types, WorldOK, CanRename
<1>2. Above[r] = HomeAbove[r] /\ Above[Q] = HomeAbove[Q]
  BY <1>1, StandingPath, AboveNow
<1> QED BY <1>2 DEF CanRename, MountsOn, SameMounts, Path

LEMMA QuietDoctor ==
    ASSUME QuietStep, ~ Consult, ("doctor" \in quiet)'
    PROVE  "doctor" \in quiet
<1> HIDE DEF HomeAbove, Above
<1>1. quiet' \in {quiet, quiet \ {"sweep"}, quiet \cup {"sweep"}}
  BY DEF QuietStep, Sweep, Load, Select, Open, ListQuarantine, RecoverEntry, Verify, Stage,
       StageEnd, Drain, Report, Doctor, Look, EnsureQuarantine, Mkdir, Rename, Clean, Verdict,
       CrashSweep, CrashDoctor
<1> QED BY <1>1

\* What was seen of a directory remains so.
LEMMA SeenStays ==
    ASSUME Inv, QuietStep
    PROVE  /\ site' = site /\ Path' = Path
           /\ \A d \in Dirs : mode'[d] \in {mode[d], "open"}
           /\ Stands(Q) => Stands(Q)'
           /\ \A r \in Dirs : ~ Stands(r) => ~ StandsIn(up', r) \/ (r \in Path /\ mode'[r] = "open")
           /\ \A r \in Dirs : Stands(r)' <=> StandsIn(up', r)
<1> HIDE DEF HomeAbove, Above
<1>1. site' = site
  BY QuietWorld
<1>2. Path' = Path
  BY <1>1 DEF Path, Q
<1>3. \A d \in Dirs : mode'[d] \in {mode[d], "open"}
  BY QuietMode
<1>4. Stands(Q) => StandsIn(up', Q)
  BY QuietPath DEF Path
<1>5. StandsIn(up', Q) => Stands(Q)'
  BY <1>1 DEF StandsIn, Stands, Q
<1>6. \A r \in Dirs : ~ Stands(r) => ~ StandsIn(up', r) \/ (r \in Path /\ mode'[r] = "open")
  BY QuietNew
<1>7. \A r \in Dirs : Stands(r)' <=> StandsIn(up', r)
  BY DEF Stands, StandsIn
<1> QED BY <1>1, <1>2, <1>3, <1>4, <1>5, <1>6, <1>7

LEMMA DoctorSawStep ==
    ASSUME Inv, DoctorSawInv, [Next]_vars
    PROVE  DoctorSawInv'
<1> HIDE DEF HomeAbove, Above
<1> SUFFICES ASSUME ("doctor" \in quiet)' PROVE DoctorSaw'
  BY DEF DoctorSawInv
<1>1. CASE UNCHANGED vars
  BY <1>1 DEF vars, DoctorSawInv, DoctorSaw, Late, Tested, SameMounts, Path, Q, Stands
<1>2. CASE Consult
  BY <1>2 DEF Consult, DoctorSaw, Tested, IdleDoctor
<1>3. CASE CrashDoctor
  BY <1>3 DEF CrashDoctor, DoctorSaw, Tested, IdleDoctor
<1>4. ASSUME Next, ~ Consult, ~ CrashDoctor
      PROVE  DoctorSaw'
  <2>0. QuietStep
    <3>1. ~ (\E d \in Dirs : Build(d) \/ Vanish(d) \/ Close(d))
      BY DEF Build, Vanish, Close
    <3> QED BY <1>4, <3>1, PlacementOK DEF QuietStep, Next, World
  <2>1. DoctorSaw
    BY <1>4, <2>0, QuietDoctor DEF DoctorSawInv
  <2>2. /\ site' = site /\ Path' = Path /\ \A d \in Dirs : mode'[d] \in {mode[d], "open"}
        /\ Stands(Q) => Stands(Q)'
        /\ \A r \in Dirs : ~ Stands(r) => ~ StandsIn(up', r) \/ (r \in Path /\ mode'[r] = "open")
        /\ \A r \in Dirs : Stands(r)' <=> StandsIn(up', r)
    BY <2>0, SeenStays
  <2>3. DoctorOK(doctor) /\ site.roots \subseteq Dirs /\ Q \in Dirs /\ Q' = Q
    BY <2>2, QIsDir, PlacementOK DEF Inv, Types, Q
  \* It is enough that the doctor has seen this much in this step.
  <2>4. ASSUME /\ doctor'.pc \in {"look", "ensure", "done"} => doctor'.todo = {}
               /\ doctor'.todo \subseteq doctor'.usable /\ doctor'.usable \subseteq site.roots
               /\ doctor'.pc = "rename" => doctor'.root \in doctor'.usable
               /\ doctor'.pc \in {"ensure", "test", "rename", "clean", "done"} /\ ~ doctor'.failed =>
                     \A r \in site.roots \ doctor'.usable :
                        /\ \A u \in doctor'.usable : r \notin HomeAbove[u] \cup {u}
                        /\ ~ Stands(r) \/ (r \in Path /\ mode[r] = "open")
               /\ doctor'.pc \in {"test", "rename", "clean", "done"} /\ ~ doctor'.failed =>
                     \A r \in Tested' : /\ Stands(Q) /\ mode[Q] # "sealed"
                                        /\ SameMounts(r) /\ mode[r] # "sealed"
               /\ doctor'.pc = "done" /\ doctor'.exit = "SUCCESS" => ~ doctor'.failed
        PROVE  DoctorSaw'
    <3>1. ASSUME doctor'.pc \in {"ensure", "test", "rename", "clean", "done"}, ~ doctor'.failed,
                 NEW r \in site.roots \ doctor'.usable
          PROVE  Late(r)'
      BY <2>2, <2>3, <2>4, <3>1 DEF Late
    <3>2. ASSUME doctor'.pc \in {"test", "rename", "clean", "done"}, ~ doctor'.failed,
                 NEW r \in Tested'
          PROVE  (Stands(Q) /\ mode[Q] # "sealed")' /\ SameMounts(r)' /\ mode'[r] # "sealed"
      <4>1. r \in Dirs
        BY <2>3, <2>4 DEF Tested
      <4>2. SameMounts(r)'
        BY <2>2, <2>4, <3>2 DEF SameMounts
      <4>3. mode'[r] # "sealed" /\ mode'[Q] # "sealed"
        BY <2>2, <2>3, <2>4, <3>2, <4>1
      <4> QED BY <2>2, <2>3, <2>4, <3>2, <4>2, <4>3
    <3> QED BY <2>2, <2>4, <3>1, <3>2 DEF DoctorSaw
  <2>5. CASE doctor' = doctor
    BY <2>1, <2>3, <2>4, <2>5 DEF DoctorSaw, DoctorOK, Tested, Late
  <2>6. CASE Look
    <3>1. /\ doctor'.pc = "ensure" /\ doctor'.todo = doctor.todo /\ doctor.pc = "look"
          /\ doctor'.usable = {r \in site.roots : Stands(r) /\ mode[r] \notin {"link", "shut"}}
          /\ doctor'.failed = \E r \in site.roots \ doctor'.usable : Stands(r)
      BY <2>3, <2>6 DEF Look, Asks, DoctorOK
    <3>2. \A u \in doctor'.usable : u \in Dirs /\ \A r \in HomeAbove[u] \cup {u} : Stands(r)
      <4> SUFFICES ASSUME NEW u \in doctor'.usable
                   PROVE  u \in Dirs /\ \A r \in HomeAbove[u] \cup {u} : Stands(r)
        OBVIOUS
      <4>1. u \in Dirs /\ Stands(u)
        BY <2>3, <3>1
      <4> QED BY <4>1, StandingPath, AboveNow DEF Inv, Types, WorldOK
    <3> QED BY <2>1, <2>4, <3>1, <3>2 DEF DoctorSaw
  <2>7. CASE EnsureQuarantine
    <3>1. /\ doctor'.pc = "test" /\ doctor'.usable = doctor.usable /\ doctor.pc = "ensure"
          /\ \/ doctor'.todo = doctor.usable /\ doctor'.failed = doctor.failed
             \/ doctor'.todo = doctor.todo /\ doctor'.failed
      BY <2>3, <2>7 DEF EnsureQuarantine, Asks, DoctorOK
    <3> QED BY <2>1, <2>3, <2>4, <3>1 DEF DoctorSaw, Tested, Late, DoctorOK
  <2>8. CASE Mkdir
    <3>1. PICK r \in doctor.todo :
             \/ doctor' = [doctor EXCEPT !.pc = "rename", !.root = r, !.todo = @ \ {r}]
             \/ doctor' = [doctor EXCEPT !.failed = TRUE, !.todo = @ \ {r}]
      BY <2>8 DEF Mkdir
    <3>2. doctor.pc = "test"
      BY <2>8 DEF Mkdir, Asks
    <3>3. CASE doctor' = [doctor EXCEPT !.pc = "rename", !.root = r, !.todo = @ \ {r}]
      BY <2>1, <2>3, <2>4, <3>2, <3>3 DEF DoctorSaw, Tested, Late, DoctorOK
    <3>4. CASE doctor' = [doctor EXCEPT !.failed = TRUE, !.todo = @ \ {r}]
      BY <2>1, <2>3, <2>4, <3>2, <3>4 DEF DoctorSaw, DoctorOK
    <3> QED BY <3>1, <3>3, <3>4
  <2>9. CASE Rename
    <3>1. doctor.pc = "rename" /\ doctor.root \in doctor.usable /\ doctor.root \in Dirs
      BY <2>1, <2>3, <2>9 DEF Rename, Asks, DoctorSaw, DoctorOK
    <3>2. CASE ScratchThere /\ CanRename(doctor.root)
      <4>1. /\ SameMounts(doctor.root) /\ Stands(Q) /\ mode[Q] # "sealed"
            /\ mode[doctor.root] # "sealed"
        BY <3>1, <3>2, StandingMounts DEF ScratchThere, CanRename
      <4>2. doctor' = [doctor EXCEPT !.pc = "clean", !.root = Q]
        BY <2>9, <3>2 DEF Rename
      <4> QED BY <2>1, <2>3, <2>4, <3>1, <4>1, <4>2 DEF DoctorSaw, Tested, Late, DoctorOK
    <3>3. CASE ~ (ScratchThere /\ CanRename(doctor.root))
      <4>1. doctor' = [doctor EXCEPT !.pc = "clean", !.failed = TRUE]
        BY <2>9, <3>3 DEF Rename
      <4> QED BY <2>1, <2>3, <2>4, <3>1, <4>1 DEF DoctorSaw, DoctorOK
    <3> QED BY <3>2, <3>3
  <2>10. CASE Clean
    <3>1. doctor' = [doctor EXCEPT !.pc = "test", !.root = 0] /\ doctor.pc = "clean"
      BY <2>10 DEF Clean, Asks
    <3> QED BY <2>1, <2>3, <2>4, <3>1 DEF DoctorSaw, Tested, Late, DoctorOK
  <2>11. CASE Verdict
    <3>1. /\ doctor' = [doctor EXCEPT !.pc = "done",
                           !.exit = IF doctor.failed \/ ~site.git THEN "PARTIAL" ELSE "SUCCESS"]
          /\ doctor.pc = "test" /\ doctor.todo = {}
      BY <2>11 DEF Verdict, Asks
    <3>2. doctor'.exit = "SUCCESS" => ~ doctor.failed
      BY <2>3, <3>1 DEF DoctorOK
    <3> QED BY <2>1, <2>3, <2>4, <3>1, <3>2 DEF DoctorSaw, Tested, Late, DoctorOK
  <2>12. CASE Sweep \/ CrashSweep
    BY <2>5, <2>12 DEF CrashSweep, Sweep, Load, Select, Open, ListQuarantine, RecoverEntry, Verify,
         Stage, StageEnd, Drain, Report
  <2> QED BY <1>4, <2>0, <2>6, <2>7, <2>8, <2>9, <2>10, <2>11, <2>12 DEF QuietStep, Doctor
<1> QED BY <1>1, <1>2, <1>3, <1>4

LEMMA DoctorSawAlways == Spec => []DoctorSawInv
<1>1. Init => DoctorSawInv
  BY DEF Init, DoctorSawInv
<1>2. Inv /\ DoctorSawInv /\ [Next]_vars => DoctorSawInv'
  BY DoctorSawStep
<1> QED BY <1>1, <1>2, PlacementInv, PTL DEF Spec

\* Why a sweep is refused; and the reason is there as long as nothing else changes.
Reason ==
    \/ CannotEnsure
    \/ Stands(Q) /\ mode[Q] \in {"sealed", "jammed"}
    \/ Stands(Q) /\ \E r \in site.roots : Stands(r) /\ (mode[r] = "sealed" \/ ~ SameMounts(r))

Outside == \A r \in site.roots : Q \notin HomeAbove[r]

RefusedInv ==
    "sweep" \in quiet /\ Outside =>
        /\ sweep.pc \in {"plan", "open", "list", "recover"} => \A r \in sweep.sees : Stands(r)
        /\ sweep.pc \in {"list", "recover"} => Stands(Q)
        /\ sweep.pc = "done" /\ sweep.exit = "INTERNAL" => Reason

LEMMA ReasonStays ==
    ASSUME Inv, Doctor \/ CrashDoctor, ~ Stage, Outside, Reason
    PROVE  Reason'
<1> HIDE DEF HomeAbove, Above
<1>1. /\ QuietStep /\ site' = site /\ Q' = Q /\ Q \in Dirs /\ site.roots \subseteq Dirs
      /\ (mode' = mode /\ \A d \in Dirs : up'[d] = up[d]) \/ Ensure
  BY DoctorWorld, QIsDir, PlacementOK DEF QuietStep, Inv, Types, Q
<1>2. ASSUME NEW d \in Dirs, Stands(d), Q \notin HomeAbove[d]
      PROVE  StandsIn(up', d) /\ mode'[d] = mode[d]
  <2>1. StandsIn(up', d)
    BY <1>1, <1>2, QuietStands
  <2>2. up[d] # Gone
    BY <1>2, PlacementOK DEF Stands, Nodes
  <2> QED BY <1>1, <2>1, <2>2, QuietMode
<1>3. \A d \in Dirs : Stands(d)' <=> StandsIn(up', d)
  BY DEF Stands, StandsIn
<1>4. Stands(Q) => Stands(Q)' /\ mode'[Q] = mode[Q]
  <2>1. Q \notin HomeAbove[Q]
    BY <1>1, HomeUp
  <2> QED BY <1>1, <1>2, <2>1 DEF Stands, StandsIn
<1>5. CASE CannotEnsure
  <2>1. mode' = mode /\ \A d \in Dirs : up'[d] = up[d]
    BY <1>1, <1>5 DEF Ensure
  <2>2. ASSUME NEW d \in Dirs PROVE Stands(d)' <=> Stands(d)
    <3>1. HomeAbove[d] \subseteq Dirs
      BY HomeUp
    <3> QED BY <2>1, <3>1 DEF Stands
  <2>3. Missing' = Missing
    <3>1. {Q} \cup HomeAbove[Q] \subseteq Dirs
      BY <1>1, HomeUp
    <3> QED BY <1>1, <2>2, <3>1 DEF Missing
  <2> QED BY <1>5, <2>1, <2>3 DEF Reason, CannotEnsure
<1>6. CASE Stands(Q) /\ mode[Q] \in {"sealed", "jammed"}
  BY <1>1, <1>4, <1>6 DEF Reason
<1>7. CASE /\ Stands(Q)
           /\ \E r \in site.roots : Stands(r) /\ (mode[r] = "sealed" \/ ~ SameMounts(r))
  <2>1. PICK r \in site.roots : Stands(r) /\ (mode[r] = "sealed" \/ ~ SameMounts(r))
    BY <1>7
  <2>2. Stands(r)' /\ mode'[r] = mode[r]
    BY <1>1, <1>2, <1>3, <2>1 DEF Outside
  <2>3. SameMounts(r)' <=> SameMounts(r)
    BY <1>1 DEF SameMounts, Path
  <2> QED BY <1>1, <1>4, <1>7, <2>1, <2>2, <2>3 DEF Reason
<1> QED BY <1>5, <1>6, <1>7 DEF Reason

LEMMA RefusedStep ==
    ASSUME Inv, RefusedInv, [Next]_vars
    PROVE  RefusedInv'
<1> HIDE DEF HomeAbove, Above
<1> DEFINE Claim == /\ sweep.pc \in {"plan", "open", "list", "recover"} => \A r \in sweep.sees : Stands(r)
                    /\ sweep.pc \in {"list", "recover"} => Stands(Q)
                    /\ sweep.pc = "done" /\ sweep.exit = "INTERNAL" => Reason
<1> SUFFICES ASSUME ("sweep" \in quiet)', Outside' PROVE Claim'
  BY DEF RefusedInv
<1>1. CASE UNCHANGED vars
  BY <1>1 DEF vars, RefusedInv, Outside, Reason, CannotEnsure, Missing, SameMounts, Path, Q, Stands
<1>2. CASE Load
  <2>1. sweep' = [IdleSweep EXCEPT !.pc = "plan", !.sees = {r \in site.roots : Stands(r)}] /\ up' = up
    BY <1>2 DEF Load
  <2> QED BY <2>1 DEF IdleSweep, Stands
<1>3. CASE CrashSweep
  BY <1>3 DEF CrashSweep, IdleSweep
<1>4. ASSUME Next, ~ Load, ~ CrashSweep
      PROVE  Claim'
  <2>0. QuietStep
    <3>1. ~ (\E d \in Dirs : Build(d) \/ Vanish(d) \/ Close(d))
      BY DEF Build, Vanish, Close
    <3> QED BY <1>4, <3>1, PlacementOK DEF QuietStep, Next, World
  <2>1. "sweep" \in quiet /\ site' = site /\ Q' = Q /\ SweepOK(sweep) /\ site.roots \subseteq Dirs
        /\ sweep.sees \subseteq site.roots /\ Q \in Dirs /\ Path' = Path
    BY <1>4, <2>0, SweepQuiet, QuietWorld, QIsDir, PlacementOK
       DEF Inv, Types, SweepOK, Sweeps, Q, Path
  <2>2. Outside
    BY <2>1 DEF Outside
  <2>3. Claim
    BY <2>1, <2>2 DEF RefusedInv
  <2> HIDE DEF Claim
  <2>4. /\ Stands(Q) => Stands(Q)'
        /\ \A r \in Dirs : Stands(r)' <=> StandsIn(up', r)
    BY <2>0, SeenStays
  <2>5. ASSUME ~ Stage, NEW r \in sweep.sees, Stands(r)
        PROVE  Stands(r)'
    <3>1. r \in Dirs /\ Q \notin HomeAbove[r]
      BY <2>1, <2>2 DEF Outside
    <3> QED BY <2>0, <2>4, <2>5, <3>1, QuietStands
  <2>6. CASE Doctor \/ CrashDoctor
    <3>1. sweep' = sweep
      BY <2>6 DEF Doctor, Consult, Look, EnsureQuarantine, Mkdir, Rename, Clean, Verdict, CrashDoctor
    <3>2. ~ Stage
      <4> SUFFICES ASSUME Stage PROVE FALSE
        OBVIOUS
      <4>1. PICK c \in sweep.todo :
               \/ sweep' = [sweep EXCEPT !.todo = @ \ {c}, !.staged = @ \cup {c.node}]
               \/ sweep' = [sweep EXCEPT !.todo = @ \ {c}, !.errors = TRUE]
        BY DEF Stage
      <4>2. sweep'.todo = sweep.todo \ {c}
        BY <2>1, <4>1 DEF SweepOK, Sweeps
      <4> QED BY <3>1, <4>2
    <3>3. Reason => Reason'
      BY <2>2, <2>6, <3>2, ReasonStays
    <3> QED BY <2>3, <2>4, <2>5, <3>1, <3>2, <3>3 DEF Claim
  <2>7. CASE Select
    <3>1. /\ sweep' = [sweep EXCEPT !.pc = "open", !.cands = Planned, !.errors = WalkError]
          /\ up' = up /\ sweep.pc = "plan" /\ ~ Stage
      BY <2>7 DEF Select, At, Stage
    <3> QED BY <2>1, <2>3, <2>5, <3>1 DEF Claim, SweepOK, Sweeps
  <2>8. CASE Open
    <3>1. sweep.pc = "open" /\ ~ Stage
      BY <2>8 DEF Open, At, Stage
    <3>2. CASE Ensure /\ sweep' = [sweep EXCEPT !.pc = "list"]
      <4>1. StandsIn(up', Q)
        BY <2>1, <3>2, PathThere DEF Ensure, Missing, StandsIn, Stands, Path, Nodes
      <4>2. Stands(Q)'
        BY <2>1, <4>1 DEF StandsIn, Stands
      <4> QED BY <2>1, <2>3, <2>5, <3>1, <3>2, <4>2 DEF Claim, SweepOK, Sweeps
    <3>3. CASE /\ CannotEnsure \/ (Stands(Q) /\ mode[Q] \in {"sealed", "jammed"})
               /\ Refuse /\ UNCHANGED <<up, mode, lost>>
      <4>1. Reason'
        BY <2>1, <3>3 DEF Reason, CannotEnsure, Missing, Stands
      <4>2. sweep'.pc = "done"
        BY <2>1, <3>3 DEF Refuse, SweepOK, Sweeps
      <4> QED BY <4>1, <4>2 DEF Claim
    <3> QED BY <2>8, <3>2, <3>3 DEF Open
  <2>9. CASE ListQuarantine \/ RecoverEntry
    <3>1. /\ sweep.pc \in {"list", "recover"} /\ ~ Stage /\ sweep'.pc = "recover"
          /\ sweep'.sees = sweep.sees
      BY <2>1, <2>9 DEF ListQuarantine, RecoverEntry, At, Stage, SweepOK, Sweeps
    <3> QED BY <2>3, <2>4, <2>5, <3>1 DEF Claim
  <2>10. CASE Verify
    <3>1. sweep.pc = "recover" /\ UNCHANGED <<up, mode>>
      BY <2>10 DEF Verify, At, WorldSame
    <3>2. CASE \A r \in sweep.sees : Stands(r) /\ CanRename(r)
      <4>1. sweep' = [sweep EXCEPT !.pc = "stage", !.todo = sweep.cands]
        BY <2>10, <3>2 DEF Verify
      <4> QED BY <2>1, <4>1 DEF Claim, SweepOK, Sweeps
    <3>3. CASE \E r \in sweep.sees : ~ (Stands(r) /\ CanRename(r))
      <4>1. PICK r \in sweep.sees : ~ (Stands(r) /\ CanRename(r))
        BY <3>3
      <4>2. Stands(r) /\ Stands(Q) /\ r \in site.roots /\ r \in Dirs
        BY <2>1, <2>3, <3>1 DEF Claim
      <4>3. mode[Q] = "sealed" \/ mode[r] = "sealed" \/ MountsOn(r) # MountsOn(Q)
        BY <4>1, <4>2 DEF CanRename
      <4>4. MountsOn(r) # MountsOn(Q) => ~ SameMounts(r)
        <5>1. Above[r] = HomeAbove[r] /\ Above[Q] = HomeAbove[Q]
          BY <2>1, <4>2, StandingPath, AboveNow DEF Inv, Types, WorldOK
        <5> QED BY <5>1 DEF MountsOn, SameMounts, Path
      <4>5. Reason
        BY <4>2, <4>3, <4>4 DEF Reason
      <4>6. Reason'
        BY <2>1, <3>1, <4>5 DEF Reason, CannotEnsure, Missing, Stands, SameMounts
      <4>7. sweep'.pc = "done"
        BY <2>1, <2>10, <4>1 DEF Verify, Refuse, SweepOK, Sweeps
      <4> QED BY <4>6, <4>7 DEF Claim
    <3> QED BY <3>2, <3>3
  <2>11. CASE Stage \/ StageEnd \/ Drain
    <3>1. sweep'.pc \in {"stage", "drain"}
      BY <2>1, <2>11 DEF Stage, StageEnd, Drain, At, SweepOK, Sweeps
    <3> QED BY <3>1 DEF Claim
  <2>12. CASE Report
    <3>1. sweep'.pc = "done" /\ sweep'.exit # "INTERNAL"
      BY <2>1, <2>12 DEF Report, SweepOK, Sweeps
    <3> QED BY <3>1 DEF Claim
  <2> QED BY <1>4, <2>0, <2>6, <2>7, <2>8, <2>9, <2>10, <2>11, <2>12 DEF QuietStep, Sweep
<1> QED BY <1>1, <1>2, <1>3, <1>4

LEMMA RefusedAlways == Spec => []RefusedInv
<1>1. Init => RefusedInv
  BY DEF Init, RefusedInv
<1>2. Inv /\ RefusedInv /\ [Next]_vars => RefusedInv'
  BY RefusedStep
<1> QED BY <1>1, <1>2, PlacementInv, PTL DEF Spec

\* When a doctor that had a root to test has found all well, and nobody but the two of
\* them changes anything, the sweep is not refused, unless the manifest cannot be opened
\* (executor.rs:139, which the doctor does not try) or a root lies inside the quarantine.
THEOREM DoctorKnows == Spec => []DoctorForetells
<1>1. Inv /\ DoctorSawInv /\ RefusedInv => DoctorForetells
  <2> HIDE DEF HomeAbove, Above
  <2> SUFFICES ASSUME Inv, DoctorSawInv, RefusedInv, At("done"), sweep.exit = "INTERNAL",
                      Asks("done"), doctor.exit = "SUCCESS", doctor.usable # {},
                      quiet = {"sweep", "doctor"}, mode[Q] # "jammed", Outside
               PROVE  FALSE
    BY DEF DoctorForetells, Outside
  <2>1. Reason /\ DoctorSaw
    BY DEF RefusedInv, DoctorSawInv, At
  <2>2. doctor.todo = {} /\ ~ doctor.failed /\ Tested = doctor.usable
    BY <2>1 DEF DoctorSaw, Asks, Tested
  <2>3. /\ Stands(Q) /\ mode[Q] # "sealed"
        /\ \A r \in doctor.usable : SameMounts(r) /\ mode[r] # "sealed"
        /\ \A r \in site.roots \ doctor.usable : Late(r)
    BY <2>1, <2>2 DEF DoctorSaw, Asks
  <2>4. /\ site \in Sites /\ Placed(up) /\ Q \in Dirs /\ site.roots \subseteq Dirs
        /\ doctor.usable \subseteq site.roots
    BY QIsDir, PlacementOK DEF Inv, Types, WorldOK, DoctorOK
  <2>5. ~ CannotEnsure
    <3>1. StandsIn(up, Q)
      BY <2>3, AboveNow
    <3>2. Missing = {}
      BY <2>3, <2>4, <3>1, StandingPath, AboveNow DEF Missing
    <3> QED BY <3>2 DEF CannotEnsure
  <2>6. PICK r \in site.roots : Stands(r) /\ (mode[r] = "sealed" \/ ~ SameMounts(r))
    BY <2>1, <2>3, <2>5 DEF Reason
  <2>7. Late(r) /\ r \in Path /\ mode[r] = "open" /\ ~ SameMounts(r)
    BY <2>3, <2>6 DEF Late
  <2>8. \A m \in Path : m \in Dirs /\ HomeAbove[m] \subseteq Path
    BY <2>4, PathUp
  <2>9. PICK m \in Path \cap site.foreign : m \notin HomeAbove[r] \cup {r}
    BY <2>7, <2>8 DEF SameMounts
  <2>10. r \in HomeAbove[m]
    BY <2>4, <2>7, <2>9, HomeUp DEF Path
  <2>11. PICK u \in doctor.usable : SameMounts(u)
    BY <2>3
  <2>12. m \in HomeAbove[u] \cup {u} /\ u \in Dirs
    BY <2>4, <2>9, <2>11 DEF SameMounts
  <2>13. r \in HomeAbove[u]
    BY <2>10, <2>12, HomeUp
  <2> QED BY <2>7, <2>13 DEF Late
<1> QED BY <1>1, PlacementInv, DoctorSawAlways, RefusedAlways, PTL
=============================================================================
