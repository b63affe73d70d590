-------------------------- MODULE HeartbeatProofs ---------------------------
(***************************************************************************)
(* Proofs about module Heartbeat: a session at work is never taken for an  *)
(* orphan, for any number of sessions, any intervals and any multiplier    *)
(* that leaves room for the time a run takes to read the directory.        *)
(***************************************************************************)
EXTENDS Heartbeat, TLAPS

-----------------------------------------------------------------------------
(* The inductive invariant. *)

Stamps == [there : BOOLEAN, whole : BOOLEAN, touched : Int, stamped : Int]
Entries == [heard : BOOLEAN, readable : BOOLEAN, age : Int]

Types ==
    /\ super \in [Sessions -> {"none", "running", "writing", "dead"}]
    /\ job \in SUBSET Sessions
    /\ file \in [Sessions -> Stamps]
    /\ back \in 0 .. MaxBack
    /\ pc \in {"idle", "stat", "read", "judge"}
    /\ mtime \in SUBSET [session : Sessions, age : Int]
    /\ heard \in [Sessions -> Entries]
    /\ readable \in BOOLEAN
    /\ load \in 0 .. MaxLoad
    /\ released \in SUBSET asked /\ asked \in SUBSET Sessions
    /\ listed \in SUBSET Sessions /\ claimed \in SUBSET Sessions

\* No stamp is older than the oldest age told apart, nor newer than the clock has
\* been set back.
FileAges == \A s \in Sessions : file[s].touched \in Ages(s) /\ file[s].stamped \in Ages(s)

HeardAges ==
    /\ \A s \in Sessions :
          /\ heard[s].age \in Ages(s)
          /\ ~heard[s].heard => heard[s].age = 0
          /\ pc = "judge" => heard[s].age \in {0, Bound(s)}
    /\ \A m \in mtime : m.age \in Ages(m.session)

\* How far the run has come with the names it listed.
Reading ==
    /\ ~Loading => todo = {} /\ load = 0
    /\ pc # "judge" => asked = {}
    /\ pc = "idle" => listed = {} /\ claimed = {}
    /\ (mtime # {}) = (pc = "read")
    /\ \A m \in mtime : m.session \in todo
    /\ todo \subseteq listed
    /\ \A s \in Sessions : heard[s].heard = (s \in listed /\ s \notin todo)

\* A session at work has its file, touched in time.
InOrder ==
    \A s \in Sessions :
        /\ AtWork(s) => file[s].there = TRUE
        /\ file[s].there /\ s \notin InPlace => file[s].whole = TRUE
        /\ super[s] = "none" => s \notin job
        /\ Running(s) => file[s].touched <= Interval(s)
        /\ s \in claimed => AtWork(s)

\* What the run knows of the sessions at work since it listed the directory: the
\* age it holds is at most the interval and the time it has been reading.
Known(s) ==
    /\ readable => s \in listed
    /\ heard[s].heard /\ s \notin InPlace => heard[s].readable = TRUE
    /\ heard[s].heard /\ Running(s) =>
          IF pc = "judge" THEN heard[s].age < Bound(s) ELSE heard[s].age <= Interval(s) + load
    /\ \A m \in mtime : m.session = s /\ Running(s) => m.age <= Interval(s) + load

KnownClaims == \A s \in claimed : Known(s)

Inv ==
    /\ Types /\ FileAges /\ HeardAges /\ Reading
    /\ InOrder /\ KnownClaims /\ LiveClaimProtects

-----------------------------------------------------------------------------
(* Intervals and bounds. *)

LEMMA Bounds ==
    ASSUME NEW s \in Sessions
    PROVE  /\ Interval(s) \in Nat /\ Bound(s) \in Nat /\ MaxLoad \in Nat /\ MaxBack \in Nat
           /\ Interval(s) + MaxLoad < Bound(s)
           /\ 0 < Bound(s)
<1>1. Interval(s) \in Nat /\ Multiplier \in Nat /\ MaxLoad \in Nat /\ MaxBack \in Nat
  BY HeartbeatOK DEF Interval
<1>2. Bound(s) \in Nat
  BY <1>1 DEF Bound
<1>3. Interval(s) + MaxLoad < Bound(s)
  BY InTime
<1> QED BY <1>1, <1>2, <1>3

\* Zero is an age that is told apart, and so is the oldest.
LEMMA ZeroIsAnAge ==
    ASSUME Types, NEW s \in Sessions
    PROVE  /\ back \in Nat /\ back <= MaxBack
           /\ Oldest(s) \in Nat /\ 0 <= Oldest(s) /\ Bound(s) <= Oldest(s)
           /\ 0 \in Ages(s) /\ Oldest(s) \in Ages(s) /\ Bound(s) \in Ages(s)
<1>1. back \in Nat /\ back <= MaxBack /\ MaxBack \in Nat /\ Bound(s) \in Nat
  BY Bounds DEF Types
<1>2. Oldest(s) \in Nat /\ 0 <= Oldest(s) /\ Bound(s) <= Oldest(s)
  BY <1>1 DEF Oldest
<1> QED BY <1>1, <1>2 DEF Ages

LEMMA WithinAges ==
    ASSUME NEW bound \in Nat, NEW max \in Nat, NEW b \in Nat, b <= max
    PROVE  0 \in -b .. (bound + max - b) /\ bound \in -b .. (bound + max - b)
OBVIOUS

\* A new or rewritten file.
LEMMA FreshFile ==
    /\ \A w \in BOOLEAN : /\ Fresh(w) \in Stamps /\ Fresh(w).there = TRUE /\ Fresh(w).whole = w
                          /\ Fresh(w).touched = 0 /\ Fresh(w).stamped = 0
    /\ /\ NoFile \in Stamps /\ NoFile.there = FALSE /\ NoFile.touched = 0 /\ NoFile.stamped = 0
BY DEF Fresh, NoFile, Stamps

-----------------------------------------------------------------------------
(* Steps of supervisors and jobs, which the run does not see. *)

LEMMA WorldStep ==
    ASSUME Inv, UNCHANGED <<back, runVars, listed>>,
           super' \in [Sessions -> {"none", "running", "writing", "dead"}],
           job' \in SUBSET Sessions, claimed' \subseteq claimed,
           file' \in [Sessions -> Stamps], FileAges', InOrder',
           \A s \in claimed' : Running(s)' => Running(s)
    PROVE  Inv'
<1>1. Types'
  BY DEF Inv, Types, runVars
<1>2. HeardAges'
  BY DEF Inv, HeardAges, runVars, Ages, Oldest
<1>3. Reading'
  BY DEF Inv, Reading, runVars, Loading
<1>4. KnownClaims'
  <2> SUFFICES ASSUME NEW s \in claimed' PROVE Known(s)'
    BY DEF KnownClaims
  <2>1. Known(s) /\ (Running(s)' => Running(s))
    BY DEF Inv, KnownClaims
  <2> QED BY <2>1 DEF Known, runVars
<1>5. LiveClaimProtects'
  BY DEF Inv, LiveClaimProtects, runVars
<1> QED BY <1>1, <1>2, <1>3, <1>4, <1>5 DEF Inv

\* A file that is fresh is in order, and nothing else has moved.
LEMMA FreshStep ==
    ASSUME Inv, NEW t \in Sessions, NEW whole \in BOOLEAN,
           file' = [file EXCEPT ![t] = Fresh(whole)],
           UNCHANGED <<back, runVars, listed, claimed>>,
           super' \in [Sessions -> {"none", "running", "writing", "dead"}],
           \A s \in Sessions \ {t} : super'[s] = super[s] /\ (s \in job' <=> s \in job),
           super'[t] # "none", job' \in SUBSET Sessions,
           t \notin InPlace => whole = TRUE,
           Running(t)', t \in claimed => Running(t)
    PROVE  Inv'
<1>1. Types
  BY DEF Inv
<1>2. file' \in [Sessions -> Stamps] /\ file'[t] = Fresh(whole)
  BY <1>1, FreshFile DEF Types
<1>3. \A s \in Sessions : UNCHANGED <<Ages(s), Interval(s)>>
  BY DEF Ages, Oldest, Interval
<1>4. FileAges'
  <2> SUFFICES ASSUME NEW s \in Sessions
               PROVE  file'[s].touched \in Ages(s) /\ file'[s].stamped \in Ages(s)
    BY <1>3 DEF FileAges
  <2>1. CASE s = t
    BY <1>1, <1>2, <2>1, FreshFile, ZeroIsAnAge
  <2>2. CASE s # t
    BY <1>1, <2>2 DEF Inv, FileAges, Types
  <2> QED BY <2>1, <2>2
<1>5. InOrder'
  <2> SUFFICES ASSUME NEW s \in Sessions
               PROVE  /\ AtWork(s)' => file'[s].there = TRUE
                      /\ file'[s].there /\ s \notin InPlace => file'[s].whole = TRUE
                      /\ super'[s] = "none" => s \notin job'
                      /\ Running(s)' => file'[s].touched <= Interval(s)
                      /\ s \in claimed' => AtWork(s)'
    BY <1>3 DEF InOrder
  <2>1. CASE s = t
    <3>1. Interval(s) \in Nat
      BY Bounds
    <3> QED BY <1>2, <2>1, <3>1, FreshFile DEF AtWork
  <2>2. CASE s # t
    <3>1. super'[s] = super[s] /\ (s \in job' <=> s \in job) /\ file'[s] = file[s]
      BY <1>1, <2>2 DEF Types
    <3> QED BY <3>1 DEF Inv, InOrder, AtWork, Running
  <2> QED BY <2>1, <2>2
<1>6. \A s \in claimed' : Running(s)' => Running(s)
  <2> SUFFICES ASSUME NEW s \in claimed', Running(s)' PROVE Running(s)
    OBVIOUS
  <2>1. s \in claimed /\ s \in Sessions
    BY <1>1 DEF Types
  <2> QED BY <2>1 DEF Running
<1> QED BY <1>1, <1>2, <1>4, <1>5, <1>6, WorldStep

LEMMA BeginStep ==
    ASSUME Inv, NEW t \in Sessions, Begin(t)
    PROVE  Inv'
<1>1. /\ super[t] = "none" /\ t \notin job /\ job' = job \cup ({t} \cap WithPid)
      /\ UNCHANGED <<back, runVars, listed, claimed>>
  BY DEF Inv, InOrder, Begin
<1>2. t \notin claimed
  BY <1>1 DEF Inv, InOrder, AtWork, Running
<1>3. job' \in SUBSET Sessions /\ \A s \in Sessions \ {t} : s \in job' <=> s \in job
  BY <1>1 DEF Inv, Types
<1>4. CASE t \in InPlace
  <2>1. file' = [file EXCEPT ![t] = Fresh(FALSE)] /\ super' = [super EXCEPT ![t] = "writing"]
    BY <1>4 DEF Begin, WriteFile
  <2>2. /\ super' \in [Sessions -> {"none", "running", "writing", "dead"}]
        /\ super'[t] = "writing" /\ \A s \in Sessions \ {t} : super'[s] = super[s]
    BY <2>1 DEF Inv, Types
  <2> QED BY <1>1, <1>2, <1>3, <1>4, <2>1, <2>2, FreshStep DEF Running
<1>5. CASE t \notin InPlace
  <2>1. file' = [file EXCEPT ![t] = Fresh(TRUE)] /\ super' = [super EXCEPT ![t] = "running"]
    BY <1>5 DEF Begin, WriteFile
  <2>2. /\ super' \in [Sessions -> {"none", "running", "writing", "dead"}]
        /\ super'[t] = "running" /\ \A s \in Sessions \ {t} : super'[s] = super[s]
    BY <2>1 DEF Inv, Types
  <2> QED BY <1>1, <1>2, <1>3, <2>1, <2>2, FreshStep DEF Running
<1> QED BY <1>4, <1>5

LEMMA RewriteStep ==
    ASSUME Inv, NEW t \in Sessions, Rewrite(t) \/ WriteDone(t)
    PROVE  Inv'
<1>1. Running(t) /\ UNCHANGED <<job, back, runVars, listed, claimed>>
  BY DEF Rewrite, WriteDone, Running
<1>2. \/ /\ file' = [file EXCEPT ![t] = Fresh(FALSE)] /\ t \in InPlace
         /\ super' = [super EXCEPT ![t] = "writing"]
      \/ /\ file' = [file EXCEPT ![t] = Fresh(TRUE)]
         /\ super' = [super EXCEPT ![t] = "running"]
  BY DEF Rewrite, WriteDone, WriteFile
<1>3. /\ super' \in [Sessions -> {"none", "running", "writing", "dead"}]
      /\ super'[t] \in {"running", "writing"} /\ \A s \in Sessions \ {t} : super'[s] = super[s]
  BY <1>2 DEF Inv, Types
<1>4. job' \in SUBSET Sessions
  BY <1>1 DEF Inv, Types
<1> QED BY <1>1, <1>2, <1>3, <1>4, FreshStep DEF Running

LEMMA TouchStep ==
    ASSUME Inv, NEW t \in Sessions, Touch(t)
    PROVE  Inv'
<1>1. /\ file' = [file EXCEPT ![t].touched = 0]
      /\ UNCHANGED <<super, job, back, runVars, listed, claimed>>
  BY DEF Touch
<1>2. Types /\ file' \in [Sessions -> Stamps]
  BY <1>1 DEF Inv, Types, Stamps
<1>3. \A s \in Sessions :
         /\ file'[s].there = file[s].there /\ file'[s].whole = file[s].whole
         /\ file'[s].stamped = file[s].stamped
         /\ file'[s].touched = IF s = t THEN 0 ELSE file[s].touched
  BY <1>1, <1>2 DEF Types, Stamps
<1>4. FileAges'
  BY <1>1, <1>2, <1>3, ZeroIsAnAge DEF Inv, FileAges, Ages, Oldest
<1>5. \A s \in Sessions : AtWork(s)' = AtWork(s) /\ Running(s)' = Running(s)
  BY <1>1 DEF AtWork, Running
<1>6. InOrder'
  <2> SUFFICES ASSUME NEW s \in Sessions
               PROVE  /\ AtWork(s)' => file'[s].there = TRUE
                      /\ file'[s].there /\ s \notin InPlace => file'[s].whole = TRUE
                      /\ super'[s] = "none" => s \notin job'
                      /\ Running(s)' => file'[s].touched <= Interval(s)
                      /\ s \in claimed' => AtWork(s)'
    BY DEF InOrder, Interval
  <2>1. Interval(s) \in Nat
    BY Bounds
  <2>2. Running(s)' => file'[s].touched <= Interval(s)
    BY <1>3, <1>5, <2>1 DEF Inv, InOrder
  <2> QED BY <1>1, <1>3, <1>5, <2>2 DEF Inv, InOrder
<1> QED BY <1>1, <1>2, <1>4, <1>5, <1>6, WorldStep DEF Types

\* A session that ends, or whose processes die, moves to a state in which it claims less.
LEMMA LeaveStep ==
    ASSUME Inv, NEW t \in Sessions, EndSession(t) \/ SupervisorDies(t) \/ JobDies(t)
    PROVE  Inv'
<1>1. Types /\ UNCHANGED <<back, runVars, listed>>
  BY DEF Inv, EndSession, SupervisorDies, JobDies
<1>2. /\ super' \in [Sessions -> {"none", "running", "writing", "dead"}]
      /\ super'[t] \in {"none", "dead"} /\ job' \in SUBSET Sessions
      /\ \A s \in Sessions \ {t} : super'[s] = super[s] /\ (s \in job' <=> s \in job)
      /\ t \in job' => t \in job
  BY <1>1 DEF EndSession, SupervisorDies, JobDies, Types
<1>3. claimed' \subseteq claimed
  BY DEF EndSession, SupervisorDies, JobDies
<1>4. /\ t \in claimed' => t \in job'
      /\ super'[t] = "none" => t \notin job'
  BY <1>1 DEF EndSession, SupervisorDies, JobDies, Types, Inv, InOrder, AtWork, Running
<1>5. /\ file' \in [Sessions -> Stamps] /\ \A s \in Sessions \ {t} : file'[s] = file[s]
      /\ file'[t] \in {file[t], NoFile} /\ (t \in job' => file'[t] = file[t])
  BY <1>1, FreshFile DEF EndSession, SupervisorDies, JobDies, Types
<1>6. \A s \in Sessions : UNCHANGED <<Ages(s), Interval(s)>>
  BY <1>1 DEF Ages, Oldest, Interval
<1>7. FileAges'
  BY <1>1, <1>5, <1>6, FreshFile, ZeroIsAnAge DEF Inv, FileAges
<1>8. \A s \in Sessions : Running(s)' => s # t /\ Running(s)
  BY <1>2 DEF Running
<1>9. InOrder'
  <2> SUFFICES ASSUME NEW s \in Sessions
               PROVE  /\ AtWork(s)' => file'[s].there = TRUE
                      /\ file'[s].there /\ s \notin InPlace => file'[s].whole = TRUE
                      /\ super'[s] = "none" => s \notin job'
                      /\ Running(s)' => file'[s].touched <= Interval(s)
                      /\ s \in claimed' => AtWork(s)'
    BY <1>6 DEF InOrder
  <2>1. CASE s = t
    <3>1. ~Running(s)' /\ (AtWork(s)' <=> s \in job') /\ (s \in job' => AtWork(s))
      BY <1>2, <1>8, <2>1 DEF AtWork
    <3>2. AtWork(s)' => file'[s].there = TRUE
      BY <1>5, <2>1, <3>1 DEF Inv, InOrder
    <3>3. file'[s].there /\ s \notin InPlace => file'[s].whole = TRUE
      BY <1>5, <2>1, FreshFile DEF Inv, InOrder
    <3> QED BY <1>4, <2>1, <3>1, <3>2, <3>3
  <2>2. CASE s # t
    <3>1. super'[s] = super[s] /\ (s \in job' <=> s \in job) /\ file'[s] = file[s]
      BY <1>2, <1>5, <2>2
    <3> QED BY <1>3, <3>1 DEF Inv, InOrder, AtWork, Running
  <2> QED BY <2>1, <2>2
<1> QED BY <1>1, <1>2, <1>3, <1>5, <1>7, <1>8, <1>9, WorldStep DEF Types

-----------------------------------------------------------------------------
(* The clock. *)

\* Time moves by d: one on, or one back, which the oldest age follows.
LEMMA AgedIsAnAge ==
    ASSUME Types, NEW s \in Sessions, NEW a \in Ages(s), NEW d \in Int,
           (d = 1 /\ back' = back) \/ (d = -1 /\ back' = back + 1)
    PROVE  Aged(s, a, d) \in Ages(s)' /\ Aged(s, a, d) \in Int /\ Aged(s, a, d) <= a + d
<1>1. back \in Int /\ Oldest(s) \in Int /\ back \in Nat /\ 0 <= Oldest(s)
  BY ZeroIsAnAge
<1>2. a \in Int /\ -back <= a /\ a <= Oldest(s)
  BY <1>1 DEF Ages
<1>3. Oldest(s)' = Oldest(s) + back - back'
  <2>1. Bound(s) \in Nat /\ MaxBack \in Nat
    BY Bounds
  <2>2. Bound(s)' = Bound(s)
    BY DEF Bound, Interval
  <2> QED BY <1>1, <2>1, <2>2 DEF Oldest
<1>4. CASE d = 1 /\ back' = back
  BY <1>1, <1>2, <1>3, <1>4 DEF Aged, Ages
<1>5. CASE d = -1 /\ back' = back + 1
  BY <1>1, <1>2, <1>3, <1>5 DEF Aged, Ages
<1> QED BY <1>4, <1>5

LEMMA PassStep ==
    ASSUME Inv, NEW d \in Int, Pass(d), back' \in 0 .. MaxBack, load' \in 0 .. MaxLoad,
           (d = 1 /\ back' = back) \/ (d = -1 /\ back' = back + 1),
           ~Loading => load' = load, Loading => load + d <= load',
           \A s \in Sessions : Running(s) => file[s].touched + d <= Interval(s)
    PROVE  Inv'
<1>1. /\ Types /\ UNCHANGED <<super, job, pc, todo, readable, asked, released, listed, claimed>>
      /\ \A s \in Sessions : UNCHANGED <<Interval(s), Bound(s), Running(s), AtWork(s)>>
      /\ (Loading <=> Loading')
  BY DEF Inv, Pass, Interval, Bound, Running, AtWork, Loading
<1>2. \A s \in Sessions :
         /\ file[s] \in Stamps
         /\ file'[s] = IF ~file[s].there THEN NoFile
                       ELSE [file[s] EXCEPT !.touched = Aged(s, @, d), !.stamped = Aged(s, @, d)]
         /\ heard[s] \in Entries
         /\ heard'[s] = IF ~Loading \/ ~heard[s].heard THEN heard[s]
                        ELSE [heard[s] EXCEPT !.age = Aged(s, @, d)]
  BY <1>1 DEF Pass, Types
<1>3. \A s \in Sessions :
         /\ file'[s] \in Stamps /\ file'[s].there = file[s].there
         /\ file[s].there => /\ file'[s].whole = file[s].whole
                             /\ file'[s].touched <= file[s].touched + d
         /\ file'[s].touched \in Ages(s)' /\ file'[s].stamped \in Ages(s)'
  <2> SUFFICES ASSUME NEW s \in Sessions
               PROVE  /\ file'[s] \in Stamps /\ file'[s].there = file[s].there
                      /\ file[s].there => /\ file'[s].whole = file[s].whole
                                          /\ file'[s].touched <= file[s].touched + d
                      /\ file'[s].touched \in Ages(s)' /\ file'[s].stamped \in Ages(s)'
    OBVIOUS
  <2>1. 0 \in Ages(s)'
    <3>1. back' \in Nat /\ MaxBack \in Nat /\ Bound(s) \in Nat /\ back' <= MaxBack
      BY Bounds
    <3>2. Oldest(s)' = Bound(s) + MaxBack - back'
      BY <1>1 DEF Oldest
    <3> QED BY <3>1, <3>2 DEF Ages
  <2>2. CASE file[s].there = FALSE
    BY <1>2, <2>1, <2>2, FreshFile
  <2>3. CASE file[s].there = TRUE
    <3>1. file[s].touched \in Ages(s) /\ file[s].stamped \in Ages(s)
      BY DEF Inv, FileAges
    <3>2. /\ Aged(s, file[s].touched, d) \in Ages(s)' /\ Aged(s, file[s].touched, d) \in Int
          /\ Aged(s, file[s].stamped, d) \in Ages(s)' /\ Aged(s, file[s].stamped, d) \in Int
          /\ Aged(s, file[s].touched, d) <= file[s].touched + d
      BY <1>1, <3>1, AgedIsAnAge
    <3>3. file'[s] = [file[s] EXCEPT !.touched = Aged(s, @, d), !.stamped = Aged(s, @, d)]
      BY <1>2, <2>3
    <3>4. /\ file'[s].touched = Aged(s, file[s].touched, d)
          /\ file'[s].stamped = Aged(s, file[s].stamped, d)
          /\ file'[s].there = file[s].there /\ file'[s].whole = file[s].whole
      BY <1>2, <3>3 DEF Stamps
    <3>5. file'[s] \in Stamps
      BY <1>2, <3>2, <3>3 DEF Stamps
    <3> QED BY <3>2, <3>4, <3>5
  <2>4. file[s].there \in BOOLEAN
    BY <1>2 DEF Stamps
  <2> QED BY <2>2, <2>3, <2>4
<1>4. \A s \in Sessions :
         /\ heard'[s] \in Entries /\ heard'[s].heard = heard[s].heard
         /\ heard'[s].readable = heard[s].readable
         /\ Loading /\ heard[s].heard =>
               heard'[s].age <= heard[s].age + d /\ heard'[s].age \in Ages(s)'
         /\ ~Loading \/ ~heard[s].heard => heard'[s].age = heard[s].age
  <2> SUFFICES ASSUME NEW s \in Sessions
               PROVE  /\ heard'[s] \in Entries /\ heard'[s].heard = heard[s].heard
                      /\ heard'[s].readable = heard[s].readable
                      /\ Loading /\ heard[s].heard =>
                            heard'[s].age <= heard[s].age + d /\ heard'[s].age \in Ages(s)'
                      /\ ~Loading \/ ~heard[s].heard => heard'[s].age = heard[s].age
    OBVIOUS
  <2>1. CASE ~Loading \/ ~heard[s].heard
    BY <1>2, <2>1
  <2>2. CASE Loading /\ heard[s].heard
    <3>1. heard[s].age \in Ages(s)
      BY DEF Inv, HeardAges
    <3>2. /\ Aged(s, heard[s].age, d) \in Ages(s)' /\ Aged(s, heard[s].age, d) \in Int
          /\ Aged(s, heard[s].age, d) <= heard[s].age + d
      BY <1>1, <3>1, AgedIsAnAge
    <3> QED BY <1>2, <2>2, <3>2 DEF Entries
  <2> QED BY <2>1, <2>2
<1>5. \A n \in mtime' : \E m \in mtime :
         /\ n.session = m.session /\ n \in [session : Sessions, age : Int]
         /\ n.age \in Ages(n.session)' /\ n.age <= m.age + d
  <2> SUFFICES ASSUME NEW n \in mtime'
               PROVE  \E m \in mtime :
                         /\ n.session = m.session /\ n \in [session : Sessions, age : Int]
                         /\ n.age \in Ages(n.session)' /\ n.age <= m.age + d
    OBVIOUS
  <2>1. PICK m \in mtime : n = [m EXCEPT !.age = Aged(m.session, @, d)]
    BY DEF Pass
  <2>2. m \in [session : Sessions, age : Int] /\ m.age \in Ages(m.session)
    BY <1>1 DEF Inv, HeardAges, Types
  <2>3. /\ Aged(m.session, m.age, d) \in Ages(m.session)' /\ Aged(m.session, m.age, d) \in Int
        /\ Aged(m.session, m.age, d) <= m.age + d
    BY <1>1, <2>2, AgedIsAnAge
  <2>4. n.session = m.session /\ n.age = Aged(m.session, m.age, d)
    BY <2>1, <2>2
  <2> QED BY <2>1, <2>2, <2>3, <2>4
<1>6. mtime' = {} <=> mtime = {}
  BY DEF Pass
<1>7. Types' /\ FileAges'
  BY <1>1, <1>2, <1>3, <1>4, <1>5 DEF Pass, Types, FileAges
<1>8. \A s \in Sessions : 0 \in Ages(s)' /\ Bound(s) \in Ages(s)' /\ Bound(s)' = Bound(s)
  <2> SUFFICES ASSUME NEW s \in Sessions
               PROVE  0 \in Ages(s)' /\ Bound(s) \in Ages(s)' /\ Bound(s)' = Bound(s)
    OBVIOUS
  <2>1. back' \in Nat /\ MaxBack \in Nat /\ Bound(s) \in Nat /\ back' <= MaxBack
    BY Bounds
  <2>2. Oldest(s)' = Bound(s) + MaxBack - back'
    BY <1>1 DEF Oldest
  <2>3. 0 \in Ages(s)' /\ Bound(s) \in Ages(s)'
    BY <2>1, <2>2, WithinAges DEF Ages
  <2> QED BY <1>1, <2>3
<1>9. HeardAges'
  <2>1. \A s \in Sessions : /\ ~heard'[s].heard => heard'[s].age = 0
                            /\ pc' = "judge" => heard'[s].age \in {0, Bound(s)'}
    BY <1>1, <1>4, <1>8 DEF Inv, HeardAges, Loading
  <2>2. \A s \in Sessions : heard'[s].age \in Ages(s)'
    <3> SUFFICES ASSUME NEW s \in Sessions PROVE heard'[s].age \in Ages(s)'
      OBVIOUS
    <3>1. CASE heard[s].heard /\ Loading
      BY <1>4, <3>1
    <3>2. CASE ~heard[s].heard
      BY <1>4, <1>8, <2>1, <3>2
    <3>3. CASE heard[s].heard /\ pc = "judge"
      BY <1>1, <1>8, <2>1, <3>3
    <3>4. CASE heard[s].heard /\ pc = "idle"
      BY <3>4 DEF Inv, Reading
    <3> QED BY <1>1, <3>1, <3>2, <3>3, <3>4 DEF Types, Loading
  <2> QED BY <1>5, <2>1, <2>2 DEF HeardAges
<1>10. Reading'
  <2>1. ~Loading' => todo' = {} /\ load' = 0
    BY <1>1 DEF Inv, Reading
  <2>2. /\ pc' # "judge" => asked' = {}
        /\ pc' = "idle" => listed' = {} /\ claimed' = {}
        /\ todo' \subseteq listed'
    BY <1>1 DEF Inv, Reading
  <2>3. (mtime' # {}) = (pc' = "read") /\ \A m \in mtime' : m.session \in todo'
    BY <1>1, <1>5, <1>6 DEF Inv, Reading
  <2>4. \A s \in Sessions : heard'[s].heard = (s \in listed' /\ s \notin todo')
    BY <1>1, <1>4 DEF Inv, Reading
  <2> QED BY <2>1, <2>2, <2>3, <2>4 DEF Reading
<1>11. InOrder'
  <2> SUFFICES ASSUME NEW s \in Sessions
               PROVE  /\ AtWork(s)' => file'[s].there = TRUE
                      /\ file'[s].there /\ s \notin InPlace => file'[s].whole = TRUE
                      /\ super'[s] = "none" => s \notin job'
                      /\ Running(s)' => file'[s].touched <= Interval(s)'
                      /\ s \in claimed' => AtWork(s)'
    BY DEF InOrder
  <2>1. Running(s) => file'[s].touched <= Interval(s)
    <3>1. SUFFICES ASSUME Running(s) PROVE file'[s].touched <= Interval(s)
      OBVIOUS
    <3>2. file[s].there /\ file[s].touched + d <= Interval(s)
      BY <3>1 DEF Inv, InOrder, AtWork
    <3>3. /\ file'[s].touched \in Int /\ file[s].touched \in Int /\ Interval(s) \in Int
          /\ file'[s].touched <= file[s].touched + d
      <4>1. file'[s] \in Stamps /\ file[s] \in Stamps
        BY <1>2, <1>3
      <4>2. file'[s].touched <= file[s].touched + d
        BY <1>3, <3>2
      <4> QED BY <4>1, <4>2, Bounds DEF Stamps
    <3> QED BY <3>2, <3>3
  <2> QED BY <1>1, <1>3, <2>1 DEF Inv, InOrder
<1>12. KnownClaims'
  <2> SUFFICES ASSUME NEW s \in claimed PROVE Known(s)'
    BY <1>1 DEF KnownClaims
  <2>1. /\ Known(s) /\ s \in Sessions
    BY <1>1 DEF Inv, KnownClaims, Types
  <2>2. /\ Interval(s) \in Int /\ load \in Int /\ load' \in Int /\ Bound(s) \in Int
        /\ heard[s].age \in Int /\ heard'[s].age \in Int
    BY <1>1, <1>4, <2>1, Bounds DEF Types, Entries
  <2>3. readable' => s \in listed'
    BY <1>1, <2>1 DEF Known
  <2>4. heard'[s].heard /\ s \notin InPlace => heard'[s].readable = TRUE
    BY <1>4, <2>1 DEF Known
  <2>5. heard'[s].heard /\ Running(s)' =>
          IF pc' = "judge" THEN heard'[s].age < Bound(s)'
          ELSE heard'[s].age <= Interval(s)' + load'
    <3>1. SUFFICES ASSUME heard[s].heard, Running(s)
                   PROVE  IF pc = "judge" THEN heard'[s].age < Bound(s)
                          ELSE heard'[s].age <= Interval(s) + load'
      BY <1>1, <1>4, <2>1
    <3>2. CASE pc = "judge"
      BY <1>4, <2>1, <3>1, <3>2 DEF Known, Loading
    <3>3. CASE pc # "judge" /\ Loading
      <4>1. heard[s].age <= Interval(s) + load /\ heard'[s].age <= heard[s].age + d
        BY <1>4, <2>1, <3>1, <3>3 DEF Known
      <4>2. load + d <= load'
        BY <3>3
      <4> QED BY <2>2, <3>3, <4>1, <4>2
    <3>4. CASE pc # "judge" /\ ~Loading
      BY <1>4, <2>1, <3>1, <3>4 DEF Known
    <3> QED BY <3>2, <3>3, <3>4
  <2>6. \A n \in mtime' : n.session = s /\ Running(s)' => n.age <= Interval(s)' + load'
    <3> SUFFICES ASSUME NEW n \in mtime', n.session = s, Running(s)
                 PROVE  n.age <= Interval(s) + load'
      BY <1>1, <2>1
    <3>1. PICK m \in mtime : /\ n.session = m.session /\ n.age \in Int
                             /\ n.age <= m.age + d
      BY <1>5
    <3>2. m.age <= Interval(s) + load /\ m.age \in Int
      BY <1>1, <2>1, <3>1 DEF Known, Types
    <3>3. load + d <= load'
      BY <1>1 DEF Inv, Reading, Loading
    <3> QED BY <2>2, <3>1, <3>2, <3>3
  <2> QED BY <2>3, <2>4, <2>5, <2>6 DEF Known
<1>13. LiveClaimProtects'
  BY <1>1 DEF Inv, LiveClaimProtects
<1> QED BY <1>7, <1>9, <1>10, <1>11, <1>12, <1>13 DEF Inv

LEMMA ClockStep ==
    ASSUME Inv, Tick \/ SetBack
    PROVE  Inv'
<1>1. Types /\ MaxBack \in Nat /\ back \in Nat /\ MaxLoad \in Nat /\ load \in Nat /\ load <= MaxLoad
  BY HeartbeatOK DEF Inv, Types
<1>2. \A s \in Sessions : Running(s) =>
         /\ file[s].touched \in Int /\ Interval(s) \in Int /\ file[s].touched <= Interval(s)
  BY <1>1, Bounds DEF Inv, InOrder, Types, Stamps
<1>3. CASE Tick
  <2> DEFINE d == 1
  <2>1. /\ Pass(d) /\ back' = back /\ (Loading => load < MaxLoad)
        /\ load' = IF Loading THEN load + 1 ELSE load
        /\ \A s \in Sessions : Running(s) => file[s].touched < Interval(s)
    BY <1>3 DEF Tick
  <2>2. back' \in 0 .. MaxBack /\ load' \in 0 .. MaxLoad
    BY <1>1, <2>1 DEF Types
  <2>3. \A s \in Sessions : Running(s) => file[s].touched + d <= Interval(s)
    BY <1>2, <2>1
  <2>4. ~Loading => load' = load
    BY <2>1
  <2>5. Loading => load + d <= load'
    BY <1>1, <2>1
  <2>6. d \in Int /\ ((d = 1 /\ back' = back) \/ (d = -1 /\ back' = back + 1))
    BY <2>1
  <2> HIDE DEF d
  <2> QED BY <2>1, <2>2, <2>3, <2>4, <2>5, <2>6, PassStep
<1>4. CASE SetBack
  <2> DEFINE d == -1
  <2>1. Pass(d) /\ back' = back + 1 /\ back < MaxBack /\ load' = load
    BY <1>4 DEF SetBack
  <2>2. back' \in 0 .. MaxBack /\ load' \in 0 .. MaxLoad
    BY <1>1, <2>1 DEF Types
  <2>3. \A s \in Sessions : Running(s) => file[s].touched + d <= Interval(s)
    BY <1>2
  <2>4. load + d <= load' /\ d \in Int /\ d = -1
    BY <1>1, <2>1
  <2> HIDE DEF d
  <2> QED BY <2>1, <2>2, <2>3, <2>4, PassStep
<1> QED BY <1>3, <1>4

-----------------------------------------------------------------------------
(* The run. *)

\* It changes nothing of what the supervisors do, and takes up no claim but those of
\* sessions at work.
LEMMA RunFrame ==
    ASSUME Inv, UNCHANGED worldVars, \A s \in claimed' : AtWork(s)
    PROVE  /\ FileAges' /\ InOrder'
           /\ \A s \in Sessions :
                 UNCHANGED <<Interval(s), Bound(s), Ages(s), Running(s), AtWork(s)>>
<1>1. UNCHANGED <<super, job, file, back>>
  BY DEF worldVars
<1>2. \A s \in Sessions : UNCHANGED <<Interval(s), Bound(s), Ages(s), Running(s), AtWork(s)>>
  BY <1>1 DEF Interval, Bound, Ages, Oldest, Running, AtWork
<1>3. FileAges'
  BY <1>1, <1>2 DEF Inv, FileAges
<1>4. InOrder'
  BY <1>1, <1>2 DEF Inv, InOrder
<1> QED BY <1>2, <1>3, <1>4

LEMMA SameAges ==
    ASSUME Inv, UNCHANGED <<heard, mtime>>, pc' = "judge" => pc = "judge",
           \A s \in Sessions : UNCHANGED <<Bound(s), Ages(s)>>
    PROVE  HeardAges'
<1>1. \A s \in Sessions : heard'[s].age \in Ages(s)' /\ (~heard'[s].heard => heard'[s].age = 0)
  BY DEF Inv, HeardAges
<1>2. \A s \in Sessions : pc' = "judge" => heard'[s].age \in {0, Bound(s)'}
  BY DEF Inv, HeardAges
<1>3. \A m \in mtime' : m.age \in Ages(m.session)'
  BY DEF Inv, HeardAges, Types
<1> QED BY <1>1, <1>2, <1>3 DEF HeardAges

LEMMA ListStep ==
    ASSUME Inv, List
    PROVE  Inv'
<1>1. /\ Types /\ UNCHANGED worldVars /\ UNCHANGED <<mtime, heard, load, asked, released>>
      /\ pc = "idle" /\ pc' = "stat" /\ todo' = listed' /\ readable' \in BOOLEAN
      /\ listed' \in SUBSET Sessions /\ claimed' = {s \in Sessions : AtWork(s)}
      /\ readable' => listed' = {s \in Sessions : file[s].there}
  BY DEF Inv, List
<1>2. /\ FileAges' /\ InOrder'
      /\ \A s \in Sessions : UNCHANGED <<Interval(s), Bound(s), Ages(s), Running(s), AtWork(s)>>
  BY <1>1, RunFrame
<1>3. /\ asked = {} /\ released = {} /\ mtime = {}
      /\ \A s \in Sessions : heard[s].heard = FALSE
  BY <1>1 DEF Inv, Reading, Types
<1>4. Types'
  BY <1>1 DEF Types, worldVars
<1>5. HeardAges'
  BY <1>1, <1>2, SameAges
<1>6. Reading'
  BY <1>1, <1>3 DEF Reading, Loading
<1>7. KnownClaims'
  <2> SUFFICES ASSUME NEW s \in claimed' PROVE Known(s)'
    BY DEF KnownClaims
  <2>1. s \in Sessions /\ AtWork(s) /\ heard'[s].heard = FALSE /\ mtime' = {}
    BY <1>1, <1>3
  <2>2. file[s].there = TRUE
    BY <2>1 DEF Inv, InOrder
  <2> QED BY <1>1, <2>1, <2>2 DEF Known
<1>8. LiveClaimProtects'
  BY <1>1, <1>3 DEF LiveClaimProtects
<1> QED BY <1>2, <1>4, <1>5, <1>6, <1>7, <1>8 DEF Inv

LEMMA StatStep ==
    ASSUME Inv, NEW t \in Sessions, Stat(t)
    PROVE  Inv'
<1> DEFINE age == IF file[t].there THEN file[t].touched ELSE Oldest(t)
<1>1. /\ Types /\ UNCHANGED worldVars /\ pc = "stat" /\ pc' = "read" /\ t \in todo
      /\ UNCHANGED <<todo, heard, readable, load, asked, released, listed, claimed>>
      /\ mtime' = {[session |-> t, age |-> age]}
  BY DEF Inv, Stat
<1>2. /\ FileAges' /\ InOrder'
      /\ \A s \in Sessions : UNCHANGED <<Interval(s), Bound(s), Ages(s), Running(s), AtWork(s)>>
  BY <1>1, RunFrame DEF Inv, InOrder, Types
<1>3. age \in Ages(t) /\ age \in Int
  <2>1. file[t].touched \in Ages(t) /\ Oldest(t) \in Ages(t)
    BY <1>1, ZeroIsAnAge DEF Inv, FileAges
  <2> QED BY <1>1, <2>1, ZeroIsAnAge DEF Types, Stamps
<1>4. Running(t) => age <= Interval(t)
  BY DEF Inv, InOrder, AtWork
<1> HIDE DEF age
<1>5. Types'
  BY <1>1, <1>3 DEF Types, worldVars
<1>6. HeardAges'
  <2>1. \A m \in mtime' : m.session = t /\ m.age = age
    BY <1>1
  <2>2. \A m \in mtime' : m.age \in Ages(m.session)'
    BY <1>2, <1>3, <2>1
  <2>3. \A s \in Sessions : /\ heard'[s].age \in Ages(s)'
                            /\ ~heard'[s].heard => heard'[s].age = 0
    BY <1>1, <1>2 DEF Inv, HeardAges
  <2>4. pc' # "judge"
    BY <1>1
  <2> QED BY <2>2, <2>3, <2>4 DEF HeardAges
<1>7. Reading'
  BY <1>1 DEF Inv, Reading, Loading
<1>8. KnownClaims'
  <2> SUFFICES ASSUME NEW s \in claimed PROVE Known(s)'
    BY <1>1 DEF KnownClaims
  <2>1. Known(s) /\ s \in Sessions
    BY <1>1 DEF Inv, KnownClaims, Types
  <2>2. \A m \in mtime' : m.session = s /\ Running(s)' => m.age <= Interval(s)' + load'
    <3> SUFFICES ASSUME s = t, Running(t) PROVE age <= Interval(t) + load
      BY <1>1, <1>2, <2>1
    <3>1. Interval(t) \in Nat /\ load \in Nat
      BY <1>1, Bounds DEF Types
    <3> QED BY <1>3, <1>4, <3>1
  <2> QED BY <1>1, <1>2, <2>1, <2>2 DEF Known
<1>9. LiveClaimProtects'
  BY <1>1 DEF Inv, LiveClaimProtects
<1> QED BY <1>2, <1>5, <1>6, <1>7, <1>8, <1>9 DEF Inv

LEMMA ReadStep ==
    ASSUME Inv, Read
    PROVE  Inv'
<1>1. /\ Types /\ UNCHANGED worldVars /\ pc = "read" /\ pc' = "stat" /\ mtime' = {}
      /\ UNCHANGED <<readable, load, asked, released, listed, claimed>>
  BY DEF Inv, Read
<1>2. PICK m \in mtime : /\ heard' = [heard EXCEPT ![m.session] = EntryOf(m.session, m.age)]
                         /\ todo' = todo \ {m.session}
  BY DEF Read
<1>3. /\ m \in [session : Sessions, age : Int] /\ m.session \in todo
      /\ m.age \in Ages(m.session)
  BY <1>1 DEF Inv, Types, Reading, HeardAges
<1> DEFINE t == m.session
           entry == EntryOf(t, m.age)
<1>4. /\ FileAges' /\ InOrder'
      /\ \A s \in Sessions : UNCHANGED <<Interval(s), Bound(s), Ages(s), Running(s), AtWork(s)>>
  BY <1>1, RunFrame DEF Inv, InOrder, Types
<1>5. /\ entry \in Entries /\ entry.heard = TRUE
      /\ entry.age \in Ages(t) /\ entry.age <= m.age
      /\ file[t].there /\ file[t].whole => entry.readable = TRUE
  <2>1. file[t].stamped \in Ages(t) /\ file[t].stamped \in Int /\ m.age \in Int
    BY <1>1, <1>3 DEF Inv, FileAges, Types, Stamps
  <2>2. Newer(m.age, file[t].stamped) \in Ages(t) /\ Newer(m.age, file[t].stamped) \in Int
        /\ Newer(m.age, file[t].stamped) <= m.age
    BY <1>3, <2>1 DEF Newer
  <2>3. CASE file[t].there /\ file[t].whole
    BY <2>2, <2>3 DEF EntryOf, Heard, Entries
  <2>4. CASE ~(file[t].there /\ file[t].whole)
    BY <1>3, <2>1, <2>4 DEF EntryOf, Heard, Entries
  <2> QED BY <2>3, <2>4
<1> HIDE DEF entry
<1>6. /\ heard' \in [Sessions -> Entries] /\ heard'[t] = entry
      /\ \A s \in Sessions \ {t} : heard'[s] = heard[s]
  BY <1>1, <1>2, <1>3, <1>5 DEF Types, entry
<1>7. Types'
  BY <1>1, <1>6 DEF Types, worldVars
<1>8. HeardAges'
  <2> SUFFICES ASSUME NEW s \in Sessions
               PROVE  heard'[s].age \in Ages(s) /\ (~heard'[s].heard => heard'[s].age = 0)
    BY <1>1, <1>4 DEF HeardAges
  <2>1. CASE s = t
    BY <1>5, <1>6, <2>1
  <2>2. CASE s # t
    BY <1>6, <2>2 DEF Inv, HeardAges
  <2> QED BY <2>1, <2>2
<1>9. Reading'
  <2>1. \A s \in Sessions : heard'[s].heard = (s \in listed' /\ s \notin todo')
    <3> SUFFICES ASSUME NEW s \in Sessions
                 PROVE  heard'[s].heard = (s \in listed /\ s \notin todo')
      BY <1>1
    <3>1. CASE s = t
      BY <1>2, <1>3, <1>5, <1>6, <3>1 DEF Inv, Reading
    <3>2. CASE s # t
      BY <1>2, <1>6, <3>2 DEF Inv, Reading
    <3> QED BY <3>1, <3>2
  <2> QED BY <1>1, <1>2, <2>1 DEF Inv, Reading, Loading
<1>10. KnownClaims'
  <2> SUFFICES ASSUME NEW s \in claimed PROVE Known(s)'
    BY <1>1 DEF KnownClaims
  <2>1. Known(s) /\ s \in Sessions
    BY <1>1 DEF Inv, KnownClaims, Types
  <2>2. CASE s # t
    BY <1>1, <1>4, <1>6, <2>1, <2>2 DEF Known
  <2>3. CASE s = t
    <3>1. readable' => s \in listed'
      BY <1>1, <2>1 DEF Known
    <3>2. heard'[s].heard /\ s \notin InPlace => heard'[s].readable = TRUE
      <4>1. s \notin InPlace => file[s].there /\ file[s].whole
        BY <2>1 DEF Inv, InOrder
      <4> QED BY <1>5, <1>6, <2>3, <4>1
    <3>3. Running(s) => heard'[s].age <= Interval(s) + load
      <4>1. Running(s) => m.age <= Interval(s) + load
        BY <2>1, <2>3 DEF Known
      <4>2. m.age \in Int /\ entry.age \in Int /\ Interval(s) + load \in Int
        BY <1>1, <1>3, <1>5, <2>1, Bounds DEF Types, Entries
      <4> QED BY <1>5, <1>6, <2>3, <4>1, <4>2
    <3> QED BY <1>1, <1>4, <2>1, <3>1, <3>2, <3>3 DEF Known
  <2> QED BY <2>2, <2>3
<1>11. LiveClaimProtects'
  BY <1>1 DEF Inv, LiveClaimProtects
<1> QED BY <1>4, <1>7, <1>8, <1>9, <1>10, <1>11 DEF Inv

\* Of an age within the bound the run keeps that it is.
LEMMA LoadedStep ==
    ASSUME Inv, Loaded
    PROVE  Inv'
<1>1. /\ Types /\ UNCHANGED worldVars /\ pc = "stat" /\ pc' = "judge" /\ load' = 0 /\ todo = {}
      /\ UNCHANGED <<todo, mtime, readable, asked, released, listed, claimed>>
  BY DEF Inv, Loaded
<1>2. /\ FileAges' /\ InOrder'
      /\ \A s \in Sessions : UNCHANGED <<Interval(s), Bound(s), Ages(s), Running(s), AtWork(s)>>
  BY <1>1, RunFrame DEF Inv, InOrder, Types
<1>3. mtime = {}
  BY <1>1 DEF Inv, Reading
<1>4. \A s \in Sessions :
         /\ heard[s] \in Entries /\ heard'[s] = [heard[s] EXCEPT !.age = Settled(s, @)]
  BY <1>1 DEF Loaded, Types
<1>5. \A s \in Sessions :
         /\ Settled(s, heard[s].age) \in {0, Bound(s)} /\ Settled(s, heard[s].age) \in Int
         /\ heard[s].age < Bound(s) => Settled(s, heard[s].age) = 0
  <2> SUFFICES ASSUME NEW s \in Sessions
               PROVE  /\ Settled(s, heard[s].age) \in {0, Bound(s)}
                      /\ Settled(s, heard[s].age) \in Int
                      /\ heard[s].age < Bound(s) => Settled(s, heard[s].age) = 0
    OBVIOUS
  <2>1. Bound(s) \in Int
    BY Bounds
  <2>2. CASE heard[s].age < Bound(s)
    BY <2>2 DEF Settled
  <2>3. CASE ~(heard[s].age < Bound(s))
    BY <2>1, <2>3 DEF Settled
  <2> QED BY <2>2, <2>3
<1>6. \A s \in Sessions :
         /\ heard'[s] \in Entries /\ heard'[s].age = Settled(s, heard[s].age)
         /\ heard'[s].heard = heard[s].heard /\ heard'[s].readable = heard[s].readable
  BY <1>4, <1>5 DEF Entries
<1>7. Types'
  <2>1. heard' \in [Sessions -> Entries]
    BY <1>6 DEF Loaded
  <2>2. 0 \in 0 .. MaxLoad
    BY HeartbeatOK
  <2> QED BY <1>1, <2>1, <2>2 DEF Types, worldVars
<1>8. HeardAges'
  <2> SUFFICES ASSUME NEW s \in Sessions
               PROVE  /\ heard'[s].age \in Ages(s)
                      /\ ~heard'[s].heard => heard'[s].age = 0
                      /\ heard'[s].age \in {0, Bound(s)}
    BY <1>1, <1>2, <1>3 DEF HeardAges
  <2>1. heard'[s].age \in {0, Bound(s)}
    BY <1>5, <1>6
  <2>2. heard'[s].age \in Ages(s)
    BY <1>1, <2>1, ZeroIsAnAge
  <2>3. ~heard[s].heard => heard[s].age = 0 /\ heard[s].age < Bound(s)
    BY Bounds DEF Inv, HeardAges
  <2> QED BY <1>5, <1>6, <2>1, <2>2, <2>3
<1>9. Reading'
  BY <1>1, <1>3, <1>6 DEF Inv, Reading, Loading
<1>10. KnownClaims'
  <2> SUFFICES ASSUME NEW s \in claimed PROVE Known(s)'
    BY <1>1 DEF KnownClaims
  <2>1. Known(s) /\ s \in Sessions
    BY <1>1 DEF Inv, KnownClaims, Types
  <2>2. heard[s].heard /\ Running(s) => heard'[s].age < Bound(s)
    <3> SUFFICES ASSUME heard[s].heard, Running(s) PROVE heard'[s].age < Bound(s)
      OBVIOUS
    <3>1. heard[s].age <= Interval(s) + load
      BY <1>1, <2>1 DEF Known
    <3>2. heard[s].age < Bound(s)
      <4>1. load \in Int /\ load <= MaxLoad /\ heard[s].age \in Int
        BY <1>1, <1>4, <2>1, HeartbeatOK DEF Types, Entries
      <4> QED BY <2>1, <3>1, <4>1, Bounds
    <3> QED BY <1>5, <1>6, <2>1, <3>2, Bounds
  <2> QED BY <1>1, <1>2, <1>3, <1>6, <2>1, <2>2 DEF Known
<1>11. LiveClaimProtects'
  BY <1>1 DEF Inv, LiveClaimProtects
<1> QED BY <1>2, <1>7, <1>8, <1>9, <1>10, <1>11 DEF Inv

\* Here it matters: a session at work is claimed when its workspace is asked about.
LEMMA JudgeStep ==
    ASSUME Inv, NEW t \in Sessions, Judge(t)
    PROVE  Inv'
<1>1. /\ Types /\ UNCHANGED worldVars /\ pc = "judge" /\ asked' = asked \cup {t}
      /\ released' = IF Passes(t) THEN released \cup {t} ELSE released
      /\ UNCHANGED <<pc, todo, mtime, heard, readable, load, listed, claimed>>
  BY DEF Inv, Judge
<1>2. /\ FileAges' /\ InOrder'
      /\ \A s \in Sessions : UNCHANGED <<Interval(s), Bound(s), Ages(s), Running(s), AtWork(s)>>
  BY <1>1, RunFrame DEF Inv, InOrder, Types
<1>3. Types'
  BY <1>1 DEF Types, worldVars
<1>4. HeardAges'
  BY <1>1, <1>2, SameAges
<1>5. Reading'
  BY <1>1 DEF Inv, Reading, Loading
<1>6. KnownClaims'
  <2> SUFFICES ASSUME NEW s \in claimed PROVE Known(s)'
    BY <1>1 DEF KnownClaims
  <2>1. Known(s) /\ s \in Sessions
    BY <1>1 DEF Inv, KnownClaims, Types
  <2> QED BY <1>1, <1>2, <2>1 DEF Known
<1>7. ASSUME t \in claimed, readable \/ t \in OrphanedOnly, t \notin InPlace \/ t \in NamedAfter
      PROVE  ~Passes(t)
  <2>1. CASE ~readable
    BY <1>7, <2>1 DEF Passes
  <2>2. CASE readable
    <3>1. Known(t) /\ AtWork(t)
      BY <1>7 DEF Inv, KnownClaims, InOrder
    <3>2. heard[t].heard
      <4>1. todo = {}
        BY <1>1 DEF Inv, Reading, Loading
      <4> QED BY <2>2, <3>1, <4>1 DEF Known, Inv, Reading
    <3>3. heard[t].readable \/ t \in NamedAfter
      BY <1>7, <3>1, <3>2 DEF Known
    <3>4. IsLive(t)
      BY <1>1, <3>1, <3>2 DEF IsLive, AtWork, Known
    <3> QED BY <3>2, <3>3, <3>4 DEF Passes, Claims
  <2> QED BY <1>1, <2>1, <2>2 DEF Types
<1>8. LiveClaimProtects'
  <2> SUFFICES ASSUME NEW s \in claimed, readable \/ s \in OrphanedOnly,
                      s \notin InPlace \/ s \in NamedAfter
               PROVE  s \notin released'
    BY <1>1 DEF LiveClaimProtects
  <2>1. s \notin released
    BY DEF Inv, LiveClaimProtects
  <2>2. s = t => ~Passes(t)
    BY <1>7
  <2> QED BY <1>1, <2>1, <2>2
<1> QED BY <1>2, <1>3, <1>4, <1>5, <1>6, <1>8 DEF Inv

LEMMA EndRunStep ==
    ASSUME Inv, EndRun
    PROVE  Inv'
<1>1. /\ Types /\ UNCHANGED worldVars /\ pc = "judge" /\ pc' = "idle"
      /\ heard' = [s \in Sessions |-> NotHeard] /\ readable' = TRUE
      /\ asked' = {} /\ released' = {} /\ listed' = {} /\ claimed' = {}
      /\ UNCHANGED <<todo, mtime, load>>
  BY DEF Inv, EndRun
<1>2. /\ FileAges' /\ InOrder'
      /\ \A s \in Sessions : UNCHANGED <<Interval(s), Bound(s), Ages(s), Running(s), AtWork(s)>>
  BY <1>1, RunFrame
<1>3. NotHeard \in Entries /\ NotHeard.heard = FALSE /\ NotHeard.age = 0
  BY DEF NotHeard, Entries
<1>4. mtime = {} /\ todo = {} /\ load = 0
  BY <1>1 DEF Inv, Reading, Loading
<1>5. Types'
  BY <1>1, <1>3 DEF Types, worldVars
<1>6. HeardAges'
  <2>1. \A s \in Sessions : heard'[s] = NotHeard /\ 0 \in Ages(s)'
    BY <1>1, <1>2, ZeroIsAnAge
  <2>2. mtime' = {} /\ pc' # "judge"
    BY <1>1, <1>4
  <2> QED BY <1>3, <2>1, <2>2 DEF HeardAges
<1>7. Reading'
  BY <1>1, <1>3, <1>4 DEF Reading, Loading
<1>8. KnownClaims' /\ LiveClaimProtects'
  BY <1>1 DEF KnownClaims, LiveClaimProtects
<1> QED BY <1>2, <1>5, <1>6, <1>7, <1>8 DEF Inv

-----------------------------------------------------------------------------
(* The theorems. *)

LEMMA InitInv == Init => Inv
<1> SUFFICES ASSUME Init PROVE Inv
  OBVIOUS
<1>1. NotHeard \in Entries /\ NotHeard.heard = FALSE /\ NotHeard.age = 0
  BY DEF NotHeard, Entries
<1>2. Types
  BY <1>1, FreshFile, HeartbeatOK DEF Init, Types
<1>3. FileAges /\ HeardAges
  BY <1>1, <1>2, FreshFile, ZeroIsAnAge DEF Init, FileAges, HeardAges
<1>4. Reading
  BY <1>1 DEF Init, Reading, Loading
<1>5. InOrder
  BY FreshFile DEF Init, InOrder, AtWork, Running
<1>6. KnownClaims /\ LiveClaimProtects
  BY DEF Init, KnownClaims, LiveClaimProtects
<1> QED BY <1>2, <1>3, <1>4, <1>5, <1>6 DEF Inv

LEMMA NextInv ==
    ASSUME Inv, [Next]_vars
    PROVE  Inv'
<1>1. CASE \E s \in Sessions : Supervise(s) \/ SupervisorDies(s) \/ JobDies(s)
  BY <1>1, BeginStep, RewriteStep, TouchStep, LeaveStep DEF Supervise
<1>2. CASE Tick \/ SetBack
  BY <1>2, ClockStep
<1>3. CASE Run
  BY <1>3, ListStep, StatStep, ReadStep, LoadedStep, JudgeStep, EndRunStep DEF Run
<1>4. CASE UNCHANGED vars
  <2>1. UNCHANGED <<back, runVars, listed, claimed, super, job, file>>
    BY <1>4 DEF vars, worldVars
  <2>2. \A s \in Sessions : UNCHANGED <<Interval(s), Ages(s), Running(s), AtWork(s)>>
    BY <2>1 DEF Interval, Ages, Oldest, Running, AtWork
  <2>3. FileAges' /\ InOrder'
    BY <2>1, <2>2 DEF Inv, FileAges, InOrder
  <2> QED BY <2>1, <2>2, <2>3, WorldStep DEF Inv, Types
<1> QED BY <1>1, <1>2, <1>3, <1>4 DEF Next

\* The inductive invariant holds throughout: the age a run holds of a session at work
\* is at most its interval and the time the run has been reading.
THEOREM HeartbeatInv == Spec => []Inv
<1>1. Init => Inv
  BY InitInv
<1>2. Inv /\ [Next]_vars => Inv'
  BY NextInv
<1> QED BY <1>1, <1>2, PTL DEF Spec

\* A session that has been at work ever since the run listed the directory is not
\* released, for any number of sessions, any intervals and any such multiplier.
THEOREM LiveClaimsProtect == Spec => []LiveClaimProtects
<1>1. Inv => LiveClaimProtects
  BY DEF Inv
<1> QED BY <1>1, HeartbeatInv, PTL

\* The state has its type, and what was listed is in the index or still to be read.
THEOREM HeartbeatTypeCorrect == Spec => []TypeOK
<1>1. Inv => TypeOK
  <2> SUFFICES ASSUME Inv PROVE TypeOK
    OBVIOUS
  <2>1. Types /\ FileAges /\ HeardAges /\ Reading
    BY DEF Inv
  <2>2. \A s \in Sessions :
           /\ file[s] \in [there : BOOLEAN, whole : BOOLEAN, touched : Ages(s), stamped : Ages(s)]
           /\ heard[s] \in [heard : BOOLEAN, readable : BOOLEAN, age : Ages(s)]
    BY <2>1 DEF Types, FileAges, HeardAges, Stamps, Entries
  <2>3. \A m \in mtime : m.session \in todo /\ m.age \in Ages(m.session)
    BY <2>1 DEF HeardAges, Reading
  <2>4. {s \in Sessions : heard[s].heard} = listed \ todo
    BY <2>1 DEF Types, Reading
  <2> QED BY <2>1, <2>2, <2>3, <2>4 DEF Types, Reading, TypeOK
<1> QED BY <1>1, HeartbeatInv, PTL

=============================================================================
