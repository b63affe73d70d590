-------------------------- MODULE RemoveTreeProofs --------------------------
(***************************************************************************)
(* Proofs about module RemoveTree, for every tree, every set of processes  *)
(* in it, and every link, refused call and writer.  The second part shows  *)
(* that RemoveTree implements RemovePass: the contract Executor relies on  *)
(* holds of the walk with its stack, whatever is refused, written, put in  *)
(* the place of a directory or killed.  The third part is about the paths  *)
(* a walk holds when directories become links, and about what is outside.  *)
(***************************************************************************)
EXTENDS RemoveTree, SequenceTheorems, TLAPS

FrameType == [dir : Inside \cap Dirs, todo : SUBSET Inside]

\* What the code knows of a path after its stat: symlink_metadata tells a
\* directory from a link, one that was put in the place of a directory included.
StatOK(p) ==
    /\ cur[p].is = "dir" => cur[p].node \in Dirs
    /\ cur[p].is = "leaf" => cur[p].node \notin Dirs \/ cur[p].node \in swapped

\* A pass without an error so far has the top of the tree still before it, in
\* its hand or at the bottom of its stack, or has seen it gone.
HasTop(p) ==
    \/ Top \notin there
    \/ stack[p] = <<>> /\ cur[p].node = Top /\ cur[p].is # "nothing"
    \/ stack[p] # <<>> /\ stack[p][1].dir = Top

Owes(p) ==
    /\ ~Walking(p) => stack[p] = <<>>
    /\ Walking(p) /\ ~failed[p] => HasTop(p)
    /\ phase[p] = "ended" /\ ~failed[p] => Top \notin there

Inv ==
    /\ TypeOK
    /\ \A p \in Removers : StatOK(p) /\ Owes(p)

-----------------------------------------------------------------------------
(* The stack. *)

\* Pushing, popping and changing the innermost frame.
LEMMA Stacks ==
    ASSUME NEW s \in Seq(FrameType), NEW f \in FrameType
    PROVE  /\ Append(s, f) \in Seq(FrameType)
           /\ Append(s, f) # <<>>
           /\ s # <<>> => Append(s, f)[1] = s[1]
           /\ s = <<>> => Append(s, f)[1] = f
<1>1. /\ Append(s, f) \in Seq(FrameType)
      /\ Append(s, f) # <<>>
      /\ \A i \in 1..Len(s) : Append(s, f)[i] = s[i]
      /\ Append(s, f)[Len(s) + 1] = f
  BY AppendProperties
<1>2. CASE s = <<>>
  BY <1>1, <1>2
<1>3. CASE s # <<>>
  <2>1. Len(s) \in Nat /\ Len(s) >= 1
    BY <1>3
  <2> QED BY <1>1, <1>3, <2>1
<1> QED BY <1>2, <1>3

\* The frames below the innermost one.
LEMMA Bottom ==
    ASSUME NEW s \in Seq(FrameType), s # <<>>
    PROVE  LET b == SubSeq(s, 1, Len(s) - 1) IN
           /\ s[Len(s)] \in FrameType
           /\ b \in Seq(FrameType)
           /\ b = <<>> => s[Len(s)] = s[1]
           /\ b # <<>> => b[1] = s[1]
<1> DEFINE n == Len(s) - 1
           b == SubSeq(s, 1, n)
<1>1. Len(s) \in Nat /\ Len(s) > 0
  OBVIOUS
<1>2. /\ b \in Seq(FrameType)
      /\ Len(b) = n
      /\ \A i \in 1..n : b[i] = s[i]
  BY <1>1
<1>3. b = <<>> => n = 0
  BY <1>2, <1>1
<1>4. b # <<>> => n >= 1
  BY <1>2, <1>1
<1>5. s[Len(s)] \in FrameType
  BY <1>1
<1> QED BY <1>1, <1>2, <1>3, <1>4, <1>5

-----------------------------------------------------------------------------
(* What the calls answer. *)

\* Without a link in the place of a directory a path names what is there.
LEMMA Calm ==
    ASSUME swapped = {}
    PROVE  /\ \A n : Existing(n) <=> n \in there
           /\ \A n : FoundDirectory(n) <=> n \in Dirs
BY DEF Existing, FoundDirectory, Replaced

\* What a directory of the tree lists has its path in the tree.
LEMMA Listed ==
    ASSUME NEW n \in Inside \cap Dirs
    PROVE  /\ Entries(n) = {m \in Nodes \ {Top} : Existing(m) /\ Parent[m] = n}
           /\ Entries(n) \subseteq Inside \ {Top}
           /\ \A found \in Listings(n) :
                 found \subseteq Entries(n) /\ (refused = {} => found = Entries(n))
<1>1. Entries(n) = {m \in Nodes \ {Top} : Existing(m) /\ Parent[m] = n}
  BY TreeOK DEF Entries, Followed
<1>2. Entries(n) \subseteq Inside \ {Top}
  BY <1>1, TreeOK
<1> QED BY <1>1, <1>2 DEF Listings, Refuses

\* What a removal does to either side of a link.
LEMMA Erased ==
    ASSUME NEW ok, NEW n, EraseIf(ok, n)
    PROVE  /\ there' = IF ok THEN there \ {n} ELSE there
           /\ elsewhere' \subseteq elsewhere
BY DEF EraseIf, Erase

-----------------------------------------------------------------------------
(* One step of one process. *)

\* A step of p leaves the local state of the other processes alone; none puts
\* the top of the tree back.
LEMMA Bystander ==
    ASSUME NEW p \in Removers, NEW q \in Removers, StatOK(q) /\ Owes(q),
           cur'[q] = cur[q], failed'[q] = failed[q], phase'[q] = phase[q],
           stack'[q] = stack[q], Top \in there' => Top \in there,
           swapped \subseteq swapped'
    PROVE  (StatOK(q) /\ Owes(q))'
BY DEF StatOK, Owes, HasTop, Walking

\* So an action of p has to be looked at for p alone.
Keeps(p) ==
    /\ TypeOK'
    /\ swapped' = swapped
    /\ Top \in there' => Top \in there
    /\ (StatOK(p) /\ Owes(p))'
    /\ \A q \in Removers \ {p} :
          /\ cur'[q] = cur[q] /\ failed'[q] = failed[q]
          /\ phase'[q] = phase[q] /\ stack'[q] = stack[q]

LEMMA KeepsInv ==
    ASSUME Inv, NEW p \in Removers, Keeps(p)
    PROVE  Inv'
<1>1. ASSUME NEW q \in Removers
      PROVE  (StatOK(q) /\ Owes(q))'
  <2>1. CASE q = p
    BY <2>1 DEF Keeps
  <2>2. CASE q # p
    BY <2>2, Bystander DEF Keeps, Inv
  <2> QED BY <2>1, <2>2
<1> QED BY <1>1 DEF Inv, Keeps

LEMMA BeginKeeps ==
    ASSUME Inv, NEW p \in Removers, Begin(p)
    PROVE  Keeps(p)
<1> USE TreeOK DEF Inv, TypeOK, Begin, world
<1>1. TypeOK'
  BY DEF Phases, Finds
<1>2. (StatOK(p) /\ Owes(p))'
  BY DEF StatOK, Owes, HasTop, Walking
<1> QED BY <1>1, <1>2 DEF Keeps

\* The stack keeps its bottom when the innermost frame is changed.
LEMMA PopKeeps ==
    ASSUME Inv, NEW p \in Removers, Pop(p)
    PROVE  Keeps(p)
<1> USE DEF Inv, TypeOK
<1>1. PICK n \in Frame(p).todo :
          /\ cur' = [cur EXCEPT ![p] = [node |-> n, is |-> "popped"]]
          /\ stack' = [stack EXCEPT
                 ![p] = Append(Below(p), [Frame(p) EXCEPT !.todo = @ \ {n}])]
  BY DEF Pop
<1>2. stack[p] \in Seq(FrameType) /\ stack[p] # <<>>
  BY DEF Pop, FrameType
<1>3. /\ Frame(p) \in FrameType
      /\ Below(p) \in Seq(FrameType)
      /\ Below(p) = <<>> => Frame(p) = stack[p][1]
      /\ Below(p) # <<>> => Below(p)[1] = stack[p][1]
  BY <1>2, Bottom DEF Frame, Below
<1> DEFINE f == [Frame(p) EXCEPT !.todo = @ \ {n}]
<1>4. n \in Inside /\ f \in FrameType /\ f.dir = Frame(p).dir
  BY <1>3 DEF FrameType
<1>5. /\ Append(Below(p), f) \in Seq(FrameType)
      /\ Append(Below(p), f) # <<>>
      /\ Append(Below(p), f)[1].dir = stack[p][1].dir
  BY <1>3, <1>4, Stacks
<1>6. TypeOK'
  BY <1>1, <1>4, <1>5 DEF Pop, Finds, FrameType, world
<1>7. (StatOK(p) /\ Owes(p))'
  BY <1>1, <1>2, <1>5 DEF StatOK, Owes, HasTop, Walking, Pop, AtLoopHead, Nothing
<1> QED BY <1>1, <1>6, <1>7 DEF Keeps, Pop, world

LEMMA StatKeeps ==
    ASSUME Inv, NEW p \in Removers, Stat(p)
    PROVE  Keeps(p)
<1> DEFINE n == cur[p].node
           c == [node |-> n, is |-> IF FoundDirectory(n) THEN "dir" ELSE "leaf"]
<1>1. /\ cur \in [Removers -> [node : Inside, is : Finds]]
      /\ failed \in [Removers -> BOOLEAN]
      /\ n \in Inside /\ Walking(p) /\ cur[p].is = "popped"
      /\ Top \in Inside
  BY TreeOK DEF Inv, TypeOK, Stat, Holds
<1>2. UNCHANGED <<there, elsewhere, stack, phase, raced, written, refused, swapped, caught>>
  BY DEF Stat, world
<1>3. CASE Existing(n) /\ ~Refuses("stat", n)
  <2>1. failed' = failed /\ cur' = [cur EXCEPT ![p].is = c.is]
    BY <1>3 DEF Stat
  <2>2. [cur[p] EXCEPT !.is = c.is] = c
    BY <1>1
  <2>3. cur' = [cur EXCEPT ![p] = c]
    BY <2>1, <2>2, <1>1
  <2>4. c \in [node : Inside, is : Finds]
    BY <1>1 DEF Finds
  <2> HIDE DEF c
  <2>5. TypeOK'
    BY ZenonT(40), <1>1, <1>2, <2>1, <2>3, <2>4 DEF Inv, TypeOK
  <2>6. /\ c.node = n
        /\ c.is = "dir" => n \in Dirs
        /\ c.is = "leaf" => n \notin Dirs \/ n \in swapped
        /\ c.is # "nothing"
    <3>1. CASE FoundDirectory(n)
      BY <3>1 DEF c, FoundDirectory
    <3>2. CASE ~FoundDirectory(n)
      BY <3>2 DEF c, FoundDirectory, Replaced
    <3> QED BY <3>1, <3>2
  <2>7. (StatOK(p) /\ Owes(p))'
    BY <1>1, <1>2, <2>1, <2>3, <2>6 DEF Inv, StatOK, Owes, HasTop, Walking
  <2> QED BY <1>1, <1>2, <2>1, <2>3, <2>5, <2>7 DEF Keeps
<1>4. CASE ~(Existing(n) /\ ~Refuses("stat", n))
  <2>1. Continue(p, Existing(n))
    BY <1>4 DEF Stat
  <2>2. cur' = [cur EXCEPT ![p] = Nothing]
    BY <2>1 DEF Continue
  <2>3. failed' \in [Removers -> BOOLEAN] /\ (failed'[p] <=> failed[p] \/ Existing(n))
    <3>1. Existing(n) \in BOOLEAN
      BY DEF Existing
    <3> QED BY <1>1, <2>1, <3>1 DEF Continue
  <2>4. \A q \in Removers \ {p} : failed'[q] = failed[q] /\ cur'[q] = cur[q]
    BY <1>1, <2>1, <2>2 DEF Continue
  <2>5. TypeOK'
    BY <1>1, <1>2, <2>2, <2>3 DEF Inv, TypeOK, Nothing, Finds
  <2>6. n \in there => Existing(n)
    BY DEF Existing
  <2>7. (StatOK(p) /\ Owes(p))'
    BY <1>1, <1>2, <2>2, <2>3, <2>6 DEF Inv, StatOK, Owes, HasTop, Walking, Nothing
  <2> QED BY <1>2, <2>4, <2>5, <2>7 DEF Keeps
<1> QED BY <1>3, <1>4

\* What is unlinked is in the tree, and not its top, which is a directory and no
\* link can take the place of.
LEMMA UnlinkKeeps ==
    ASSUME Inv, NEW p \in Removers, Unlink(p)
    PROVE  Keeps(p)
<1> DEFINE n == cur[p].node
           ok == CanUnlink(n)
<1>1. ok \in BOOLEAN
  BY DEF CanUnlink, Existing
<1>2. /\ Walking(p) /\ cur[p].is = "leaf"
      /\ there' = IF ok THEN there \ {n} ELSE there
      /\ elsewhere' \subseteq elsewhere
      /\ UNCHANGED <<stack, phase, raced, written, refused, swapped, caught>>
      /\ cur' = [cur EXCEPT ![p] = Nothing]
      /\ failed' = [failed EXCEPT ![p] = @ \/ ~ok]
  BY Erased DEF Unlink, Holds, Continue, world
<1> HIDE DEF ok
<1> USE <1>1, <1>2 DEF Inv, TypeOK, Nothing
<1>3. n \in Inside /\ n # Top
  BY TreeOK, SwapOK DEF StatOK
<1>4. TypeOK'
  BY TreeOK DEF Finds
<1>5. StatOK(p)'
  BY DEF StatOK
<1>6. Owes(p)'
  BY <1>3 DEF Owes, HasTop, Walking
<1> QED BY <1>3, <1>4, <1>5, <1>6 DEF Keeps

\* What is listed is found by a path of the tree, and so is what it holds.
LEMMA ListKeeps ==
    ASSUME Inv, NEW p \in Removers, List(p)
    PROVE  Keeps(p)
<1> DEFINE n == cur[p].node
           ok == Existing(n) /\ ~Refuses("list", n)
<1>1. /\ Walking(p) /\ cur[p].is = "dir"
      /\ UNCHANGED <<there, elsewhere, phase, raced, written, refused, swapped, caught>>
      /\ cur' = [cur EXCEPT ![p] = Nothing]
      /\ failed' = [failed EXCEPT ![p] = @ \/ ~ok]
      /\ cur \in [Removers -> [node : Inside, is : Finds]]
      /\ failed \in [Removers -> BOOLEAN]
      /\ stack \in [Removers -> Seq(FrameType)]
  BY DEF List, Holds, Continue, world, Inv, TypeOK, FrameType
<1>2. n \in Inside \cap Dirs
  BY <1>1 DEF Inv, StatOK
<1>3. ok \in BOOLEAN
  BY DEF Existing
<1>4. CASE ok
  <2>1. PICK found \in Listings(n) :
           stack' = [stack EXCEPT ![p] = Append(@, [dir |-> n, todo |-> found])]
    BY <1>4 DEF List
  <2> DEFINE f == [dir |-> n, todo |-> found]
  <2>2. f \in FrameType /\ f.dir = n
    BY <1>2, <2>1, Listed DEF FrameType
  <2>3. stack' = [stack EXCEPT ![p] = Append(stack[p], f)]
    BY <1>1, <2>1
  <2> HIDE DEF f
  <2>4. /\ Append(stack[p], f) \in Seq(FrameType)
        /\ Append(stack[p], f) # <<>>
        /\ stack[p] # <<>> => Append(stack[p], f)[1] = stack[p][1]
        /\ stack[p] = <<>> => Append(stack[p], f)[1] = f
    BY <1>1, <2>2, Stacks
  <2>5. stack' \in [Removers -> Seq(FrameType)] /\ stack'[p] = Append(stack[p], f)
    BY <1>1, <2>3, <2>4
  <2>6. failed' = failed
    BY <1>1, <1>4
  <2>7. TypeOK'
    BY <1>1, <2>5, <2>6, TreeOK DEF Inv, TypeOK, FrameType, Finds, Nothing
  <2>8. StatOK(p)'
    BY <1>1 DEF StatOK, Nothing
  <2>9. Owes(p)'
    BY <1>1, <2>2, <2>4, <2>5, <2>6 DEF Inv, Owes, HasTop, Walking, Nothing
  <2>10. \A q \in Removers \ {p} :
            /\ cur'[q] = cur[q] /\ failed'[q] = failed[q]
            /\ phase'[q] = phase[q] /\ stack'[q] = stack[q]
    BY <1>1, <2>3, <2>6
  <2> QED BY <1>1, <2>7, <2>8, <2>9, <2>10 DEF Keeps
<1>5. CASE ~ok
  <2>1. stack' = stack
    BY <1>5 DEF List
  <2> HIDE DEF ok
  <2>2. failed' \in [Removers -> BOOLEAN] /\ failed'[p]
    BY <1>1, <1>3, <1>5
  <2>3. TypeOK'
    BY <1>1, <2>1, <2>2, TreeOK DEF Inv, TypeOK, Finds, Nothing
  <2>4. (StatOK(p) /\ Owes(p))'
    BY <1>1, <2>1, <2>2 DEF Inv, StatOK, Owes, HasTop, Walking, Nothing
  <2> QED BY <1>1, <2>1, <2>3, <2>4 DEF Keeps
<1> QED BY <1>4, <1>5

\* The directory at the bottom of the stack goes last.
LEMMA RmdirKeeps ==
    ASSUME Inv, NEW p \in Removers, Rmdir(p)
    PROVE  Keeps(p)
<1> DEFINE d == Frame(p).dir
           ok == CanRmdir(d)
<1>1. ok \in BOOLEAN
  BY DEF CanRmdir, Existing
<1>2. /\ Walking(p) /\ cur[p] = Nothing /\ stack[p] # <<>>
      /\ there' = IF ok THEN there \ {d} ELSE there
      /\ elsewhere' \subseteq elsewhere
      /\ stack' = [stack EXCEPT ![p] = Below(p)]
      /\ UNCHANGED <<phase, raced, written, refused, swapped, caught>>
      /\ cur' = [cur EXCEPT ![p] = Nothing]
      /\ failed' = [failed EXCEPT ![p] = @ \/ ~ok]
  BY Erased DEF Rmdir, AtLoopHead, Continue, world
<1>3. ok => d \in there \/ d # Top
  BY SwapOK DEF CanRmdir, Existing, Replaced, Inv, TypeOK
<1> HIDE DEF ok
<1> USE <1>1, <1>2 DEF Inv, TypeOK
<1>4. stack[p] \in Seq(FrameType)
  BY DEF FrameType
<1>5. /\ Frame(p) \in FrameType
      /\ Below(p) \in Seq(FrameType)
      /\ Below(p) = <<>> => Frame(p) = stack[p][1]
      /\ Below(p) # <<>> => Below(p)[1] = stack[p][1]
  BY <1>4, Bottom DEF Frame, Below
<1>6. d \in Inside
  BY <1>5 DEF FrameType
<1>7. stack'[p] = Below(p)
  OBVIOUS
<1>8. TypeOK'
  BY <1>5, TreeOK DEF FrameType, Finds, Nothing
<1>9. StatOK(p)'
  BY DEF StatOK, Nothing
<1>10. Owes(p)'
  <2>1. CASE Below(p) # <<>>
    BY <1>4, <1>5, <1>7, <2>1 DEF Owes, HasTop, Walking, Nothing
  <2>2. CASE Below(p) = <<>>
    BY <1>4, <1>5, <1>7, <2>2 DEF Owes, HasTop, Walking, Nothing
  <2> QED BY <2>1, <2>2
<1> QED BY <1>8, <1>9, <1>10 DEF Keeps

LEMMA EndKeeps ==
    ASSUME Inv, NEW p \in Removers, End(p)
    PROVE  Keeps(p)
<1> USE DEF Inv, TypeOK, End, world
<1>1. TypeOK'
  BY DEF Phases
<1>2. (StatOK(p) /\ Owes(p))'
  BY DEF StatOK, Owes, HasTop, Walking, AtLoopHead, Nothing
<1> QED BY <1>1, <1>2 DEF Keeps

LEMMA KillKeeps ==
    ASSUME Inv, NEW p \in Removers, Kill(p)
    PROVE  Keeps(p)
<1> USE DEF Inv, TypeOK, Kill, world
<1>1. TypeOK'
  <2>1. stack' \in [Removers -> Seq([dir : Inside \cap Dirs, todo : SUBSET Inside])]
    <3>1. <<>> \in Seq([dir : Inside \cap Dirs, todo : SUBSET Inside])
      OBVIOUS
    <3> QED BY <3>1
  <2>2. cur' \in [Removers -> [node : Inside, is : Finds]]
    BY TreeOK DEF Finds, Nothing
  <2>3. /\ phase' \in [Removers -> Phases]
        /\ failed' \in [Removers -> BOOLEAN]
    BY DEF Phases
  <2>4. /\ there' \subseteq Nodes /\ raced' \in [Removers -> BOOLEAN]
        /\ written' \subseteq Late /\ refused' \subseteq Refusable
        /\ swapped' \subseteq Swappable /\ elsewhere' \subseteq Elsewhere
        /\ caught' \in BOOLEAN
    OBVIOUS
  <2> QED BY <2>1, <2>2, <2>3, <2>4
<1>2. (StatOK(p) /\ Owes(p))'
  BY DEF StatOK, Owes, HasTop, Walking, Nothing
<1> QED BY <1>1, <1>2 DEF Keeps

\* A writer creates nothing under the name of the tree itself.
LEMMA WriteInv ==
    ASSUME Inv, NEW n \in Late, Write(n)
    PROVE  Inv'
<1> USE DEF Inv, TypeOK, Write
<1>1. TypeOK'
  BY TreeOK
<1>2. Top \in there' => Top \in there
  BY TreeOK
<1>3. \A q \in Removers : (StatOK(q) /\ Owes(q))'
  BY <1>2 DEF StatOK, Owes, HasTop, Walking
<1> QED BY <1>1, <1>3

\* Nor is the tree itself replaced by a link.
LEMMA SwapInv ==
    ASSUME Inv, NEW d \in Swappable, Swap(d)
    PROVE  Inv'
<1> USE DEF Inv, TypeOK, Swap
<1>1. TypeOK'
  BY DEF In
<1>2. (Top \in there' => Top \in there) /\ swapped \subseteq swapped'
  OBVIOUS
<1>3. \A q \in Removers : (StatOK(q) /\ Owes(q))'
  BY <1>2, Bystander
<1> QED BY <1>1, <1>3

-----------------------------------------------------------------------------
LEMMA InvInit == Init => Inv
<1> SUFFICES ASSUME Init PROVE Inv
  OBVIOUS
<1>1. /\ there = Nodes \ Late /\ written = {} /\ refused \in SUBSET Refusable
      /\ swapped = {} /\ elsewhere = Elsewhere /\ caught = FALSE
      /\ stack = [p \in Removers |-> <<>>] /\ cur = [p \in Removers |-> Nothing]
      /\ failed = [p \in Removers |-> FALSE] /\ phase = [p \in Removers |-> "none"]
      /\ raced = [p \in Removers |-> FALSE]
  BY DEF Init
<1>2. /\ stack \in [Removers -> Seq([dir : Inside \cap Dirs, todo : SUBSET Inside])]
      /\ cur \in [Removers -> [node : Inside, is : Finds]]
  BY <1>1, TreeOK DEF Finds, Nothing
<1>3. TypeOK
  BY <1>1, <1>2 DEF TypeOK, Phases
<1>4. \A p \in Removers : StatOK(p) /\ Owes(p)
  BY <1>1 DEF StatOK, Owes, Walking, Nothing
<1> QED BY <1>3, <1>4 DEF Inv

LEMMA InvNext == Inv /\ [Next]_vars => Inv'
<1> SUFFICES ASSUME Inv, [Next]_vars PROVE Inv'
  OBVIOUS
<1>1. ASSUME NEW p \in Removers, Begin(p) \/ Step(p) \/ Kill(p)
      PROVE  Inv'
  <2>1. Keeps(p)
    BY <1>1, BeginKeeps, PopKeeps, StatKeeps, UnlinkKeeps, ListKeeps, RmdirKeeps,
       EndKeeps, KillKeeps DEF Step
  <2> QED BY <2>1, KeepsInv
<1>2. ASSUME NEW n \in Late, Write(n)
      PROVE  Inv'
  BY <1>2, WriteInv
<1>3. ASSUME NEW d \in Swappable, Swap(d)
      PROVE  Inv'
  BY <1>3, SwapInv
<1>4. CASE UNCHANGED vars
  BY <1>4 DEF vars, world, Inv, TypeOK, StatOK, Owes, HasTop, Walking
<1> QED BY <1>1, <1>2, <1>3, <1>4 DEF Next

\* What every call knows at each point of its loop: what it found its path to be,
\* and that the top of the tree is gone, an error is noted, or it is still to do.
THEOREM WalkInv == Spec => []Inv
BY InvInit, InvNext, PTL DEF Spec

\* Every reachable state has the shape the code gives it: whatever is put in the
\* place of what, a walk holds paths of its tree, and has on its stack only what it
\* took for a directory.
THEOREM WalkTypes == Spec => []TypeOK
BY WalkInv, PTL DEF Inv

\* remove_tree returns without errors only if the tree is gone, with any number of
\* processes removing it or writing into it.
THEOREM CleanIsGone == Spec => []CleanMeansGone
<1>1. Inv => CleanMeansGone
  BY DEF Inv, Owes, CleanMeansGone
<1> QED BY <1>1, WalkInv, PTL

-----------------------------------------------------------------------------
(* The contract: what is before a walk. *)

Unobstructed == refused = {} /\ written = {} /\ swapped = {}

\* What is before a walk in the directory of frame i: what is to do there, and
\* what it is at work on, the directory of the frame above or the path in hand.
InHand(p) == IF cur[p].is = "nothing" THEN {} ELSE {cur[p].node}

Ahead(p, i) ==
    stack[p][i].todo \cup
        IF i < Len(stack[p]) THEN {stack[p][i + 1].dir} ELSE InHand(p)

\* Frames and the path in hand form one way down from the top.
Hangs(p) ==
    /\ stack[p] = <<>> /\ cur[p].is # "nothing" => cur[p].node = Top
    /\ \A i \in 1 .. Len(stack[p]) : \A m \in Ahead(p, i) :
          m # Top /\ Parent[m] = stack[p][i].dir

\* Where nothing obstructs it a walk has before it whatever is left.
Covers(p) ==
    /\ HasTop(p)
    /\ \A i \in 1 .. Len(stack[p]) : \A m \in there \ {Top} :
          Parent[m] = stack[p][i].dir => m \in Ahead(p, i)

\* Where nobody else is at work either, it finds what it has seen.
Alone(p) ==
    /\ ~failed[p]
    /\ \A i \in 1 .. Len(stack[p]) : stack[p][i].dir \in there
    /\ cur[p].is \in {"leaf", "dir"} => cur[p].node \in there

Local(p) ==
    Walking(p) =>
        /\ Hangs(p)
        /\ Unobstructed => Covers(p) /\ (~raced[p] => Alone(p))

\* What is there stands in a directory that is there, and not in a link.
Connected == \A n \in (there \cap Inside) \ {Top} : Parent[n] \in there \ swapped

\* Two walks at once both know.
BothRaced ==
    \A p, q \in Removers : p # q /\ Walking(p) /\ Walking(q) => raced[p]

PassInv == Inv /\ Connected /\ BothRaced /\ \A p \in Removers : Local(p)

-----------------------------------------------------------------------------
(* The stack, frame by frame. *)

\* What a push leaves as it is.
LEMMA Pushed ==
    ASSUME NEW s \in Seq(FrameType), NEW f \in FrameType, NEW t, t = Append(s, f)
    PROVE  /\ Len(s) \in Nat
           /\ Len(t) = Len(s) + 1
           /\ t[Len(s) + 1] = f
           /\ \A i \in 1 .. Len(s) : t[i] = s[i]
BY AppendProperties

\* What a pop leaves as it is.
LEMMA Popped ==
    ASSUME NEW s \in Seq(FrameType), s # <<>>
    PROVE  LET t == SubSeq(s, 1, Len(s) - 1) IN
           /\ Len(s) \in Nat /\ Len(s) >= 1
           /\ t \in Seq(FrameType)
           /\ Len(t) = Len(s) - 1
           /\ \A i \in 1 .. Len(s) - 1 : t[i] = s[i]
<1> DEFINE n == Len(s) - 1
           b == SubSeq(s, 1, n)
<1>1. Len(s) \in Nat /\ Len(s) > 0
  OBVIOUS
<1>2. /\ b \in Seq(FrameType)
      /\ Len(b) = n
      /\ \A i \in 1..n : b[i] = s[i]
  BY <1>1
<1> QED BY <1>1, <1>2

\* What remains when the innermost frame is exchanged for another.
LEMMA Exchanged ==
    ASSUME NEW s \in Seq(FrameType), s # <<>>, NEW f \in FrameType,
           NEW t, t = Append(SubSeq(s, 1, Len(s) - 1), f)
    PROVE  /\ Len(s) \in Nat /\ Len(s) >= 1
           /\ Len(t) = Len(s)
           /\ t # <<>>
           /\ t[Len(s)] = f
           /\ \A i \in 1 .. Len(s) - 1 : t[i] = s[i]
<1> DEFINE b == SubSeq(s, 1, Len(s) - 1)
<1>1. /\ Len(s) \in Nat /\ Len(s) >= 1
      /\ b \in Seq(FrameType)
      /\ Len(b) = Len(s) - 1
      /\ \A i \in 1 .. Len(s) - 1 : b[i] = s[i]
  BY Popped
<1> HIDE DEF b
<1>2. /\ Len(t) = Len(b) + 1
      /\ t[Len(b) + 1] = f
      /\ \A i \in 1 .. Len(b) : t[i] = b[i]
  BY <1>1, Pushed DEF b
<1>3. t # <<>>
  BY <1>1, Stacks DEF b
<1> QED BY <1>1, <1>2, <1>3

-----------------------------------------------------------------------------
(* The step of a process, for the process itself. *)

\* What every lemma of this part assumes.
At(p) == Inv /\ Connected /\ BothRaced /\ Local(p)

\* What the state before the step says of the stack.
LEMMA Shapes ==
    ASSUME Inv, NEW p \in Removers
    PROVE  /\ stack[p] \in Seq(FrameType)
           /\ Len(stack[p]) \in Nat
           /\ stack[p] = <<>> <=> Len(stack[p]) = 0
           /\ \A i \in 1 .. Len(stack[p]) :
                 stack[p][i].dir \in Inside \cap Dirs /\ stack[p][i].todo \subseteq Inside
           /\ cur[p] \in [node : Inside, is : Finds]
           /\ failed[p] \in BOOLEAN
           /\ stack[p] # <<>> => Frame(p) = stack[p][Len(stack[p])]
                                 /\ Len(stack[p]) \in 1 .. Len(stack[p])
<1>1. stack[p] \in Seq(FrameType)
  BY DEF Inv, TypeOK, FrameType
<1>2. /\ Len(stack[p]) \in Nat
      /\ stack[p] = <<>> <=> Len(stack[p]) = 0
      /\ \A i \in 1 .. Len(stack[p]) : stack[p][i] \in FrameType
  BY <1>1
<1>3. /\ cur[p] \in [node : Inside, is : Finds]
      /\ failed[p] \in BOOLEAN
  BY DEF Inv, TypeOK
<1>4. \A i \in 1 .. Len(stack[p]) :
         stack[p][i].dir \in Inside \cap Dirs /\ stack[p][i].todo \subseteq Inside
  BY <1>2 DEF FrameType
<1>5. stack[p] # <<>> => Len(stack[p]) \in 1 .. Len(stack[p])
  BY <1>2
<1> QED BY <1>1, <1>2, <1>3, <1>4, <1>5 DEF Frame

\* A pass begins with the top in its hand.
LEMMA BeginLocal ==
    ASSUME Inv, NEW p \in Removers, Begin(p)
    PROVE  Local(p)'
<1>1. stack'[p] = <<>> /\ Len(stack'[p]) = 0
  BY Shapes DEF Begin, Inv, Owes
<1>2. cur'[p] = [node |-> Top, is |-> "popped"] /\ ~failed'[p]
  BY DEF Begin, Inv, TypeOK
<1>3. Hangs(p)'
  BY <1>1, <1>2 DEF Hangs
<1>4. Covers(p)'
  BY <1>1, <1>2 DEF Covers, HasTop
<1>5. Alone(p)'
  BY <1>1, <1>2 DEF Alone
<1> QED BY <1>3, <1>4, <1>5 DEF Local

\* What is popped passes from what is to do into the hand.
LEMMA PopLocal ==
    ASSUME NEW p \in Removers, At(p), Pop(p)
    PROVE  Local(p)'
<1> DEFINE s == stack[p]
           L == Len(stack[p])
           t == stack'[p]
<1>1. PICK n \in Frame(p).todo :
          /\ cur' = [cur EXCEPT ![p] = [node |-> n, is |-> "popped"]]
          /\ stack' = [stack EXCEPT
                 ![p] = Append(Below(p), [Frame(p) EXCEPT !.todo = @ \ {n}])]
  BY DEF Pop
<1>2. /\ s # <<>> /\ Walking(p) /\ cur[p] = Nothing
      /\ UNCHANGED <<there, failed, phase, raced, written, refused, swapped>>
      /\ Inv /\ Local(p)
  BY DEF Pop, AtLoopHead, At, world
<1> DEFINE f == [Frame(p) EXCEPT !.todo = @ \ {n}]
<1>3. /\ s \in Seq(FrameType) /\ L \in Nat /\ L \in 1 .. L
      /\ Frame(p) = s[L] /\ Frame(p) \in FrameType
  BY <1>2, Shapes, Bottom
<1>4. f \in FrameType /\ f.dir = s[L].dir /\ f.todo = s[L].todo \ {n}
  BY <1>3 DEF FrameType
<1>5. t = Append(SubSeq(s, 1, L - 1), f) /\ cur'[p] = [node |-> n, is |-> "popped"]
  BY <1>1, <1>2 DEF Inv, TypeOK, Below
<1>6. /\ Len(t) = L
      /\ t # <<>>
      /\ t[L] = f
      /\ \A i \in 1 .. L - 1 : t[i] = s[i]
  BY <1>2, <1>3, <1>4, <1>5, Exchanged
<1> HIDE DEF f
<1>7. \A i \in 1 .. L : t[i].dir = s[i].dir /\ Ahead(p, i)' = Ahead(p, i)
  <2>1. ASSUME NEW i \in 1 .. L, i < L
        PROVE  t[i].dir = s[i].dir /\ Ahead(p, i)' = Ahead(p, i)
    <3>1. t[i] = s[i] /\ i + 1 \in 1 .. L
      BY <1>3, <1>6, <2>1
    <3>2. t[i + 1].dir = s[i + 1].dir
      BY <1>3, <1>4, <1>6, <3>1
    <3> QED BY <1>6, <2>1, <3>1, <3>2 DEF Ahead
  <2>2. ASSUME NEW i \in 1 .. L, i = L
        PROVE  t[i].dir = s[i].dir /\ Ahead(p, i)' = Ahead(p, i)
    <3>1. Ahead(p, i) = s[L].todo
      BY <1>2, <1>3, <2>2 DEF Ahead, InHand, Nothing
    <3>2. Ahead(p, i)' = (s[L].todo \ {n}) \cup {n}
      BY <1>3, <1>4, <1>5, <1>6, <2>2 DEF Ahead, InHand
    <3> QED BY <1>3, <1>4, <1>6, <2>2, <3>1, <3>2
  <2>3. \A i \in 1 .. L : i < L \/ i = L
    BY <1>3
  <2> QED BY <2>1, <2>2, <2>3
<1>8. Hangs(p)'
  BY <1>2, <1>6, <1>7 DEF Local, Hangs
<1>9. ASSUME Unobstructed PROVE Covers(p)'
  <2>1. Covers(p)
    BY <1>2, <1>9 DEF Local
  <2>2. HasTop(p)'
    BY <2>1, <1>2, <1>3, <1>6, <1>7 DEF Covers, HasTop
  <2> QED BY <2>1, <2>2, <1>2, <1>6, <1>7 DEF Covers
<1>10. ASSUME Unobstructed, ~raced[p] PROVE Alone(p)'
  <2>1. Alone(p)
    BY <1>2, <1>10 DEF Local
  <2> QED BY <2>1, <1>2, <1>5, <1>6, <1>7 DEF Alone
<1> QED BY <1>2, <1>8, <1>9, <1>10 DEF Local, Unobstructed

\* What a pass does not find any more, or lets go with an error, leaves its hand.
LEMMA LetGo ==
    ASSUME NEW p \in Removers, At(p), cur[p].is # "nothing", Walking(p), phase' = phase,
           stack' = stack, cur'[p] = Nothing, there' \subseteq there,
           UNCHANGED <<raced, written, refused, swapped>>,
           Unobstructed => cur[p].node \notin there',
           Unobstructed /\ ~raced[p] => /\ failed'[p] = failed[p]
                                        /\ there \cap Dirs \subseteq there'
    PROVE  Local(p)'
<1>1. /\ Inv /\ Local(p) /\ cur[p].is # "nothing"
      /\ Hangs(p)
  BY DEF At, Local
<1>2. ASSUME NEW i \in 1 .. Len(stack[p])
      PROVE  /\ Ahead(p, i)' \subseteq Ahead(p, i)
             /\ Ahead(p, i) \subseteq Ahead(p, i)' \cup {cur[p].node}
  BY DEF Ahead, InHand, Nothing
<1>3. Hangs(p)'
  BY <1>1, <1>2 DEF Hangs, Nothing
<1>4. ASSUME Unobstructed PROVE Covers(p)'
  <2>1. Covers(p) /\ cur[p].node \notin there'
    BY <1>1, <1>4 DEF Local
  <2>2. HasTop(p)'
    BY <1>1, <2>1 DEF Covers, HasTop, Hangs
  <2> QED BY <1>2, <2>1, <2>2 DEF Covers
<1>5. ASSUME Unobstructed, ~raced[p] PROVE Alone(p)'
  <2>1. Alone(p)
    BY <1>1, <1>5 DEF Local
  <2> QED BY <2>1, <1>1, <1>5, Shapes DEF Alone, Nothing
<1> QED BY <1>3, <1>4, <1>5 DEF Local, Unobstructed

LEMMA StatLocal ==
    ASSUME NEW p \in Removers, At(p), Stat(p)
    PROVE  Local(p)'
<1> DEFINE n == cur[p].node
<1>1. /\ Inv /\ Local(p) /\ Walking(p) /\ cur[p].is = "popped"
      /\ UNCHANGED <<there, stack, phase, raced, written, refused, swapped>>
      /\ cur \in [Removers -> [node : Inside, is : Finds]]
      /\ failed \in [Removers -> BOOLEAN]
  BY DEF At, Stat, Holds, Inv, TypeOK, world
<1>2. Unobstructed => (Existing(n) <=> n \in there) /\ ~Refuses("stat", n)
  BY Calm DEF Unobstructed, Refuses
<1>3. CASE Existing(n) /\ ~Refuses("stat", n)
  <2>1. failed' = failed /\ cur'[p].node = n /\ cur'[p].is # "nothing"
    <3>1. failed' = failed
          /\ cur' = [cur EXCEPT ![p].is = IF FoundDirectory(n) THEN "dir" ELSE "leaf"]
      BY <1>3 DEF Stat
    <3> QED BY <1>1, <3>1
  <2>2. \A i \in 1 .. Len(stack[p]) : Ahead(p, i)' = Ahead(p, i)
    BY <1>1, <2>1 DEF Ahead, InHand
  <2>3. Hangs(p)'
    BY <1>1, <2>1, <2>2 DEF Local, Hangs
  <2>4. Unobstructed => Covers(p)'
    BY <1>1, <2>1, <2>2 DEF Local, Covers, HasTop
  <2>5. Unobstructed /\ ~raced[p] => Alone(p)'
    BY <1>1, <1>2, <1>3, <2>1 DEF Local, Alone
  <2> QED BY <1>1, <2>3, <2>4, <2>5 DEF Local, Unobstructed
<1>4. CASE ~(Existing(n) /\ ~Refuses("stat", n))
  <2>1. /\ cur' = [cur EXCEPT ![p] = Nothing]
        /\ failed' = [failed EXCEPT ![p] = @ \/ Existing(n)]
    BY <1>4 DEF Stat, Continue
  <2>2. Unobstructed => n \notin there /\ ~Existing(n)
    BY <1>2, <1>4
  <2>3. ~Existing(n) => failed'[p] = failed[p]
    BY <1>1, <2>1
  <2>4. cur'[p] = Nothing
    BY <1>1, <2>1
  <2>5. cur[p].is # "nothing"
    BY <1>1
  <2> QED BY <1>1, <2>2, <2>3, <2>4, <2>5, LetGo
<1> QED BY <1>3, <1>4

LEMMA UnlinkLocal ==
    ASSUME NEW p \in Removers, At(p), Unlink(p)
    PROVE  Local(p)'
<1> DEFINE n == cur[p].node
           ok == CanUnlink(n)
<1>1. /\ Inv /\ Local(p) /\ Walking(p) /\ cur[p].is = "leaf"
      /\ UNCHANGED <<stack, phase, raced, written, refused, swapped>>
      /\ cur \in [Removers -> [node : Inside, is : Finds]]
      /\ failed \in [Removers -> BOOLEAN]
      /\ n \notin Dirs \/ n \in swapped
  BY DEF At, Unlink, Holds, Inv, TypeOK, StatOK, world
<1>2. /\ there' = IF ok THEN there \ {n} ELSE there
      /\ cur' = [cur EXCEPT ![p] = Nothing]
      /\ failed' = [failed EXCEPT ![p] = @ \/ ~ok]
  BY Erased DEF Unlink, Continue
<1>3. Unobstructed => (ok <=> n \in there) /\ n \notin Dirs
  BY <1>1, Calm DEF Unobstructed, CanUnlink, Refuses
<1> HIDE DEF ok
<1>4. Unobstructed => n \notin there'
  BY <1>2, <1>3
<1>5. Unobstructed /\ ~raced[p] => failed'[p] = failed[p]
  <2>1. Unobstructed /\ ~raced[p] => ok
    BY <1>1, <1>3 DEF Local, Alone
  <2>2. ok => failed'[p] = failed[p]
    BY <1>1, <1>2
  <2> QED BY <2>1, <2>2
<1>6. there' \subseteq there /\ (Unobstructed => there \cap Dirs \subseteq there')
  BY <1>2, <1>3
<1>7. cur'[p] = Nothing /\ cur[p].is # "nothing"
  BY <1>1, <1>2
<1> QED BY <1>1, <1>4, <1>5, <1>6, <1>7, LetGo

\* What is listed passes from the hand to the top of the stack, with all it holds.
LEMMA ListLocal ==
    ASSUME NEW p \in Removers, At(p), List(p)
    PROVE  Local(p)'
<1> DEFINE n == cur[p].node
           s == stack[p]
           L == Len(stack[p])
           t == stack'[p]
           ok == Existing(n) /\ ~Refuses("list", n)
<1>1. /\ Inv /\ Local(p) /\ Walking(p) /\ cur[p].is = "dir"
      /\ UNCHANGED <<there, phase, raced, written, refused, swapped>>
      /\ cur' = [cur EXCEPT ![p] = Nothing]
      /\ failed' = [failed EXCEPT ![p] = @ \/ ~ok]
      /\ cur \in [Removers -> [node : Inside, is : Finds]]
      /\ failed \in [Removers -> BOOLEAN]
      /\ n \in Inside \cap Dirs
  BY DEF At, List, Holds, Continue, Inv, TypeOK, StatOK, world
<1>2. CASE ~ok
  <2>1. stack' = stack
    BY <1>2 DEF List
  <2>2. Unobstructed => n \notin there
    BY <1>2, Calm DEF Refuses, Unobstructed
  <2>3. Unobstructed /\ ~raced[p] => n \in there
    BY <1>1 DEF Local, Alone
  <2>4. cur'[p] = Nothing /\ cur[p].is # "nothing"
    BY <1>1
  <2> QED BY <1>1, <2>1, <2>2, <2>3, <2>4, LetGo
<1>3. CASE ok
  <2> PICK found \in Listings(n) :
         stack' = [stack EXCEPT ![p] = Append(@, [dir |-> n, todo |-> found])]
    BY <1>3 DEF List
  <2> DEFINE f == [dir |-> n, todo |-> found]
  <2>1. s \in Seq(FrameType) /\ L \in Nat /\ (s = <<>> <=> L = 0)
    BY <1>1, Shapes
  <2>2. /\ \A m \in found : m # Top /\ Parent[m] = n
        /\ Unobstructed => \A m \in there \ {Top} : Parent[m] = n => m \in found
        /\ f \in FrameType
    <3>1. found \subseteq Entries(n) /\ Entries(n) \subseteq Inside \ {Top}
      BY <1>1, Listed
    <3>2. \A m \in Entries(n) : m # Top /\ Parent[m] = n
      BY <1>1, Listed
    <3>3. ASSUME Unobstructed, NEW m \in there \ {Top}, Parent[m] = n PROVE m \in found
      <4>1. found = Entries(n) /\ Existing(m) /\ m \in Nodes
        BY <1>1, <3>3, Listed, Calm DEF Unobstructed, Inv, TypeOK
      <4> QED BY <1>1, <3>3, <4>1, Listed
    <3> QED BY <1>1, <3>1, <3>2, <3>3 DEF FrameType
  <2>3. /\ t = Append(s, f) /\ f.dir = n /\ f.todo = found
        /\ cur'[p].is = "nothing" /\ (failed'[p] <=> failed[p])
    BY <1>1, <1>3 DEF Inv, TypeOK, Nothing
  <2> HIDE DEF f
  <2>4. /\ Len(t) = L + 1
        /\ t[L + 1] = f
        /\ \A i \in 1 .. L : t[i] = s[i]
        /\ t # <<>>
    BY <2>1, <2>2, <2>3, Pushed, Stacks
  <2>5. \A i \in 1 .. L + 1 : i \in 1 .. L \/ i = L + 1
    BY <2>1
  <2>6. ASSUME NEW i \in 1 .. L
        PROVE  t[i].dir = s[i].dir /\ Ahead(p, i)' = Ahead(p, i)
    <3>1. CASE i < L
      <4>1. i + 1 \in 1 .. L
        BY <2>1, <3>1
      <4> QED BY <2>1, <2>4, <3>1, <4>1 DEF Ahead
    <3>2. CASE i = L
      BY <1>1, <2>1, <2>3, <2>4, <3>2 DEF Ahead, InHand
    <3> QED BY <2>1, <3>1, <3>2
  <2>7. ASSUME NEW i \in 1 .. L + 1, i = L + 1
        PROVE  t[i].dir = n /\ Ahead(p, i)' = found
    BY <2>1, <2>3, <2>4, <2>7 DEF Ahead, InHand
  <2>8. Hangs(p)'
    <3>1. Hangs(p)
      BY <1>1 DEF Local
    <3>2. ASSUME NEW i \in 1 .. L + 1, NEW m \in Ahead(p, i)'
          PROVE  m # Top /\ Parent[m] = t[i].dir
      <4>1. CASE i \in 1 .. L
        BY <2>6, <3>1, <3>2, <4>1 DEF Hangs
      <4>2. CASE i = L + 1
        BY <2>2, <2>7, <3>2, <4>2
      <4> QED BY <2>5, <4>1, <4>2
    <3> QED BY <2>4, <3>2 DEF Hangs
  <2>9. ASSUME Unobstructed PROVE Covers(p)'
    <3>1. Covers(p)
      BY <1>1, <2>9 DEF Local
    <3>2. HasTop(p)'
      BY <1>1, <2>1, <2>3, <2>4, <3>1 DEF Covers, HasTop, Local, Hangs
    <3>3. ASSUME NEW i \in 1 .. L + 1, NEW m \in there \ {Top}, Parent[m] = t[i].dir
          PROVE  m \in Ahead(p, i)'
      <4>1. CASE i \in 1 .. L
        BY <2>6, <3>1, <3>3, <4>1 DEF Covers
      <4>2. CASE i = L + 1
        BY <2>2, <2>7, <2>9, <3>3, <4>2
      <4> QED BY <2>5, <4>1, <4>2
    <3> QED BY <1>1, <2>4, <3>2, <3>3 DEF Covers
  <2>10. ASSUME Unobstructed, ~raced[p] PROVE Alone(p)'
    <3>1. Alone(p)
      BY <1>1, <2>10 DEF Local
    <3>2. \A i \in 1 .. L + 1 : t[i].dir \in there
      BY <1>3, <2>3, <2>4, <2>5, <2>10, <3>1, Calm DEF Alone, Unobstructed
    <3> QED BY <1>1, <2>3, <2>4, <3>1, <3>2 DEF Alone
  <2> QED BY <1>1, <2>8, <2>9, <2>10 DEF Local, Unobstructed
<1> QED BY <1>2, <1>3

\* Nothing is left in the directory on top, and no other frame is its own.
LEMMA RmdirLocal ==
    ASSUME NEW p \in Removers, At(p), Rmdir(p)
    PROVE  Local(p)'
<1> DEFINE s == stack[p]
           L == Len(stack[p])
           t == stack'[p]
           d == Frame(p).dir
           ok == CanRmdir(d)
<1>1. /\ Inv /\ Local(p) /\ Walking(p) /\ cur[p] = Nothing
      /\ s # <<>> /\ Frame(p).todo = {}
      /\ UNCHANGED <<phase, raced, written, refused, swapped>>
      /\ there' = IF ok THEN there \ {d} ELSE there
      /\ t = Below(p) /\ cur'[p] = Nothing /\ (failed'[p] <=> failed[p] \/ ~ok)
  <2>1. /\ Inv /\ Local(p) /\ Walking(p) /\ cur[p] = Nothing
        /\ s # <<>> /\ Frame(p).todo = {}
        /\ UNCHANGED <<phase, raced, written, refused, swapped>>
        /\ there' = IF ok THEN there \ {d} ELSE there
        /\ stack' = [stack EXCEPT ![p] = Below(p)]
        /\ cur' = [cur EXCEPT ![p] = Nothing]
        /\ failed' = [failed EXCEPT ![p] = @ \/ ~ok]
    BY Erased DEF At, Rmdir, AtLoopHead, Continue, world
  <2>2. ok \in BOOLEAN
    BY DEF CanRmdir, Existing
  <2> HIDE DEF ok
  <2> QED BY <2>1, <2>2 DEF Inv, TypeOK
<1>2. /\ s \in Seq(FrameType) /\ L \in Nat /\ L \in 1 .. L
      /\ Frame(p) = s[L] /\ d \in Inside \cap Dirs
  BY <1>1, Shapes
<1>3. /\ Len(t) = L - 1
      /\ \A i \in 1 .. L - 1 : t[i] = s[i]
      /\ t = <<>> <=> L = 1
  <2> DEFINE b == SubSeq(s, 1, Len(s) - 1)
  <2>1. /\ L >= 1
        /\ b \in Seq(FrameType)
        /\ Len(b) = L - 1
        /\ \A i \in 1 .. L - 1 : b[i] = s[i]
    BY <1>1, <1>2, Popped
  <2>2. t = b
    BY <1>1 DEF Below
  <2> HIDE DEF b
  <2>3. b = <<>> <=> Len(b) = 0
    BY <2>1, EmptySeq
  <2>4. b = <<>> <=> L = 1
    BY <1>2, <2>1, <2>3
  <2> QED BY <2>1, <2>2, <2>4
<1>4. Unobstructed => /\ Entries(d) = {m \in there \ {Top} : Parent[m] = d}
                      /\ ok <=> d \in there /\ Entries(d) = {}
  <2>1. Entries(d) = {m \in Nodes \ {Top} : Existing(m) /\ Parent[m] = d}
    BY <1>2, Listed
  <2>2. Unobstructed => (\A m : Existing(m) <=> m \in there) /\ FoundDirectory(d)
    BY <1>2, Calm DEF Unobstructed
  <2>3. there \subseteq Nodes
    BY <1>1 DEF Inv, TypeOK
  <2>4. Unobstructed => Entries(d) = {m \in there \ {Top} : Parent[m] = d}
    BY <2>1, <2>2, <2>3
  <2>5. Unobstructed => ~Refuses("remove", d)
    BY DEF Refuses, Unobstructed
  <2> QED BY <2>2, <2>4, <2>5 DEF CanRmdir
<1>5. ASSUME NEW i \in 1 .. L - 1
      PROVE  /\ i \in 1 .. L /\ t[i].dir = s[i].dir
             /\ Ahead(p, i)' \subseteq Ahead(p, i)
             /\ Ahead(p, i) \subseteq Ahead(p, i)' \cup {d}
  <2>1. i \in 1 .. L /\ i < L /\ t[i] = s[i]
    BY <1>2, <1>3
  <2>2. CASE i < L - 1
    <3>1. L \in Nat
      BY <1>2
    <3> HIDE DEF L
    <3>2. i + 1 \in 1 .. L - 1
      BY <2>2, <3>1
    <3>3. t[i + 1] = s[i + 1]
      BY <1>3, <3>2
    <3>4. i < Len(t)
      BY <1>3, <2>2
    <3>5. Ahead(p, i)' = t[i].todo \cup {t[i + 1].dir}
      BY <3>4 DEF Ahead
    <3>6. Ahead(p, i) = s[i].todo \cup {s[i + 1].dir}
      BY <2>1 DEF Ahead, L
    <3> QED BY <2>1, <3>3, <3>5, <3>6
  <2>3. CASE i = L - 1
    <3>1. Ahead(p, i) = s[i].todo \cup {d}
      BY <1>2, <2>1, <2>3 DEF Ahead
    <3>2. Ahead(p, i)' = s[i].todo
      BY <1>1, <1>3, <2>1, <2>3 DEF Ahead, InHand, Nothing
    <3> QED BY <2>1, <3>1, <3>2
  <2> QED BY <1>2, <2>2, <2>3
<1>6. Hangs(p)'
  BY <1>1, <1>3, <1>5 DEF Local, Hangs, Nothing
<1>7. ASSUME Unobstructed
      PROVE  Entries(d) = {} /\ d \notin there' /\ there' \subseteq there
  <2>1. Ahead(p, L) = {}
    BY <1>1, <1>2 DEF Ahead, InHand, Nothing
  <2>2. Entries(d) = {}
    BY <1>1, <1>2, <1>4, <1>7, <2>1 DEF Local, Covers
  <2> QED BY <1>1, <1>4, <1>7, <2>2
<1>8. ASSUME Unobstructed PROVE Covers(p)'
  <2>1. Covers(p)
    BY <1>1, <1>8 DEF Local
  <2>2. HasTop(p)'
    <3>1. CASE L = 1
      BY <1>1, <1>2, <1>7, <1>8, <2>1, <3>1 DEF Covers, HasTop, Nothing
    <3>2. CASE L # 1
      <4> HIDE DEF L
      <4>1. L >= 2
        BY <1>2, <3>2
      <4>2. 1 \in 1 .. L - 1
        BY <1>2, <4>1
      <4> QED BY <1>1, <1>3, <1>5, <1>7, <1>8, <2>1, <3>2, <4>2 DEF L, Covers, HasTop, Nothing
    <3> QED BY <3>1, <3>2
  <2> QED BY <1>3, <1>5, <1>7, <1>8, <2>1, <2>2 DEF Covers
<1>9. ASSUME Unobstructed, ~raced[p] PROVE Alone(p)'
  <2>1. Alone(p) /\ Hangs(p)
    BY <1>1, <1>9 DEF Local
  <2>2. d \in there /\ ok
    BY <1>2, <1>4, <1>7, <1>9, <2>1 DEF Alone
  <2>3. ASSUME NEW i \in 1 .. L - 1
        PROVE  t[i].dir \in there'
    <3>1. i \in 1 .. L /\ i < L /\ i + 1 \in 1 .. L
      BY <1>2
    <3>2. s[i + 1].dir \in Ahead(p, i)
      BY <3>1 DEF Ahead
    <3>3. s[i + 1].dir \in there \ {Top} /\ Parent[s[i + 1].dir] = s[i].dir
      BY <2>1, <3>1, <3>2 DEF Hangs, Alone
    <3>4. s[i].dir # d
      BY <1>4, <1>7, <1>9, <3>3
    <3> QED BY <1>1, <1>5, <2>1, <3>1, <3>4 DEF Alone
  <2> QED BY <1>1, <1>3, <2>1, <2>2, <2>3 DEF Alone, Nothing
<1> QED BY <1>1, <1>6, <1>8, <1>9 DEF Local, Unobstructed

LEMMA StepLocal ==
    ASSUME NEW p \in Removers, At(p), Begin(p) \/ Step(p) \/ Kill(p)
    PROVE  Local(p)'
<1>1. ASSUME End(p) \/ Kill(p) PROVE Local(p)'
  BY <1>1 DEF End, Kill, Local, Walking, At, Inv, TypeOK
<1> QED BY <1>1, BeginLocal, PopLocal, StatLocal, UnlinkLocal, ListLocal, RmdirLocal
        DEF At, Step

-----------------------------------------------------------------------------
(* The step of a process, for the tree and for the others. *)

\* A walk only takes away, and never a directory that holds something.
LEMMA OnlyTakes ==
    ASSUME Inv, Connected, NEW p \in Removers, Begin(p) \/ Step(p) \/ Kill(p)
    PROVE  /\ there' \subseteq there
           /\ UNCHANGED <<written, refused, swapped>>
           /\ Connected'
<1>1. CASE Unlink(p)
  <2> DEFINE n == cur[p].node
  <2>1. /\ there' \in {there, there \ {n}} /\ UNCHANGED <<written, refused, swapped>>
        /\ n \notin Dirs \/ n \in swapped
    BY <1>1, Erased DEF Unlink, Inv, StatOK, Holds, world
  <2>2. Connected'
    BY <2>1, TreeOK DEF Connected
  <2> QED BY <2>1, <2>2
<1>2. CASE Rmdir(p)
  <2> DEFINE d == Frame(p).dir
  <2>1. d \in Inside \cap Dirs
    BY <1>2, Shapes DEF Rmdir
  <2>2. \A m \in there \ {Top} : Parent[m] = d => m \in Entries(d)
    BY <2>1, Listed DEF Existing, Inv, TypeOK
  <2>3. /\ there' = there \/ (there' = there \ {d} /\ Entries(d) = {})
        /\ UNCHANGED <<written, refused, swapped>>
    BY <1>2, Erased DEF Rmdir, CanRmdir, world
  <2>4. Connected'
    BY <2>2, <2>3 DEF Connected
  <2> QED BY <2>3, <2>4
<1>3. ASSUME UNCHANGED <<there, written, refused, swapped>>
      PROVE  there' \subseteq there /\ Connected'
  BY <1>3 DEF Connected
<1>4. CASE Begin(p) \/ Kill(p) \/ Pop(p) \/ Stat(p) \/ List(p) \/ End(p)
  <2>1. UNCHANGED <<there, written, refused, swapped>>
    BY <1>4 DEF Begin, Kill, Pop, Stat, List, End, world
  <2> QED BY <1>3, <2>1
<1> QED BY <1>1, <1>2, <1>4 DEF Step

\* Who is at work at once, and who knows.
LEMMA RacedStep ==
    ASSUME Inv, BothRaced, NEW p \in Removers, Begin(p) \/ Step(p) \/ Kill(p)
    PROVE  /\ BothRaced'
           /\ \A q \in Removers \ {p} : Walking(q) => raced'[q]
<1>1. CASE Begin(p)
  BY <1>1 DEF Begin, BothRaced, Walking, Inv, TypeOK
<1>2. CASE Step(p) \/ Kill(p)
  <2>1. Walking(p) /\ raced' = raced
    BY <1>2 DEF Step, Kill, Pop, Stat, Unlink, List, Rmdir, End, AtLoopHead, Holds
  <2>2. \A q \in Removers : Walking(q)' => Walking(q)
    BY <1>2 DEF Step, Kill, Pop, Stat, Unlink, List, Rmdir, End, Walking, Inv, TypeOK
  <2>3. \A q \in Removers \ {p} : Walking(q) => raced'[q]
    BY <2>1 DEF BothRaced
  <2> QED BY <2>1, <2>2, <2>3 DEF BothRaced
<1> QED BY <1>1, <1>2

\* What another takes away is neither to do nor found any more; a walk that is
\* not alone knows it.
LEMMA LocalOfOthers ==
    ASSUME NEW q \in Removers, Local(q),
           cur'[q] = cur[q], stack'[q] = stack[q], phase'[q] = phase[q],
           Unobstructed' => /\ Unobstructed
                            /\ there' \subseteq there
                            /\ Walking(q) => raced'[q]
    PROVE  Local(q)'
<1>1. SUFFICES ASSUME Walking(q)' PROVE Local(q)'
  BY DEF Local
<1>2. Walking(q) /\ Hangs(q) /\ (Unobstructed => Covers(q))
  BY <1>1 DEF Local, Walking
<1>3. \A i : Ahead(q, i)' = Ahead(q, i)
  BY DEF Ahead, InHand
<1>4. Hangs(q)'
  BY <1>2, <1>3 DEF Hangs
<1>5. ASSUME Unobstructed' PROVE Covers(q)' /\ raced'[q]
  BY <1>2, <1>3, <1>5 DEF Covers, HasTop
<1> QED BY <1>4, <1>5 DEF Local

LEMMA PassInit == Init => PassInv
<1> SUFFICES ASSUME Init PROVE PassInv
  OBVIOUS
<1>1. Connected
  BY TreeOK, RootedOK DEF Init, Connected
<1>2. BothRaced /\ \A p \in Removers : Local(p)
  BY DEF Init, BothRaced, Local, Walking
<1> QED BY <1>1, <1>2, InvInit DEF PassInv

LEMMA PassNext == PassInv /\ [Next]_vars => PassInv'
<1> SUFFICES ASSUME PassInv, [Next]_vars PROVE PassInv'
  OBVIOUS
<1>1. Inv'
  BY InvNext DEF PassInv
<1>2. ASSUME NEW p \in Removers, Begin(p) \/ Step(p) \/ Kill(p)
      PROVE  PassInv'
  <2>1. Keeps(p)
    BY <1>2, BeginKeeps, PopKeeps, StatKeeps, UnlinkKeeps, ListKeeps, RmdirKeeps,
       EndKeeps, KillKeeps DEF Step, PassInv
  <2>2. /\ there' \subseteq there /\ UNCHANGED <<written, refused, swapped>> /\ Connected'
        /\ BothRaced' /\ \A q \in Removers \ {p} : Walking(q) => raced'[q]
    BY <1>2, OnlyTakes, RacedStep DEF PassInv
  <2>3. ASSUME NEW q \in Removers
        PROVE  Local(q)'
    <3>1. CASE q = p
      BY <1>2, <3>1, StepLocal DEF PassInv, At
    <3>2. CASE q # p
      BY <2>1, <2>2, <3>2, LocalOfOthers DEF PassInv, Keeps, Unobstructed
    <3> QED BY <3>1, <3>2
  <2> QED BY <1>1, <2>2, <2>3 DEF PassInv
<1>3. ASSUME NEW n \in Late, Write(n)
      PROVE  PassInv'
  <2>1. /\ Connected'
        /\ UNCHANGED <<stack, cur, failed, phase, raced, refused>>
        /\ ~Unobstructed'
    BY <1>3 DEF Write, Connected, PassInv, Unobstructed
  <2>2. BothRaced'
    BY <2>1 DEF PassInv, BothRaced, Walking
  <2>3. \A q \in Removers : Local(q)'
    BY <2>1, LocalOfOthers DEF PassInv
  <2> QED BY <1>1, <2>1, <2>2, <2>3 DEF PassInv
<1>4. ASSUME NEW d \in Swappable, Swap(d)
      PROVE  PassInv'
  <2>1. /\ UNCHANGED <<stack, cur, failed, phase, raced, refused>>
        /\ there' = there \ Under[d] /\ d \in there /\ swapped' = swapped \cup {d}
        /\ ~Unobstructed'
    BY <1>4 DEF Swap, Unobstructed
  <2>2. Connected'
    <3> SUFFICES ASSUME NEW n \in (there' \cap Inside) \ {Top}
                 PROVE  Parent[n] \in there' \ swapped'
      BY DEF Connected
    <3>1. n \notin Under[d] /\ Parent[n] \in there \ swapped
      BY <2>1 DEF PassInv, Connected
    <3>2. Parent[n] # d /\ Parent[n] \notin Under[d]
      BY <3>1, SwapOK
    <3> QED BY <2>1, <3>1, <3>2
  <2>3. BothRaced'
    BY <2>1 DEF PassInv, BothRaced, Walking
  <2>4. \A q \in Removers : Local(q)'
    BY <2>1, LocalOfOthers DEF PassInv
  <2> QED BY <1>1, <2>2, <2>3, <2>4 DEF PassInv
<1>5. CASE UNCHANGED vars
  <2>1. UNCHANGED <<there, stack, cur, failed, phase, raced, written, refused, swapped>>
    BY <1>5 DEF vars, world
  <2>2. Connected' /\ BothRaced'
    BY <2>1 DEF PassInv, Connected, BothRaced, Walking
  <2>3. \A q \in Removers : Local(q)'
    BY <2>1 DEF PassInv, Local, Walking, Hangs, Covers, HasTop, Alone, Unobstructed,
                Ahead, InHand
  <2> QED BY <1>1, <2>2, <2>3 DEF PassInv
<1> QED BY <1>2, <1>3, <1>4, <1>5 DEF Next

-----------------------------------------------------------------------------
(* The refinement. *)

Tree == IF Top \notin there THEN "gone"
        ELSE IF Inside \ Late \subseteq there THEN "whole" ELSE "part"

Obstructed == refused # {} \/ written # {} \/ swapped # {}

Pass == [p \in Removers |-> Report(p)]

LEMMA InitRefines == Init => Contract!Init
<1> SUFFICES ASSUME Init PROVE Contract!Init
  OBVIOUS
<1>1. Tree = "whole"
  BY TreeOK DEF Init, Tree
<1>2. Obstructed \in BOOLEAN
  BY DEF Obstructed
<1>3. Pass = [p \in Removers |-> "none"] /\ raced = [p \in Removers |-> FALSE]
  BY DEF Init, Pass, Report
<1> QED BY <1>1, <1>2, <1>3 DEF Contract!Init, Tree, Obstructed, Pass

\* What a process reports is all that changes when its pass begins or ends.
LEMMA PassStep ==
    ASSUME NEW p \in Removers, NEW r,
           \A q \in Removers \ {p} : phase'[q] = phase[q] /\ failed'[q] = failed[q],
           Report(p)' = r
    PROVE  Pass' = [Pass EXCEPT ![p] = r]
<1>1. \A q \in Removers \ {p} : Report(q)' = Report(q)
  BY DEF Report
<1> QED BY <1>1 DEF Pass

LEMMA ReportIs ==
    ASSUME Inv, NEW p \in Removers
    PROVE  /\ Pass[p] = Report(p)
           /\ Walking(p) <=> Report(p) = "walking"
           /\ Contract!Walking(p) <=> Walking(p)
<1>1. phase[p] \in Phases
  BY DEF Inv, TypeOK
<1>2. Walking(p) <=> Report(p) = "walking"
  BY <1>1 DEF Phases, Report, Walking
<1> QED BY <1>2 DEF Pass, Contract!Walking

LEMMA BeginRefines ==
    ASSUME Inv, NEW p \in Removers, Begin(p)
    PROVE  Contract!Begin(p)
<1>1. /\ ~Walking(p) /\ phase'[p] = "walking"
      /\ UNCHANGED <<there, written, refused, swapped>>
      /\ \A q \in Removers \ {p} : phase'[q] = phase[q] /\ failed'[q] = failed[q]
  BY DEF Begin, Inv, TypeOK, world
<1>2. Report(p)' = "walking"
  BY <1>1 DEF Report
<1>3. Pass' = [Pass EXCEPT ![p] = "walking"]
  BY <1>1, <1>2, PassStep
<1>4. Tree' = Tree /\ Obstructed' = Obstructed
  BY <1>1 DEF Tree, Obstructed
<1>5. raced' = [q \in Removers |->
                  IF q = p THEN \E o \in Removers : Contract!Walking(o)
                  ELSE raced[q] \/ Contract!Walking(q)]
  BY ReportIs DEF Begin
<1> QED BY <1>1, <1>3, <1>4, <1>5, ReportIs DEF Contract!Begin, Tree, Obstructed, Pass

LEMMA KillRefines ==
    ASSUME Inv, NEW p \in Removers, Kill(p)
    PROVE  Contract!Kill(p)
<1>1. /\ Walking(p) /\ phase'[p] = "none"
      /\ UNCHANGED <<there, raced, written, refused, swapped>>
      /\ \A q \in Removers \ {p} : phase'[q] = phase[q] /\ failed'[q] = failed[q]
  BY DEF Kill, Inv, TypeOK, world
<1>2. Report(p)' = "none"
  BY <1>1 DEF Report
<1>3. Pass' = [Pass EXCEPT ![p] = "none"]
  BY <1>1, <1>2, PassStep
<1>4. Tree' = Tree /\ Obstructed' = Obstructed
  BY <1>1 DEF Tree, Obstructed
<1> QED BY <1>1, <1>3, <1>4, ReportIs DEF Contract!Kill, Tree, Obstructed, Pass

\* A pass that ends has seen the top go, or has noted an error; and it notes none
\* unless the tree is obstructed or another pass was there.
LEMMA EndRefines ==
    ASSUME Inv, NEW p \in Removers, Local(p), End(p)
    PROVE  Contract!EndClean(p) \/ Contract!EndFailed(p)
<1>1. /\ Walking(p) /\ stack[p] = <<>> /\ cur[p] = Nothing /\ phase'[p] = "ended"
      /\ UNCHANGED <<there, failed, raced, written, refused, swapped>>
      /\ \A q \in Removers \ {p} : phase'[q] = phase[q] /\ failed'[q] = failed[q]
  BY DEF End, AtLoopHead, Inv, TypeOK, world
<1>2. Tree' = Tree /\ Obstructed' = Obstructed
  BY <1>1 DEF Tree, Obstructed
<1>3. HasTop(p) => Tree = "gone"
  BY <1>1 DEF HasTop, Nothing, Tree
<1>4. CASE ~failed[p]
  <2>1. Tree = "gone"
    BY <1>1, <1>3, <1>4 DEF Inv, Owes
  <2>2. Report(p)' = "clean"
    BY <1>1, <1>4 DEF Report
  <2>3. Pass' = [Pass EXCEPT ![p] = "clean"]
    BY <1>1, <2>2, PassStep
  <2> QED BY <1>1, <1>2, <2>1, <2>3, ReportIs
          DEF Contract!EndClean, Tree, Obstructed, Pass
<1>5. CASE failed[p]
  <2>1. Obstructed \/ (raced[p] /\ Tree = "gone")
    BY <1>1, <1>3, <1>5 DEF Local, Covers, Alone, Unobstructed, Obstructed
  <2>2. Report(p)' = "failed"
    BY <1>1, <1>5 DEF Report
  <2>3. Pass' = [Pass EXCEPT ![p] = "failed"]
    BY <1>1, <2>2, PassStep
  <2> QED BY <1>1, <1>2, <2>1, <2>3, ReportIs
          DEF Contract!EndFailed, Tree, Obstructed, Pass
<1> QED BY <1>4, <1>5

\* Whatever a walk does in between takes something from the tree, or nothing.
LEMMA WalkRefines ==
    ASSUME Inv, Connected, NEW p \in Removers,
           Pop(p) \/ Stat(p) \/ Unlink(p) \/ List(p) \/ Rmdir(p)
    PROVE  [Contract!RemoveSome \/ Contract!RemoveLast]_Contract!vars
<1>1. Keeps(p) /\ there' \subseteq there /\ UNCHANGED <<written, refused, swapped>>
  BY OnlyTakes, PopKeeps, StatKeeps, UnlinkKeeps, ListKeeps, RmdirKeeps DEF Step
<1>2. Walking(p) /\ phase' = phase /\ raced' = raced
  BY DEF Pop, Stat, Unlink, List, Rmdir, AtLoopHead, Holds
<1>3. Report(p) = "walking" /\ Report(p)' = "walking"
  BY <1>2 DEF Walking, Report
<1>4. Pass' = [Pass EXCEPT ![p] = "walking"]
  BY <1>1, <1>3, PassStep DEF Keeps
<1>5. Pass' = Pass
  BY <1>3, <1>4 DEF Pass
<1>6. Obstructed' = Obstructed
  BY <1>1 DEF Obstructed
<1>7. \/ Tree' = Tree
      \/ Tree = "whole" /\ Tree' = "part"
      \/ Tree # "gone" /\ Tree' = "gone"
  BY <1>1 DEF Tree
<1>8. \E q \in Removers : Contract!Walking(q)
  BY <1>2, ReportIs
<1> QED BY <1>2, <1>5, <1>6, <1>7, <1>8
        DEF Contract!RemoveSome, Contract!RemoveLast, Contract!vars, Tree, Obstructed, Pass

\* Nobody writes in a tree of which nothing is left.
LEMMA NothingLeft ==
    ASSUME Inv, Connected, Top \notin there
    PROVE  there \cap Inside = {}
<1> DEFINE S == there \cap Inside
<1>1. S \in SUBSET (Inside \ {Top})
  OBVIOUS
<1>2. \A n \in S : Parent[n] \in S
  BY TreeOK DEF Connected
<1> HIDE DEF S
<1> QED BY <1>1, <1>2, RootedOK DEF S

LEMMA WriteRefines ==
    ASSUME Inv, Connected, NEW n \in Late, Write(n)
    PROVE  Contract!Obstruct
<1>1. /\ Parent[n] \in there /\ there' = there \cup {n}
      /\ n \in written' /\ UNCHANGED <<stack, cur, failed, phase, raced, refused>>
  BY DEF Write
<1>2. Parent[n] \in Inside /\ n \in Inside \ {Top}
  BY TreeOK
<1>3. Top \in there
  BY <1>1, <1>2, NothingLeft
<1>4. Tree' = Tree /\ Tree # "gone"
  BY <1>1, <1>2, <1>3 DEF Tree
<1>5. Obstructed' = TRUE
  BY <1>1 DEF Obstructed
<1>6. Pass' = Pass
  BY <1>1 DEF Pass, Report
<1> QED BY <1>1, <1>4, <1>5, <1>6 DEF Contract!Obstruct, Tree, Obstructed, Pass

\* A directory that is replaced is one of a tree that is there.
LEMMA SwapRefines ==
    ASSUME Inv, Connected, NEW d \in Swappable, Swap(d)
    PROVE  Contract!Obstruct
<1>1. /\ d \in there /\ there' = there \ Under[d]
      /\ d \in swapped' /\ UNCHANGED <<stack, cur, failed, phase, raced>>
  BY DEF Swap
<1>2. Top \in there /\ Top \in there'
  BY <1>1, NothingLeft, SwapOK
<1>3. Tree # "gone" /\ Tree' \in {Tree, "part"}
  BY <1>1, <1>2 DEF Tree
<1>4. Obstructed' = TRUE
  BY <1>1 DEF Obstructed
<1>5. Pass' = Pass
  BY <1>1 DEF Pass, Report
<1> QED BY <1>1, <1>3, <1>4, <1>5 DEF Contract!Obstruct, Tree, Obstructed, Pass

LEMMA NextRefines == PassInv /\ [Next]_vars => [Contract!Next]_Contract!vars
<1> SUFFICES ASSUME PassInv, [Next]_vars PROVE [Contract!Next]_Contract!vars
  OBVIOUS
<1> USE DEF PassInv
<1>1. ASSUME NEW p \in Removers, Begin(p) \/ Kill(p) \/ End(p)
      PROVE  Contract!Next
  BY <1>1, BeginRefines, KillRefines, EndRefines DEF Contract!Next
<1>2. ASSUME NEW p \in Removers, Pop(p) \/ Stat(p) \/ Unlink(p) \/ List(p) \/ Rmdir(p)
      PROVE  [Contract!Next]_Contract!vars
  BY <1>2, WalkRefines DEF Contract!Next
<1>3. ASSUME NEW n \in Late, Write(n)
      PROVE  Contract!Next
  BY <1>3, WriteRefines DEF Contract!Next
<1>4. ASSUME NEW d \in Swappable, Swap(d)
      PROVE  Contract!Next
  BY <1>4, SwapRefines DEF Contract!Next
<1>5. CASE UNCHANGED vars
  BY <1>5 DEF vars, world, Contract!vars, Report
<1> QED BY <1>1, <1>2, <1>3, <1>4, <1>5 DEF Next, Step

\* remove_tree keeps the contract its callers rely on: it ends clean only over a
\* tree that is gone, and with errors only where something obstructs it or
\* another process was removing the same tree and has left nothing of it.
THEOREM WalkImplementsPass == Spec => KeepsContract
<1>1. PassInv /\ [Next]_vars => PassInv'
  BY PassNext
<1> QED BY <1>1, PassInit, InitRefines, NextRefines, PTL
        DEF Spec, KeepsContract, Contract!Spec
-----------------------------------------------------------------------------
(* What is outside. *)

\* A directory on the stack that lies below another that may be replaced has that
\* one below it on the stack.
Chained(p) ==
    \A i \in 1 .. Len(stack[p]) : \A d \in Swappable :
       stack[p][i].dir \in Under[d] => \E j \in 1 .. i - 1 : stack[p][j].dir = d

\* No walk is in a directory that has become a link.
Apart(p) == ~caught => \A d \in swapped : ~In(p, d)

OutInv ==
    /\ PassInv
    /\ OutsideUntouched
    /\ \A p \in Removers : Chained(p) /\ Apart(p)

\* A path in the hand of a walk lies below a directory that may be replaced only
\* while the walk is in that directory.
LEMMA HeldBelow ==
    ASSUME Inv, NEW p \in Removers, Walking(p), Hangs(p), Chained(p),
           cur[p].is # "nothing", NEW d \in Swappable, cur[p].node \in Under[d]
    PROVE  \E j \in 1 .. Len(stack[p]) : stack[p][j].dir = d
<1> DEFINE n == cur[p].node
           s == stack[p]
           L == Len(stack[p])
<1>1. L \in Nat /\ (s = <<>> <=> L = 0) /\ n \in Inside \ {Top}
  BY Shapes, SwapOK
<1>2. L \in 1 .. L
  BY <1>1 DEF Hangs
<1>3. Parent[n] = s[L].dir
  BY <1>2 DEF Hangs, Ahead, InHand
<1>4. s[L].dir = d \/ s[L].dir \in Under[d]
  BY <1>1, <1>3, SwapOK
<1>5. \A j \in 1 .. L - 1 : j \in 1 .. L
  BY <1>1
<1> QED BY <1>2, <1>4, <1>5 DEF Chained

\* What a step does to the directories on the stack.
LEMMA Ways ==
    ASSUME Inv, NEW p \in Removers, Begin(p) \/ Step(p) \/ Kill(p)
    PROVE  \/ /\ Len(stack'[p]) \in 0 .. Len(stack[p])
              /\ \A i \in 1 .. Len(stack'[p]) : stack'[p][i].dir = stack[p][i].dir
           \/ /\ cur[p].is = "dir" /\ Walking(p)
              /\ Len(stack'[p]) = Len(stack[p]) + 1
              /\ \A i \in 1 .. Len(stack[p]) : stack'[p][i].dir = stack[p][i].dir
              /\ stack'[p][Len(stack[p]) + 1].dir = cur[p].node
<1> DEFINE s == stack[p]
           L == Len(stack[p])
           t == stack'[p]
<1>0. stack \in [Removers -> Seq(FrameType)]
  BY DEF Inv, TypeOK, FrameType
<1>1. s \in Seq(FrameType) /\ L \in Nat
  BY Shapes
<1>2. CASE Begin(p) \/ Stat(p) \/ Unlink(p) \/ End(p)
  <2>1. t = s
    BY <1>2 DEF Begin, Stat, Unlink, End
  <2> QED BY <1>1, <2>1
<1>3. CASE Kill(p)
  <2>1. t = <<>> /\ Len(t) = 0
    BY <1>0, <1>3 DEF Kill
  <2> QED BY <1>1, <2>1
<1>4. CASE Pop(p)
  <2>1. PICK n \in Frame(p).todo :
            stack' = [stack EXCEPT
                 ![p] = Append(Below(p), [Frame(p) EXCEPT !.todo = @ \ {n}])]
    BY <1>4 DEF Pop
  <2> DEFINE f == [Frame(p) EXCEPT !.todo = @ \ {n}]
  <2>2. s # <<>> /\ Frame(p) = s[L] /\ s[L] \in FrameType /\ L \in 1 .. L
    BY <1>1, <1>4, Shapes, Bottom DEF Pop
  <2>3. f \in FrameType /\ f.dir = s[L].dir
    BY <2>2 DEF FrameType
  <2>4. t = Append(SubSeq(s, 1, L - 1), f)
    BY <1>0, <2>1 DEF Below
  <2> HIDE DEF f
  <2>5. Len(t) = L /\ t[L] = f /\ \A i \in 1 .. L - 1 : t[i] = s[i]
    BY <1>1, <2>2, <2>3, <2>4, Exchanged
  <2>6. \A i \in 1 .. L : i \in 1 .. L - 1 \/ i = L
    BY <1>1
  <2> QED BY <1>1, <2>3, <2>5, <2>6
<1>5. CASE List(p)
  <2>1. CASE stack' = stack
    BY <1>1, <2>1
  <2>2. CASE stack' # stack
    <3> DEFINE n == cur[p].node
    <3>1. n \in Inside \cap Dirs /\ cur[p].is = "dir" /\ Walking(p)
      BY <1>5 DEF List, Holds, Inv, TypeOK, StatOK
    <3>2. PICK found \in Listings(n) :
             stack' = [stack EXCEPT ![p] = Append(@, [dir |-> n, todo |-> found])]
      BY <1>5, <2>2 DEF List
    <3> DEFINE f == [dir |-> n, todo |-> found]
    <3>3. f \in FrameType /\ f.dir = n
      BY <3>1, Listed DEF FrameType
    <3>4. t = Append(s, f)
      BY <1>0, <3>2
    <3> HIDE DEF f
    <3>5. Len(t) = L + 1 /\ t[L + 1] = f /\ \A i \in 1 .. L : t[i] = s[i]
      BY <1>1, <3>3, <3>4, Pushed
    <3> QED BY <3>1, <3>3, <3>5
  <2> QED BY <2>1, <2>2
<1>6. CASE Rmdir(p)
  <2>1. s # <<>> /\ t = SubSeq(s, 1, L - 1)
    BY <1>0, <1>6 DEF Rmdir, Below
  <2>2. L >= 1 /\ Len(t) = L - 1 /\ \A i \in 1 .. L - 1 : t[i] = s[i]
    BY <1>1, <2>1, Popped
  <2> QED BY <1>1, <2>2
<1> QED BY <1>2, <1>3, <1>4, <1>5, <1>6 DEF Step

LEMMA ChainedStep ==
    ASSUME PassInv, NEW p \in Removers, Chained(p), Begin(p) \/ Step(p) \/ Kill(p)
    PROVE  Chained(p)'
<1> DEFINE s == stack[p]
           L == Len(stack[p])
           t == stack'[p]
<1>1. L \in Nat /\ Inv
  BY Shapes DEF PassInv
<1>2. CASE /\ Len(t) \in 0 .. L
           /\ \A i \in 1 .. Len(t) : t[i].dir = s[i].dir
  <2>1. ASSUME NEW i \in 1 .. Len(t), NEW d \in Swappable, t[i].dir \in Under[d]
        PROVE  \E j \in 1 .. i - 1 : t[j].dir = d
    <3>1. i \in 1 .. L /\ s[i].dir \in Under[d]
      BY <1>1, <1>2, <2>1
    <3>2. PICK j \in 1 .. i - 1 : s[j].dir = d
      BY <3>1 DEF Chained
    <3>3. j \in 1 .. Len(t)
      BY <1>1, <1>2, <3>1
    <3> QED BY <1>2, <3>2, <3>3
  <2> QED BY <2>1 DEF Chained
<1>3. CASE /\ cur[p].is = "dir" /\ Walking(p)
           /\ Len(t) = L + 1
           /\ \A i \in 1 .. L : t[i].dir = s[i].dir
           /\ t[L + 1].dir = cur[p].node
  <2>1. ASSUME NEW i \in 1 .. L + 1, NEW d \in Swappable, t[i].dir \in Under[d]
        PROVE  \E j \in 1 .. i - 1 : t[j].dir = d
    <3>1. CASE i \in 1 .. L
      <4>1. PICK j \in 1 .. i - 1 : s[j].dir = d
        BY <1>3, <2>1, <3>1 DEF Chained
      <4>2. j \in 1 .. L
        BY <1>1, <3>1
      <4> QED BY <1>3, <4>1, <4>2
    <3>2. CASE i = L + 1
      <4>1. Hangs(p)
        BY <1>3 DEF PassInv, Local
      <4>2. PICK j \in 1 .. L : s[j].dir = d
        BY <1>1, <1>3, <2>1, <3>2, <4>1, HeldBelow
      <4>3. j \in 1 .. i - 1
        BY <1>1, <3>2
      <4> QED BY <1>3, <4>2, <4>3
    <3> QED BY <1>1, <3>1, <3>2
  <2> QED BY <1>3, <2>1 DEF Chained
<1> QED BY <1>1, <1>2, <1>3, Ways

\* A path is taken for a directory only while no link has its place.
LEMMA ApartStep ==
    ASSUME PassInv, NEW p \in Removers, Apart(p), Begin(p) \/ Step(p) \/ Kill(p)
    PROVE  Apart(p)'
<1>1. /\ Inv /\ caught' = caught /\ swapped' = swapped
      /\ cur \in [Removers -> [node : Inside, is : Finds]]
  BY DEF PassInv, Inv, TypeOK, Begin, Step, Kill, Pop, Stat, Unlink, List, Rmdir, End, world
<1> SUFFICES ASSUME ~caught, NEW d \in swapped, In(p, d)' PROVE FALSE
  BY <1>1 DEF Apart
<1>2. ~In(p, d)
  BY DEF Apart
<1>3. CASE \E i \in 1 .. Len(stack'[p]) : stack'[p][i].dir = d
  <2>1. Len(stack[p]) \in Nat
    BY <1>1, Shapes
  <2>2. cur[p] = [node |-> cur[p].node, is |-> cur[p].is]
    BY <1>1
  <2>3. CASE /\ Len(stack'[p]) \in 0 .. Len(stack[p])
             /\ \A i \in 1 .. Len(stack'[p]) : stack'[p][i].dir = stack[p][i].dir
    BY <1>2, <1>3, <2>1, <2>3 DEF In
  <2>4. CASE /\ cur[p].is = "dir"
             /\ Len(stack'[p]) = Len(stack[p]) + 1
             /\ \A i \in 1 .. Len(stack[p]) : stack'[p][i].dir = stack[p][i].dir
             /\ stack'[p][Len(stack[p]) + 1].dir = cur[p].node
    <3>1. \A i \in 1 .. Len(stack[p]) + 1 :
             i \in 1 .. Len(stack[p]) \/ i = Len(stack[p]) + 1
      BY <2>1
    <3> QED BY <1>2, <1>3, <2>2, <2>4, <3>1 DEF In
  <2> QED BY <1>1, <2>3, <2>4, Ways
<1>4. CASE cur'[p] = [node |-> d, is |-> "dir"]
  <2>1. cur[p] # [node |-> d, is |-> "dir"]
    BY <1>2 DEF In
  <2>2. Stat(p)
    <3>1. CASE Begin(p) \/ Pop(p)
      <4>1. \E n : cur' = [cur EXCEPT ![p] = [node |-> n, is |-> "popped"]]
        BY <3>1 DEF Begin, Pop
      <4>2. cur'[p].is = "popped"
        BY <1>1, <4>1
      <4> QED BY <1>4, <4>2
    <3>2. CASE Kill(p) \/ Unlink(p) \/ List(p) \/ Rmdir(p)
      <4>1. cur'[p].is = "nothing"
        BY <1>1, <3>2 DEF Kill, Unlink, List, Rmdir, Continue, Nothing
      <4> QED BY <1>4, <4>1
    <3>3. CASE End(p)
      BY <1>4, <2>1, <3>3 DEF End
    <3> QED BY <3>1, <3>2, <3>3 DEF Step
  <2>3. Existing(cur[p].node) /\ FoundDirectory(cur[p].node) /\ cur[p].node = d
    BY <1>1, <1>4, <2>2 DEF Stat, Continue, Nothing
  <2>4. d \in Swappable /\ d \notin there
    BY <2>3 DEF FoundDirectory, Replaced, PassInv, Inv, TypeOK
  <2> QED BY <2>3, <2>4, SwapOK DEF Existing, Replaced, PassInv, Inv, TypeOK
<1> QED BY <1>3, <1>4 DEF In

\* A walk that is in no directory that has become a link removes paths of the tree.
LEMMA OutsideStep ==
    ASSUME PassInv, OutsideUntouched, NEW p \in Removers, Chained(p), Apart(p),
           Begin(p) \/ Step(p) \/ Kill(p)
    PROVE  OutsideUntouched'
<1>1. Inv /\ caught' = caught
  BY DEF PassInv, Begin, Step, Kill, Pop, Stat, Unlink, List, Rmdir, End, world
<1>2. CASE Unlink(p)
  <2> DEFINE n == cur[p].node
  <2>1. EraseIf(CanUnlink(n), n) /\ n \in Inside /\ cur[p].is = "leaf" /\ Walking(p)
    BY <1>1, <1>2 DEF Unlink, Holds, Inv, TypeOK
  <2>2. ASSUME ~caught, CanUnlink(n) PROVE n \in there
    <3>1. ASSUME NEW d \in Replaced, n \in Under[d] PROVE FALSE
      <4>1. d \in Swappable /\ d \in swapped
        BY <1>1 DEF Replaced, Inv, TypeOK
      <4>2. Hangs(p)
        BY <2>1 DEF PassInv, Local
      <4>3. \E j \in 1 .. Len(stack[p]) : stack[p][j].dir = d
        BY <1>1, <2>1, <3>1, <4>1, <4>2, HeldBelow
      <4> QED BY <2>2, <4>1, <4>3 DEF Apart, In
    <3> QED BY <2>2, <3>1 DEF CanUnlink, Existing
  <2> QED BY <1>1, <2>1, <2>2 DEF OutsideUntouched, EraseIf, Erase
<1>3. CASE Rmdir(p)
  <2> DEFINE n == Frame(p).dir
             L == Len(stack[p])
  <2>1. /\ EraseIf(CanRmdir(n), n) /\ n \in Inside /\ n = stack[p][L].dir
        /\ L \in 1 .. L /\ L \in Nat
    BY <1>1, <1>3, Shapes DEF Rmdir
  <2>2. ASSUME ~caught, CanRmdir(n) PROVE n \in there
    <3>1. ASSUME NEW d \in Replaced, n \in Under[d] PROVE FALSE
      <4>1. d \in Swappable /\ d \in swapped
        BY <1>1 DEF Replaced, Inv, TypeOK
      <4>2. PICK j \in 1 .. L - 1 : stack[p][j].dir = d
        BY <2>1, <3>1, <4>1 DEF Chained
      <4>3. j \in 1 .. L
        BY <2>1
      <4> QED BY <2>2, <4>1, <4>2, <4>3 DEF Apart, In
    <3> QED BY <2>2, <3>1 DEF CanRmdir, Existing
  <2> QED BY <1>1, <2>1, <2>2 DEF OutsideUntouched, EraseIf, Erase
<1>4. CASE Begin(p) \/ Kill(p) \/ Pop(p) \/ Stat(p) \/ List(p) \/ End(p)
  <2>1. UNCHANGED <<there, elsewhere>>
    BY <1>4 DEF Begin, Kill, Pop, Stat, List, End
  <2> QED BY <1>1, <2>1 DEF OutsideUntouched
<1> QED BY <1>2, <1>3, <1>4 DEF Step

LEMMA OutInit == Init => OutInv
<1> SUFFICES ASSUME Init PROVE OutInv
  OBVIOUS
<1>1. OutsideUntouched
  BY TreeOK DEF Init, OutsideUntouched
<1>2. ASSUME NEW p \in Removers PROVE Chained(p) /\ Apart(p)
  <2>1. Len(stack[p]) = 0 /\ swapped = {}
    BY DEF Init
  <2> QED BY <2>1 DEF Chained, Apart
<1> QED BY <1>1, <1>2, PassInit DEF OutInv

LEMMA OutNext == OutInv /\ [Next]_vars => OutInv'
<1> SUFFICES ASSUME OutInv, [Next]_vars PROVE OutInv'
  OBVIOUS
<1>1. PassInv'
  BY PassNext DEF OutInv
<1>2. ASSUME NEW p \in Removers, Begin(p) \/ Step(p) \/ Kill(p)
      PROVE  OutInv'
  <2>1. OutsideUntouched' /\ (Chained(p) /\ Apart(p))'
    BY <1>2, OutsideStep, ChainedStep, ApartStep DEF OutInv
  <2>2. Keeps(p) /\ caught' = caught
    BY <1>2, BeginKeeps, PopKeeps, StatKeeps, UnlinkKeeps, ListKeeps, RmdirKeeps,
       EndKeeps, KillKeeps
       DEF Step, OutInv, PassInv, Begin, Kill, Pop, Stat, Unlink, List, Rmdir, End, world
  <2>3. ASSUME NEW q \in Removers, q # p PROVE (Chained(q) /\ Apart(q))'
    BY <2>2, <2>3 DEF Keeps, OutInv, Chained, Apart, In
  <2> QED BY <1>1, <2>1, <2>3 DEF OutInv
<1>3. ASSUME NEW n \in Late, Write(n)
      PROVE  OutInv'
  <2>1. /\ UNCHANGED <<elsewhere, stack, cur, swapped, caught>> /\ there \subseteq there'
    BY <1>3 DEF Write
  <2>2. OutsideUntouched'
    BY <2>1 DEF OutInv, OutsideUntouched
  <2>3. \A q \in Removers : (Chained(q) /\ Apart(q))'
    BY <2>1 DEF OutInv, Chained, Apart, In
  <2> QED BY <1>1, <2>2, <2>3 DEF OutInv
<1>4. ASSUME NEW d \in Swappable, Swap(d)
      PROVE  OutInv'
  <2>1. /\ UNCHANGED <<elsewhere, stack, cur>>
        /\ there' = there \ Under[d] /\ swapped' = swapped \cup {d}
        /\ caught' = (caught \/ \E p \in Removers : In(p, d))
    BY <1>4 DEF Swap
  <2>2. OutsideUntouched'
    BY <2>1, SwapOK DEF OutInv, OutsideUntouched
  <2>3. \A q \in Removers : Chained(q)'
    BY <2>1 DEF OutInv, Chained
  <2>4. ASSUME NEW q \in Removers PROVE Apart(q)'
    <3>1. \A e : In(q, e)' <=> In(q, e)
      BY <2>1 DEF In
    <3> QED BY <2>1, <3>1 DEF OutInv, Apart
  <2> QED BY <1>1, <2>2, <2>3, <2>4 DEF OutInv
<1>5. CASE UNCHANGED vars
  <2>1. UNCHANGED <<there, elsewhere, stack, cur, swapped, caught>>
    BY <1>5 DEF vars, world
  <2>2. OutsideUntouched' /\ \A q \in Removers : (Chained(q) /\ Apart(q))'
    BY <2>1 DEF OutInv, OutsideUntouched, Chained, Apart, In
  <2> QED BY <1>1, <2>2 DEF OutInv
<1> QED BY <1>2, <1>3, <1>4, <1>5 DEF Next

\* remove_tree touches nothing outside its tree, wherever the links in it point,
\* with any number of others removing it, writing into it, and putting links in
\* the place of its directories - but for what lies behind such a new link, if a
\* walk was in the very directory then, from its symlink_metadata to its remove_dir.
THEOREM NothingOutside == Spec => []OutsideUntouched
<1>1. OutInv => OutsideUntouched
  BY DEF OutInv
<1> QED BY <1>1, OutInit, OutNext, PTL DEF Spec
=============================================================================
