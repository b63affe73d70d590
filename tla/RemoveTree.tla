----------------------------- MODULE RemoveTree -----------------------------
(***************************************************************************)
(* remove_tree of crates/reap-cli/src/executor.rs, one system call at a    *)
(* time: an explicit stack of paths, a look that tells a link from a       *)
(* directory, every error collected and stepped over.  Two runs may be at  *)
(* it on the same tree - recovery does not ask who staged what it finds -  *)
(* and a process that was at work in the tree when it was renamed away may *)
(* still write into it, or put a link in the place of a directory.         *)
(*                                                                         *)
(* A node is a path: below a directory that has become a link to somewhere *)
(* else the same paths name what is there.  What a path below a link is,   *)
(* file or directory, is taken to be the same on both sides of the change. *)
(*                                                                         *)
(* The order in which a directory lists its entries is not fixed, so the   *)
(* pairs on the stack that come from one listing are kept as a set, in one *)
(* frame with the directory that was listed.                               *)
(***************************************************************************)
EXTENDS Naturals, Sequences

CONSTANTS
    Removers,   \* processes that remove the tree
    Nodes,      \* paths of files, directories and links, in the tree and outside it
    Top,        \* the staged directory
    Parent,     \* Parent[n]: the directory n stands in
    Dirs,       \* the nodes that are directories
    Target,     \* Target[l]: what the symbolic link l points at
    Inside,     \* the nodes of the tree
    Late,       \* nodes that a process at work in the tree creates meanwhile
    Refusable,  \* pairs <<n, call>>: the call on node n may not be permitted
    Swappable,  \* directories that another process may replace by a link
    Under,      \* Under[d]: the paths below the directory d of Swappable
    Elsewhere   \* the paths below them that name something where the links lead

Links == DOMAIN Target

ASSUME TreeOK ==
    /\ Dirs \subseteq Nodes
    /\ Target \in [Links -> Nodes]
    /\ Links \subseteq Nodes \ Dirs
    /\ Inside \subseteq Nodes
    /\ Top \in Inside \cap Dirs
    /\ Parent \in [Nodes \ {Top} -> Dirs]
    /\ \A n \in Nodes \ {Top} : n \in Inside <=> Parent[n] \in Inside
    /\ Late \subseteq Inside \ {Top}
    /\ Refusable \subseteq Inside \X {"stat", "list", "read", "remove"}

\* The tree hangs together: whatever part of it one takes, something in it stands
\* outside that part, but for the top.  What stands in a late directory is late.
ASSUME RootedOK ==
    /\ \A S \in SUBSET (Inside \ {Top}) : S # {} => \E n \in S : Parent[n] \notin S
    /\ \A n \in Inside \ {Top} : Parent[n] \in Late => n \in Late

\* Directories become links one beside the other, never one below another.
ASSUME SwapOK ==
    /\ Swappable \subseteq (Inside \cap Dirs) \ {Top}
    /\ Under \in [Swappable -> SUBSET (Inside \ {Top})]
    /\ \A d \in Swappable : \A n \in Inside \ {Top} :
          n \in Under[d] <=> Parent[n] = d \/ Parent[n] \in Under[d]
    /\ \A d, e \in Swappable : d \notin Under[e]
    /\ \A n \in Elsewhere : \E d \in Swappable : n \in Under[d]

VARIABLES
    there,      \* the nodes of the tree and outside it that exist
    stack,      \* stack[p]: frames [dir, todo], the innermost last
    cur,        \* cur[p]: the path popped, and what is known of it
    failed,     \* failed[p]: stats.errors is not empty
    phase,      \* phase[p]: how far the call of process p is
    raced,      \* raced[p]: another pass overlapped that of p
    written,    \* the nodes of Late created so far
    refused,    \* the calls that are not permitted
    swapped,    \* the directories a link has been put in the place of
    elsewhere,  \* what exists where these links lead, by its path below them
    caught      \* one of them was replaced while a walk was in it (a history)

world == <<written, refused, swapped, caught>>
vars  == <<there, elsewhere, stack, cur, failed, phase, raced, world>>

Phases == {"none", "walking", "ended"}
Finds  == {"nothing", "popped", "leaf", "dir"}

Nothing == [node |-> Top, is |-> "nothing"]

Init ==
    /\ there = Nodes \ Late
    /\ stack = [p \in Removers |-> <<>>]
    /\ cur = [p \in Removers |-> Nothing]
    /\ failed = [p \in Removers |-> FALSE]
    /\ phase = [p \in Removers |-> "none"]
    /\ raced = [p \in Removers |-> FALSE]
    /\ written = {}
    /\ refused \in SUBSET Refusable
    /\ swapped = {}
    /\ elsewhere = Elsewhere
    /\ caught = FALSE

Walking(p) == phase[p] = "walking"

-----------------------------------------------------------------------------
(* What the system calls answer. *)

\* The directories that are links now.
Replaced == swapped \cap there

\* A link in the middle of a path is followed by every call.
Existing(n) == n \in there \/ (n \in elsewhere /\ \E d \in Replaced : n \in Under[d])

\* The node a path stands for where the call follows a final link.
Followed(n) == IF n \in Links THEN Target[n] ELSE n

\* read_dir follows a link; symlink_metadata, remove_file and remove_dir do not.
Entries(n) == {m \in Nodes \ {Top} : Existing(m) /\ Parent[m] = Followed(n)}

Refuses(call, n) == <<n, call>> \in refused

\* What read_dir gives of it: an error on the way is dropped (flatten), and is the
\* last the iterator has to say.
Listings(n) == IF Refuses("read", n) THEN SUBSET Entries(n) ELSE {Entries(n)}

\* Mutant: metadata in the place of symlink_metadata.
FoundDirectory_Follows(n) == Followed(n) \in Dirs

FoundDirectory(n) == n \in Dirs \ Replaced

CanUnlink(n) == Existing(n) /\ ~FoundDirectory(n) /\ ~Refuses("remove", n)
CanRmdir(n)  == /\ Existing(n) /\ FoundDirectory(n) /\ Entries(n) = {}
                /\ ~Refuses("remove", n)

\* The path n is no more, on whichever side of a link it is.
Erase(n) ==
    /\ there' = there \ {n}
    /\ elsewhere' = IF n \in there THEN elsewhere ELSE elsewhere \ {n}

EraseIf(ok, n) == IF ok THEN Erase(n) ELSE UNCHANGED <<there, elsewhere>>

-----------------------------------------------------------------------------
(* The call and its loop. *)

Frame(p) == stack[p][Len(stack[p])]
Below(p) == SubSeq(stack[p], 1, Len(stack[p]) - 1)

AtLoopHead(p) == Walking(p) /\ cur[p] = Nothing
Holds(p, find) == Walking(p) /\ cur[p].is = find

\* `continue`, with the error e pushed or not.
Continue(p, error) ==
    /\ cur' = [cur EXCEPT ![p] = Nothing]
    /\ failed' = [failed EXCEPT ![p] = @ \/ error]

\* recover and drain call it for the entry, in one run or another.
Begin(p) ==
    /\ ~Walking(p)
    /\ phase' = [phase EXCEPT ![p] = "walking"]
    /\ raced' = [q \in Removers |->
                   IF q = p THEN \E o \in Removers : Walking(o)
                   ELSE raced[q] \/ Walking(q)]
    /\ cur' = [cur EXCEPT ![p] = [node |-> Top, is |-> "popped"]]
    /\ failed' = [failed EXCEPT ![p] = FALSE]
    /\ UNCHANGED <<there, elsewhere, stack, world>>

\* A pair (n, false) is popped.
Pop(p) ==
    /\ AtLoopHead(p)
    /\ stack[p] # <<>>
    /\ \E n \in Frame(p).todo :
          /\ cur' = [cur EXCEPT ![p] = [node |-> n, is |-> "popped"]]
          /\ stack' = [stack EXCEPT
                 ![p] = Append(Below(p), [Frame(p) EXCEPT !.todo = @ \ {n}])]
    /\ UNCHANGED <<there, elsewhere, failed, phase, raced, world>>

\* Mutant: what is gone already is an error.
Stat_AbsentIsAnError(p) ==
    LET n == cur[p].node IN
    /\ Holds(p, "popped")
    /\ IF Existing(n) /\ ~Refuses("stat", n)
       THEN /\ cur' = [cur EXCEPT ![p].is = IF FoundDirectory(n) THEN "dir" ELSE "leaf"]
            /\ UNCHANGED failed
       ELSE Continue(p, TRUE)
    /\ UNCHANGED <<there, elsewhere, stack, phase, raced, world>>

\* symlink_metadata: what is gone already is no error.
Stat(p) ==
    LET n == cur[p].node IN
    /\ Holds(p, "popped")
    /\ IF Existing(n) /\ ~Refuses("stat", n)
       THEN /\ cur' = [cur EXCEPT ![p].is = IF FoundDirectory(n) THEN "dir" ELSE "leaf"]
            /\ UNCHANGED failed
       ELSE Continue(p, Existing(n))
    /\ UNCHANGED <<there, elsewhere, stack, phase, raced, world>>

\* remove_file.
Unlink(p) ==
    LET n == cur[p].node IN
    /\ Holds(p, "leaf")
    /\ EraseIf(CanUnlink(n), n)
    /\ Continue(p, ~CanUnlink(n))
    /\ UNCHANGED <<stack, phase, raced, world>>

\* read_dir: the directory is pushed for its rmdir, its entries above it.  What was
\* a directory when it was looked at may be a link by now.
List(p) ==
    LET n == cur[p].node
        ok == Existing(n) /\ ~Refuses("list", n)
    IN
    /\ Holds(p, "dir")
    /\ IF ok
       THEN \E found \in Listings(n) :
               stack' = [stack EXCEPT ![p] = Append(@, [dir |-> n, todo |-> found])]
       ELSE UNCHANGED stack
    /\ Continue(p, ~ok)
    /\ UNCHANGED <<there, elsewhere, phase, raced, world>>

\* Mutant: a failed rmdir is not recorded.
Rmdir_ErrorIgnored(p) ==
    LET d == Frame(p).dir IN
    /\ AtLoopHead(p)
    /\ stack[p] # <<>>
    /\ Frame(p).todo = {}
    /\ EraseIf(CanRmdir(d), d)
    /\ stack' = [stack EXCEPT ![p] = Below(p)]
    /\ UNCHANGED <<cur, failed, phase, raced, world>>

\* Mutant: a directory that is not empty yet is listed again.
Rmdir_TriesAgain(p) ==
    LET d == Frame(p).dir IN
    /\ AtLoopHead(p)
    /\ stack[p] # <<>>
    /\ Frame(p).todo = {}
    /\ EraseIf(CanRmdir(d), d)
    /\ stack' = [stack EXCEPT
           ![p] = Below(p) \o IF CanRmdir(d) \/ ~Existing(d) THEN <<>>
                              ELSE <<[dir |-> d, todo |-> Entries(d)]>>]
    /\ Continue(p, FALSE)
    /\ UNCHANGED <<phase, raced, world>>

\* A pair (d, true) is popped: remove_dir, of what has to be empty by now.
Rmdir(p) ==
    LET d == Frame(p).dir IN
    /\ AtLoopHead(p)
    /\ stack[p] # <<>>
    /\ Frame(p).todo = {}
    /\ EraseIf(CanRmdir(d), d)
    /\ stack' = [stack EXCEPT ![p] = Below(p)]
    /\ Continue(p, ~CanRmdir(d))
    /\ UNCHANGED <<phase, raced, world>>

\* The stack is empty: the caller gets the errors.
End(p) ==
    /\ AtLoopHead(p)
    /\ stack[p] = <<>>
    /\ phase' = [phase EXCEPT ![p] = "ended"]
    /\ UNCHANGED <<there, elsewhere, stack, cur, failed, raced, world>>

\* The process is killed.
Kill(p) ==
    /\ Walking(p)
    /\ phase' = [phase EXCEPT ![p] = "none"]
    /\ stack' = [stack EXCEPT ![p] = <<>>]
    /\ cur' = [cur EXCEPT ![p] = Nothing]
    /\ failed' = [failed EXCEPT ![p] = FALSE]
    /\ UNCHANGED <<there, elsewhere, raced, world>>

\* A process that was at work in the tree creates something in it.
Write(n) ==
    /\ n \in Late \ written
    /\ Parent[n] \in there \ swapped
    /\ there' = there \cup {n}
    /\ written' = written \cup {n}
    /\ UNCHANGED <<elsewhere, stack, cur, failed, phase, raced, refused, swapped, caught>>

\* The walk p is in the directory d: it took d for a directory, and d has not had
\* its rmdir yet.
In(p, d) ==
    \/ cur[p] = [node |-> d, is |-> "dir"]
    \/ \E i \in 1 .. Len(stack[p]) : stack[p][i].dir = d

\* Such a process moves a directory away, with all there is in it, and puts a link
\* to somewhere else in its place.
Swap(d) ==
    /\ d \in (Swappable \cap there) \ swapped
    /\ there' = there \ Under[d]
    /\ swapped' = swapped \cup {d}
    /\ caught' = (caught \/ \E p \in Removers : In(p, d))
    /\ UNCHANGED <<elsewhere, stack, cur, failed, phase, raced, written, refused>>

Step(p) == Pop(p) \/ Stat(p) \/ Unlink(p) \/ List(p) \/ Rmdir(p) \/ End(p)

Next ==
    \/ \E p \in Removers : Begin(p) \/ Step(p) \/ Kill(p)
    \/ \E n \in Late : Write(n)
    \/ \E d \in Swappable : Swap(d)

Spec == Init /\ [][Next]_vars

\* A call that has begun is carried on.
FairSpec == Spec /\ \A p \in Removers : WF_vars(Step(p))

-----------------------------------------------------------------------------
(* Properties. *)

\* Frames belong to paths of directories of the tree and the walk to paths of it.
TypeOK ==
    /\ there \subseteq Nodes
    /\ stack \in [Removers -> Seq([dir : Inside \cap Dirs, todo : SUBSET Inside])]
    /\ cur \in [Removers -> [node : Inside, is : Finds]]
    /\ failed \in [Removers -> BOOLEAN]
    /\ phase \in [Removers -> Phases]
    /\ raced \in [Removers -> BOOLEAN]
    /\ written \subseteq Late
    /\ refused \subseteq Refusable
    /\ swapped \subseteq Swappable
    /\ elsewhere \subseteq Elsewhere
    /\ caught \in BOOLEAN

\* Nothing outside the tree is touched, wherever the links in it point, and also
\* where a directory is replaced by a link during the removal: by its turn
\* symlink_metadata finds the link, and the link goes.  The exception is a walk
\* that is in the directory at that moment, between its symlink_metadata
\* (executor.rs:88) and its remove_dir: read_dir (executor.rs:106) and the paths
\* taken from it go through the new link, and what is there may be removed; but
\* nothing else outside, not even by such a walk.
OutsideUntouched ==
    /\ Nodes \ Inside \subseteq there
    /\ ~caught => elsewhere = Elsewhere

\* A call that reports no error has left nothing, also when another process was
\* removing the same tree, or writing into it.
CleanMeansGone ==
    \A p \in Removers : phase[p] = "ended" /\ ~failed[p] => Top \notin there

\* A call keeps the contract the executor relies on.
Report(p) ==
    CASE phase[p] = "none" -> "none"
      [] phase[p] = "walking" -> "walking"
      [] phase[p] = "ended" -> IF failed[p] THEN "failed" ELSE "clean"

Contract == INSTANCE RemovePass WITH
    tree <- IF Top \notin there THEN "gone"
            ELSE IF Inside \ Late \subseteq there THEN "whole" ELSE "part",
    obstructed <- refused # {} \/ written # {} \/ swapped # {},
    pass <- [p \in Removers |-> Report(p)]

KeepsContract == Contract!Spec

\* Every call comes to an end.
PassesEnd == \A p \in Removers : Walking(p) ~> ~Walking(p)
=============================================================================
