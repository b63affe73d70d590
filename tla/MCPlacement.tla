---------------------------- MODULE MCPlacement -----------------------------
(* home (1) holds code (2) and cache (5); code holds target (3), which holds *)
(* deps (4); cache holds tmp (6).                                            *)
EXTENDS Placement, TLC

HomeOf == <<0, 1, 2, 3, 1, 5>>

Site(quarantine, roots, match) ==
    [quarantine |-> quarantine, roots |-> roots, match |-> match,
     pinned |-> {}, foreign |-> {}, stubborn |-> {}, git |-> TRUE]

\* The quarantine around one of two roots; inside the root; the root itself; around
\* the root; inside a match.  Nested roots; a root inside a match.  A marker; another
\* filesystem; what cannot be unlinked; no git.
SomeSites ==
    {Site(5, {2, 6}, {3}), Site(5, {1}, {3, 6}), Site(5, {5}, {3, 6}),
     Site(1, {2}, {3}), Site(4, {2}, {3}), Site(5, {1, 2}, {3, 6}), Site(5, {2, 4}, {3}),
     Site(6, {1}, {3, 5}), Site(5, {1, 4}, {2}),
     [Site(5, {1}, {3, 6}) EXCEPT !.pinned = {2}],
     [Site(5, {2}, {3}) EXCEPT !.foreign = {2}],
     [Site(5, {1}, {2}) EXCEPT !.foreign = {3}],
     [Site(5, {2}, {3}) EXCEPT !.stubborn = {4}],
     [Site(5, {2}, {3}) EXCEPT !.git = FALSE]}
=============================================================================
