---------------------------- MODULE MCSearchPool ----------------------------
(***************************************************************************)
(* Instances of SearchPool for TLC.                                         *)
(***************************************************************************)
EXTENDS SearchPool

Plain == [depth |-> 0, timed |-> FALSE, budget |-> FALSE,
          infinite |-> FALSE, ponder |-> FALSE, roots |-> 2]

\* A search with every kind of end it can have, by depth, by clock or by a stop,
\* before and after a ponderhit, and a position without a legal move.
MCRequests ==
  { [Plain EXCEPT !.depth = 1, !.timed = TRUE, !.ponder = TRUE],
    [Plain EXCEPT !.infinite = TRUE, !.roots = 0] }

\* The requests that make a difference to liveness.
MCLiveRequests ==
  { [Plain EXCEPT !.depth = 1, !.ponder = TRUE],
    [Plain EXCEPT !.timed = TRUE, !.ponder = TRUE],
    [Plain EXCEPT !.budget = TRUE],
    [Plain EXCEPT !.infinite = TRUE] }

\* A clock, pondering, and a single root move.
MCPonderRequests == {[Plain EXCEPT !.timed = TRUE, !.ponder = TRUE, !.roots = 1]}
=============================================================================
