----------------------------- MODULE CheckTime -----------------------------
(***************************************************************************)
(* How often a search looks at its limits: Worker::check_time               *)
(* (pikarust-core/src/search/search.rs).  The main worker calls it at every *)
(* node; the counter calls_cnt lets only some of the calls through.  The    *)
(* counter is a signed integer, of -Half..(Half - 1) with Half = 2^31 in    *)
(* the code, that wraps in a release build; the node limit over Unit (1024) *)
(* is cut to that width.                                                    *)
(*                                                                          *)
(* An operator Name_Change is a variant of Name with a plausible bug, which *)
(* a property must notice; no specification uses one.                       *)
(***************************************************************************)
EXTENDS Integers

CONSTANTS
  Half,        \* half the number of values of calls_cnt
  Unit,        \* 1024: a node limit is checked about this often
  MaxGap,      \* 512: the most calls between two looks
  NodeLimits   \* the `nodes` limits of the searches, 0 for none

ASSUME HalfAssumption  == Half \in Nat \ {0}
ASSUME UnitAssumption  == Unit \in Nat \ {0}
ASSUME GapAssumption   == MaxGap \in 1..(Half - 1)
ASSUME LimitAssumption == NodeLimits \subseteq Nat

VARIABLES
  callsCnt,  \* Worker.calls_cnt
  nodes,     \* the node limit of the current search
  gap        \* calls of check_time since the last that looked at the limits

vars == <<callsCnt, nodes, gap>>

\* Two's complement.
Wrap(x) == ((x + Half) % (2 * Half)) - Half
Counter == (-Half)..(Half - 1)

\* ThreadPool::clear, and then a search with some limit.
Init == callsCnt = 0 /\ nodes \in NodeLimits /\ gap = 0

\* start_search gives the worker other limits and keeps its counter.
NewSearch ==
  /\ nodes' \in NodeLimits
  /\ UNCHANGED <<callsCnt, gap>>

\* The counter set when a call looks at the limits.
Share == Wrap(nodes \div Unit)
Reload_Uncapped == IF nodes > 0 THEN Share ELSE MaxGap
Reload == IF nodes > 0 /\ Share < MaxGap THEN Share ELSE MaxGap

\* A call that returns early, and one that looks at the limits.
Skip ==
  /\ Wrap(callsCnt - 1) > 0
  /\ callsCnt' = Wrap(callsCnt - 1)
  /\ gap' = gap + 1
  /\ UNCHANGED nodes

Look ==
  /\ Wrap(callsCnt - 1) <= 0
  /\ callsCnt' = Reload
  /\ gap' = 0
  /\ UNCHANGED nodes

Next == NewSearch \/ Skip \/ Look

Spec == Init /\ [][Next]_vars

-----------------------------------------------------------------------------
TypeOK == callsCnt \in Counter /\ nodes \in NodeLimits /\ gap \in Nat

\* The limits are looked at at least once in MaxGap calls, whatever searches
\* came before: docs/architecture.md says that "Depth, node, and move-time
\* limits still apply independently".
LimitsLookedAt == gap < MaxGap
=============================================================================
