---------------------------- MODULE WorkerNodes ----------------------------
(***************************************************************************)
(* What the workers of one search do at every node without the pool: the    *)
(* main worker counts the node down and now and then looks at the limits    *)
(* (CheckTime), and when a node is done each worker adds what it has learnt *)
(* to the history all of them share and to tables of its own (History).  A  *)
(* worker does one of the two at a time.                                    *)
(***************************************************************************)
EXTENDS CheckTime

CONSTANTS
  Workers, Main,                                         \* Main \in Workers
  Limit, Reach, FirstBonus, Bonuses, Width, Cleared,     \* of History
  TableLimits, TableCleared, Fresh

ASSUME WorkersAssumption == Main \in Workers

VARIABLES entry, update, own
historyVars == <<entry, update, own>>
nodeVars == <<vars, historyVars>>

H == INSTANCE History WITH Owner <- Main
ASSUME HistoryAssumption == H!WellFormed

NodesInit == Init /\ H!Init

MainIsIdle == update[Main].step = "idle"

\* A node begins: check_time.
Enter == MainIsIdle /\ (Skip \/ Look) /\ UNCHANGED historyVars
\* The workers of the next search find the counter and the table as they are.
Start == (\A w \in Workers : update[w].step = "idle") /\ NewSearch /\ UNCHANGED historyVars
Learn == H!Next /\ UNCHANGED vars

NodesNext == Enter \/ Start \/ Learn

NodesSpec == NodesInit /\ [][NodesNext]_nodeVars

-----------------------------------------------------------------------------
\* The tables keep within their limits (History), and the limits are
\* looked at (CheckTime), whatever the other does.
HistoriesBounded == H!HistoriesBounded
=============================================================================
