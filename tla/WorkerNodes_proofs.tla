------------------------- MODULE WorkerNodes_proofs -------------------------
(***************************************************************************)
(* Proofs about the workers at their nodes.  Of the main worker alone, for  *)
(* every width of its counter, every unit and every cap: how often it looks *)
(* at the limits.  Of all the workers: what is proved of the shared history *)
(* holds while the main worker counts down to its looks.                    *)
(***************************************************************************)
EXTENDS WorkerNodes, TLAPS

-----------------------------------------------------------------------------
(* Looking at the limits.                                                   *)

Fitting == \A n \in NodeLimits : n \div Unit < Half

\* What is left of the counter and what has been counted stay within the cap.
GapInv ==
  /\ callsCnt \in 0..MaxGap /\ gap \in Nat /\ nodes \in NodeLimits
  /\ gap + callsCnt <= MaxGap /\ gap < MaxGap

\* A value of the counter is not changed by being cut to its width.
LEMMA WrapSame == ASSUME NEW x \in Counter PROVE Wrap(x) = x
<1>1. Half \in Nat /\ Half > 0
  BY HalfAssumption
<1>2. x + Half \in 0..(2 * Half - 1)
  BY <1>1 DEF Counter
<1>3. (x + Half) % (2 * Half) = x + Half
  BY <1>1, <1>2, SMTT(30)
<1> QED
  BY <1>1, <1>3 DEF Wrap, Counter

\* What a look sets the counter to lies within the cap.
LEMMA ReloadFits == ASSUME Fitting, nodes \in NodeLimits PROVE Reload \in 0..MaxGap
<1>1. Half \in Nat /\ MaxGap \in 1..(Half - 1) /\ Unit \in Nat \ {0} /\ nodes \in Nat
  BY HalfAssumption, GapAssumption, UnitAssumption, LimitAssumption
<1>2. nodes \div Unit \in 0..(Half - 1)
  <2>1. nodes \div Unit \in Nat
    BY <1>1, SMTT(30)
  <2> QED
    BY <1>1, <2>1 DEF Fitting
<1>3. Share \in 0..(Half - 1)
  <2>1. nodes \div Unit \in Counter
    BY <1>1, <1>2 DEF Counter
  <2>2. Wrap(nodes \div Unit) = nodes \div Unit
    BY <2>1, WrapSame
  <2> QED
    BY <1>2, <2>2 DEF Share
<1> QED
  BY <1>1, <1>3 DEF Reload

\* Every step keeps that.
LEMMA GapStep == ASSUME Fitting, GapInv, [Next]_vars PROVE GapInv'
<1>1. Half \in Nat /\ MaxGap \in 1..(Half - 1)
  BY HalfAssumption, GapAssumption
<1>2. Wrap(callsCnt - 1) = callsCnt - 1
  <2>1. callsCnt - 1 \in Counter
    BY <1>1 DEF GapInv, Counter
  <2> QED
    BY <2>1, WrapSame
<1>3. CASE NewSearch
  BY <1>3 DEF NewSearch, GapInv
<1>4. CASE Skip
  BY <1>1, <1>2, <1>4 DEF Skip, GapInv
<1>5. CASE Look
  <2>1. callsCnt' \in 0..MaxGap
    BY <1>5, ReloadFits DEF Look, GapInv
  <2> QED
    BY <1>1, <1>5, <2>1 DEF Look, GapInv
<1>6. CASE UNCHANGED vars
  BY <1>6 DEF vars, GapInv
<1> QED
  BY <1>3, <1>4, <1>5, <1>6 DEF Next

\* A worker looks at its limits at least once in MaxGap calls of check_time,
\* over any sequence of searches, as long as every node limit over Unit is a
\* value of the counter.  (CheckTimeWrap shows that the proviso is needed.)
THEOREM LooksOften == ASSUME Fitting PROVE Spec => []LimitsLookedAt
<1>1. Init => GapInv
  BY GapAssumption, HalfAssumption DEF Init, GapInv
<1>2. GapInv /\ [Next]_vars => GapInv'
  BY GapStep
<1>3. GapInv => LimitsLookedAt
  BY DEF GapInv, LimitsLookedAt
<1> QED
  BY <1>1, <1>2, <1>3, PTL DEF Spec

-----------------------------------------------------------------------------
(* The history under the nodes.                                             *)

P == INSTANCE History_proofs WITH Owner <- Main

\* The two names for History speak of the same update.
LEMMA SameUpdate ==
  /\ \A u : H!Onward(u) = P!Onward(u)
  /\ \A u, e : H!Stored(u, e) = P!Stored(u, e)
  /\ \A a, b : H!Quotient(a, b) = P!Quotient(a, b)
  /\ \A e, bonus, limit : H!update_entry(e, bonus, limit) = P!update_entry(e, bonus, limit)
<1>1. \A a, b : H!Quotient(a, b) = P!Quotient(a, b)
  BY DEF H!Quotient, P!Quotient
<1>2. \A x, limit : H!Clamp(x, limit) = P!Clamp(x, limit) /\ H!Abs(x) = P!Abs(x)
  BY DEF H!Clamp, P!Clamp, H!Abs, P!Abs
<1>3. \A x : H!Cut(x) = P!Cut(x)
  BY DEF H!Cut, P!Cut
<1>4. \A e, bonus, limit : H!update_entry(e, bonus, limit) = P!update_entry(e, bonus, limit)
  BY <1>1, <1>2 DEF H!update_entry, P!update_entry
<1>5. \A b, at, positive : H!adjusted_bonus(b, at, positive) = P!adjusted_bonus(b, at, positive)
  BY <1>1, <1>3 DEF H!adjusted_bonus, P!adjusted_bonus, H!CONTHIST_BONUSES, P!CONTHIST_BONUSES,
     H!CMHC_MULTIPLIERS, P!CMHC_MULTIPLIERS
<1>6. \A u : H!Onward(u) = P!Onward(u)
  BY DEF H!Onward, P!Onward, H!Idle, P!Idle
<1>7. \A u, e : H!Stored(u, e) = P!Stored(u, e)
  BY <1>4, <1>5 DEF H!Stored, P!Stored, H!Computed, P!Computed
<1>8. QED
  BY <1>1, <1>4, <1>6, <1>7

\* So does what a worker learns for itself.
LEMMA SameLearning == H!LearnOwn => P!LearnOwn
<1>1. \A b : H!Own(b) = P!Own(b)
  BY SameUpdate DEF H!Own, P!Own
<1>2. H!Age => P!Age
  BY SameUpdate DEF H!Age, P!Age, H!scale, P!scale
<1>3. \A b : H!update_quiet_histories(b) => P!update_quiet_histories(b)
  BY <1>1, SameUpdate DEF H!update_quiet_histories, P!update_quiet_histories
<1>4. \A b : H!update_captures(b) => P!update_captures(b)
  BY <1>1, SameUpdate DEF H!update_captures, P!update_captures
<1>5. \A b : H!update_parent(b) => P!update_parent(b)
  BY <1>1 DEF H!update_parent, P!update_parent
<1>6. \A b : H!update_tt_move(b) => P!update_tt_move(b)
  BY <1>1 DEF H!update_tt_move, P!update_tt_move
<1>7. \A b : H!update_correction_history(b) => P!update_correction_history(b)
  BY <1>1, SameUpdate DEF H!update_correction_history, P!update_correction_history
<1>8. QED
  BY <1>2, <1>3, <1>4, <1>5, <1>6, <1>7 DEF H!LearnOwn, P!LearnOwn

\* And every step of theirs.
LEMMA SameStep == H!Next => P!Next
<1>0. H!LearnOwn => P!Next
  BY SameLearning DEF P!Next
<1> SUFFICES ASSUME NEW w \in Workers,
                    H!Begin(w) \/ H!Elsewhere(w) \/ H!Get(w) \/ H!Load(w) \/ H!Store(w) \/ H!Recover(w)
             PROVE  P!Begin(w) \/ P!Elsewhere(w) \/ P!Get(w) \/ P!Load(w) \/ P!Store(w) \/ P!Recover(w)
  BY <1>0 DEF H!Next, P!Next
<1>1. CASE H!Begin(w)
  BY <1>1 DEF H!Begin, P!Begin, H!Idle, P!Idle
<1>2. CASE H!Elsewhere(w)
  BY <1>2, SameUpdate DEF H!Elsewhere, P!Elsewhere
<1>3. CASE H!Get(w)
  BY <1>3 DEF H!Get, P!Get
<1>4. CASE H!Load(w)
  BY <1>4 DEF H!Load, P!Load
<1>5. CASE H!Store(w)
  BY <1>5, SameUpdate DEF H!Store, P!Store
<1>6. CASE H!Recover(w)
  BY <1>6 DEF H!Recover, P!Recover, H!Idle, P!Idle, H!ClearedOwn, P!ClearedOwn
<1>7. QED
  BY <1>1, <1>2, <1>3, <1>4, <1>5, <1>6

\* A step at a node is a step of the history, or leaves it alone.
LEMMA NodesImplementHistory == NodesSpec => P!Spec
<1>1. NodesInit => P!Init
  BY DEF NodesInit, H!Init, P!Init, H!Idle, P!Idle, H!ClearedOwn, P!ClearedOwn, H!Tables, P!Tables
<1>2. [NodesNext]_nodeVars => [P!Next]_P!vars
  BY SameStep DEF NodesNext, nodeVars, historyVars, Enter, Start, Learn, P!vars
<1>3. QED
  BY <1>1, <1>2, PTL DEF NodesSpec, P!Spec

\* The shared entry and those of the main worker's own tables keep within
\* their limits while the workers visit their nodes and learn: for any number
\* of workers, any bonuses and widths.  (PieceToHistory::update and
\* update_entry beside check_time.)
THEOREM NodesKeepHistoryBounded == NodesSpec => []HistoriesBounded
<1>1. P!WellFormed
  BY HistoryAssumption DEF H!WellFormed, P!WellFormed, H!Tables, P!Tables
<1>2. P!Spec => []P!HistoriesBounded
  BY <1>1, P!HistoriesStayBounded
<1>3. P!HistoriesBounded => HistoriesBounded
  BY DEF P!HistoriesBounded, HistoriesBounded, H!HistoriesBounded, P!Values, H!Values, P!OwnValues, H!OwnValues
<1>4. QED
  BY NodesImplementHistory, <1>2, <1>3, PTL
=============================================================================
