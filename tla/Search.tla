------------------------------- MODULE Search -------------------------------
(***************************************************************************)
(* One worker's search of a root position: iterations with their aspiration*)
(* windows (search/iterdeep.rs: iterative_deepening), alpha-beta nodes     *)
(* (search_node), quiescence (search/qsearch.rs) and the table (module TT).*)
(*                                                                         *)
(* The game is a finite graph of positions without cycles.  What histories,*)
(* corrections, the static exchange evaluation and clocks contribute is a  *)
(* number nobody specifies, so each decision they take part in is free     *)
(* once its other conditions hold: MaxOdd bounds how many decisions of a   *)
(* run depart from the plain search.  Thresholds on depths and margins on  *)
(* values are scaled to the small values of the model.                     *)
(*                                                                         *)
(* A recursive call pushes a frame, a return pops it and leaves its value  *)
(* in ret; a frame's `at` is where it goes on.                             *)
(***************************************************************************)
EXTENDS Integers, Sequences, FiniteSets, TT

CONSTANTS
  Games,         \* the games, by name: moves, checks, eval and null by position,
                 \* and the roots to search one after the other, with their rule60
  MAX_PLY, VALUE_MATE,
  MaxDepth,      \* limits.depth
  Delta,         \* 10: half of the first aspiration window
  Margin,        \* ProbCut's 252, half of the small one's 470, the 9 of a late move, half of its 59
  Rule60Max,     \* 120
  Rule60Near,    \* 116
  DeepEnough,    \* the depth from which the decisions for deep nodes are taken
  NullReduction, \* 8
  MaxOdd         \* bound: decisions that depart from the plain search

ASSUME SearchAssumption ==
  /\ {MAX_PLY, VALUE_MATE, MaxDepth, Delta, Margin, Rule60Max, Rule60Near, DeepEnough, NullReduction} \subseteq Nat \ {0}
  /\ MaxOdd \in Nat /\ 2 * MAX_PLY < VALUE_MATE /\ MAX_PLY > 1
(* A position without moves is not searched: its engine answers at once. *)
ASSUME GameAssumption ==
  \A name \in DOMAIN Games :
    LET g == Games[name]
        positions == DOMAIN g.moves
    IN  /\ \A p \in positions : g.moves[p] \in Seq([from : positions, to : positions, capture : BOOLEAN])
        /\ g.eval \in [positions -> Int] /\ g.null \in [positions -> positions \cup {NONE}]
        /\ g.searches \in Seq([root : positions, rule60 : Nat]) \ {<< >>}
        /\ \A i \in DOMAIN g.searches : g.moves[g.searches[i].root] # << >>

VARIABLES
  game,   \* the name of the game
  line,   \* root_pos: the positions from the root to the current one
  stack,  \* the frames of search_node and qsearch
  ret,    \* the value returned last, and by whom
  ss,     \* the search stack by ply: excluded move, principal variation, ttPv
  nmp,    \* nmp_min_ply
  table, generation,
  iter,   \* the local state of iterative_deepening, and its root moves
  stop,
  torn,   \* a probe has mixed entries
  odd     \* decisions that departed from the plain search
vars == <<game, line, stack, ret, ss, nmp, table, generation, iter, stop, torn, odd>>

-----------------------------------------------------------------------------
(* Values (types/value.rs, search/search.rs).                               *)

VALUE_ZERO == 0
VALUE_DRAW == 0
VALUE_INFINITE == VALUE_MATE + 1
VALUE_NONE == VALUE_MATE + 2
VALUE_MATE_IN_MAX_PLY == VALUE_MATE - MAX_PLY
mate_in(ply) == VALUE_MATE - ply
mated_in(ply) == -VALUE_MATE + ply
is_valid(v) == v # VALUE_NONE
is_win(v) == v >= VALUE_MATE_IN_MAX_PLY
is_loss(v) == v <= -VALUE_MATE_IN_MAX_PLY
is_decisive(v) == is_win(v) \/ is_loss(v)

value_to_tt(v, ply) == IF is_win(v) THEN v + ply ELSE IF is_loss(v) THEN v - ply ELSE v
value_from_tt_Timeless(v, ply, rule60) ==
  IF ~is_valid(v) THEN VALUE_NONE ELSE IF is_win(v) THEN v - ply ELSE IF is_loss(v) THEN v + ply ELSE v
value_from_tt(v, ply, rule60) ==
  IF ~is_valid(v) THEN VALUE_NONE
  ELSE IF is_win(v)
  THEN IF VALUE_MATE - v > Rule60Max - rule60 THEN VALUE_MATE_IN_MAX_PLY - 1 ELSE v - ply
  ELSE IF is_loss(v)
  THEN IF VALUE_MATE + v > Rule60Max - rule60 THEN 1 - VALUE_MATE_IN_MAX_PLY ELSE v + ply
  ELSE v

Larger(a, b) == IF a >= b THEN a ELSE b
Smaller(a, b) == IF a <= b THEN a ELSE b
Quotient(a, b) == IF a >= 0 THEN a \div b ELSE -((-a) \div b)

-----------------------------------------------------------------------------
(* The game.  A move knows its position, so that a move of another position *)
(* is no move here.                                                         *)

G == Games[game]
Pos == line[Len(line)]
Top == stack[Len(stack)]
Ply == Top.ply
MovesOf(pos) == G.moves[pos]
LegalMoves(pos) == {MovesOf(pos)[i] : i \in DOMAIN MovesOf(pos)}
IsMove(pos, m) == m \in LegalMoves(pos)
InCheck == Top.pos \in G.checks
Eval == G.eval[Top.pos]
After(m, rule60) == IF m.capture THEN 0 ELSE rule60 + 1
Captures(moves) == {m \in moves : m.capture}
HasQuiet(pos) == Captures(LegalMoves(pos)) # LegalMoves(pos)

(* The order in which MovePick gives the moves a frame has left: that of    *)
(* the table first.                                                         *)
Index(pos, m) == CHOOSE i \in DOMAIN MovesOf(pos) : MovesOf(pos)[i] = m
Precedes(f, m, n) == n # f.hint.move /\ (m = f.hint.move \/ Index(f.pos, m) < Index(f.pos, n))
NextOf(f) == CHOOSE m \in f.left : \A n \in f.left \ {m} : Precedes(f, m, n)

-----------------------------------------------------------------------------
(* Frames: ply and window are arguments; pos and rule60 are those of the    *)
(* position a frame was called in.                                          *)

NoHint == [hit |-> FALSE, move |-> NONE, value |-> VALUE_NONE, depth |-> DEPTH_NONE, bound |-> "none", pv |-> FALSE]
NewFrame(at, alpha, beta, depth, cut, pv) ==
  [at |-> at, root |-> FALSE, pos |-> NONE, rule60 |-> 0, ply |-> 0, asked |-> <<alpha, beta>>,
   alpha |-> alpha, beta |-> beta, depth |-> depth, cut |-> cut, pv |-> pv, hint |-> NoHint, slot |-> 1,
   best |-> -VALUE_INFINITE, bestMove |-> NONE, count |-> 0, left |-> {}, move |-> NONE,
   newDepth |-> 0, kept |-> 0]
qsearch(alpha, beta, pv) == NewFrame("qjudge", alpha, beta, 0, FALSE, pv)
search_node(alpha, beta, depth, cut, pv) ==
  IF depth <= 0 THEN qsearch(alpha, beta, pv)
  ELSE NewFrame("judge", alpha, beta, Smaller(depth, MAX_PLY - 1), cut, pv)
ab_search(alpha, beta, depth, cut) == search_node(alpha, beta, depth, cut, alpha + 1 # beta)

Excluded == ss[Ply].excluded
AllNode(f) == ~f.pv /\ ~f.cut
Running(at) == stack # << >> /\ Top.at = at

Plain == UNCHANGED odd
Depart == odd < MaxOdd /\ odd' = odd + 1
rootVars == <<game, generation, iter, stop>>

Under(f) == [stack EXCEPT ![Len(stack)] = f]
Stay(f) == stack' = Under(f) /\ UNCHANGED ret
Goto(at) == Stay([Top EXCEPT !.at = at])
Return(v) ==
  /\ stack' = SubSeq(stack, 1, Len(stack) - 1)
  /\ ret' = [value |-> v, pos |-> Top.pos, rule60 |-> Top.rule60, ply |-> Ply, asked |-> Top.asked,
             whole |-> Excluded = NONE]
(* A call in this position, in the one a move has led to, or after a move,  *)
(* which the caller takes back when it goes on.                             *)
Placed(f, pos, rule60, ply) == [f EXCEPT !.pos = pos, !.rule60 = rule60, !.ply = ply]
Call(f, callee, pos, rule60, ply) == stack' = Append(Under(f), Placed(callee, pos, rule60, ply)) /\ UNCHANGED ret
CallHere(f, callee) == Call(f, callee, f.pos, f.rule60, Ply)
CallBelow(f, callee) == Call(f, callee, Pos, After(f.move, f.rule60), Ply + 1) /\ UNCHANGED line
CallAfter(f, callee) ==
  Call(f, callee, f.move.to, After(f.move, f.rule60), Ply + 1) /\ line' = Append(line, f.move.to)
TakenBack == line' = SubSeq(line, 1, Len(line) - 1)

(* The table seen from the current position, and what is written into it. *)
ProbeSlot == SlotFor(table, Top.pos, generation)
DataOf(e) ==
  [hit |-> TRUE, move |-> e.move, value |-> value_from_tt(e.value, Ply, Top.rule60),
   depth |-> Depth(e), bound |-> e.bound, pv |-> e.pv]
ProbeHint == IF found(table, Top.pos, generation) THEN DataOf(table[ProbeSlot]) ELSE NoHint
(* Another worker is half-way through its stores: data of another entry. *)
TornHints == {DataOf(table[i]) : i \in {j \in Slots : is_occupied(table[j]) /\ table[j].key # Top.pos}}
Probed(hint) ==
  \/ hint = ProbeHint /\ Plain /\ UNCHANGED torn
  \/ hint \in TornHints /\ Depart /\ torn' = TRUE
(* The depth is corrected for how the parent was reduced, or without a move *)
(* from the table. *)
Adjusted(f) == IF f.root THEN {} ELSE {f.depth - 1, f.depth + 1} \ {0}
Written(slot, value, pv, bound, depth, move) ==
  LET old == table[slot].value
  IN  write(table, slot,
            [key |-> Top.pos, value |-> value, pv |-> pv, bound |-> bound, depth |-> depth, move |-> move],
            generation, old # VALUE_NONE /\ is_decisive(old))
(* Does a stored value settle the question of whether it reaches the limit? *)
Settles(v, limit, bound) == IF v >= limit THEN IsLower(bound) ELSE IsUpper(bound)
(* The evaluation, bettered by a stored value that bounds it on its side. *)
Bettered(hint, usable) ==
  IF usable /\ is_valid(hint.value) /\ (IF hint.value > Eval THEN IsLower(hint.bound) ELSE IsUpper(hint.bound))
  THEN hint.value ELSE Eval

(* rule_judge, of which only the verdicts that a mate cannot rest on are    *)
(* modelled: none, a draw, or a repetition that bounds the window.          *)
TwoFold(f, margin) ==
  {[f EXCEPT !.alpha = Larger(@, VALUE_DRAW - margin)], [f EXCEPT !.beta = Smaller(@, VALUE_DRAW + margin)]}
(* The sixty moves are over: the game, unless it ends with mate, is a draw. *)
Judged(f, draws) ==
  IF LegalMoves(f.pos) = {} THEN Return(mated_in(Ply)) ELSE \E v \in draws : Return(v)

-----------------------------------------------------------------------------
(* search_node, in the order of its code.                                   *)

Draws == {VALUE_DRAW - 1, VALUE_DRAW + 1}
Enter(f) ==
  LET alpha == Larger(f.alpha, mated_in(Ply))
      beta == Smaller(f.beta, mate_in(Ply + 1))
  IN  IF Ply >= MAX_PLY /\ ~InCheck THEN Return(Eval)
      ELSE IF stop \/ Ply >= MAX_PLY THEN \E v \in Draws : Return(v)
      ELSE IF alpha >= beta THEN Return(alpha)
      ELSE Stay([f EXCEPT !.at = "probe", !.alpha = alpha, !.beta = beta])
Judge ==
  LET f == Top
      over == f.rule60 >= Rule60Max
  IN  /\ Running("judge")
      /\ \/ f.root /\ Goto("probe") /\ Plain
         \/ ~f.root /\ Plain /\ IF over THEN Judged(f, Draws) ELSE Enter(f)
         \/ ~f.root /\ ~over /\ Depart /\ \E judged \in TwoFold(f, 1) : Enter(judged)
         \/ ~f.root /\ Depart /\ \E v \in Draws : Return(v)
      /\ UNCHANGED <<rootVars, line, ss, nmp, table, torn>>

Probe ==
  /\ Running("probe")
  /\ \E hint \in {ProbeHint} \cup TornHints, depth \in {Top.depth} \cup Adjusted(Top) :
       LET move == IF Top.root THEN iter.moves[1].pv[1] ELSE hint.move
           ttPv == IF Excluded # NONE THEN ss[Ply].ttPv ELSE Top.pv \/ hint.pv
       IN  /\ \/ depth = Top.depth /\ Probed(hint)
              \/ depth # Top.depth /\ hint = ProbeHint /\ Depart /\ UNCHANGED torn
           /\ Stay([Top EXCEPT !.at = "cutoff", !.depth = depth, !.slot = ProbeSlot, !.hint = [hint EXCEPT !.move = move]])
           /\ ss' = [ss EXCEPT ![Ply].ttPv = ttPv, ![Ply + 1].pv = IF Top.pv THEN << >> ELSE @]
           /\ table' = IF InCheck \/ Excluded # NONE \/ hint.hit THEN table
                       ELSE Written(ProbeSlot, VALUE_NONE, ttPv, "none", DEPTH_UNSEARCHED, NONE)
  /\ UNCHANGED <<rootVars, line, nmp>>

(* A stored value ends a node off the principal variation, unless the 60    *)
(* moves are near or the entry after the stored move contradicts it.        *)
Stored(f) ==
  /\ ~f.pv /\ Excluded = NONE /\ is_valid(f.hint.value)
  /\ f.hint.depth > f.depth - (IF f.hint.value <= f.beta THEN 1 ELSE 0)
CutsOff(f) ==
  /\ Settles(f.hint.value, f.beta, f.hint.bound)
  /\ (f.cut <=> f.hint.value >= f.beta) \/ f.depth > DeepEnough
Agrees(f) ==
  LET next == Matching(table, f.hint.move.to)
  IN  next = {} \/ \A i \in next :
        ~is_valid(table[i].value) \/ (f.hint.value >= f.beta <=> -table[i].value >= f.beta)
Believed(f) ==
  /\ f.rule60 < Rule60Near
  /\ (f.depth > DeepEnough /\ IsMove(f.pos, f.hint.move) /\ ~is_decisive(f.hint.value)) => Agrees(f)
Contradicted(f) ==
  f.hint.bound \in {"lower", "upper"} /\ ~Settles(f.hint.value, f.beta, f.hint.bound) /\ f.depth > DeepEnough
Cutoff ==
  /\ Running("cutoff")
  /\ IF Stored(Top) /\ CutsOff(Top) /\ Believed(Top) THEN Return(Top.hint.value) ELSE Goto("prune")
  /\ table' = IF Stored(Top) /\ Contradicted(Top)
              THEN [table EXCEPT ![Top.slot] = penalized(@)] ELSE table
  /\ Plain
  /\ UNCHANGED <<rootVars, line, ss, nmp, torn>>

(* Razoring, and the futility of a node far above beta. *)
TtCapture(f) == IsMove(f.pos, f.hint.move) /\ f.hint.move.capture
CaptureFirst(f) == [f EXCEPT !.at = "probcut", !.left = Captures(LegalMoves(f.pos))]
Prune ==
  LET f == Top
      eval == Bettered(f.hint, Excluded = NONE)
  IN  /\ Running("prune")
      /\ \/ InCheck /\ Goto("small") /\ Plain
         \/ ~InCheck /\ Goto("null") /\ Plain
         \/ /\ ~InCheck /\ AllNode(f) /\ eval < f.alpha /\ Depart
            /\ Stay([Placed(qsearch(f.alpha, f.beta, FALSE), f.pos, f.rule60, f.ply) EXCEPT !.asked = f.asked])
         \/ /\ ~InCheck /\ ~ss[Ply].ttPv /\ eval >= f.beta /\ (f.hint.move = NONE \/ TtCapture(f))
            /\ ~is_loss(f.beta) /\ ~is_win(eval) /\ Depart
            /\ Return(Quotient(718 * f.beta + 306 * eval, 1024))
      /\ UNCHANGED <<rootVars, line, ss, nmp, table, torn>>

(* The null move, and the search that verifies it at depth. *)
TryNull ==
  LET f == Top
  IN  /\ Running("null")
      /\ \/ Plain /\ Stay(CaptureFirst(f)) /\ UNCHANGED line
         \/ /\ f.cut /\ Excluded = NONE /\ Ply >= nmp /\ ~is_loss(f.beta) /\ G.null[f.pos] # NONE /\ Depart
            /\ Call([f EXCEPT !.at = "nulled"], ab_search(-f.beta, -f.beta + 1, f.depth - NullReduction, FALSE),
                    G.null[f.pos], f.rule60, Ply + 1)
            /\ line' = Append(line, G.null[f.pos])
      /\ UNCHANGED <<rootVars, ss, nmp, table, torn>>
NullSearched ==
  LET f == Top
      value == -ret.value
      depth == f.depth - NullReduction
  IN  /\ Running("nulled")
      /\ TakenBack
      /\ IF value < f.beta \/ is_win(value) THEN Stay(CaptureFirst(f)) /\ UNCHANGED nmp
         ELSE IF nmp > 0 \/ f.depth < DeepEnough THEN Return(value) /\ UNCHANGED nmp
         ELSE /\ nmp' = Ply + Quotient(3 * depth, 4)
              /\ CallHere([f EXCEPT !.at = "verified", !.kept = value], ab_search(f.beta - 1, f.beta, depth, FALSE))
      /\ Plain
      /\ UNCHANGED <<rootVars, ss, table, torn>>
NullVerified_EarlyReturn ==
  /\ Running("verified")
  /\ nmp' = IF ret.value >= Top.beta THEN nmp ELSE 0
  /\ IF ret.value >= Top.beta THEN Return(Top.kept) ELSE Stay(CaptureFirst(Top))
  /\ Plain
  /\ UNCHANGED <<rootVars, line, ss, table, torn>>
NullVerified ==
  /\ Running("verified")
  /\ nmp' = 0
  /\ IF ret.value >= Top.beta THEN Return(Top.kept) ELSE Stay(CaptureFirst(Top))
  /\ Plain
  /\ UNCHANGED <<rootVars, line, ss, table, torn>>

(* ProbCut: a capture whose value passes beta by a margin. *)
prob_cut_beta(f) == f.beta + Margin
prob_cut_depth(f) == f.depth - 1
ProbCutMayStart(f) ==
  /\ f.depth >= DeepEnough /\ ~is_decisive(f.beta)
  /\ ~(is_valid(f.hint.value) /\ f.hint.value < prob_cut_beta(f))
ProbCut ==
  LET f == Top
  IN  /\ Running("probcut")
      /\ \/ Plain /\ Goto("small") /\ UNCHANGED line
         \/ /\ ProbCutMayStart(f) /\ Depart
            /\ \E m \in f.left \ {Excluded} :
                 CallAfter([f EXCEPT !.at = "probed", !.move = m, !.left = {n \in @ : Precedes(f, m, n)}],
                           qsearch(-prob_cut_beta(f), -prob_cut_beta(f) + 1, FALSE))
      /\ UNCHANGED <<rootVars, ss, nmp, table, torn>>
ProbCutHolds ==
  LET f == Top
  IN  /\ Running("probed")
      /\ IF -ret.value >= prob_cut_beta(f) /\ prob_cut_depth(f) > 0
         THEN CallBelow([f EXCEPT !.at = "probedTwice"],
                        ab_search(-prob_cut_beta(f), -prob_cut_beta(f) + 1, prob_cut_depth(f), ~f.cut))
         ELSE Goto("probedTwice") /\ UNCHANGED line
      /\ Plain
      /\ UNCHANGED <<rootVars, ss, nmp, table, torn>>
ProbCutDone ==
  LET f == Top
      value == -ret.value
  IN  /\ Running("probedTwice")
      /\ TakenBack
      /\ IF value < prob_cut_beta(f) THEN Goto("probcut") /\ UNCHANGED table
         ELSE /\ table' = Written(f.slot, value_to_tt(value, Ply), ss[Ply].ttPv, "lower", prob_cut_depth(f) + 1, f.move)
              /\ IF is_decisive(value) THEN Goto("probcut") ELSE Return(value - (prob_cut_beta(f) - f.beta))
      /\ Plain
      /\ UNCHANGED <<rootVars, ss, nmp, torn>>
(* The same from a stored value alone; else the moves are searched. *)
SmallProbCut ==
  LET f == Top
      beta == f.beta + 2 * Margin
  IN  /\ Running("small")
      /\ IF /\ IsLower(f.hint.bound) /\ f.hint.depth >= f.depth - 4 /\ is_valid(f.hint.value)
            /\ f.hint.value >= beta /\ ~is_decisive(f.beta) /\ ~is_decisive(f.hint.value)
         THEN Return(beta)
         ELSE Stay([f EXCEPT !.at = "next", !.left = LegalMoves(f.pos)])
      /\ Plain
      /\ UNCHANGED <<rootVars, line, ss, nmp, table, torn>>

-----------------------------------------------------------------------------
(* The moves of a node.                                                     *)

ClearedBelow_Kept(f) == ss
ClearedBelow(f) == IF f.pv THEN [ss EXCEPT ![Ply + 1].pv = << >>] ELSE ss
(* After a move that does not lose, moves may be skipped at small depths;   *)
(* the number of moves may let all further quiet moves be skipped.          *)
MayPrune(f) == ~f.root /\ ~is_loss(f.best)
FutilityOf(f) ==
  {[f EXCEPT !.best = IF f.best <= v /\ ~is_decisive(f.best) /\ ~is_win(v) THEN v ELSE @] :
     v \in {w \in {Eval, f.alpha} : w <= f.alpha}}
NextMove ==
  LET f == Top
      m == NextOf(f)
      rest == f.left \ {m}
      tried == [f EXCEPT !.left = rest, !.move = m, !.count = @ + 1, !.newDepth = f.depth - 1]
  IN  /\ Running("next")
      /\ IF f.left = {} THEN Goto("finish") /\ Plain /\ UNCHANGED ss
         ELSE IF m = Excluded THEN Stay([f EXCEPT !.left = rest]) /\ Plain /\ UNCHANGED ss
         ELSE /\ ss' = ClearedBelow(f)
              /\ \/ Stay([tried EXCEPT !.at = "singular"]) /\ Plain
                 \/ MayPrune(f) /\ Depart /\ Stay(tried)
                 \/ /\ MayPrune(f) /\ ~InCheck /\ ~m.capture /\ m.to \notin G.checks /\ Depart
                    /\ \E g \in FutilityOf(tried) : Stay(g)
                 \/ /\ MayPrune(f) /\ ~InCheck /\ Captures(rest) # rest /\ Depart
                    /\ Stay([tried EXCEPT !.at = "singular", !.left = Captures(rest)])
      /\ UNCHANGED <<rootVars, line, nmp, table, torn>>

(* Is the stored move better than all others?  A search without it tells.   *)
Half(n) == (n + 1) \div 2
MaySingle(f) ==
  /\ ~f.root /\ f.move = f.hint.move /\ Excluded = NONE
  /\ f.depth >= DeepEnough + (IF ss[Ply].ttPv THEN 1 ELSE 0)
  /\ is_valid(f.hint.value) /\ ~is_decisive(f.hint.value) /\ IsLower(f.hint.bound)
  /\ f.hint.depth >= f.depth - 3
SingularBeta(f) == f.hint.value - ((IF ss[Ply].ttPv /\ ~f.pv THEN 117 ELSE 45) * f.depth) \div 69
Singular ==
  LET f == Top
      beta == SingularBeta(f)
  IN  /\ Running("singular")
      /\ \/ /\ MaySingle(f) /\ Plain
            /\ CallHere([f EXCEPT !.at = "singled", !.kept = beta], ab_search(beta - 1, beta, Half(f.newDepth), f.cut))
            /\ ss' = [ss EXCEPT ![Ply].excluded = f.move]
         \/ ~MaySingle(f) /\ Plain /\ Goto("make") /\ UNCHANGED ss
         \/ MaySingle(f) /\ Depart /\ Goto("make") /\ UNCHANGED ss
      /\ UNCHANGED <<rootVars, line, nmp, table, torn>>
Singled ==
  LET f == Top
      v == ret.value
  IN  /\ Running("singled")
      /\ ss' = [ss EXCEPT ![Ply].excluded = NONE]
      /\ IF v < f.kept THEN Stay([f EXCEPT !.at = "make", !.depth = @ + 1, !.newDepth = @ + 1])
         ELSE IF v >= f.beta /\ ~is_decisive(v) THEN Return(v)
         ELSE IF f.hint.value >= f.beta \/ f.cut THEN Stay([f EXCEPT !.at = "make", !.newDepth = @ - 3])
         ELSE Goto("make")
      /\ Plain
      /\ UNCHANGED <<rootVars, line, nmp, table, torn>>

(* The move is made; late moves are searched less deep, then again if they  *)
(* are better than expected, all but the first with a window of one point.  *)
Reductions(plain) == IF plain THEN {0} ELSE {-1, 2}
Scouting(f, depth, cut) == ab_search(-(f.alpha + 1), -f.alpha, depth, cut)
TrustsHint(f) ==
  /\ f.move = f.hint.move
  /\ (is_valid(f.hint.value) /\ is_decisive(f.hint.value) /\ f.hint.depth > 0) \/ f.hint.depth > 1
PvSearch(f) ==
  search_node(-f.beta, -f.alpha, IF TrustsHint(f) THEN Larger(f.newDepth, 1) ELSE f.newDepth, FALSE, TRUE)
Make ==
  LET f == Top
      late == f.depth >= 2 /\ f.count > 1
      d(r) == Larger(1, f.newDepth - r) + (IF f.pv THEN 1 ELSE 0)
  IN  /\ Running("make")
      /\ \E plain \in BOOLEAN : \E r \in Reductions(plain) :
           /\ IF plain THEN Plain ELSE Depart
           /\ IF late THEN CallAfter([f EXCEPT !.at = "reduced", !.kept = d(r)], Scouting(f, d(r), TRUE)) /\ UNCHANGED ss
              ELSE IF ~f.pv \/ f.count > 1
              THEN /\ CallAfter([f EXCEPT !.at = "scouted"], Scouting(f, f.newDepth - (IF plain THEN 0 ELSE 1), ~f.cut))
                   /\ UNCHANGED ss
              ELSE plain /\ CallAfter([f EXCEPT !.at = "tried"], PvSearch(f)) /\ ss' = ClearedBelow(f)
      /\ UNCHANGED <<rootVars, nmp, table, torn>>
Reduced ==
  LET f == Top
      v == -ret.value
      deeper == f.kept < f.newDepth /\ v > f.best + 2 * Margin
      depth == f.newDepth + (IF deeper THEN 1 ELSE 0) - (IF v <= f.best + Margin THEN 1 ELSE 0)
      g == [f EXCEPT !.at = "scouted", !.newDepth = IF v > f.alpha THEN depth ELSE @]
  IN  /\ Running("reduced")
      /\ IF v > f.alpha /\ depth > f.kept THEN CallBelow(g, Scouting(f, depth, ~f.cut)) ELSE Stay(g) /\ UNCHANGED line
      /\ Plain
      /\ UNCHANGED <<rootVars, ss, nmp, table, torn>>
Scouted ==
  LET f == Top
  IN  /\ Running("scouted")
      /\ IF f.pv /\ -ret.value > f.alpha THEN CallBelow([f EXCEPT !.at = "tried"], PvSearch(f)) /\ ss' = ClearedBelow(f)
         ELSE Goto("tried") /\ UNCHANGED <<line, ss>>
      /\ Plain
      /\ UNCHANGED <<rootVars, nmp, table, torn>>

(* What a root move keeps of its search.  The average weighs a new value    *)
(* by its share of the nodes, between 12 and 24 in 32; here by a half.      *)
weighted_score(value, previous, weight) == (value * weight + previous * (32 - weight)) \div 32
update_average(avg, value) ==
  IF avg = -VALUE_INFINITE THEN value ELSE weighted_score(value, avg, 16)
Scored(rm, f, value, child) ==
  LET r == [rm EXCEPT !.avg = update_average(@, value)]
  IN  IF f.count = 1 \/ value > f.alpha
      THEN [r EXCEPT !.score = value, !.lower = value >= f.beta, !.upper = value <= f.alpha, !.pv = <<f.move>> \o child]
      ELSE [r EXCEPT !.score = -VALUE_INFINITE]
RootUpdated(f, value) ==
  [iter EXCEPT !.moves = [i \in DOMAIN @ |-> IF @[i].pv[1] = f.move THEN Scored(@[i], f, value, ss[1].pv) ELSE @[i]]]

(* A value better than the best, or promoted though equal to it.            *)
Improved(f, value, inc) ==
  LET raises == value + inc > f.best /\ value + inc > f.alpha
      g == [f EXCEPT !.at = "next", !.best = IF value + inc > f.best THEN value ELSE @]
  IN  IF ~raises THEN g
      ELSE IF value >= f.beta THEN [g EXCEPT !.at = "finish", !.bestMove = f.move]
      ELSE [g EXCEPT !.bestMove = f.move, !.alpha = value,
                     !.depth = IF f.depth > DeepEnough /\ ~is_decisive(value) THEN Larger(1, @ - 3) ELSE @]
Weigh ==
  LET f == Top
      value == -ret.value
      mayPromote == value = f.best /\ ~is_win(Larger(value, -value) + 1)
  IN  /\ Running("tried")
      /\ TakenBack
      /\ IF stop THEN Return(VALUE_ZERO) /\ Plain /\ UNCHANGED <<iter, ss>>
         ELSE \E inc \in {0} \cup (IF mayPromote THEN {1} ELSE {}) :
                LET g == Improved(f, value, inc)
                IN  /\ IF inc = 0 THEN Plain ELSE Depart
                    /\ Stay(g)
                    /\ iter' = IF f.root THEN RootUpdated(f, value) ELSE iter
                    /\ ss' = IF f.pv /\ ~f.root /\ g.bestMove = f.move
                             THEN [ss EXCEPT ![Ply].pv = <<f.move>> \o ss[Ply + 1].pv] ELSE ss
      /\ UNCHANGED <<game, generation, stop, nmp, table, torn>>

(* No move left, or one that reached beta.                                  *)
FailHigh(f) ==
  IF f.best >= f.beta /\ ~is_decisive(f.best) /\ ~is_decisive(f.alpha)
  THEN Quotient(f.best * f.depth + f.beta, f.depth + 1) ELSE f.best
FinalValue(f) ==
  IF f.count > 0 THEN FailHigh(f) ELSE IF Excluded # NONE THEN f.alpha ELSE mated_in(Ply)
BoundOf(f, value, pv) ==
  IF value >= f.beta THEN "lower" ELSE IF pv /\ f.bestMove # NONE THEN "exact" ELSE "upper"
Finish ==
  LET f == Top
      value == FinalValue(f)
      ttPv == ss[Ply].ttPv \/ (value <= f.alpha /\ ss[Ply - 1].ttPv)
  IN  /\ Running("finish")
      /\ Return(value)
      /\ ss' = [ss EXCEPT ![Ply].ttPv = ttPv]
      /\ table' = IF Excluded # NONE THEN table
                  ELSE Written(f.slot, value_to_tt(value, Ply), ttPv, BoundOf(f, value, f.pv),
                               IF f.count > 0 THEN f.depth ELSE Smaller(f.depth + 6, MAX_PLY - 1), f.bestMove)
      /\ Plain
      /\ UNCHANGED <<rootVars, line, nmp, torn>>

-----------------------------------------------------------------------------
(* qsearch, in the order of its code.                                       *)

EnterQuiescence(f) ==
  IF f.alpha >= f.beta THEN Return(f.alpha)
  ELSE IF Ply >= MAX_PLY THEN Return(IF InCheck THEN VALUE_DRAW ELSE Eval)
  ELSE Stay([f EXCEPT !.at = "qprobe"])
QJudge ==
  LET f == Top
      over == f.rule60 >= Rule60Max
  IN  /\ Running("qjudge")
      /\ \/ Plain /\ IF over THEN Judged(f, {VALUE_DRAW}) ELSE EnterQuiescence(f)
         \/ ~over /\ Depart /\ \E judged \in TwoFold(f, 0) : EnterQuiescence(judged)
         \/ Depart /\ Return(VALUE_DRAW)
      /\ ss' = IF f.pv THEN [ss EXCEPT ![Ply].pv = << >>, ![Ply + 1].pv = << >>] ELSE ss
      /\ UNCHANGED <<rootVars, line, nmp, table, torn>>

(* The table, and the choice to make no move at all. *)
PatBlend(v, beta) == IF is_decisive(v) THEN v ELSE Quotient(464 * v + 560 * beta, 1024)
QMoves(f) == {m \in LegalMoves(f.pos) : InCheck \/ m.capture \/ m = f.hint.move}
QProbe ==
  LET f == Top
  IN  /\ Running("qprobe")
      /\ \E hint \in {ProbeHint} \cup TornHints :
           LET best == Bettered(hint, ~is_decisive(hint.value))
               g == [f EXCEPT !.at = "qnext", !.hint = hint, !.slot = ProbeSlot]
           IN  /\ Probed(hint)
               /\ IF ~f.pv /\ hint.depth >= DEPTH_QS /\ is_valid(hint.value) /\ Settles(hint.value, f.beta, hint.bound)
                  THEN Return(hint.value) /\ UNCHANGED table
                  ELSE IF InCheck THEN Stay([g EXCEPT !.left = QMoves(g)]) /\ UNCHANGED table
                  ELSE IF best >= f.beta
                  THEN /\ Return(PatBlend(best, f.beta))
                       /\ table' = IF hint.hit THEN table
                                   ELSE Written(ProbeSlot, VALUE_NONE, FALSE, "lower", DEPTH_UNSEARCHED, NONE)
                  ELSE /\ Stay([g EXCEPT !.left = QMoves(g), !.best = best, !.alpha = Larger(@, best)])
                       /\ UNCHANGED table
      /\ UNCHANGED <<rootVars, line, ss, nmp>>

(* After a move that does not lose, quiet moves are not searched, and       *)
(* captures need not be.                                                    *)
QNext ==
  LET f == Top
      m == NextOf(f)
      tried == [f EXCEPT !.left = @ \ {m}, !.move = m, !.count = @ + 1]
  IN  /\ Running("qnext")
      /\ IF f.left = {} THEN Goto("qfinish") /\ Plain /\ UNCHANGED line
         ELSE \/ /\ m.capture \/ is_loss(f.best)
                 /\ CallAfter([tried EXCEPT !.at = "qtried"], qsearch(-f.beta, -f.alpha, f.pv)) /\ Plain
              \/ ~m.capture /\ ~is_loss(f.best) /\ Stay(tried) /\ Plain /\ UNCHANGED line
              \/ m.capture /\ ~is_loss(f.best) /\ Stay(tried) /\ Depart /\ UNCHANGED line
              \/ /\ ~InCheck /\ m.to \notin G.checks /\ ~is_loss(f.best) /\ Depart /\ UNCHANGED line
                 /\ \E v \in {Eval, f.alpha} : v <= f.alpha /\ Stay([tried EXCEPT !.best = Larger(@, v)])
      /\ UNCHANGED <<rootVars, ss, nmp, table, torn>>
QWeigh ==
  LET f == Top
      value == -ret.value
      g == [f EXCEPT !.at = "qnext", !.best = Larger(@, value)]
  IN  /\ Running("qtried")
      /\ TakenBack
      /\ IF value <= f.best \/ value <= f.alpha THEN Stay(g) /\ UNCHANGED ss
         ELSE /\ Stay(IF value < f.beta THEN [g EXCEPT !.bestMove = f.move, !.alpha = value]
                      ELSE [g EXCEPT !.bestMove = f.move, !.at = "qfinish"])
              /\ ss' = IF f.pv THEN [ss EXCEPT ![Ply].pv = <<f.move>> \o ss[Ply + 1].pv] ELSE ss
      /\ Plain
      /\ UNCHANGED <<rootVars, nmp, table, torn>>
QBlend(f) ==
  IF ~is_decisive(f.best) /\ f.best > f.beta THEN Quotient(477 * f.best + 547 * f.beta, 1024) ELSE f.best
QFinish ==
  LET f == Top
      value == QBlend(f)
  IN  /\ Running("qfinish")
      /\ IF f.count = 0 /\ (InCheck \/ ~HasQuiet(f.pos)) THEN Return(mated_in(Ply)) /\ UNCHANGED table
         ELSE /\ Return(value)
              /\ table' = Written(f.slot, value_to_tt(value, Ply), f.hint.pv, BoundOf(f, value, FALSE), DEPTH_QS, f.bestMove)
      /\ Plain
      /\ UNCHANGED <<rootVars, line, ss, nmp, torn>>

-----------------------------------------------------------------------------
(* iterative_deepening: searches of growing depth in windows around the     *)
(* average score, widened until the value is inside.                        *)

RootMove(m) ==
  [pv |-> <<m>>, score |-> -VALUE_INFINITE, prev |-> -VALUE_INFINITE, avg |-> -VALUE_INFINITE,
   lower |-> FALSE, upper |-> FALSE]
Inexact(rm) == rm.lower \/ rm.upper
is_exact_loss(rm) == rm.score # -VALUE_INFINITE /\ is_loss(rm.score) /\ ~Inexact(rm)
RootMoves(pos) == [i \in DOMAIN MovesOf(pos) |-> RootMove(MovesOf(pos)[i])]
NewIter(search, pos) ==
  [phase |-> "iterate", search |-> search, depth |-> 0, alpha |-> 0, beta |-> 0, delta |-> 0, failedHigh |-> 0,
   recovery |-> 0, moves |-> RootMoves(pos), forgotten |-> FALSE, last |-> [pv |-> << >>, score |-> -VALUE_INFINITE]]
reset_ss == [ply \in -1 .. MAX_PLY + 1 |-> [excluded |-> NONE, pv |-> << >>, ttPv |-> FALSE]]
nodeVars == <<line, stack, ret, ss, nmp, table, torn>>

Init ==
  /\ game \in DOMAIN Games
  /\ line = <<G.searches[1].root>>
  /\ iter = NewIter(1, G.searches[1].root)
  /\ stack = << >> /\ ss = reset_ss /\ nmp = 0
  /\ ret = [value |-> VALUE_ZERO, pos |-> NONE, rule60 |-> 0, ply |-> 0, asked |-> <<0, 0>>, whole |-> FALSE]
  /\ table = [i \in Slots |-> EmptyEntry(VALUE_ZERO)] /\ generation = 1 % Generations
  /\ stop = FALSE /\ torn = FALSE /\ odd = 0

StartIteration ==
  LET avg == iter.moves[1].avg
  IN  /\ iter.phase = "iterate"
      /\ iter' =
           IF stop \/ iter.depth >= MaxDepth \/ iter.depth + 1 >= MAX_PLY THEN [iter EXCEPT !.phase = "done"]
           ELSE [iter EXCEPT !.phase = "pass", !.depth = @ + 1, !.delta = Delta, !.failedHigh = 0,
                   !.alpha = Larger(avg - Delta, -VALUE_INFINITE), !.beta = Smaller(avg + Delta, VALUE_INFINITE),
                   !.recovery = Larger(@ - 2, 0), !.moves = [i \in DOMAIN @ |-> [@[i] EXCEPT !.prev = iter.moves[i].score]]]
      /\ Plain
      /\ UNCHANGED <<game, generation, stop, nodeVars>>
StartPass ==
  LET depth == Larger(1, iter.depth - iter.failedHigh - iter.recovery)
  IN  /\ iter.phase = "pass"
      /\ iter' = [iter EXCEPT !.phase = "searching"]
      /\ stack' = <<[Placed(search_node(iter.alpha, iter.beta, depth, FALSE, TRUE),
                             Pos, G.searches[iter.search].rule60, 0) EXCEPT !.root = TRUE]>>
      /\ Plain
      /\ UNCHANGED <<game, generation, stop, line, ret, ss, nmp, table, torn>>

Before(a, b) == a.score > b.score \/ (a.score = b.score /\ a.prev > b.prev)
Sorted(moves) ==
  LET Rank(i) == Cardinality({j \in DOMAIN moves : Before(moves[j], moves[i]) \/ (~Before(moves[i], moves[j]) /\ j <= i)})
  IN  [r \in DOMAIN moves |-> moves[CHOOSE i \in DOMAIN moves : Rank(i) = r]]
Magnitude(v) == Larger(v, -v)
forgotten_mate(moves, last) ==
  /\ last.score # -VALUE_INFINITE /\ is_decisive(last.score)
  /\ Magnitude(moves[1].score) < Magnitude(last.score) \/ Inexact(moves[1])
Widened(it, value) ==
  [it EXCEPT !.phase = "pass", !.delta = @ + (44 * @) \div 128,
     !.alpha = IF value <= it.alpha THEN Larger(value - it.delta, -VALUE_INFINITE) ELSE Larger(it.beta - it.delta, it.alpha),
     !.beta = IF value <= it.alpha THEN it.alpha ELSE Smaller(value + it.delta, VALUE_INFINITE),
     !.failedHigh = IF value <= it.alpha THEN 0 ELSE @ + 1]
PassDone ==
  LET it == [iter EXCEPT !.moves = Sorted(@)]
      inside == it.alpha < ret.value /\ ret.value < it.beta
  IN  /\ iter.phase = "searching" /\ stack = << >>
      /\ iter' = IF stop \/ inside
                 THEN [it EXCEPT !.phase = "record", !.forgotten = forgotten_mate(it.moves, it.last),
                         !.recovery = IF it.failedHigh > 0 THEN (it.failedHigh + 1) \div 2 + 2 ELSE @]
                 ELSE Widened(it, ret.value)
      /\ Plain
      /\ UNCHANGED <<game, generation, stop, nodeVars>>
(* A completed iteration is remembered; of an aborted one, or one that lost *)
(* a mate, the best move is taken back to what is remembered.               *)
Record ==
  /\ iter.phase = "record"
  /\ iter' = [iter EXCEPT !.phase = "restore",
                !.last = IF stop \/ iter.forgotten THEN @ ELSE [pv |-> iter.moves[1].pv, score |-> iter.moves[1].score]]
  /\ Plain
  /\ UNCHANGED <<game, generation, stop, nodeVars>>
aborted_loss_Never(moves) == FALSE
aborted_loss(moves) == stop /\ is_exact_loss(moves[1])
Fronted(moves, m) ==
  LET i == CHOOSE i \in DOMAIN moves : moves[i].pv[1] = m
  IN  <<moves[i]>> \o SubSeq(moves, 1, i - 1) \o SubSeq(moves, i + 1, Len(moves))
Restored(moves, last) ==
  [Fronted(moves, last.pv[1]) EXCEPT ![1].pv = last.pv, ![1].score = last.score, ![1].lower = FALSE, ![1].upper = FALSE]
Restore ==
  LET aborted == aborted_loss(iter.moves)
      lost == aborted \/ (iter.moves[1].score # -VALUE_INFINITE /\ iter.forgotten)
  IN  /\ iter.phase = "restore"
      /\ iter' = [iter EXCEPT !.phase = "iterate",
                    !.moves = IF ~lost THEN @
                              ELSE IF iter.last.pv # << >> THEN Restored(@, iter.last)
                              ELSE IF aborted THEN [@ EXCEPT ![1].lower = TRUE] ELSE @]
      /\ Plain
      /\ UNCHANGED <<game, generation, stop, nodeVars>>

(* The next search of the same game, with the table of the one before. *)
NextSearch ==
  LET next == iter.search + 1
  IN  /\ iter.phase = "done" /\ next \in DOMAIN G.searches
      /\ iter' = NewIter(next, G.searches[next].root)
      /\ line' = <<G.searches[next].root>>
      /\ generation' = (generation + 1) % Generations
      /\ stop' = FALSE /\ ss' = reset_ss
      /\ UNCHANGED <<game, stack, ret, nmp, table, torn, odd>>

(* Nothing more to search. *)
Done ==
  /\ iter.phase = "done" /\ iter.search + 1 \notin DOMAIN G.searches
  /\ UNCHANGED vars

(* The limits or another thread: told to stop, the worker notices where it  *)
(* reads the flag.                                                          *)
ReadsStop ==
  \/ stack # << >> /\ Top.at \in {"judge", "tried"}
  \/ stack = << >> /\ iter.phase \in {"iterate", "searching", "record", "restore"}
Stop ==
  /\ ~stop /\ ReadsStop /\ iter.phase # "done"
  /\ stop' = TRUE
  /\ UNCHANGED <<game, generation, iter, nodeVars, odd>>

Node ==
  \/ Judge \/ Probe \/ Cutoff \/ Prune \/ TryNull \/ NullSearched \/ NullVerified
  \/ ProbCut \/ ProbCutHolds \/ ProbCutDone \/ SmallProbCut
  \/ NextMove \/ Singular \/ Singled \/ Make \/ Reduced \/ Scouted \/ Weigh \/ Finish
  \/ QJudge \/ QProbe \/ QNext \/ QWeigh \/ QFinish
Next ==
  \/ Node \/ StartIteration \/ StartPass \/ PassDone \/ Record \/ Restore \/ NextSearch \/ Done \/ Stop
Spec == Init /\ [][Next]_vars

-----------------------------------------------------------------------------
(* The truth of a game: who wins from a position, within how many plies,    *)
(* the sixty moves counted.  Without moves a player has lost.               *)

Counts == 0 .. Rule60Max
Fates(g) ==
  LET all == (DOMAIN Games[g].moves) \X Counts
      Next2(s) == {<<m.to, After(m, s[2])>> : m \in {Games[g].moves[s[1]][i] : i \in DOMAIN Games[g].moves[s[1]]}}
      mated == {s \in all : Games[g].moves[s[1]] = << >>}
      fates[n \in 0 .. MAX_PLY] ==
        LET below == IF n = 0 THEN [lost |-> {}, won |-> {}] ELSE fates[n - 1]
        IN  [lost |-> mated \cup {s \in all : n > 0 /\ s[2] < Rule60Max /\ Next2(s) \subseteq below.won},
             won |-> {s \in all : s[2] < Rule60Max /\ Next2(s) \cap below.lost # {}}]
  IN  fates
Facts(kind) ==
  UNION {{<<g, s[1], s[2], n>> : s \in Fates(g)[n][kind]} : g \in DOMAIN Games, n \in 0 .. MAX_PLY}
Wins == Facts("won")
Losses == Facts("lost")
(* A value seen from a ply claims mate within so many plies from there. *)
WinHolds(pos, rule60, value, ply) == <<game, pos, rule60, VALUE_MATE - value - ply>> \in Wins
LossHolds(pos, rule60, value, ply) == <<game, pos, rule60, VALUE_MATE + value - ply>> \in Losses

(* Every mate value returned inside the window it was asked for, and every  *)
(* one the table holds as a bound of its side, is a forced mate of at most  *)
(* that length, whatever was pruned, reduced, skipped, repeated, passed or  *)
(* aborted on the way, and under the rule of sixty moves.                   *)
MatesAreProven ==
  ~torn =>
    /\ ret.whole /\ is_win(ret.value) /\ ret.value > ret.asked[1] => WinHolds(ret.pos, ret.rule60, ret.value, ret.ply)
    /\ ret.whole /\ is_loss(ret.value) /\ ret.value < ret.asked[2] => LossHolds(ret.pos, ret.rule60, ret.value, ret.ply)
    /\ \A i \in Slots :
         LET e == table[i]
         IN  e.key # NONE /\ is_valid(e.value) =>
               /\ is_win(e.value) /\ IsLower(e.bound) => WinHolds(e.key, 0, e.value, 0)
               /\ is_loss(e.value) /\ IsUpper(e.bound) => LossHolds(e.key, 0, e.value, 0)

(* A mate score that the worker ends an iteration with, completed, aborted  *)
(* or recovered, and does not flag as a bound, is a forced mate from the    *)
(* root.                                                                    *)
ReportedMateIsProven ==
  LET best == iter.moves[1]
      root == G.searches[iter.search]
  IN  iter.phase \in {"iterate", "done"} /\ ~torn /\ ~Inexact(best) /\ best.score # -VALUE_INFINITE =>
        /\ is_win(best.score) => WinHolds(root.root, root.rule60, best.score, 0)
        /\ is_loss(best.score) => LossHolds(root.root, root.rule60, best.score, 0)

Playable(pos, pv) ==
  /\ pv # << >> => IsMove(pos, pv[1])
  /\ \A i \in 2 .. Len(pv) : IsMove(pv[i - 1].to, pv[i])
(* Every principal variation kept for the root is a line of moves that can  *)
(* be played one after the other, even after a torn probe.                  *)
LinesArePlayable ==
  /\ \A i \in DOMAIN iter.moves : Playable(G.searches[iter.search].root, iter.moves[i].pv)
  /\ Playable(G.searches[iter.search].root, iter.last.pv)

Waiting(at) == {i \in DOMAIN stack : stack[i].at = at}
(* What a node sets for the searches it calls, a move made, an excluded     *)
(* move, a ply from which null moves are allowed, is taken back however     *)
(* those searches and the node itself end.                                  *)
ScopesAreClosed ==
  /\ nmp # 0 => Waiting("verified") # {}
  /\ \A ply \in DOMAIN ss : ss[ply].excluded # NONE => \E i \in Waiting("singled") : stack[i].ply = ply
  /\ stack = << >> => line = <<G.searches[iter.search].root>>
  /\ stack # << >> /\ Top.at \in {"judge", "probe", "null", "next", "make", "finish", "qjudge", "qnext", "qfinish"}
       => Pos = Top.pos /\ Len(line) = Ply + 1
=============================================================================
