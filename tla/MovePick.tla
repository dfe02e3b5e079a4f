------------------------------ MODULE MovePick ------------------------------
(***************************************************************************)
(* The order in which a node's moves are searched: the exchange on a       *)
(* square (see_ge of position/legality.rs) and the staged move picker      *)
(* (search/movepick.rs), which keeps the moves put off for later in the    *)
(* front of the array it is still reading.                                 *)
(*                                                                         *)
(* The history tables are read only when a stage is scored.  What they add *)
(* to a move's score is the table h of the stage, [captures |-> .., quiets *)
(* |-> .., evasions |-> ..], functions from the moves to integers.         *)
(*                                                                         *)
(* An operator Name_Change is a variant of Name with a plausible bug, which *)
(* a property must notice; no specification uses one.                      *)
(***************************************************************************)
EXTENDS MoveGen

MAX_MOVES == 128

(* Rust's division, which cuts towards zero; b > 0. *)
Quotient(a, b) == IF a < 0 THEN -((-a) \div b) ELSE a \div b

-----------------------------------------------------------------------------
(* The exchange on a square.  x: whose man stands there, the squares still  *)
(* occupied, and the attackers found so far, cannons apart: a man that goes *)
(* uncovers men behind it.  king_attacks: a king takes part, and so does    *)
(* the other, along an open line.                                           *)

SeeOrder == <<"pawn", "bishop", "advisor", "cannon", "knight", "rook", "king">>

Sliders(p, to, occupied, king_attacks) ==
  attacks_bb_rook(to, occupied)
    \cap (of_type(p, "rook") \cup (IF king_attacks THEN of_type(p, "king") ELSE {}))
Cannons(p, to, occupied) == attacks_bb_cannon(to, occupied) \cap of_type(p, "cannon")

Exchangers(p, to, occupied, attackers) ==
  LET king_attacks == attackers \cap of_type(p, "king") # {}
      kings == IF king_attacks THEN attacks_bb_rook(to, occupied) \cap of_type(p, "king") ELSE {}
  IN  [stm |-> p.side_to_move, occupied |-> occupied, king_attacks |-> king_attacks,
       non_cannons |-> (attackers \ of_type(p, "cannon")) \cup kings,
       all_attackers |-> attackers \cup kings]
SeeStart(p, m) ==
  LET occupied == Xor(Xor(all_pieces(p), {From(m)}), {To(m)})
  IN  Exchangers(p, To(m), occupied, attackers_to(p, To(m), occupied))

(* The other side's turn, and the men it may take with: while a piece that  *)
(* pins its men has not moved, the shields of its king stay where they are. *)
Answering(p, x) == [x EXCEPT !.stm = Other(@), !.all_attackers = @ \cap x.occupied]
Takers(p, x) ==
  (x.all_attackers \cap of_color(p, x.stm))
    \ (IF p.state.pinners[Other(x.stm)] \cap x.occupied # {} THEN p.state.blockers_for_king[x.stm] ELSE {})
LeastTaker(p, takers) ==
  SeeOrder[CHOOSE i \in 1 .. 7 : /\ takers \cap of_type(p, SeeOrder[i]) # {}
                                 /\ \A j \in 1 .. i - 1 : takers \cap of_type(p, SeeOrder[j]) = {}]

(* The least taker, a pt, has taken. *)
Taken(p, to, x, takers, pt) ==
  LET men == takers \cap of_type(p, pt)
      occupied == x.occupied \ {s \in men : \A t \in men : s <= t}
      uncovered == CASE pt \in {"pawn", "rook"} -> Sliders(p, to, occupied, x.king_attacks)
                     [] pt = "advisor" -> attacks_bb_knight_to(to, occupied) \cap of_type(p, "knight")
                     [] OTHER -> {}
      non_cannons == x.non_cannons \cup uncovered
      cannons == IF pt = "advisor" THEN x.all_attackers \cap of_type(p, "cannon")
                 ELSE Cannons(p, to, occupied)
  IN  [x EXCEPT !.occupied = occupied, !.non_cannons = non_cannons,
                !.all_attackers = IF pt \in {"bishop", "knight"} THEN @ ELSE non_cannons \cup cannons]
(* A king takes if nobody can take it back. *)
KingIsSafe(p, x) == x.all_attackers \cap of_color(p, Other(x.stm)) = {}

(* swap: by how much the side that has just taken would miss its aim if its *)
(* man were lost for nothing; res: 1 while the side that began is ahead.    *)
Refuted_Ties(swap, res) == swap < 0
Refuted(swap, res) == swap < res

RECURSIVE SeeLoop(_, _, _, _, _)
SeeLoop(p, to, taken, swap, res) ==
  LET x == Answering(p, taken)
      takers == Takers(p, x)
      pt == LeastTaker(p, takers)
      left == PieceValue(<<x.stm, pt>>) - swap
  IN  IF takers = {} THEN res = 1
      ELSE IF pt = "king" THEN (res = 0) = KingIsSafe(p, x)
      ELSE IF pt # "rook" /\ Refuted(left, 1 - res) THEN res = 0
      ELSE SeeLoop(p, to, Taken(p, to, x, takers, pt), left, 1 - res)

(* Material: does m win at least threshold on its square? *)
see_ge(p, m, threshold) ==
  LET won == PieceValue(piece_on(p, To(m))) - threshold
      swap == PieceValue(piece_on(p, From(m))) - won
  IN  won >= 0 /\ (swap <= 0 \/ SeeLoop(p, To(m), SeeStart(p, m), swap, 1))

-----------------------------------------------------------------------------
(* What a stage adds to a move's history.                                   *)

attacks_by(p, pt, c) == UNION {Attacks(<<c, pt>>, s, all_pieces(p)) : s \in pieces(p, c, pt)}

CaptureScore(p, m, h) == h.captures[m] + 7 * PieceValue(piece_on(p, To(m)))

(* The squares a piece is chased from: those a lesser enemy attacks. *)
ThreatTo(pawn, light, middle) ==
  [pt \in PieceTypes |->
     CASE pt \in {"advisor", "bishop"} -> pawn [] pt \in {"knight", "cannon"} -> pawn \cup light
       [] pt = "rook" -> pawn \cup light \cup middle [] OTHER -> {}]
Threats(p, them) ==
  ThreatTo(attacks_by(p, "pawn", them),
           attacks_by(p, "advisor", them) \cup attacks_by(p, "bishop", them),
           attacks_by(p, "knight", them) \cup attacks_by(p, "cannon", them))
DirectCheck(p, m) ==
  LET pt == Type(piece_on(p, From(m)))
      ksq == king_square(p, Other(p.side_to_move))
  IN  To(m) \in p.state.check_squares[pt] \ (IF pt = "cannon" THEN line_bb(From(m), ksq) ELSE {})
QuietScore(p, m, h, threats) ==
  LET pc == piece_on(p, From(m))
      threat == threats[Type(pc)]
      escapes == (IF From(m) \in threat THEN 1 ELSE 0) - (IF To(m) \in threat THEN 1 ELSE 0)
  IN  h.quiets[m] + 20 * escapes * PieceValue(pc)
        + (IF DirectCheck(p, m) /\ see_ge(p, m, -75) THEN 16384 ELSE 0)

EvasionScore(p, m, h) ==
  IF is_capture(p, m) THEN PieceValue(piece_on(p, To(m))) + 2 ^ 28 ELSE h.evasions[m]

(* The array of a generated list, in some order, with the scores. *)
Scored(moves, Score(_)) == FoldSet(LAMBDA m, list : Append(list, [m |-> m, score |-> Score(m)]), <<>>, moves)
score_captures(p, h) ==
  Scored(generate_all(p, p.side_to_move, "Captures"), LAMBDA m : CaptureScore(p, m, h))
ScoredQuiets(p, h, threats) ==
  Scored(generate_all(p, p.side_to_move, "Quiets"), LAMBDA m : QuietScore(p, m, h, threats))
score_quiets(p, h) == ScoredQuiets(p, h, Threats(p, Other(p.side_to_move)))
score_evasions(p, h) == Scored(generate_evasions(p), LAMBDA m : EvasionScore(p, m, h))

(* Moves that score limit or more are taken out, in turn, and inserted in   *)
(* the sorted front; the move that stood next to the front takes the place. *)
Insert(moves, e, i) ==
  LET at == 1 + Cardinality({j \in 1 .. e : moves[j].score >= moves[i].score})
  IN  [j \in DOMAIN moves |-> IF j = at THEN moves[i]
                              ELSE IF at < j /\ j <= e + 1 THEN moves[j - 1]
                              ELSE IF j = i THEN moves[e + 1] ELSE moves[j]]
partial_insertion_sort(moves, limit) ==
  FoldLeft(LAMBDA x, i : IF x.moves[i].score < limit THEN x
                         ELSE [moves |-> Insert(x.moves, x.sorted, i), sorted |-> x.sorted + 1],
           [moves |-> moves, sorted |-> 1], [i \in 1 .. Len(moves) - 1 |-> i + 1]).moves
Lowest == -2147483647

-----------------------------------------------------------------------------
(* The picker.  moves is the part of the array in use; places in it are     *)
(* counted from 0, as the code does, and moves[i + 1] is place i.           *)

NewPicker(stage, tt_move, depth, threshold) ==
  [stage |-> stage, tt_move |-> tt_move, depth |-> depth, threshold |-> threshold, cur |-> 0, end_moves |-> 0,
   end_bad_captures |-> 0, end_bad_quiets |-> 0, moves |-> <<>>, skip_quiets |-> FALSE]
IsUsable(p, m) == m # NoMove /\ From(m) # To(m) /\ pseudo_legal(p, m)
FirstStage(p, valid, depth) ==
  IF p.state.checkers # {} THEN (IF valid THEN "EvasionTT" ELSE "EvasionInit")
  ELSE IF depth > 0 THEN (IF valid THEN "MainTT" ELSE "CaptureInit")
  ELSE (IF valid THEN "QSearchTT" ELSE "QCaptureInit")
new_main(p, m, depth) ==
  LET Picker(valid) == NewPicker(FirstStage(p, valid, depth), IF valid THEN m ELSE NoMove, depth, 0)
  IN  Picker(IsUsable(p, m))
new_probcut(p, m, threshold) ==
  LET Picker(valid) == NewPicker(IF valid THEN "ProbCutTT" ELSE "ProbCutInit",
                                 IF valid THEN m ELSE NoMove, 0, threshold)
  IN  Picker(m # NoMove /\ is_capture(p, m) /\ IsUsable(p, m))
skip_quiet_moves(k) == [k EXCEPT !.skip_quiets = TRUE]

AfterTT == [MainTT |-> "CaptureInit", EvasionTT |-> "EvasionInit", ProbCutTT |-> "ProbCutInit",
            QSearchTT |-> "QCaptureInit"]
AfterCaptures == [CaptureInit |-> "GoodCapture", ProbCutInit |-> "ProbCut", QCaptureInit |-> "QCapture"]

(* A move for later goes to place e, which has been read. *)
SetAside(k, e, sm) == [k EXCEPT !.moves[e + 1] = sm]

(* What a stage starts with. *)
InitCaptures(k, scored) ==
  [k EXCEPT !.cur = 0, !.end_bad_captures = 0, !.end_moves = Len(scored),
            !.moves = partial_insertion_sort(scored, Lowest), !.stage = AfterCaptures[k.stage]]
InitQuiets(k, scored) ==
  LET save == k.end_bad_captures
  IN  [k EXCEPT !.cur = save, !.end_bad_quiets = save, !.end_moves = save + Len(scored),
                !.moves = SubSeq(@, 1, save) \o partial_insertion_sort(scored, -3330 * k.depth),
                !.stage = "GoodQuiet"]
InitEvasions(k, scored) ==
  [k EXCEPT !.cur = 0, !.end_moves = Len(scored), !.moves = partial_insertion_sort(scored, Lowest),
            !.stage = "Evasion"]
ToBadCaptures(k) == [k EXCEPT !.cur = 0, !.end_moves = k.end_bad_captures, !.stage = "BadCapture"]
ToBadQuiets(k) ==
  [k EXCEPT !.cur = k.end_bad_captures, !.end_moves = k.end_bad_quiets, !.stage = "BadQuiet"]
Ended(k) == [picker |-> k, m |-> NoMove]

RECURSIVE next_move(_, _, _)
next_move(k, p, h) ==
  LET sm == k.moves[k.cur + 1]
      more == k.cur < k.end_moves
      passed == [k EXCEPT !.cur = @ + 1]
      Return == [picker |-> passed, m |-> sm.m]
      (* Over the moves left, each but the table move picked or not. *)
      Scan(picks, otherwise, done) ==
        IF ~more THEN done
        ELSE IF sm.m = k.tt_move THEN next_move(passed, p, h)
        ELSE IF picks THEN Return ELSE next_move(otherwise, p, h)
  IN  CASE k.stage \in DOMAIN AfterTT ->
             [picker |-> [k EXCEPT !.stage = AfterTT[k.stage]], m |-> k.tt_move]
        [] k.stage \in DOMAIN AfterCaptures -> next_move(InitCaptures(k, score_captures(p, h)), p, h)
        [] k.stage = "GoodCapture" ->
             Scan(see_ge(p, sm.m, Quotient(-sm.score, 18)),
                  [SetAside(passed, k.end_bad_captures, sm) EXCEPT !.end_bad_captures = @ + 1],
                  next_move([k EXCEPT !.stage = "QuietInit"], p, h))
        [] k.stage = "QuietInit" ->
             next_move(IF k.skip_quiets THEN [k EXCEPT !.stage = "GoodQuiet"]
                       ELSE InitQuiets(k, score_quiets(p, h)), p, h)
        [] k.stage = "GoodQuiet" ->
             IF k.skip_quiets THEN next_move(ToBadCaptures(k), p, h)
             ELSE Scan(sm.score > -14000,
                       [SetAside(passed, k.end_bad_quiets, sm) EXCEPT !.end_bad_quiets = @ + 1],
                       next_move(ToBadCaptures(k), p, h))
        [] k.stage = "BadCapture" -> Scan(TRUE, k, next_move(ToBadQuiets(k), p, h))
        [] k.stage = "BadQuiet" -> IF k.skip_quiets THEN Ended(k) ELSE Scan(TRUE, k, Ended(k))
        [] k.stage = "EvasionInit" -> next_move(InitEvasions(k, score_evasions(p, h)), p, h)
        [] k.stage \in {"Evasion", "QCapture"} -> Scan(TRUE, k, Ended(k))
        [] k.stage = "ProbCut" -> Scan(see_ge(p, sm.m, k.threshold), passed, Ended(k))

(* A node's whole order, should the quiet moves be skipped after n picks. *)
RECURSIVE Picked(_, _, _, _)
PickedFrom(next, p, h, n) ==
  IF next.m = NoMove THEN <<>> ELSE <<next.m>> \o Picked(next.picker, p, h, n - 1)
Picked(k, p, h, n) == PickedFrom(next_move(IF n = 0 THEN skip_quiet_moves(k) ELSE k, p, h), p, h, n)
=============================================================================
