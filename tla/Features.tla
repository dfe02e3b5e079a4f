------------------------------ MODULE Features ------------------------------
(***************************************************************************)
(* The network's input features and the accumulators kept along a line of  *)
(* moves (crates/pikarust-core/src/nnue: half_ka_v2_hm.rs, full_threats.rs,*)
(* accumulator.rs, feature_transformer.rs; Position::update_piece_threats; *)
(* Worker::evaluate_pos and push_acc_for_move of search/search.rs).        *)
(*                                                                         *)
(* A feature index is the tuple the index tables are built from; distinct  *)
(* tuples are distinct rows of weights.  An accumulator is the signed      *)
(* count of the rows added to it (Tally): it is exact when every active    *)
(* feature is counted once and nothing else is counted.  The weights, the  *)
(* biases and the arithmetic on them are left out.                         *)
(***************************************************************************)
EXTENDS RuleJudge

Flip(pc) == <<Other(Color(pc)), Type(pc)>>

(* Signed counts with finite support.  What is added to one, or removed, is *)
(* a set of pairs <<where it is pushed, row>>: a row may be pushed twice.   *)
NoTally == << >>
AtTally(t, x) == IF x \in DOMAIN t THEN t[x] ELSE 0
Rows(pairs) == {y[2] : y \in pairs}
Times(pairs, x) == Cardinality({y \in pairs : y[2] = x})
Adjust(t, added, removed) ==
  LET touched == Rows(added) \cup Rows(removed)
      counts == {<<x, AtTally(t, x) + Times(added, x) - Times(removed, x)>> : x \in touched}
      changed == {y \in counts : y[2] # 0}
  IN  [x \in (DOMAIN t \ touched) \cup {y[1] : y \in changed} |->
         IF x \in touched THEN (CHOOSE y \in changed : y[1] = x)[2] ELSE t[x]]
TallyOf(S) == [x \in S |-> 1]

-----------------------------------------------------------------------------
(* The half-KA features: a piece on a square, seen from one side, with the  *)
(* board turned over for Black and mirrored so that the king of that side   *)
(* stands left (half_ka_v2_hm.rs).                                          *)

Points(files, ranks) == {s \in Squares : File(s) \in files /\ Rank(s) \in ranks}
VALID_BB ==
  [pc \in Pieces |->
     LET own(r) == IF Color(pc) = White THEN r ELSE 9 - r
         at(files, r1, r2) == Points(files, {own(r1), own(r2)})
     IN  CASE Type(pc) = "advisor" -> at({3, 5}, 0, 2) \cup at({4}, 1, 1)
           [] Type(pc) = "bishop" -> at({2, 6}, 0, 4) \cup at({0, 4, 8}, 2, 2)
           [] Type(pc) = "pawn" -> Half[Other(Color(pc))] \cup at({0, 2, 4, 6, 8}, 3, 4)
           [] Type(pc) = "king" -> (Palace \cap Half[Color(pc)])
                                      \ (IF Color(pc) = White THEN Points({5}, 0 .. 9) ELSE {})
           [] OTHER -> Squares]
(* A man on a square its table has no row for falls on the first row. *)
PsqRow(pc, s) == IF s \in VALID_BB[pc] THEN <<pc, s>> ELSE <<<<White, "rook">>, 0>>

KingBucket(s) ==
  IF s \notin Palace THEN 0
  ELSE 2 * (IF Rank(s) > 4 THEN 9 - Rank(s) ELSE Rank(s)) + (IF File(s) = 4 THEN 1 ELSE 0)
Right(s) == s \in Palace /\ File(s) = 5
Middle(s) == KingBucket(s) % 2 = 1
Mirrored(ksq, oksq, midm) ==
  Right(ksq) \/ (Middle(ksq) /\ (Right(oksq) \/ (Middle(oksq) /\ midm)))

IndexMap(mirror, black, s) ==
  LET f == IF mirror THEN 8 - File(s) ELSE File(s)
      r == IF black THEN 9 - Rank(s) ELSE Rank(s)
  IN  9 * r + f

(* Is c's packed encoding below the balanced one, equal to it?  Counts come *)
(* before places, and the types in this order.                              *)
LeanOrder == <<"advisor", "bishop", "pawn", "knight", "cannon", "rook">>
LeanDigits(p, c) ==
  [i \in 1 .. 12 |-> IF i <= 6 THEN p.mid_encoding[<<c, LeanOrder[i]>>][1]
                     ELSE p.mid_encoding[<<c, LeanOrder[i - 6]>>][2]]
Below(d) == \E i \in 1 .. 12 : d[i] < 0 /\ \A j \in 1 .. i - 1 : d[j] = 0
Balanced(d) == \A i \in 1 .. 12 : d[i] = 0
requires_mid_mirror(p, c) ==
  LET my == LeanDigits(p, c)
      opp == LeanDigits(p, Other(c))
  IN  /\ File(king_square(p, White)) = 4 /\ File(king_square(p, Black)) = 4
      /\ Below(my) \/ (Balanced(my) /\ Below(opp))

AttackBucket(rooks, others) == (IF rooks > 0 THEN 2 ELSE 0) + (IF others > 0 THEN 1 ELSE 0)
make_attack_bucket(p, c) ==
  AttackBucket(count_type(p, c, "rook"), count_type(p, c, "knight") + count_type(p, c, "cannon"))
Mirror(p, c) ==
  Mirrored(king_square(p, c), king_square(p, Other(c)), requires_mid_mirror(p, c))
make_feature_bucket(p, c) == <<KingBucket(king_square(p, c)), make_attack_bucket(p, c)>>

Seen(c, pc) == IF c = Black THEN Flip(pc) ELSE pc
make_index(c, s, pc, bucket, mirror) ==
  <<PsqRow(Seen(c, pc), IndexMap(mirror, c = Black, s)), bucket>>

append_active_indices(p, c) ==
  LET bucket == make_feature_bucket(p, c)
      mirror == Mirror(p, c)
  IN  {<<s, make_index(c, s, piece_on(p, s), bucket, mirror)>> : s \in all_pieces(p)}

(* dirty: the man the move changed and the man it took. *)
append_changed_indices(p, c, dirty, add) ==
  LET bucket == make_feature_bucket(p, c)
      mirror == Mirror(p, c)
      changed == IF add THEN {<<dirty.pc, dirty.to>>}
                 ELSE {<<dirty.pc, dirty.from>>, <<dirty.captured, dirty.to>>} \ {<<NoPiece, dirty.to>>}
  IN  {<<x, make_index(c, x[2], x[1], bucket, mirror)>> : x \in changed}

-----------------------------------------------------------------------------
(* The threat features: a man attacking a man (full_threats.rs).            *)

Victims ==
  [pc \in Pieces |->
     LET own(pts) == {<<Color(pc), pt>> : pt \in pts}
         foe(pts) == {<<Other(Color(pc)), pt>> : pt \in pts}
     IN  CASE IsMajor(Type(pc)) /\ Type(pc) # "king" ->
                own(PieceTypes) \cup foe(PieceTypes \ {"king"})
           [] Type(pc) = "advisor" ->
                own({"rook", "advisor", "cannon", "knight"}
                      \cup (IF Color(pc) = Black THEN {"king"} ELSE {}))
                  \cup foe({"rook", "cannon", "pawn", "knight"})
           [] Type(pc) = "pawn" -> own({"cannon", "pawn", "knight", "bishop"})
                                     \cup foe({"advisor", "cannon", "pawn", "knight", "bishop"})
           [] Type(pc) = "bishop" -> own({"rook", "cannon", "pawn", "knight", "bishop", "king"})
                                       \cup foe({"rook", "cannon", "pawn", "knight"})
           [] pc = <<White, "king">> -> {}
           [] pc = <<Black, "king">> -> own({"advisor", "cannon", "knight", "bishop"})
                                          \cup foe({"cannon", "pawn", "knight"})]

ThreatPattern ==
  [pc \in Pieces |-> [s \in Squares |->
     IF Type(pc) = "cannon" THEN attacks_bb_cannon(s, UnconstrainedKing[s]) ELSE Attacks(pc, s, {})]]
(* Between men of one type only the threat from the higher square counts. *)
SemiExcluded(pc, from, to, victim) ==
  LET enemy == Color(pc) # Color(victim)
  IN  /\ Type(pc) = Type(victim) /\ Type(pc) # "knight"
      /\ Type(pc) = "pawn" => IF enemy THEN File(from) = File(to) ELSE Rank(from) = Rank(to)
HasThreatRow(pc, from, to, victim) ==
  /\ from \in VALID_BB[pc] /\ to \in VALID_BB[victim]
  /\ victim \in Victims[pc]
  /\ to \in ThreatPattern[pc][from]
  /\ SemiExcluded(pc, from, to, victim) => from > to

(* The row of a threat seen from c's side, or no row: the set of both cases. *)
ThreatIndex(c, mirror, pc, from, to, victim) ==
  LET f == IndexMap(mirror, c = Black, from)
      t == IndexMap(mirror, c = Black, to)
  IN  IF HasThreatRow(Seen(c, pc), f, t, Seen(c, victim))
      THEN {<<Seen(c, pc), f, t, Seen(c, victim)>>} ELSE {}

threat_active_indices(p, c) ==
  LET mirror == Mirror(p, c)
      attacked(s) == Attacks(piece_on(p, s), s, all_pieces(p)) \cap all_pieces(p)
  IN  UNION {UNION {ThreatIndex(c, mirror, piece_on(p, s), s, t, piece_on(p, t)) : t \in attacked(s)} :
               s \in all_pieces(p)}

-----------------------------------------------------------------------------
(* The threats a move adds and removes (Position::update_piece_threats): a  *)
(* sequence of sets of <<added, attacker, victim, from, to>>, one set for   *)
(* each place of the code that pushes.                                      *)

(* r_attacks, c_attacks: what a rook and a cannon on s would attack. *)
ThreatsAround(p, compute_ray, pc, put, s, r_attacks, c_attacks) ==
  LET occupied == all_pieces(p)
      threat(add, from, to) == <<add, piece_on(p, from), piece_on(p, to), from, to>>
      onto(from) == <<put, piece_on(p, from), pc, from, s>>
      beyond(from, line) == ray_pass_bb(from, s) \cap line \cap occupied
      through(sliders, line, add) ==
        {threat(add, from, Least(beyond(from, line))) : from \in {f \in sliders : beyond(f, line) # {}}}
      rooks == r_attacks \cap of_type(p, "rook")
      cannons == c_attacks \cap of_type(p, "cannon")
      near_cannons == r_attacks \cap of_type(p, "cannon")
      leapers == (UnconstrainedKing[s] \cap of_type(p, "knight"))
                   \cup (UnconstrainedAdvisor[s] \cap of_type(p, "bishop"))
      incoming == (pawn_attacks_to_bb(White, s) \cap pieces(p, White, "pawn"))
                    \cup (pawn_attacks_to_bb(Black, s) \cap pieces(p, Black, "pawn"))
                    \cup (attacks_bb_knight_to(s, occupied) \cap of_type(p, "knight"))
                    \cup (attacks_bb_bishop(s, occupied) \cap of_type(p, "bishop"))
                    \cup (pseudo_attacks_advisor(s) \cap of_type(p, "advisor"))
                    \cup (pseudo_attacks_king(s) \cap of_type(p, "king"))
      outgoing == {<<put, pc, piece_on(p, t), s, t>> : t \in Attacks(pc, s, occupied) \cap occupied}
  IN  << outgoing, {onto(f) : f \in incoming \cup rooks \cup cannons} >> \o
        (IF compute_ray
         THEN << through(rooks, r_attacks, ~put), through(cannons, r_attacks, ~put),
                 through(near_cannons, r_attacks, put), through(near_cannons, c_attacks, ~put),
                 UNION {{threat(~put, f, t) : t \in leaper_pass_bb(f, s) \cap occupied} : f \in leapers} >>
         ELSE << >>)
update_piece_threats(p, compute_ray, pc, put, s) ==
  ThreatsAround(p, compute_ray, pc, put, s,
                attacks_bb_rook(s, all_pieces(p)), attacks_bb_cannon(s, all_pieces(p)))

(* The board part of do_move_inner with dirty threats: they are computed    *)
(* between the changes of the board.  Each is a pair with its place.        *)
LiftedBefore(p, m) == remove_piece(remove_piece(p, From(m)), To(m))
PushedThreats(p, m, after) ==
  LET pc == piece_on(p, From(m))
      captured == piece_on(p, To(m))
  IN  update_piece_threats(p, TRUE, pc, FALSE, From(m))
        \o (IF captured = NoPiece THEN << >>
            ELSE update_piece_threats(LiftedBefore(p, m), FALSE, captured, FALSE, To(m)))
        \o update_piece_threats(after, captured = NoPiece, pc, TRUE, To(m))
Placewise(pushed) == UNION {{<<i, d>> : d \in pushed[i]} : i \in DOMAIN pushed}
(* after: the board after the move. *)
ThreatsOfMove(p, m, after) ==
  [kind |-> "DirtyThreats", threats |-> Placewise(PushedThreats(p, m, after)),
   requires_refresh |-> [c \in Colors |-> Mirror(p, c) # Mirror(after, c)]]
DirtyThreats(p, m) == ThreatsOfMove(p, m, Moved(p, m))

ThreatRows(c, mirror, threats) ==
  UNION {{<<x, row>> : row \in ThreatIndex(c, mirror, x[2][2], x[2][4], x[2][5], x[2][3])} : x \in threats}
threat_changed_indices(c, mirror, dirty, add) ==
  ThreatRows(c, mirror, {x \in dirty.threats : x[2][1] = add})
=============================================================================
