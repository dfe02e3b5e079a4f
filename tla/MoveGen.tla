------------------------------ MODULE MoveGen ------------------------------
(***************************************************************************)
(* Move generation (crates/pikarust-core/src/position/movegen.rs, with     *)
(* pseudo_legal and is_legal_move of legality.rs, whose answer in check is *)
(* membership in the generated evasions).  A move list is the set of its   *)
(* moves: the branches of the generator never name a move twice.           *)
(***************************************************************************)
EXTENDS Position

MovesFrom(s, targets) == {<<s, t>> : t \in targets}

(* The targets of one piece: target, except for cannons, which capture and *)
(* move differently.                                                       *)
PieceTargets(p, s, target, gen_type) ==
  LET pc == piece_on(p, s)
      us == Color(pc)
      occupied == all_pieces(p)
      jumps == attacks_bb_cannon(s, occupied) \cap of_color(p, Other(us))
      slides == attacks_bb_rook(s, occupied) \ occupied
  IN  CASE Type(pc) = "cannon" ->
             ((IF gen_type = "Quiets" THEN {} ELSE jumps)
                \cup (IF gen_type = "Captures" THEN {} ELSE slides))
               \cap (IF gen_type = "Evasions" THEN target ELSE Squares)
        [] Type(pc) = "bishop" -> attacks_bb_bishop(s, occupied) \cap Half[us] \cap target
        [] OTHER -> Attacks(pc, s, occupied) \cap target

generate_non_king_moves(p, us, target, gen_type) ==
  UNION {MovesFrom(s, PieceTargets(p, s, target, gen_type)) :
           s \in of_color(p, us) \ of_type(p, "king")}

generate_all(p, us, gen_type) ==
  LET target == CASE gen_type = "PseudoLegal" -> Squares \ of_color(p, us)
                  [] gen_type = "Captures" -> of_color(p, Other(us))
                  [] gen_type = "Quiets" -> Squares \ all_pieces(p)
      ksq == king_square(p, us)
  IN  generate_non_king_moves(p, us, target, gen_type)
        \cup MovesFrom(ksq, pseudo_attacks_king(ksq) \cap target)

(* A cannon's check can also be answered by its hurdle leaving the line, or *)
(* by a hurdle cannon capturing anything.                                   *)
HurdleTargets(p, us, pc, s, line) ==
  LET occupied == all_pieces(p)
  IN  CASE Type(pc) = "cannon" ->
             ((attacks_bb_rook(s, occupied) \ line) \ occupied)
               \cup (attacks_bb_cannon(s, occupied) \cap of_color(p, Other(us)))
        [] Type(pc) = "bishop" -> ((attacks_bb_bishop(s, occupied) \cap Half[us]) \ line) \ of_color(p, us)
        [] Type(pc) = "king" -> {}
        [] OTHER -> (Attacks(pc, s, occupied) \ line) \ of_color(p, us)
HurdleMoves(p, us, checksq, hurdles) ==
  UNION {MovesFrom(s, HurdleTargets(p, us, piece_on(p, s), s, line_bb(checksq, s))) :
           s \in {h \in hurdles : \A h2 \in hurdles : h <= h2}}

(* The answers to the check of the man on checksq alone. *)
EvasionsFrom(p, us, ksq, checksq, line) ==
  LET slider == Type(piece_on(p, checksq)) \in {"rook", "cannon"}
      barred == IF slider THEN line_bb(checksq, ksq) \ of_color(p, Other(us)) ELSE {}
  IN  generate_non_king_moves(p, us, line \ of_color(p, us), "Evasions")
        \cup MovesFrom(ksq, (pseudo_attacks_king(ksq) \ of_color(p, us)) \ barred)
        \cup (IF Type(piece_on(p, checksq)) = "cannon"
              THEN HurdleMoves(p, us, checksq, line \cap of_color(p, us)) ELSE {})

generate_evasions(p) ==
  LET us == p.side_to_move
      ksq == king_square(p, us)
  IN  IF Cardinality(p.state.checkers) > 1 THEN generate_all(p, us, "PseudoLegal")
      ELSE UNION {EvasionsFrom(p, us, ksq, s, between_bb(ksq, s)) : s \in p.state.checkers}

(* Legal moves are filtered from the evasions in check, else from all. *)
Generated(p, gen_type) ==
  IF gen_type = "Evasions" \/ (gen_type = "Legal" /\ p.state.checkers # {})
  THEN generate_evasions(p)
  ELSE generate_all(p, p.side_to_move, IF gen_type = "Legal" THEN "PseudoLegal" ELSE gen_type)
generate(p, gen_type) == {m \in Generated(p, gen_type) : gen_type = "Legal" => is_legal(p, m)}

pseudo_legal(p, m) ==
  LET us == p.side_to_move
      pc == piece_on(p, From(m))
      occupied == all_pieces(p)
  IN  /\ pc # NoPiece
      /\ Color(pc) = us
      /\ To(m) \notin of_color(p, us)
      /\ To(m) \in CASE Type(pc) = "cannon" ->
                          (IF is_capture(p, m) THEN attacks_bb_cannon(From(m), occupied)
                           ELSE attacks_bb_rook(From(m), occupied))
                     [] Type(pc) = "bishop" -> attacks_bb_bishop(From(m), occupied) \cap Half[us]
                     [] OTHER -> Attacks(pc, From(m), occupied)
      /\ p.state.checkers = {} \/ m \in generate_evasions(p)

(* m: any pair of squares a caller or a protocol may hand in. *)
is_legal_move(p, m) == From(m) # To(m) /\ pseudo_legal(p, m) /\ is_legal(p, m)
=============================================================================
