----------------------------- MODULE SearchMoves -----------------------------
(***************************************************************************)
(* The moves of a node in the lines of play of SearchLine: those that are   *)
(* generated, in which order a worker picks them, and what the exchanges    *)
(* they begin are worth.                                                    *)
(***************************************************************************)
EXTENDS SearchLine, MovePick

CONSTANT Histories  \* what a worker may have learnt about the moves, for the picker

-----------------------------------------------------------------------------
(* Move generation, legality, and the picker.                               *)

(* What a node may find in the table: nothing, a move of another position   *)
(* (keys collide), or one of its own.                                       *)
Some(S) == IF S = {} THEN {} ELSE {CHOOSE m \in S : TRUE}
TableMoves(captures, quiets, offered) ==
  {NoMove, <<king_square(pos, Other(pos.side_to_move)), king_square(pos, pos.side_to_move)>>}
    \cup Some(captures) \cup Some(quiets) \cup Some(offered)
Never == -1

PickedOnce(picks, m, depth, n, captures, offered) ==
  LET found == {m} \cap offered
      picked == {picks[i] : i \in DOMAIN picks}
  IN  /\ \A i, j \in DOMAIN picks : picks[i] = picks[j] => i = j
      /\ found # {} => picks[1] = m
      /\ CASE pos.state.checkers # {} -> picked = offered
           [] pos.state.checkers = {} /\ depth = 0 -> picked = captures \cup found
           [] OTHER -> /\ captures \cup found \subseteq picked /\ picked \subseteq offered
                       /\ IF n = Never THEN picked = offered
                          ELSE \A i \in DOMAIN picks : i > n => picks[i] \in captures \cup found
PickedTakes(picks, m, threshold, captures) ==
  {picks[i] : i \in DOMAIN picks} = {x \in captures : x = m \/ see_ge(pos, x, threshold)}
AllPicked(captures, quiets, offered) ==
  \A h \in Histories, m \in TableMoves(captures, quiets, offered) :
    /\ \A x \in {<<0, Never>>, <<1, 0>>, <<1, 3>>, <<1, Never>>} :
         PickedOnce(Picked(new_main(pos, m, x[1]), pos, h, x[2]), m, x[1], x[2], captures, offered)
    /\ pos.state.checkers = {} =>
         \A threshold \in {-100, 0, 500} :
           PickedTakes(Picked(new_probcut(pos, m, threshold), pos, h, Never), m, threshold, captures)

MoveSetsAgree(pseudo, captures, quiets, offered, legal) ==
  /\ Cardinality(pseudo) <= MAX_MOVES
  /\ Ply = 0 => AllPicked(captures, quiets, offered)
  /\ legal = Rules!LegalMoves(pos.board, pos.side_to_move)
  /\ captures \cap quiets = {} /\ captures \cup quiets = pseudo
  /\ \A m \in pseudo : pseudo_legal(pos, m) <=> m \in offered
  /\ \A m \in pseudo : is_legal_move(pos, m) <=> m \in legal

(* The legal moves generated are those of the rules of the game, and the    *)
(* parts of the generator agree with each other and with pseudo_legal.  A   *)
(* node that picks all its moves gets each of them once, the table move     *)
(* first, whatever the histories say and however often a move was put off   *)
(* in the array it is read from; quiet moves skipped at any point cost no   *)
(* capture; and quiescence and ProbCut get exactly their captures.          *)
(* (movegen.rs, legality.rs: pins, cannons with two screens, hollow cannons *)
(* and facing kings; movepick.rs: bad captures, quiets and bad quiets that  *)
(* share the array's front.)  A node is looked at before a move is played   *)
(* from it, as the program does.                                            *)
LegalMovesByTheRules ==
  entered => MoveSetsAgree(generate(pos, "PseudoLegal"), generate(pos, "Captures"), generate(pos, "Quiets"),
                           generate(pos, IF pos.state.checkers = {} THEN "PseudoLegal" ELSE "Evasions"),
                           Legal)

-----------------------------------------------------------------------------
(* Exchanges.                                                               *)

(* What an exchange wins when both sides take with their least man and stop *)
(* when it pays: the men on the square change hands until one side stops.   *)
RECURSIVE Reply(_, _, _, _)
Reply(p, to, taken, stake) ==
  LET x == Answering(p, taken)
      takers == Takers(p, x)
      pt == LeastTaker(p, takers)
      guarded == x.all_attackers \cap of_color(p, Other(x.stm)) # {}
  IN  IF takers = {} \/ (pt = "king" /\ guarded) THEN 0
      ELSE IF pt = "king" THEN stake
      ELSE Larger(0, stake - Reply(p, to, Taken(p, to, x, takers, pt), PieceValue(<<x.stm, pt>>)))
Exchange(p, m) ==
  PieceValue(piece_on(p, To(m))) - Reply(p, To(m), SeeStart(p, m), PieceValue(piece_on(p, From(m))))

(* see_ge, which follows an exchange only until its threshold is decided,   *)
(* gives the answer of the exchange played out: a threshold is reached      *)
(* exactly when it is at most what the exchange wins, so that the answers   *)
(* for all thresholds fit together.                                         *)
(* (legality.rs: the early exits, the parity of res, the king that may not  *)
(* take into an attack, men uncovered along lines, pinned men.)             *)
SeeIsExchange ==
  Ply = 0 =>
  \A m \in generate(pos, "PseudoLegal") :
    LET won == Exchange(pos, m)
    IN  \A d \in {-1500, -500, -100, -1, 0, 1, 100, 500, 1500} : see_ge(pos, m, won + d) <=> d <= 0
=============================================================================
