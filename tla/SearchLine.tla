----------------------------- MODULE SearchLine -----------------------------
(***************************************************************************)
(* Lines of play: a position changed by moves and null moves and by their  *)
(* undoing, as the search and the callers of Position change it, together  *)
(* with the worker's accumulators.  What the redundant state of a position *)
(* says, what move generation and check detection answer, how a repetition *)
(* is judged and what an evaluation sums up must be the same whatever line *)
(* led there.                                                              *)
(***************************************************************************)
EXTENDS Accumulators

CONSTANTS
  Scenes    \* where the lines begin and what may be played in them:
            \*   men, stm, rule60  the FEN record
            \*   moves             the moves played (all legal ones when empty)
            \*   depth             the longest line
            \*   null              null moves are tried
            \*   worker            a worker's line, with accumulators
            \*   lazy              it evaluates its threats lazily
            \*   next              what it may search next

VARIABLES
  scene, pos,
  acc,      \* the accumulator stack
  entered   \* nothing has been played from this node yet
vars == <<scene, pos, acc, entered>>

Rules == INSTANCE Xiangqi

Placed(men) == [s \in Squares |-> IF s \in DOMAIN men THEN men[s] ELSE NoPiece]
KnownScenes == Scenes \cup UNION {sc.next : sc \in Scenes}
(* A line begins with a position that can occur: men on squares, both kings *)
(* there, and the side that has just moved has not left its own in check.   *)
ASSUME ScenesAssumption ==
  \A sc \in KnownScenes :
    /\ sc.men \in [DOMAIN sc.men -> Pieces] /\ DOMAIN sc.men \subseteq Squares
    /\ sc.stm \in Colors /\ sc.rule60 \in Nat /\ sc.next \subseteq KnownScenes
    /\ \A c \in Colors : Cardinality({s \in DOMAIN sc.men : sc.men[s] = <<c, "king">>}) = 1
    /\ ~Rules!InCheck(Placed(sc.men), Other(sc.stm))

Ply == Len(pos.state_stack)
Legal == generate(pos, "Legal")
AfterNull == Ply > 0 /\ pos.state.last_move = NoMove

Init ==
  /\ scene \in Scenes
  /\ pos = from_fen(scene.men, scene.stm, scene.rule60)
  /\ acc = NewStack(1)
  /\ entered = TRUE

Playable == {m \in Legal : scene.moves = {} \/ m \in scene.moves}

(* A caller's move: setting up a position, or a line without a network. *)
DoMove ==
  /\ ~scene.worker /\ Ply < scene.depth
  /\ \E m \in Playable : pos' = do_move(pos, m, gives_check(pos, m))
  /\ UNCHANGED <<scene, acc, entered>>
UndoMove ==
  /\ ~scene.worker /\ Ply > 0 /\ ~AfterNull
  /\ pos' = undo_move(pos, pos.state.last_move)
  /\ UNCHANGED <<scene, acc, entered>>

(* The same in a worker's search. *)
SearchMove ==
  /\ scene.worker /\ Ply < scene.depth
  /\ \E m \in Playable : /\ pos' = do_move(pos, m, gives_check(pos, m))
                         /\ acc' = push_acc_for_move(pos, acc, m)
  /\ entered' = TRUE
  /\ UNCHANGED scene
SearchUndo ==
  /\ scene.worker /\ Ply > 0 /\ ~AfterNull
  /\ pos' = undo_move(pos, pos.state.last_move)
  /\ acc' = pop(acc)
  /\ entered' = FALSE
  /\ UNCHANGED scene

(* No null move in check or after another one; the accumulators, which the  *)
(* side to move does not change, stay where they are.                       *)
NullMove ==
  /\ scene.null /\ Ply < scene.depth /\ pos.state.checkers = {} /\ ~AfterNull
  /\ pos' = do_null_move(pos)
  /\ entered' = TRUE
  /\ UNCHANGED <<scene, acc>>
UndoNull ==
  /\ AfterNull
  /\ pos' = undo_null_move(pos)
  /\ entered' = (entered /\ ~scene.worker)
  /\ UNCHANGED <<scene, acc>>

(* A node is evaluated, if at all, when it is entered. *)
Evaluate ==
  /\ scene.worker /\ entered
  /\ acc' = IF scene.lazy
            THEN evaluate_threat_side(pos, evaluate_threat_side(pos, acc, White), Black)
            ELSE evaluate_pos(pos, acc)
  /\ UNCHANGED <<scene, pos, entered>>

(* The worker, back at its root, is given another search. *)
NewSearch ==
  /\ scene.worker /\ Ply = 0
  /\ scene' \in scene.next
  /\ pos' = from_fen(scene'.men, scene'.stm, scene'.rule60)
  /\ acc' = reset(acc)
  /\ entered' = TRUE

Next ==
  DoMove \/ UndoMove \/ SearchMove \/ SearchUndo \/ NullMove \/ UndoNull \/ Evaluate \/ NewSearch

Spec == Init /\ [][Next]_vars

-----------------------------------------------------------------------------
(* Checks.                                                                  *)

(* Legal moves leave both kings standing. *)
KingsStand == \A c \in Colors : pieces(pos, c, "king") # {}

(* The checkers are those of the board. *)
CheckersKnown ==
  LET us == pos.side_to_move
  IN  pos.state.checkers = checkers_to(pos, Other(us), king_square(pos, us), all_pieces(pos))

(* A check is foreseen exactly: gives_check says before the move what the   *)
(* rules say after it, and checkers, which do_move computes only for moves  *)
(* that are said to give check, are known and are none exactly outside      *)
(* check.  No king is ever taken.                                           *)
(* (gives_check and set_check_info against do_move_inner.)                  *)
ChecksForeseen ==
  /\ KingsStand /\ CheckersKnown
  /\ entered =>
       /\ (pos.state.checkers # {}) <=> Rules!InCheck(pos.board, pos.side_to_move)
       /\ \A m \in Legal :
            gives_check(pos, m) <=> Rules!InCheck(Rules!After(pos.board, m), Other(pos.side_to_move))

-----------------------------------------------------------------------------
(* The redundant state of a position.                                       *)

InFilter(key) == Cardinality({i \in 1 .. Ply : Slot(pos.state_stack[i].key) = key})

AsFresh(fresh) ==
  LET kept == {"key", "pawn_key", "minor_piece_key", "non_pawn_key", "major_material",
               "checkers", "blockers_for_king", "pinners", "check_squares", "need_full_check"}
  IN  /\ \A f \in {"by_type", "by_color", "piece_count", "mid_encoding"} : pos[f] = fresh[f]
      /\ \A f \in kept : pos.state[f] = fresh.state[f]

(* Everything do_move, undo_move and the null moves keep up to date is what *)
(* a fresh reading of the board gives, after any line: bitboards, counts,   *)
(* the four keys, the material, the check information, the middle encoding  *)
(* and the repetition filter, whose counts are those of the line's keys.    *)
DerivedState ==
  LET men == [s \in {t \in Squares : pos.board[t] # NoPiece} |-> pos.board[s]]
  IN  /\ AsFresh(from_fen(men, pos.side_to_move, pos.state.rule60))
      /\ \A s \in FilterSlots : pos.bloom_filter[s] = InFilter(s) % FilterWidth

(* Undoing a move or a null move gives back the very position it was played *)
(* in (undo_move restores the board from what it reads off the move and the *)
(* captured piece, and pops the rest).                                      *)
UndoRestores ==
  [][Len(pos'.state_stack) > Ply =>
       pos = IF pos'.state.last_move = NoMove THEN undo_null_move(pos')
             ELSE undo_move(pos', pos'.state.last_move)]_vars

(* Null moves aside, the moves since the last capture, or since the record  *)
(* the line began with, are all accounted for: in rule60, or as checks and  *)
(* answers beyond the free ones.  The window in which a repetition is       *)
(* looked for reaches back to that capture, or to the last null move.       *)
PliesAccounted ==
  LET made(i) == IF i = Ply THEN pos.state ELSE pos.state_stack[i + 1]
      captures == {i \in 1 .. Ply : made(i).captured_piece # NoPiece}
      nulls == {i \in 1 .. Ply : made(i).last_move = NoMove}
      latest(S) == IF S = {} THEN 0 ELSE CHOOSE i \in S : \A j \in S : j <= i
      quiet == {i \in latest(captures) + 1 .. Ply : i \notin nulls}
      reversible == Cardinality(quiet) + (IF captures = {} THEN scene.rule60 ELSE 0)
      since_null == Ply - latest(nulls)
  IN  Window(pos) = IF reversible < since_null THEN reversible ELSE since_null

-----------------------------------------------------------------------------
(* Repetitions.                                                             *)

(* The earlier occurrences of this position, with the same side to move and *)
(* no null move since, as numbers of plies ago.                             *)
Occurrences ==
  {i \in 1 .. Ply : /\ i % 2 = 0
                    /\ state_at(pos, i).key = pos.state.key
                    /\ \A n \in 0 .. i - 1 : state_at(pos, n).last_move # NoMove}
JudgedPlies == {0, 5, 100}

JudgedByTheRules(ply, v, occurrences) ==
  LET first == Least(occurrences)
      second == Least(occurrences \ {first})
      always(i, parity) == \A n \in 0 .. i : n % 2 = parity => InCheckAt(pos, n)
  IN  IF occurrences = {}
      THEN v = check_rule60_and_material_rj(pos, ply, NoValue)
      ELSE Cardinality(occurrences) > 1 =>
             /\ v.kind = "Definitive"
             /\ always(second, 0) /\ ~always(first, 1) => v.value = mate_in(ply)
             /\ always(second, 1) /\ ~always(first, 0) => v.value = mated_in(ply)

(* A repetition is judged for what the line really holds, although the     *)
(* filter that is asked first mixes keys up.  Without an earlier occurrence *)
(* the verdict is that of rule60 and the material; a third occurrence always*)
(* decides; and when it decides by the checks, the side that checked with   *)
(* every move while the other did not has lost.                             *)
(* (rule_judge, which reads the filter before it searches the states.)      *)
RepetitionByTheRules ==
  \A ply \in JudgedPlies : JudgedByTheRules(ply, rule_judge(pos, ply), Occurrences)

-----------------------------------------------------------------------------
(* Accumulators.                                                            *)

MaxDirtyThreats == 64
LeadFromTo(before, after, dirty) ==
  /\ Cardinality(dirty.threats) <= MaxDirtyThreats
  /\ \A c \in Colors :
       \/ dirty.requires_refresh[c]
       \/ Adjust(FreshThreats(before, c), threat_changed_indices(c, Mirror(after, c), dirty, TRUE),
                 threat_changed_indices(c, Mirror(after, c), dirty, FALSE)) = FreshThreats(after, c)

(* An accumulator marked computed holds every active feature of the current *)
(* position once and nothing else, however the line came here and whatever  *)
(* other lines left on the stack: through incremental updates, refreshes,   *)
(* captures that change a bucket, kings that change the mirror, null moves, *)
(* and threats brought forward or back along the stack.  In a line without  *)
(* accumulators, the threats that each move would add and remove fit their  *)
(* array, and lead from the threat features before it to those after it     *)
(* when no refresh is due.                                                  *)
AccumulatorsExact ==
  /\ \A c \in Colors :
       /\ acc.psq[Top(acc)].computed[c] => acc.psq[Top(acc)].acc[c] = FreshPsq(pos, c)
       /\ acc.threat[Top(acc)].computed[c] => acc.threat[Top(acc)].acc[c] = FreshThreats(pos, c)
  /\ entered /\ ~scene.worker /\ Ply < scene.depth =>
       \A m \in Playable : LeadFromTo(pos, do_move(pos, m, gives_check(pos, m)), DirtyThreats(pos, m))
=============================================================================
