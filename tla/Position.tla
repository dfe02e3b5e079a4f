------------------------------ MODULE Position ------------------------------
(***************************************************************************)
(* A position and the moves on it (crates/pikarust-core/src/position):     *)
(* the board with its redundant bitboards, counts and keys, the state      *)
(* information kept per ply, the checks foreseen by set_check_info, and    *)
(* do/undo of moves and null moves.                                        *)
(*                                                                         *)
(* A position is a record; every method of the Rust type is an operator    *)
(* from the position before to the position after.  A Zobrist key is the   *)
(* set of the pairs whose random numbers were xored into it, with the side *)
(* to move: xor is symmetric difference, and distinct sets stand for       *)
(* distinct 64-bit numbers.  The repetition filter, which sees the low     *)
(* bits of a key only, gets them from Slot.                                *)
(***************************************************************************)
EXTENDS Board, Sequences, SequencesExt

CONSTANTS
  FreeChecks,   \* checks counted by rule60 before they are set aside (10 in the code)
  FilterSlots,  \* slots of the repetition filter (0 .. 2^14 - 1 in the code)
  FilterWidth,  \* a slot counts modulo this (256, a u8, in the code)
  Slot(_)       \* the slot of a key

ASSUME PositionAssumption == FreeChecks \in Nat /\ FilterWidth \in Nat \ {0}

NoMove == <<90, 90>>
From(m) == m[1]
To(m) == m[2]

-----------------------------------------------------------------------------
(* Keys and the repetition filter.                                          *)

Xor(a, b) == (a \ b) \cup (b \ a)
PieceKey(pc, s) == {<<pc, s>>}
SideKey == {<<NoPiece, 90>>}

insert(filter, key) == [filter EXCEPT ![Slot(key)] = (@ + 1) % FilterWidth]
remove(filter, key) == [filter EXCEPT ![Slot(key)] = (@ + FilterWidth - 1) % FilterWidth]
count(filter, key) == filter[Slot(key)]

-----------------------------------------------------------------------------
(* Reading a position.                                                      *)

piece_on(p, s) == p.board[s]
all_pieces(p) == p.by_type["all"]
of_type(p, pt) == p.by_type[pt]
of_color(p, c) == p.by_color[c]
pieces(p, c, pt) == p.by_color[c] \cap p.by_type[pt]
king_square(p, c) == CHOOSE s \in pieces(p, c, "king") : \A t \in pieces(p, c, "king") : s <= t
count_type(p, c, pt) == p.piece_count[<<c, pt>>]
is_capture(p, m) == p.board[To(m)] # NoPiece

-----------------------------------------------------------------------------
(* Changing the board.  mid_encoding packs, per colour, how the pieces of   *)
(* each type lean to the left wing: how many more stand left of file E than *)
(* right of it, and the same sum weighted by place.                         *)

Lean(pc, s) ==
  LET wing == IF File(s) < 4 THEN File(s) ELSE 8 - File(s)
      rank == IF Color(pc) = White THEN Rank(s) ELSE 9 - Rank(s)
  IN  IF File(s) = 4 \/ Type(pc) = "king" THEN <<0, 0>>
      ELSE IF File(s) < 4 THEN <<1, (3 - wing) * 10 + rank>>
      ELSE <<-1, -((3 - wing) * 10 + rank)>>
Plus(a, b) == <<a[1] + b[1], a[2] + b[2]>>
Minus(a, b) == <<a[1] - b[1], a[2] - b[2]>>

put_piece(p, pc, s) ==
  [p EXCEPT !.board[s] = pc,
            !.by_type["all"] = @ \cup {s},
            !.by_type[Type(pc)] = @ \cup {s},
            !.by_color[Color(pc)] = @ \cup {s},
            !.piece_count[pc] = @ + 1,
            !.mid_encoding[pc] = Plus(@, Lean(pc, s))]

remove_piece(p, s) ==
  LET pc == p.board[s]
  IN  [p EXCEPT !.board[s] = NoPiece,
                !.by_type["all"] = Xor(@, {s}),
                !.by_type[Type(pc)] = Xor(@, {s}),
                !.by_color[Color(pc)] = Xor(@, {s}),
                !.piece_count[pc] = @ - 1,
                !.mid_encoding[pc] = Minus(@, Lean(pc, s))]

move_piece(p, from, to) ==
  LET pc == p.board[from]
  IN  [p EXCEPT !.board[from] = NoPiece, !.board[to] = pc,
                !.by_type["all"] = Xor(@, {from, to}),
                !.by_type[Type(pc)] = Xor(@, {from, to}),
                !.by_color[Color(pc)] = Xor(@, {from, to}),
                !.mid_encoding[pc] = Plus(Minus(@, Lean(pc, from)), Lean(pc, to))]

-----------------------------------------------------------------------------
(* Attacks on a square (legality.rs).                                       *)

attackers_to(p, s, occupied) ==
  (pawn_attacks_to_bb(White, s) \cap pieces(p, White, "pawn"))
    \cup (pawn_attacks_to_bb(Black, s) \cap pieces(p, Black, "pawn"))
    \cup (attacks_bb_knight_to(s, occupied) \cap of_type(p, "knight"))
    \cup (attacks_bb_rook(s, occupied) \cap of_type(p, "rook"))
    \cup (attacks_bb_cannon(s, occupied) \cap of_type(p, "cannon"))
    \cup (attacks_bb_bishop(s, occupied) \cap of_type(p, "bishop"))
    \cup (pseudo_attacks_advisor(s) \cap of_type(p, "advisor"))
    \cup (pseudo_attacks_king(s) \cap of_type(p, "king"))

checkers_to(p, c, s, occupied) ==
  of_color(p, c) \cap
    (  (pawn_attacks_to_bb(c, s) \cap of_type(p, "pawn"))
         \cup (attacks_bb_knight_to(s, occupied) \cap of_type(p, "knight"))
         \cup (attacks_bb_rook(s, occupied) \cap (of_type(p, "king") \cup of_type(p, "rook")))
         \cup (attacks_bb_cannon(s, occupied) \cap of_type(p, "cannon")))

(* The pieces that shield c's king from a sniper: what blockers_for_king[c] *)
(* and pinners[Other(c)] are set to.                                        *)
Snipers(p, c) ==
  LET ksq == king_square(p, c)
  IN  of_color(p, Other(c)) \cap
        (  (attacks_bb_rook(ksq, {})
              \cap (of_type(p, "rook") \cup of_type(p, "cannon") \cup of_type(p, "king")))
             \cup (attacks_bb_knight(ksq, {}) \cap of_type(p, "knight")))
(* The men between the king and each sniper; other snipers are seen through. *)
Shields(p, c, snipers) ==
  [s \in snipers |->
     between_bb(king_square(p, c), s)
       \cap Xor(all_pieces(p), IF s \in of_type(p, "cannon") THEN {s} ELSE snipers \ of_type(p, "cannon"))]
Blocked(p, shield) ==
  {s \in DOMAIN shield : Cardinality(shield[s]) = IF s \in of_type(p, "cannon") THEN 2 ELSE 1}
BlockersAndPinners(p, c, shield) ==
  [blockers |-> UNION {shield[s] : s \in Blocked(p, shield)},
   pinners |-> {s \in Blocked(p, shield) : shield[s] \cap of_color(p, c) # {}}]
update_blockers(p, c) == BlockersAndPinners(p, c, Shields(p, c, Snipers(p, c)))

(* The squares from which a man of each type checks the king on ksq, and    *)
(* those that give a cannon in sight of the king a screen.                  *)
DirectChecks(p, us, ksq) ==
  [pt \in PieceTypes |->
     CASE pt = "pawn" -> pawn_attacks_to_bb(us, ksq)
       [] pt = "knight" -> attacks_bb_knight_to(ksq, all_pieces(p))
       [] pt = "cannon" -> attacks_bb_cannon(ksq, all_pieces(p))
       [] pt = "rook" -> attacks_bb_rook(ksq, all_pieces(p))
       [] OTHER -> {}]
HollowScreens(p, us, ksq, sight) == UNION {between_bb(s, ksq) : s \in sight \cap pieces(p, us, "cannon")}
CheckSquares(p, us, ksq, direct) ==
  [pt \in PieceTypes |->
     direct[pt] \cup (IF pt = "king" THEN {} ELSE HollowScreens(p, us, ksq, direct["rook"]))]

set_check_info(p) ==
  LET us == p.side_to_move
      them == Other(us)
      ksq == king_square(p, them)
      WithBlockers(q, by) == [q EXCEPT !.state.blockers_for_king = [c \in Colors |-> by[c].blockers],
                                       !.state.pinners = [c \in Colors |-> by[Other(c)].pinners]]
  IN  WithBlockers(
        [p EXCEPT !.state.need_full_check =
                     \/ p.state.checkers # {}
                     \/ attacks_bb_rook(king_square(p, us), {}) \cap pieces(p, them, "cannon") # {},
                  !.state.check_squares = CheckSquares(p, us, ksq, DirectChecks(p, us, ksq))],
        [c \in Colors |-> update_blockers(p, c)])

(* A pinned man may move along its line; a cannon only without taking. *)
StaysOnLine_AnyCannon(p, m, ksq) == aligned(From(m), To(m), ksq)
StaysOnLine(p, m, ksq) ==
  /\ Type(piece_on(p, From(m))) # "cannon" \/ ~is_capture(p, m)
  /\ aligned(From(m), To(m), ksq)

is_legal(p, m) ==
  LET us == p.side_to_move
      pc == piece_on(p, From(m))
      ksq == king_square(p, us)
      occupied == Xor(all_pieces(p), {From(m)}) \cup {To(m)}
  IN  IF Type(pc) = "king" THEN checkers_to(p, Other(us), To(m), occupied) = {}
      ELSE \/ /\ ~p.state.need_full_check
              /\ \/ From(m) \notin p.state.blockers_for_king[us]
                 \/ StaysOnLine(p, m, ksq)
           \/ checkers_to(p, Other(us), ksq, occupied) \subseteq {To(m)}

(* A cannon that moves along the line it looks down checks by taking the    *)
(* man behind the one it would otherwise need.                              *)
LooksDown_Never(p, m, ksq) == FALSE
LooksDown(p, m, ksq) ==
  /\ Type(piece_on(p, From(m))) = "cannon"
  /\ From(m) \in p.state.check_squares["rook"]
  /\ aligned(From(m), To(m), ksq)

gives_check(p, m) ==
  LET them == Other(p.side_to_move)
      ksq == king_square(p, them)
      pt == Type(piece_on(p, From(m)))
  IN  \/ IF LooksDown(p, m, ksq)
         THEN is_capture(p, m) /\ To(m) \in ray_pass_bb(ksq, From(m))
         ELSE To(m) \in p.state.check_squares[pt]
      \/ /\ From(m) \in p.state.blockers_for_king[them]
         /\ ~aligned(From(m), To(m), ksq) \/ is_capture(p, m)

-----------------------------------------------------------------------------
(* A position from a FEN record: from_fen, set_state.                       *)

EmptyState ==
  [key |-> {}, pawn_key |-> {}, minor_piece_key |-> {}, non_pawn_key |-> [c \in Colors |-> {}],
   major_material |-> [c \in Colors |-> 0],
   check10 |-> [c \in Colors |-> 0], rule60 |-> 0, plies_from_null |-> 0,
   checkers |-> {}, blockers_for_king |-> [c \in Colors |-> {}],
   pinners |-> [c \in Colors |-> {}], check_squares |-> [pt \in PieceTypes |-> {}],
   need_full_check |-> FALSE, captured_piece |-> NoPiece, last_move |-> NoMove]

(* The keys and the material set_state computes from the board. *)
Men(p, pts) == {<<piece_on(p, s), s>> : s \in {t \in all_pieces(p) : Type(piece_on(p, t)) \in pts}}
MenOf(p, c, pts) == {x \in Men(p, pts) : Color(x[1]) = c}
Material(p, c) ==
  1305 * Cardinality(MenOf(p, c, {"rook"})) + 773 * Cardinality(MenOf(p, c, {"cannon"}))
    + 720 * Cardinality(MenOf(p, c, {"knight"}))
set_state(p) ==
  LET keyed ==
        [p EXCEPT !.state.key = Men(p, PieceTypes)
                                  \cup (IF p.side_to_move = Black THEN SideKey ELSE {}),
                  !.state.pawn_key = Men(p, {"pawn"}),
                  !.state.minor_piece_key = Men(p, {"cannon", "knight"}),
                  !.state.non_pawn_key = [c \in Colors |-> MenOf(p, c, PieceTypes \ {"pawn"})],
                  !.state.major_material = [c \in Colors |-> Material(p, c)],
                  !.state.checkers = checkers_to(p, Other(p.side_to_move),
                                                 king_square(p, p.side_to_move), all_pieces(p))]
  IN  set_check_info(keyed)

EmptyPosition ==
  [board |-> [s \in Squares |-> NoPiece],
   by_type |-> [pt \in PieceTypes \cup {"all"} |-> {}], by_color |-> [c \in Colors |-> {}],
   piece_count |-> [pc \in Pieces |-> 0], mid_encoding |-> [pc \in Pieces |-> <<0, 0>>],
   side_to_move |-> White, state |-> EmptyState, state_stack |-> <<>>,
   bloom_filter |-> [s \in FilterSlots |-> 0]]

(* men: the pieces of the FEN record by square. *)
from_fen(men, stm, rule60) ==
  LET placed == FoldSet(LAMBDA s, p : put_piece(p, men[s], s), EmptyPosition, DOMAIN men)
  IN  set_state([placed EXCEPT !.side_to_move = stm, !.state.rule60 = rule60])

-----------------------------------------------------------------------------
(* Doing and undoing a move (do_move.rs).                                   *)

(* A check is counted by rule60 up to the side's FreeChecks-th; later checks *)
(* and the answers to them are counted in check10 alone.                     *)
IsFreeCheck(checks, c) == checks[c] > FreeChecks
Counted_ChecksOnly(st, us, gives) ==
  LET checks == IF gives THEN [st.check10 EXCEPT ![us] = @ + 1] ELSE st.check10
      free == gives /\ IsFreeCheck(checks, us)
      answer == ~free /\ IsFreeCheck(checks, Other(us)) /\ st.checkers # {}
  IN  [st EXCEPT !.check10 = checks,
                 !.rule60 = IF free \/ answer THEN @ ELSE @ + 1,
                 !.plies_from_null = @ + 1]
Counted(st, us, gives) ==
  LET them == Other(us)
      checks == IF gives THEN [st.check10 EXCEPT ![us] = @ + 1] ELSE st.check10
      free == gives /\ IsFreeCheck(checks, us)
      answer == ~free /\ IsFreeCheck(checks, them) /\ st.checkers # {}
  IN  [st EXCEPT !.check10 = IF answer THEN [checks EXCEPT ![them] = @ + 1] ELSE checks,
                 !.rule60 = IF free \/ answer THEN @ ELSE @ + 1,
                 !.plies_from_null = @ + 1]

(* The keys and the material after pc leaves or enters s. *)
Keyed(st, pc, s) ==
  LET k == PieceKey(pc, s)
  IN  IF Type(pc) = "pawn" THEN [st EXCEPT !.key = Xor(@, k), !.pawn_key = Xor(@, k)]
      ELSE [st EXCEPT !.key = Xor(@, k),
                      !.non_pawn_key[Color(pc)] = Xor(@, k),
                      !.minor_piece_key = IF Type(pc) \in {"knight", "cannon"} THEN Xor(@, k) ELSE @]
Captured(st, pc, s) ==
  [Keyed(st, pc, s) EXCEPT !.major_material[Color(pc)] = @ - (IF IsMajor(Type(pc)) THEN PieceValue(pc) ELSE 0),
                           !.check10 = [c \in Colors |-> 0],
                           !.rule60 = 0]

(* The board after m, and the keys, counts and material after it. *)
Moved(p, m) ==
  move_piece(IF is_capture(p, m) THEN remove_piece(p, To(m)) ELSE p, From(m), To(m))
TakenFrom(st, captured, s) == IF captured = NoPiece THEN st ELSE Captured(st, captured, s)
Rekeyed(p, m, gives) ==
  LET pc == piece_on(p, From(m))
  IN  Keyed(Keyed(TakenFrom(Counted(p.state, p.side_to_move, gives), piece_on(p, To(m)), To(m)),
                  pc, From(m)), pc, To(m))
(* What is left to do when the board has changed: moved. *)
FinishMove(p, m, gives, moved) ==
  LET us == p.side_to_move
  IN  set_check_info(
        [moved EXCEPT !.bloom_filter = insert(@, p.state.key),
                      !.state_stack = Append(@, p.state),
                      !.state = [Rekeyed(p, m, gives) EXCEPT
                                   !.key = Xor(@, SideKey),
                                   !.last_move = m,
                                   !.captured_piece = piece_on(p, To(m)),
                                   !.checkers = IF gives
                                                THEN checkers_to(moved, us, king_square(moved, Other(us)),
                                                                 all_pieces(moved))
                                                ELSE {}],
                      !.side_to_move = Other(us)])
do_move(p, m, gives) == FinishMove(p, m, gives, Moved(p, m))

PutBack_OnFrom(p, m, captured) == put_piece(p, captured, From(m))
PutBack(p, m, captured) == put_piece(p, captured, To(m))

(* The board before the last move, which was m. *)
Restored(back, m, captured) == IF captured = NoPiece THEN back ELSE PutBack(back, m, captured)
undo_move(p, m) ==
  [Restored(move_piece(p, To(m), From(m)), m, p.state.captured_piece) EXCEPT
     !.side_to_move = Other(@),
     !.state = Last(p.state_stack),
     !.state_stack = Front(@),
     !.bloom_filter = remove(@, Last(p.state_stack).key)]

do_null_move(p) ==
  set_check_info(
    [p EXCEPT !.bloom_filter = insert(@, p.state.key),
              !.state_stack = Append(@, p.state),
              !.state.key = Xor(@, SideKey),
              !.state.plies_from_null = 0,
              !.state.last_move = NoMove,
              !.state.captured_piece = NoPiece,
              !.side_to_move = Other(@)])

undo_null_move_Counted(p) ==
  [p EXCEPT !.state = Last(p.state_stack), !.state_stack = Front(@), !.side_to_move = Other(@)]
undo_null_move(p) ==
  [p EXCEPT !.state = Last(p.state_stack),
            !.state_stack = Front(@),
            !.side_to_move = Other(@),
            !.bloom_filter = remove(@, Last(p.state_stack).key)]
=============================================================================
