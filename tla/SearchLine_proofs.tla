-------------------------- MODULE SearchLine_proofs --------------------------
(***************************************************************************)
(* Proofs about SearchLine: for any scenes, filters and numbers of free     *)
(* checks, whatever moves and null moves a line consists of and however     *)
(* often it is taken back.                                                  *)
(***************************************************************************)
EXTENDS SearchLine, FiniteSetTheorems, SequenceTheorems, WellFoundedInduction, TLAPS

-----------------------------------------------------------------------------
(* The shape of a position.                                                 *)

StateFields ==
  {"key", "pawn_key", "minor_piece_key", "non_pawn_key", "major_material", "check10", "rule60",
   "plies_from_null", "checkers", "blockers_for_king", "pinners", "check_squares",
   "need_full_check", "captured_piece", "last_move"}
CheckFields == {"blockers_for_king", "pinners", "check_squares", "need_full_check"}
BoardFields == {"board", "by_type", "by_color", "piece_count", "mid_encoding"}
OtherFields == {"side_to_move", "state", "state_stack", "bloom_filter"}
PositionFields == BoardFields \cup OtherFields

IsState(st) == st = [f \in StateFields |-> st[f]]
Shaped(p) == p = [f \in PositionFields |-> p[f]] /\ IsState(p.state)
IsSeq(s) == Len(s) \in Nat /\ s = [i \in 1..Len(s) |-> s[i]]

Occupants == Pieces \cup {NoPiece}
Kinds == PieceTypes \cup {"all"}
SetsTyped(p) ==
  /\ p.board \in [Squares -> Occupants]
  /\ p.by_type \in [Kinds -> SUBSET Squares]
  /\ p.by_color \in [Colors -> SUBSET Squares]
  /\ p.piece_count \in [Pieces -> Int]
  /\ p.mid_encoding \in [Pieces -> Int \X Int]

\* A move of a man to another square.
IsMoveIn(p, m) == m \in Squares \X Squares /\ From(m) # To(m) /\ p.board[From(m)] \in Pieces

\* The empty square, the sides and the kinds of men are told apart.
LEMMA PieceFacts ==
  /\ NoPiece \notin Pieces /\ "all" \notin PieceTypes
  /\ \A c \in Colors : Other(c) \in Colors /\ Other(Other(c)) = c /\ Other(c) # c
  /\ \A pc \in Pieces : Type(pc) \in PieceTypes /\ Color(pc) \in Colors
  /\ Type(NoPiece) \notin Kinds /\ Color(NoPiece) \notin Colors
  BY DEF NoPiece, Pieces, Colors, PieceTypes, Other, White, Black, Type, Color, Kinds

\* q is p with pc on s: what put_piece changes.
PutOn(p, q, pc, s) ==
  /\ Shaped(q)
  /\ q.board = [p.board EXCEPT ![s] = pc]
  /\ q.by_type = [k \in Kinds |-> p.by_type[k] \cup (IF k \in {"all", Type(pc)} THEN {s} ELSE {})]
  /\ q.by_color = [c \in Colors |-> p.by_color[c] \cup (IF c = Color(pc) THEN {s} ELSE {})]
  /\ q.piece_count = [x \in Pieces |-> p.piece_count[x] + (IF x = pc THEN 1 ELSE 0)]
  /\ q.mid_encoding = [p.mid_encoding EXCEPT ![pc] = Plus(@, Lean(pc, s))]
  /\ \A f \in OtherFields : q[f] = p[f]

\* What put_piece, remove_piece and move_piece do to the board and the sets and sums kept beside it.
LEMMA PutFields ==
  ASSUME NEW p, Shaped(p), SetsTyped(p), NEW pc \in Pieces, NEW s \in Squares
  PROVE  PutOn(p, put_piece(p, pc, s), pc, s)
<1> DEFINE q == put_piece(p, pc, s)
<1>1. Shaped(q)
  BY DEF put_piece, Shaped, IsState, PositionFields, BoardFields, OtherFields
<1>2. q.board = [p.board EXCEPT ![s] = pc]
  BY PieceFacts DEF put_piece, Shaped, IsState, PositionFields, BoardFields, OtherFields, SetsTyped
<1>3. q.by_type = [k \in Kinds |-> p.by_type[k] \cup (IF k \in {"all", Type(pc)} THEN {s} ELSE {})]
  BY PieceFacts DEF put_piece, Shaped, IsState, PositionFields, BoardFields, OtherFields, SetsTyped, Kinds, Xor
<1>4. q.by_color = [c \in Colors |-> p.by_color[c] \cup (IF c = Color(pc) THEN {s} ELSE {})]
  BY PieceFacts DEF put_piece, Shaped, IsState, PositionFields, BoardFields, OtherFields, SetsTyped, Xor
<1>5. q.piece_count = [x \in Pieces |-> p.piece_count[x] + (IF x = pc THEN 1 ELSE 0)]
  BY PieceFacts DEF put_piece, Shaped, IsState, PositionFields, BoardFields, OtherFields, SetsTyped
<1>6. q.mid_encoding = [p.mid_encoding EXCEPT ![pc] = Plus(@, Lean(pc, s))]
  BY PieceFacts DEF put_piece, Shaped, IsState, PositionFields, BoardFields, OtherFields, SetsTyped
<1>7. \A f \in OtherFields : q[f] = p[f]
  BY DEF put_piece, Shaped, IsState, PositionFields, BoardFields, OtherFields
<1> QED
  BY <1>1, <1>2, <1>3, <1>4, <1>5, <1>6, <1>7 DEF PutOn

\* q is p without the man on s: remove_piece.
TakenOff(p, q, s) ==
  /\ Shaped(q)
  /\ q.board = [p.board EXCEPT ![s] = NoPiece]
  /\ q.by_type = [k \in Kinds |-> Xor(p.by_type[k], IF k \in {"all", Type(p.board[s])} THEN {s} ELSE {})]
  /\ q.by_color = [c \in Colors |-> Xor(p.by_color[c], IF c = Color(p.board[s]) THEN {s} ELSE {})]
  /\ q.piece_count = [x \in Pieces |-> p.piece_count[x] - (IF x = p.board[s] THEN 1 ELSE 0)]
  /\ q.mid_encoding = [p.mid_encoding EXCEPT ![p.board[s]] = Minus(@, Lean(p.board[s], s))]
  /\ \A f \in OtherFields : q[f] = p[f]

\* remove_piece takes the man on s off.
LEMMA RemoveFields ==
  ASSUME NEW p, Shaped(p), SetsTyped(p), NEW s \in Squares, p.board[s] \in Pieces
  PROVE  TakenOff(p, remove_piece(p, s), s)
<1> DEFINE q == remove_piece(p, s)
<1>1. Shaped(q)
  BY DEF remove_piece, Shaped, IsState, PositionFields, BoardFields, OtherFields
<1>2. q.board = [p.board EXCEPT ![s] = NoPiece]
  BY PieceFacts DEF remove_piece, Shaped, IsState, PositionFields, BoardFields, OtherFields, SetsTyped
<1>3. q.by_type = [k \in Kinds |-> Xor(p.by_type[k], IF k \in {"all", Type(p.board[s])} THEN {s} ELSE {})]
  BY PieceFacts DEF remove_piece, Shaped, IsState, PositionFields, BoardFields, OtherFields, SetsTyped, Kinds, Xor
<1>4. q.by_color = [c \in Colors |-> Xor(p.by_color[c], IF c = Color(p.board[s]) THEN {s} ELSE {})]
  BY PieceFacts DEF remove_piece, Shaped, IsState, PositionFields, BoardFields, OtherFields, SetsTyped, Xor
<1>5. q.piece_count = [x \in Pieces |-> p.piece_count[x] - (IF x = p.board[s] THEN 1 ELSE 0)]
  BY PieceFacts DEF remove_piece, Shaped, IsState, PositionFields, BoardFields, OtherFields, SetsTyped
<1>6. q.mid_encoding = [p.mid_encoding EXCEPT ![p.board[s]] = Minus(@, Lean(p.board[s], s))]
  BY PieceFacts DEF remove_piece, Shaped, IsState, PositionFields, BoardFields, OtherFields, SetsTyped
<1>7. \A f \in OtherFields : q[f] = p[f]
  BY DEF remove_piece, Shaped, IsState, PositionFields, BoardFields, OtherFields
<1> QED
  BY <1>1, <1>2, <1>3, <1>4, <1>5, <1>6, <1>7 DEF TakenOff

\* q is p with what stands on s, if anything, on t: move_piece.
ShiftedTo(p, q, s, t) ==
  /\ Shaped(q)
  /\ q.board = [p.board EXCEPT ![s] = NoPiece, ![t] = p.board[s]]
  /\ q.by_type = [k \in Kinds |-> Xor(p.by_type[k], IF k \in {"all", Type(p.board[s])} THEN {s, t} ELSE {})]
  /\ q.by_color = [c \in Colors |-> Xor(p.by_color[c], IF c = Color(p.board[s]) THEN {s, t} ELSE {})]
  /\ q.piece_count = p.piece_count
  /\ q.mid_encoding = [p.mid_encoding EXCEPT ![p.board[s]] = Plus(Minus(@, Lean(p.board[s], s)), Lean(p.board[s], t))]
  /\ \A f \in OtherFields : q[f] = p[f]

\* move_piece brings what stands on s to t.
LEMMA MoveFields ==
  ASSUME NEW p, Shaped(p), SetsTyped(p), NEW s \in Squares, NEW t \in Squares, s # t
  PROVE  ShiftedTo(p, move_piece(p, s, t), s, t)
<1> DEFINE q == move_piece(p, s, t)
<1>1. Shaped(q)
  BY DEF move_piece, Shaped, IsState, PositionFields, BoardFields, OtherFields
<1>2. q.board = [p.board EXCEPT ![s] = NoPiece, ![t] = p.board[s]]
  BY PieceFacts DEF move_piece, Shaped, IsState, PositionFields, BoardFields, OtherFields, SetsTyped
<1>3. q.by_type = [k \in Kinds |-> Xor(p.by_type[k], IF k \in {"all", Type(p.board[s])} THEN {s, t} ELSE {})]
  BY PieceFacts DEF move_piece, Shaped, IsState, PositionFields, BoardFields, OtherFields, SetsTyped, Kinds, Xor
<1>4. q.by_color = [c \in Colors |-> Xor(p.by_color[c], IF c = Color(p.board[s]) THEN {s, t} ELSE {})]
  BY PieceFacts DEF move_piece, Shaped, IsState, PositionFields, BoardFields, OtherFields, SetsTyped, Xor
<1>5. q.piece_count = p.piece_count
  BY PieceFacts DEF move_piece, Shaped, IsState, PositionFields, BoardFields, OtherFields, SetsTyped
<1>6. q.mid_encoding = [p.mid_encoding EXCEPT ![p.board[s]] = Plus(Minus(@, Lean(p.board[s], s)), Lean(p.board[s], t))]
  BY PieceFacts DEF move_piece, Shaped, IsState, PositionFields, BoardFields, OtherFields, SetsTyped
<1>7. \A f \in OtherFields : q[f] = p[f]
  BY DEF move_piece, Shaped, IsState, PositionFields, BoardFields, OtherFields
<1> QED
  BY <1>1, <1>2, <1>3, <1>4, <1>5, <1>6, <1>7 DEF ShiftedTo

\* A man's part in the middle encoding is a pair of integers.
LEMMA LeanTyped == ASSUME NEW pc, NEW s \in Squares PROVE Lean(pc, s) \in Int \X Int
<1>1. File(s) \in Int /\ Rank(s) \in Int
  BY SMT DEF File, Rank, Squares
<1> QED
  BY <1>1 DEF Lean

\* The types of the sets and sums survive each of the three.
LEMMA PutTyped ==
  ASSUME NEW p, SetsTyped(p), NEW pc \in Pieces, NEW s \in Squares, NEW q, PutOn(p, q, pc, s)
  PROVE  SetsTyped(q)
<1>1. Lean(pc, s) \in Int \X Int
  BY LeanTyped
<1>2. Plus(p.mid_encoding[pc], Lean(pc, s)) \in Int \X Int
  BY <1>1 DEF Plus, SetsTyped
<1>3. q.board \in [Squares -> Occupants]
  BY DEF PutOn, SetsTyped, Occupants
<1>4. q.by_type \in [Kinds -> SUBSET Squares] /\ q.by_color \in [Colors -> SUBSET Squares]
  BY DEF PutOn, SetsTyped
<1>5. q.piece_count \in [Pieces -> Int]
  BY DEF PutOn, SetsTyped
<1>6. q.mid_encoding \in [Pieces -> Int \X Int]
  BY <1>2 DEF PutOn, SetsTyped
<1> QED
  BY <1>3, <1>4, <1>5, <1>6 DEF SetsTyped

\* The same when a man is taken off.
LEMMA RemoveTyped ==
  ASSUME NEW p, SetsTyped(p), NEW s \in Squares, p.board[s] \in Pieces, NEW q, TakenOff(p, q, s)
  PROVE  SetsTyped(q)
<1>1. Lean(p.board[s], s) \in Int \X Int
  BY LeanTyped
<1>2. Minus(p.mid_encoding[p.board[s]], Lean(p.board[s], s)) \in Int \X Int
  BY <1>1 DEF Minus, SetsTyped
<1>3. q.board \in [Squares -> Occupants]
  BY DEF TakenOff, SetsTyped, Occupants
<1>4. q.by_type \in [Kinds -> SUBSET Squares] /\ q.by_color \in [Colors -> SUBSET Squares]
  BY DEF TakenOff, SetsTyped, Xor
<1>5. q.piece_count \in [Pieces -> Int]
  BY DEF TakenOff, SetsTyped
<1>6. q.mid_encoding \in [Pieces -> Int \X Int]
  BY <1>2 DEF TakenOff, SetsTyped
<1> QED
  BY <1>3, <1>4, <1>5, <1>6 DEF SetsTyped

\* The same when a man is moved.
LEMMA MoveTyped ==
  ASSUME NEW p, SetsTyped(p), NEW s \in Squares, NEW t \in Squares, NEW q, ShiftedTo(p, q, s, t)
  PROVE  SetsTyped(q)
<1> DEFINE pc == p.board[s]
<1>1. pc \in Occupants
  BY DEF SetsTyped
<1>2. q.mid_encoding \in [Pieces -> Int \X Int]
  <2>1. CASE pc = NoPiece
    <3>1. NoPiece \notin Pieces
      BY PieceFacts
    <3>2. q.mid_encoding = p.mid_encoding
      BY <2>1, <3>1 DEF SetsTyped, ShiftedTo
    <3> QED
      BY <3>2 DEF SetsTyped
  <2>2. CASE pc \in Pieces
    <3>1. Lean(pc, s) \in Int \X Int /\ Lean(pc, t) \in Int \X Int
      BY <2>2, LeanTyped
    <3>2. Plus(Minus(p.mid_encoding[pc], Lean(pc, s)), Lean(pc, t)) \in Int \X Int
      BY <2>2, <3>1 DEF Plus, Minus, SetsTyped
    <3> QED
      BY <2>2, <3>2 DEF SetsTyped, ShiftedTo
  <2> QED
    BY <1>1, <2>1, <2>2 DEF Occupants
<1>3. q.board \in [Squares -> Occupants]
  BY <1>1 DEF SetsTyped, Occupants, ShiftedTo
<1>4. q.by_type \in [Kinds -> SUBSET Squares] /\ q.by_color \in [Colors -> SUBSET Squares]
  BY DEF SetsTyped, Xor, ShiftedTo
<1>5. q.piece_count \in [Pieces -> Int]
  BY DEF SetsTyped, ShiftedTo
<1> QED
  BY <1>2, <1>3, <1>4, <1>5 DEF SetsTyped

-----------------------------------------------------------------------------
(* A move and its undoing.                                                  *)

\* The sets say of each square what the board says.
Held(p, k) == {s \in Squares : p.board[s] # NoPiece /\ k \in {"all", Type(p.board[s])}}
HeldBy(p, c) == {s \in Squares : p.board[s] # NoPiece /\ c = Color(p.board[s])}
OnBoard(p) ==
  /\ \A k \in Kinds : p.by_type[k] = Held(p, k)
  /\ \A c \in Colors : p.by_color[c] = HeldBy(p, c)

\* So does their agreement with the board, where the square is empty.
LEMMA PutOnBoard ==
  ASSUME NEW p, SetsTyped(p), OnBoard(p), NEW pc \in Pieces, NEW s \in Squares,
         p.board[s] = NoPiece, NEW q, PutOn(p, q, pc, s)
  PROVE  OnBoard(q)
<1>0. pc # NoPiece /\ q.board = [p.board EXCEPT ![s] = pc] /\ p.board \in [Squares -> Occupants]
  BY PieceFacts DEF PutOn, SetsTyped
<1>1. ASSUME NEW k \in Kinds PROVE q.by_type[k] = Held(q, k)
  <2>1. q.by_type[k] = Held(p, k) \cup (IF k \in {"all", Type(pc)} THEN {s} ELSE {})
    BY <1>1 DEF PutOn, OnBoard
  <2> QED
    BY <2>1, <1>0 DEF Held
<1>2. ASSUME NEW c \in Colors PROVE q.by_color[c] = HeldBy(q, c)
  <2>1. q.by_color[c] = HeldBy(p, c) \cup (IF c = Color(pc) THEN {s} ELSE {})
    BY <1>2 DEF PutOn, OnBoard
  <2> QED
    BY <2>1, <1>0 DEF HeldBy
<1> QED
  BY <1>1, <1>2 DEF OnBoard

\* The same when a man is taken off.
LEMMA RemoveOnBoard ==
  ASSUME NEW p, SetsTyped(p), OnBoard(p), NEW s \in Squares, p.board[s] \in Pieces,
         NEW q, TakenOff(p, q, s)
  PROVE  OnBoard(q)
<1>0. p.board[s] # NoPiece /\ q.board = [p.board EXCEPT ![s] = NoPiece] /\ p.board \in [Squares -> Occupants]
  BY PieceFacts DEF TakenOff, SetsTyped
<1>1. ASSUME NEW k \in Kinds PROVE q.by_type[k] = Held(q, k)
  <2>1. q.by_type[k] = Xor(Held(p, k), IF k \in {"all", Type(p.board[s])} THEN {s} ELSE {})
    BY <1>1 DEF TakenOff, OnBoard
  <2> QED
    BY <2>1, <1>0 DEF Held, Xor
<1>2. ASSUME NEW c \in Colors PROVE q.by_color[c] = HeldBy(q, c)
  <2>1. q.by_color[c] = Xor(HeldBy(p, c), IF c = Color(p.board[s]) THEN {s} ELSE {})
    BY <1>2 DEF TakenOff, OnBoard
  <2> QED
    BY <2>1, <1>0 DEF HeldBy, Xor
<1> QED
  BY <1>1, <1>2 DEF OnBoard

\* The same when a man is moved to an empty square.
LEMMA MoveOnBoard ==
  ASSUME NEW p, SetsTyped(p), OnBoard(p), NEW s \in Squares, NEW t \in Squares, s # t,
         p.board[s] \in Pieces, p.board[t] = NoPiece, NEW q, ShiftedTo(p, q, s, t)
  PROVE  OnBoard(q)
<1>0. /\ q.board = [p.board EXCEPT ![s] = NoPiece, ![t] = p.board[s]] /\ p.board \in [Squares -> Occupants]
      /\ p.board[s] # NoPiece
  BY PieceFacts DEF ShiftedTo, SetsTyped
<1>1. ASSUME NEW k \in Kinds PROVE q.by_type[k] = Held(q, k)
  <2>1. q.by_type[k] = Xor(Held(p, k), IF k \in {"all", Type(p.board[s])} THEN {s, t} ELSE {})
    BY <1>1 DEF ShiftedTo, OnBoard
  <2>2. CASE k \in {"all", Type(p.board[s])}
    <3>1. /\ q.by_type[k] = Xor(Held(p, k), {s, t})
          /\ s \in Held(p, k) /\ t \notin Held(p, k)
      BY <2>1, <2>2, <1>0 DEF Held
    <3>2. t \in Held(q, k) /\ s \notin Held(q, k)
      BY <2>2, <1>0 DEF Held
    <3>3. \A u \in Squares \ {s, t} : u \in Held(p, k) <=> u \in Held(q, k)
      BY <1>0 DEF Held
    <3>4. Held(p, k) \subseteq Squares /\ Held(q, k) \subseteq Squares
      BY DEF Held
    <3> QED
      BY <3>1, <3>2, <3>3, <3>4 DEF Xor
  <2>3. CASE k \notin {"all", Type(p.board[s])}
    BY <2>1, <2>3, <1>0 DEF Held, Xor
  <2> QED
    BY <2>2, <2>3
<1>2. ASSUME NEW c \in Colors PROVE q.by_color[c] = HeldBy(q, c)
  <2>1. q.by_color[c] = Xor(HeldBy(p, c), IF c = Color(p.board[s]) THEN {s, t} ELSE {})
    BY <1>2 DEF ShiftedTo, OnBoard
  <2> QED
    BY <2>1, <1>0 DEF HeldBy, Xor
<1> QED
  BY <1>1, <1>2 DEF OnBoard

\* q is p after m, before the keys and the checks are looked at; r is in between.
Between(p, r, m) ==
  IF p.board[To(m)] = NoPiece THEN r = p ELSE TakenOff(p, r, To(m))

\* A move takes off what stands on its target, if anything, and then moves the man.
LEMMA MovedFields ==
  ASSUME NEW p, Shaped(p), SetsTyped(p), NEW m, IsMoveIn(p, m)
  PROVE  \E r : Shaped(r) /\ SetsTyped(r) /\ Between(p, r, m) /\ ShiftedTo(r, Moved(p, m), From(m), To(m))
<1> DEFINE r == IF is_capture(p, m) THEN remove_piece(p, To(m)) ELSE p
<1>1. From(m) \in Squares /\ To(m) \in Squares /\ From(m) # To(m)
  BY DEF IsMoveIn, From, To
<1>2. Shaped(r) /\ SetsTyped(r) /\ Between(p, r, m)
  <2>1. CASE is_capture(p, m)
    <3>1. p.board[To(m)] \in Pieces /\ p.board[To(m)] # NoPiece
      BY <1>1, <2>1 DEF is_capture, SetsTyped, Occupants
    <3>2. TakenOff(p, remove_piece(p, To(m)), To(m))
      BY <1>1, <3>1, RemoveFields
    <3>3. SetsTyped(remove_piece(p, To(m)))
      BY <1>1, <3>1, <3>2, RemoveTyped
    <3> QED
      BY <2>1, <3>1, <3>2, <3>3 DEF Between, TakenOff
  <2>2. CASE ~is_capture(p, m)
    BY <2>2 DEF is_capture, Between
  <2> QED
    BY <2>1, <2>2
<1>3. Moved(p, m) = move_piece(r, From(m), To(m))
  BY DEF Moved
<1> HIDE DEF r
<1>4. ShiftedTo(r, move_piece(r, From(m), To(m)), From(m), To(m))
  BY <1>1, <1>2, MoveFields
<1> QED
  BY <1>2, <1>3, <1>4

\* After a move the sets agree with the board again.
LEMMA MovedTyped ==
  ASSUME NEW p, Shaped(p), SetsTyped(p), OnBoard(p), NEW m, IsMoveIn(p, m)
  PROVE  Shaped(Moved(p, m)) /\ SetsTyped(Moved(p, m)) /\ OnBoard(Moved(p, m))
<1>1. PICK r : Shaped(r) /\ SetsTyped(r) /\ Between(p, r, m) /\ ShiftedTo(r, Moved(p, m), From(m), To(m))
  BY MovedFields
<1>2. From(m) \in Squares /\ To(m) \in Squares /\ From(m) # To(m) /\ p.board[From(m)] \in Pieces
  BY DEF IsMoveIn, From, To
<1>3. SetsTyped(Moved(p, m))
  BY <1>1, <1>2, MoveTyped
<1>4. OnBoard(r) /\ r.board[To(m)] = NoPiece /\ r.board[From(m)] = p.board[From(m)]
  <2>1. CASE p.board[To(m)] = NoPiece
    BY <1>1, <2>1 DEF Between
  <2>2. CASE p.board[To(m)] # NoPiece
    <3>1. p.board[To(m)] \in Pieces /\ TakenOff(p, r, To(m))
      BY <1>1, <1>2, <2>2 DEF Between, SetsTyped, Occupants
    <3>2. OnBoard(r)
      BY <1>2, <3>1, RemoveOnBoard
    <3> QED
      BY <1>2, <3>1, <3>2 DEF TakenOff, SetsTyped
  <2> QED
    BY <2>1, <2>2
<1>5. OnBoard(Moved(p, m))
  BY <1>1, <1>2, <1>4, MoveOnBoard
<1> QED
  BY <1>1, <1>3, <1>5 DEF ShiftedTo

\* What stands where after a move.
LEMMA MovedBoard ==
  ASSUME NEW p, Shaped(p), SetsTyped(p), NEW m, IsMoveIn(p, m)
  PROVE  /\ Moved(p, m).board = [p.board EXCEPT ![From(m)] = NoPiece, ![To(m)] = p.board[From(m)]]
         /\ \A f \in OtherFields : Moved(p, m)[f] = p[f]
<1>1. PICK r : Shaped(r) /\ SetsTyped(r) /\ Between(p, r, m) /\ ShiftedTo(r, Moved(p, m), From(m), To(m))
  BY MovedFields
<1>2. From(m) \in Squares /\ To(m) \in Squares /\ From(m) # To(m)
  BY DEF IsMoveIn, From, To
<1> DEFINE q == Moved(p, m)
<1> HIDE DEF q
<1>3. ShiftedTo(r, q, From(m), To(m))
  BY <1>1 DEF q
<1>4. CASE p.board[To(m)] = NoPiece
  BY <1>1, <1>2, <1>3, <1>4 DEF Between, ShiftedTo, SetsTyped, q
<1>5. CASE p.board[To(m)] # NoPiece
  <2>1. TakenOff(p, r, To(m))
    BY <1>1, <1>5 DEF Between
  <2>2. q.board = [p.board EXCEPT ![From(m)] = NoPiece, ![To(m)] = p.board[From(m)]]
    BY <1>2, <1>3, <2>1 DEF TakenOff, ShiftedTo, SetsTyped
  <2>3. \A f \in OtherFields : q[f] = p[f]
    BY <1>3, <2>1 DEF TakenOff, ShiftedTo
  <2> QED
    BY <2>2, <2>3 DEF q
<1> QED
  BY <1>4, <1>5

-----------------------------------------------------------------------------
(* The check information, which set_check_info reads off the board, the     *)
(* side to move and the checkers.                                           *)

NeedFull(p) ==
  \/ p.state.checkers # {}
  \/ attacks_bb_rook(king_square(p, p.side_to_move), {})
       \cap pieces(p, Other(p.side_to_move), "cannon") # {}
SquaresOf(p) ==
  LET ksq == king_square(p, Other(p.side_to_move))
  IN  CheckSquares(p, p.side_to_move, ksq, DirectChecks(p, p.side_to_move, ksq))
BlockersOf(p) == [c \in Colors |-> update_blockers(p, c).blockers]
PinnersOf(p) == [c \in Colors |-> update_blockers(p, Other(c)).pinners]

\* q is p but for its check information.
SameButChecks(p, q) ==
  /\ Shaped(q)
  /\ \A f \in PositionFields \ {"state"} : q[f] = p[f]
  /\ \A f \in StateFields \ CheckFields : q.state[f] = p.state[f]
\* What p's check information would be is q's.
ChecksFrom(p, q) ==
  /\ q.state.need_full_check = NeedFull(p)
  /\ q.state.check_squares = SquaresOf(p)
  /\ q.state.blockers_for_king = BlockersOf(p)
  /\ q.state.pinners = PinnersOf(p)

\* set_check_info computes its four fields from the rest and changes nothing else.
LEMMA InfoFields ==
  ASSUME NEW p, Shaped(p)
  PROVE  SameButChecks(p, set_check_info(p)) /\ ChecksFrom(p, set_check_info(p))
<1> DEFINE q == set_check_info(p)
           us == p.side_to_move
           by == [c \in Colors |-> update_blockers(p, c)]
<1>1. q = [[p EXCEPT !.state.need_full_check = NeedFull(p), !.state.check_squares = SquaresOf(p)]
             EXCEPT !.state.blockers_for_king = [c \in Colors |-> by[c].blockers],
                    !.state.pinners = [c \in Colors |-> by[Other(c)].pinners]]
  BY DEF set_check_info, NeedFull, SquaresOf
<1>2. [c \in Colors |-> by[c].blockers] = BlockersOf(p) /\ [c \in Colors |-> by[Other(c)].pinners] = PinnersOf(p)
  BY PieceFacts DEF BlockersOf, PinnersOf
<1> HIDE DEF q, by
<1>3. SameButChecks(p, q)
  BY <1>1 DEF SameButChecks, Shaped, IsState, StateFields, CheckFields, PositionFields, BoardFields, OtherFields
<1>4. ChecksFrom(p, q)
  BY <1>1, <1>2 DEF ChecksFrom, Shaped, IsState, StateFields, CheckFields, PositionFields, BoardFields, OtherFields
<1> QED
  BY <1>3, <1>4 DEF q

\* The fields the check information depends on.
SameForChecks(p, q) ==
  /\ \A f \in BoardFields : p[f] = q[f]
  /\ p.side_to_move = q.side_to_move
  /\ p.state.checkers = q.state.checkers

\* What it computes depends on the board, the side to move and the checkers alone.
LEMMA SameChecks ==
  ASSUME NEW p, NEW q, SameForChecks(p, q)
  PROVE  /\ NeedFull(p) = NeedFull(q) /\ SquaresOf(p) = SquaresOf(q)
         /\ BlockersOf(p) = BlockersOf(q) /\ PinnersOf(p) = PinnersOf(q)
<1>1. /\ p.board = q.board /\ p.by_type = q.by_type /\ p.by_color = q.by_color
      /\ p.side_to_move = q.side_to_move /\ p.state.checkers = q.state.checkers
  BY DEF SameForChecks, BoardFields
<1>2. \A c, t : pieces(p, c, t) = pieces(q, c, t)
  BY <1>1 DEF pieces
<1>3. \A c : king_square(p, c) = king_square(q, c)
  BY <1>2 DEF king_square
<1>4. NeedFull(p) = NeedFull(q)
  BY <1>1, <1>2, <1>3 DEF NeedFull
<1>5. SquaresOf(p) = SquaresOf(q)
  <2>1. all_pieces(p) = all_pieces(q)
    BY <1>1 DEF all_pieces
  <2>2. \A c, k : DirectChecks(p, c, k) = DirectChecks(q, c, k)
    BY <2>1 DEF DirectChecks
  <2>3. \A c, k, x : HollowScreens(p, c, k, x) = HollowScreens(q, c, k, x)
    BY <1>2 DEF HollowScreens
  <2>4. \A c, k, d : CheckSquares(p, c, k, d) = CheckSquares(q, c, k, d)
    BY <2>3 DEF CheckSquares
  <2> QED
    BY <1>1, <1>3, <2>2, <2>4 DEF SquaresOf
<1>6. \A c : update_blockers(p, c) = update_blockers(q, c)
  <2>1. /\ all_pieces(p) = all_pieces(q)
        /\ \A t : of_type(p, t) = of_type(q, t)
        /\ \A c : of_color(p, c) = of_color(q, c)
    BY <1>1 DEF all_pieces, of_type, of_color
  <2>2. \A c : Snipers(p, c) = Snipers(q, c)
    BY <2>1, <1>3 DEF Snipers
  <2>3. \A c, x : Shields(p, c, x) = Shields(q, c, x)
    BY <2>1, <1>3 DEF Shields
  <2>4. \A x : Blocked(p, x) = Blocked(q, x)
    BY <2>1 DEF Blocked
  <2>5. \A c, x : BlockersAndPinners(p, c, x) = BlockersAndPinners(q, c, x)
    <3>1. TAKE c, x
    <3>2. Blocked(p, x) = Blocked(q, x) /\ of_color(p, c) = of_color(q, c)
      BY <2>1, <2>4
    <3> QED
      BY <3>2 DEF BlockersAndPinners
  <2>6. TAKE c
  <2>7. Shields(p, c, Snipers(p, c)) = Shields(q, c, Snipers(q, c))
    BY <2>2, <2>3
  <2> QED
    BY <2>5, <2>7 DEF update_blockers
<1>7. BlockersOf(p) = BlockersOf(q)
  BY <1>6 DEF BlockersOf
<1>8. PinnersOf(p) = PinnersOf(q)
  BY <1>6 DEF PinnersOf
<1> QED
  BY <1>4, <1>5, <1>7, <1>8

-----------------------------------------------------------------------------
(* What a move does to the state of a position.                             *)

StateTyped(st) ==
  /\ IsState(st)
  /\ st.rule60 \in Nat /\ st.plies_from_null \in Nat /\ st.check10 \in [Colors -> Nat]
  /\ st.non_pawn_key = [c \in Colors |-> st.non_pawn_key[c]]
  /\ st.major_material \in [Colors -> Int]

KeyFields == {"key", "pawn_key", "minor_piece_key", "non_pawn_key"}

\* t is st with the keys of a man on s turned over.
KeyTurned(st, t, pc, s) ==
  /\ IsState(t)
  /\ \A f \in StateFields \ KeyFields : t[f] = st[f]
  /\ t.key = Xor(st.key, {<<pc, s>>})
  /\ t.pawn_key = Xor(st.pawn_key, IF Type(pc) = "pawn" THEN {<<pc, s>>} ELSE {})
  /\ t.minor_piece_key = Xor(st.minor_piece_key, IF Type(pc) \in {"cannon", "knight"} THEN {<<pc, s>>} ELSE {})
  /\ t.non_pawn_key =
       [c \in Colors |-> Xor(st.non_pawn_key[c],
                             IF c = Color(pc) /\ Type(pc) # "pawn" THEN {<<pc, s>>} ELSE {})]

\* Toggling nothing changes nothing.
LEMMA XorNothing == \A A : Xor(A, {}) = A
  BY DEF Xor

\* Which keys a man on a square turns.
LEMMA KeyedFields ==
  ASSUME NEW st, StateTyped(st), NEW pc \in Pieces, NEW s
  PROVE  KeyTurned(st, Keyed(st, pc, s), pc, s)
<1> DEFINE t == Keyed(st, pc, s)
           k == {<<pc, s>>}
<1>0. Color(pc) \in Colors
  BY PieceFacts
<1>1. CASE Type(pc) = "pawn"
  <2>1. t = [st EXCEPT !.key = Xor(@, k), !.pawn_key = Xor(@, k)]
    BY <1>1 DEF Keyed, PieceKey
  <2>2. IsState(t) /\ t.key = Xor(st.key, k) /\ t.pawn_key = Xor(st.pawn_key, k)
    BY <2>1 DEF StateTyped, IsState, StateFields
  <2>3. \A f \in StateFields \ {"key", "pawn_key"} : t[f] = st[f]
    BY <2>1 DEF StateTyped, IsState, StateFields
  <2>4. t.non_pawn_key = [c \in Colors |-> st.non_pawn_key[c]] /\ t.minor_piece_key = st.minor_piece_key
    BY <2>3 DEF StateTyped, StateFields
  <2>5. t.non_pawn_key = [c \in Colors |-> Xor(st.non_pawn_key[c],
                             IF c = Color(pc) /\ Type(pc) # "pawn" THEN {<<pc, s>>} ELSE {})]
    BY <1>1, <2>4, XorNothing
  <2>6. t.minor_piece_key = Xor(st.minor_piece_key, IF Type(pc) \in {"cannon", "knight"} THEN {<<pc, s>>} ELSE {})
    BY <1>1, <2>4, XorNothing
  <2>7. \A f \in StateFields \ KeyFields : t[f] = st[f]
    BY <2>3 DEF KeyFields
  <2> QED
    BY <1>1, <2>2, <2>5, <2>6, <2>7 DEF KeyTurned
<1>2. CASE Type(pc) # "pawn"
  <2>1. t = [st EXCEPT !.key = Xor(@, k), !.non_pawn_key[Color(pc)] = Xor(@, k),
                       !.minor_piece_key = IF Type(pc) \in {"knight", "cannon"} THEN Xor(@, k) ELSE @]
    BY <1>2 DEF Keyed, PieceKey
  <2>2. IsState(t) /\ t.key = Xor(st.key, k)
    BY <2>1 DEF StateTyped, IsState, StateFields
  <2>3. \A f \in StateFields \ {"key", "non_pawn_key", "minor_piece_key"} : t[f] = st[f]
    BY <2>1 DEF StateTyped, IsState, StateFields
  <2>4. t.non_pawn_key = [st.non_pawn_key EXCEPT ![Color(pc)] = Xor(@, k)]
    BY <2>1 DEF StateTyped, IsState, StateFields
  <2>5. t.non_pawn_key = [c \in Colors |-> Xor(st.non_pawn_key[c],
                             IF c = Color(pc) /\ Type(pc) # "pawn" THEN {<<pc, s>>} ELSE {})]
    BY <1>0, <1>2, <2>4, XorNothing DEF StateTyped
  <2>6. t.minor_piece_key = Xor(st.minor_piece_key, IF Type(pc) \in {"cannon", "knight"} THEN {<<pc, s>>} ELSE {})
    <3>1. t.minor_piece_key = IF Type(pc) \in {"knight", "cannon"}
                              THEN Xor(st.minor_piece_key, k) ELSE st.minor_piece_key
      BY <2>1 DEF StateTyped, IsState, StateFields
    <3> QED
      BY <3>1, XorNothing
  <2>7. t.pawn_key = Xor(st.pawn_key, IF Type(pc) = "pawn" THEN {<<pc, s>>} ELSE {})
    BY <1>2, <2>3, XorNothing DEF StateFields
  <2>8. \A f \in StateFields \ KeyFields : t[f] = st[f]
    BY <2>3 DEF KeyFields
  <2> QED
    BY <2>2, <2>5, <2>6, <2>7, <2>8 DEF KeyTurned
<1> QED
  BY <1>1, <1>2

\* Turning keys keeps a state's types.
LEMMA KeyedTyped ==
  ASSUME NEW st, StateTyped(st), NEW t, NEW pc, NEW s, KeyTurned(st, t, pc, s)
  PROVE  StateTyped(t)
<1>1. \A f \in {"rule60", "plies_from_null", "check10", "major_material"} : t[f] = st[f]
  BY DEF KeyTurned, KeyFields, StateFields
<1>2. t.non_pawn_key = [c \in Colors |-> t.non_pawn_key[c]]
  BY DEF KeyTurned
<1> QED
  BY <1>1, <1>2 DEF StateTyped, KeyTurned

\* The moves since the last capture: those in rule60, and the checks and answers beyond the free ones.
Extra(checks, c) == IF checks[c] > FreeChecks THEN checks[c] - FreeChecks ELSE 0
Reversible(st) == st.rule60 + Extra(st.check10, White) + Extra(st.check10, Black)

\* A quiet ply is counted once: in rule60, or as a check or an answer beyond the free ones.
LEMMA CountedFields ==
  ASSUME NEW st, StateTyped(st), NEW us \in Colors, NEW g \in BOOLEAN
  PROVE  /\ StateTyped(Counted(st, us, g))
         /\ Reversible(Counted(st, us, g)) = Reversible(st) + 1
         /\ Counted(st, us, g).plies_from_null = st.plies_from_null + 1
         /\ \A f \in StateFields \ {"check10", "rule60", "plies_from_null"} : Counted(st, us, g)[f] = st[f]
<1> DEFINE them == Other(us)
           checks == IF g THEN [st.check10 EXCEPT ![us] = @ + 1] ELSE st.check10
           free == g /\ IsFreeCheck(checks, us)
           answer == ~free /\ IsFreeCheck(checks, them) /\ st.checkers # {}
           later == IF answer THEN [checks EXCEPT ![them] = @ + 1] ELSE checks
           rule == IF free \/ answer THEN st.rule60 ELSE st.rule60 + 1
           t == Counted(st, us, g)
<1>1. t = [st EXCEPT !.check10 = later, !.rule60 = rule, !.plies_from_null = @ + 1]
  BY DEF Counted, StateTyped, IsState, StateFields
<1>2. st.check10 \in [Colors -> Nat] /\ st.rule60 \in Nat /\ FreeChecks \in Nat /\ st.plies_from_null \in Nat
  BY PositionAssumption DEF StateTyped
<1>3. them \in Colors /\ them # us
  BY PieceFacts
<1>4. checks \in [Colors -> Nat]
  BY <1>2
<1>5. later \in [Colors -> Nat]
  <2> HIDE DEF checks, answer, them
  <2> QED
    BY <1>3, <1>4
<1>6. rule \in Nat
  BY <1>2
<1>7. rule + Extra(later, us) + Extra(later, them)
        = st.rule60 + Extra(st.check10, us) + Extra(st.check10, them) + 1
  <2>1. CASE free
    <3>1. checks = [st.check10 EXCEPT ![us] = @ + 1] /\ later = checks /\ checks[us] > FreeChecks /\ rule = st.rule60
      BY <2>1 DEF IsFreeCheck
    <3>2. later[us] = st.check10[us] + 1 /\ later[them] = st.check10[them] /\ later[us] > FreeChecks
      BY <1>2, <1>3, <3>1
    <3> HIDE DEF later, rule, checks, free, answer, them
    <3> QED
      BY <1>2, <1>3, <3>1, <3>2 DEF Extra
  <2>2. CASE ~free /\ answer
    <3>1. later = [checks EXCEPT ![them] = @ + 1] /\ rule = st.rule60 /\ checks[them] > FreeChecks
          /\ (g => checks[us] <= FreeChecks)
      BY <1>2, <1>4, <2>2 DEF IsFreeCheck
    <3>0. /\ checks[them] = st.check10[them]
          /\ IF g THEN checks[us] = st.check10[us] + 1 ELSE checks[us] = st.check10[us]
      BY <1>2, <1>3
    <3> HIDE DEF later, rule, checks, free, answer, them
    <3>2. /\ later[them] = st.check10[them] + 1 /\ st.check10[them] > FreeChecks
          /\ later[us] = st.check10[us] \/ (later[us] = st.check10[us] + 1 /\ later[us] <= FreeChecks)
      BY <1>2, <1>3, <1>4, <3>0, <3>1
    <3> QED
      BY <1>2, <1>3, <3>1, <3>2 DEF Extra
  <2>3. CASE ~free /\ ~answer
    <3>1. later = checks /\ rule = st.rule60 + 1 /\ (g => checks[us] <= FreeChecks)
      BY <1>2, <1>4, <2>3 DEF IsFreeCheck
    <3>0. /\ checks[them] = st.check10[them]
          /\ IF g THEN checks[us] = st.check10[us] + 1 ELSE checks[us] = st.check10[us]
      BY <1>2, <1>3
    <3> HIDE DEF later, rule, checks, free, answer, them
    <3>2. /\ later[them] = st.check10[them]
          /\ later[us] = st.check10[us] \/ (later[us] = st.check10[us] + 1 /\ later[us] <= FreeChecks)
      BY <1>2, <1>3, <1>4, <3>0, <3>1
    <3> QED
      BY <1>2, <1>3, <3>1, <3>2 DEF Extra
  <2> QED
    BY <2>1, <2>2, <2>3
<1> HIDE DEF later, rule, checks, free, answer, t
<1>8. IsState(t) /\ t.check10 = later /\ t.rule60 = rule /\ t.plies_from_null = st.plies_from_null + 1
  BY <1>1 DEF StateTyped, IsState, StateFields
<1>9. \A f \in StateFields \ {"check10", "rule60", "plies_from_null"} : t[f] = st[f]
  BY <1>1 DEF StateTyped, IsState, StateFields
<1>10. t.non_pawn_key = st.non_pawn_key /\ t.major_material = st.major_material
  BY <1>9 DEF StateFields
<1>11. StateTyped(t)
  BY <1>2, <1>5, <1>6, <1>8, <1>10 DEF StateTyped
<1>12. Reversible(t) = Reversible(st) + 1
  <2>1. {us, them} = {White, Black}
    BY DEF Colors, Other
  <2>2. Extra(later, White) \in Int /\ Extra(later, Black) \in Int
        /\ Extra(st.check10, White) \in Int /\ Extra(st.check10, Black) \in Int
    BY <1>2, <1>5 DEF Extra, Colors
  <2>3. \/ us = White /\ them = Black
        \/ us = Black /\ them = White
    BY DEF Colors, Other
  <2> QED
    BY <1>2, <1>6, <1>7, <1>8, <2>2, <2>3 DEF Reversible
<1> QED
  BY <1>8, <1>9, <1>11, <1>12 DEF t

\* t is st after pc has been taken on s.
TakenKeys(st, t, pc, s) ==
  /\ StateTyped(t)
  /\ \E k : /\ KeyTurned(st, k, pc, s)
            /\ \A f \in StateFields \ {"major_material", "check10", "rule60"} : t[f] = k[f]
  /\ t.rule60 = 0 /\ t.check10 = [c \in Colors |-> 0]
  /\ t.major_material =
       [c \in Colors |-> st.major_material[c]
                           - (IF c = Color(pc) /\ IsMajor(Type(pc)) THEN PieceValue(pc) ELSE 0)]

\* A captured man leaves the keys and the material, and the counts begin anew.
LEMMA CapturedFields ==
  ASSUME NEW st, StateTyped(st), NEW pc \in Pieces, NEW s
  PROVE  TakenKeys(st, Captured(st, pc, s), pc, s)
<1> DEFINE k == Keyed(st, pc, s)
           loss == IF IsMajor(Type(pc)) THEN PieceValue(pc) ELSE 0
           t == Captured(st, pc, s)
<1>1. KeyTurned(st, k, pc, s) /\ StateTyped(k)
  BY KeyedFields, KeyedTyped
<1>2. t = [k EXCEPT !.major_material[Color(pc)] = @ - loss, !.check10 = [c \in Colors |-> 0], !.rule60 = 0]
  BY DEF Captured
<1>3. Color(pc) \in Colors /\ PieceValue(pc) \in Int /\ loss \in Int
  BY PieceFacts DEF PieceValue
<1> HIDE DEF k, t, loss
<1>4. IsState(t) /\ t.check10 = [c \in Colors |-> 0] /\ t.rule60 = 0
  BY <1>1, <1>2 DEF StateTyped, IsState, StateFields
<1>5. t.major_material = [k.major_material EXCEPT ![Color(pc)] = @ - loss]
  BY <1>1, <1>2 DEF StateTyped, IsState, StateFields
<1>6. \A f \in StateFields \ {"major_material", "check10", "rule60"} : t[f] = k[f]
  BY <1>1, <1>2 DEF StateTyped, IsState, StateFields
<1>7. k.major_material = st.major_material
  BY <1>1 DEF KeyTurned, StateFields, KeyFields
<1>8. t.major_material = [c \in Colors |-> st.major_material[c] - (IF c = Color(pc) THEN loss ELSE 0)]
  BY <1>3, <1>5, <1>7 DEF StateTyped
<1>9. t.major_material \in [Colors -> Int]
  BY <1>3, <1>8 DEF StateTyped
<1>10. t.non_pawn_key = k.non_pawn_key /\ t.plies_from_null = k.plies_from_null
  BY <1>6 DEF StateFields
<1>11. StateTyped(t)
  BY <1>1, <1>4, <1>9, <1>10 DEF StateTyped
<1>12. t.major_material =
       [c \in Colors |-> st.major_material[c]
                           - (IF c = Color(pc) /\ IsMajor(Type(pc)) THEN PieceValue(pc) ELSE 0)]
  BY <1>8, <1>3 DEF loss, StateTyped
<1> QED
  BY <1>1, <1>4, <1>6, <1>11, <1>12 DEF TakenKeys, t

\* The stations of the state during a move.
Counting(st, t) ==
  /\ StateTyped(t)
  /\ Reversible(t) = Reversible(st) + 1
  /\ t.plies_from_null = st.plies_from_null + 1
  /\ \A f \in StateFields \ {"check10", "rule60", "plies_from_null"} : t[f] = st[f]
Taking(st, t, pc, s) ==
  IF pc = NoPiece THEN t = st ELSE TakenKeys(st, t, pc, s)
Rekeying(p, m, t) ==
  \E counted, taken, lifted :
    /\ Counting(p.state, counted)
    /\ Taking(counted, taken, p.board[To(m)], To(m)) /\ StateTyped(taken)
    /\ KeyTurned(taken, lifted, p.board[From(m)], From(m)) /\ StateTyped(lifted)
    /\ KeyTurned(lifted, t, p.board[From(m)], To(m)) /\ StateTyped(t)

\* do_move's changes to the state, as three turnings of the keys between counts.
LEMMA RekeyedSteps ==
  ASSUME NEW p, SetsTyped(p), StateTyped(p.state), p.side_to_move \in Colors, NEW m, IsMoveIn(p, m),
         NEW g \in BOOLEAN
  PROVE  Rekeying(p, m, Rekeyed(p, m, g))
<1> DEFINE counted == Counted(p.state, p.side_to_move, g)
           captured == piece_on(p, To(m))
           taken == TakenFrom(counted, captured, To(m))
           pc == piece_on(p, From(m))
           lifted == Keyed(taken, pc, From(m))
<1>1. captured \in Occupants /\ pc \in Pieces /\ captured = p.board[To(m)] /\ pc = p.board[From(m)]
  BY DEF IsMoveIn, SetsTyped, From, To, piece_on
<1>2. Counting(p.state, counted)
  BY CountedFields DEF Counting
<1>3. Taking(counted, taken, captured, To(m)) /\ StateTyped(taken)
  <2>1. CASE captured = NoPiece
    BY <1>2, <2>1 DEF TakenFrom, Taking, Counting
  <2>2. CASE captured # NoPiece
    <3>1. captured \in Pieces /\ taken = Captured(counted, captured, To(m))
      BY <1>1, <2>2 DEF Occupants, TakenFrom
    <3>2. StateTyped(counted)
      BY <1>2 DEF Counting
    <3> HIDE DEF counted, captured, taken
    <3>3. TakenKeys(counted, taken, captured, To(m))
      BY <3>1, <3>2, CapturedFields
    <3> QED
      BY <2>2, <3>3 DEF TakenKeys, Taking
  <2> QED
    BY <2>1, <2>2
<1> HIDE DEF counted, captured, taken, pc
<1>4. KeyTurned(taken, lifted, pc, From(m)) /\ StateTyped(lifted)
  BY <1>1, <1>3, KeyedFields, KeyedTyped
<1> HIDE DEF lifted
<1> DEFINE put == Keyed(lifted, pc, To(m))
<1>5. KeyTurned(lifted, put, pc, To(m)) /\ StateTyped(put)
  BY <1>1, <1>4, KeyedFields, KeyedTyped
<1>6. Rekeyed(p, m, g) = put
  BY DEF Rekeyed, put, lifted, pc, taken, captured, counted
<1> HIDE DEF put
<1> QED
  BY <1>1, <1>2, <1>3, <1>4, <1>5, <1>6 DEF Rekeying

\* The state after a move, as far as the line's accounts go.
AfterMove(p, m, t) ==
  /\ StateTyped(t)
  /\ t.plies_from_null = p.state.plies_from_null + 1
  /\ Reversible(t) = IF p.board[To(m)] = NoPiece THEN Reversible(p.state) + 1 ELSE 0

\* What these changes come to for the counts.
LEMMA RekeyedAccounts ==
  ASSUME NEW p, NEW m, NEW t, Rekeying(p, m, t)
  PROVE  AfterMove(p, m, t)
<1> DEFINE captured == p.board[To(m)]
<1>1. PICK counted, taken, lifted :
        /\ Counting(p.state, counted)
        /\ Taking(counted, taken, captured, To(m)) /\ StateTyped(taken)
        /\ KeyTurned(taken, lifted, p.board[From(m)], From(m)) /\ StateTyped(lifted)
        /\ KeyTurned(lifted, t, p.board[From(m)], To(m)) /\ StateTyped(t)
  BY DEF Rekeying
<1> HIDE DEF captured
<1>2. /\ taken.plies_from_null = counted.plies_from_null
      /\ Reversible(taken) = IF captured = NoPiece THEN Reversible(p.state) + 1 ELSE 0
  <2>1. CASE captured = NoPiece
    BY <1>1, <2>1 DEF Taking, Counting
  <2>2. CASE captured # NoPiece
    <3>1. TakenKeys(counted, taken, captured, To(m))
      BY <1>1, <2>2 DEF Taking
    <3>2. taken.plies_from_null = counted.plies_from_null
      BY <3>1 DEF TakenKeys, KeyTurned, StateFields, KeyFields
    <3>3. taken.rule60 = 0 /\ taken.check10 = [c \in Colors |-> 0]
      BY <3>1 DEF TakenKeys
    <3>4. Extra(taken.check10, White) = 0 /\ Extra(taken.check10, Black) = 0
      BY <3>3, PositionAssumption DEF Extra, Colors
    <3> QED
      BY <2>2, <3>2, <3>3, <3>4 DEF Reversible
  <2> QED
    BY <2>1, <2>2
<1>3. t.plies_from_null = taken.plies_from_null /\ t.rule60 = taken.rule60 /\ t.check10 = taken.check10
  BY <1>1 DEF KeyTurned, KeyFields, StateFields
<1>4. Reversible(t) = Reversible(taken)
  BY <1>3 DEF Reversible
<1> QED
  BY <1>1, <1>2, <1>3, <1>4 DEF AfterMove, captured, Counting

-----------------------------------------------------------------------------
(* Positions, moves on them, and the undoing of a move.                     *)

Counts == [FilterSlots -> 0 .. FilterWidth - 1]
Sound(p) ==
  /\ Shaped(p) /\ SetsTyped(p) /\ OnBoard(p) /\ StateTyped(p.state)
  /\ p.side_to_move \in Colors /\ IsSeq(p.state_stack) /\ p.bloom_filter \in Counts
  /\ ChecksFrom(p, p)

\* The state after a move; Rekeying says it but for the side's key and what is noted of the move.
MovedState(p, m, st) ==
  /\ IsState(st) /\ st.last_move = m /\ st.captured_piece = p.board[To(m)]
  /\ \E t : /\ Rekeying(p, m, t) /\ st.key = Xor(t.key, SideKey)
            /\ \A f \in StateFields \ (CheckFields \cup {"key", "last_move", "captured_piece", "checkers"}) :
                 st[f] = t[f]
\* q is p after m.
Played(p, q, m) ==
  /\ Shaped(q) /\ \A f \in BoardFields : q[f] = Moved(p, m)[f]
  /\ q.side_to_move = Other(p.side_to_move)
  /\ q.state_stack = Append(p.state_stack, p.state)
  /\ q.bloom_filter = insert(p.bloom_filter, p.state.key)
  /\ MovedState(p, m, q.state)
  /\ ChecksFrom(q, q)

\* After set_check_info a position agrees with its own check information.
LEMMA SelfChecks ==
  ASSUME NEW p, Shaped(p)
  PROVE  LET q == set_check_info(p) IN SameButChecks(p, q) /\ ChecksFrom(q, q)
<1> DEFINE q == set_check_info(p)
<1>1. SameButChecks(p, q) /\ ChecksFrom(p, q)
  BY InfoFields
<1> HIDE DEF q
<1>2. SameForChecks(p, q)
  BY <1>1 DEF SameForChecks, SameButChecks, PositionFields, BoardFields, OtherFields, StateFields, CheckFields
<1>3. ChecksFrom(q, q)
  BY <1>1, <1>2, SameChecks DEF ChecksFrom
<1> QED
  BY <1>1, <1>3 DEF q

\* do_move, whole: what it pushes, moves, counts and computes.
LEMMA PlayedFields ==
  ASSUME NEW p, Sound(p), NEW m, IsMoveIn(p, m), NEW g \in BOOLEAN
  PROVE  Played(p, do_move(p, m, g), m)
<1> DEFINE moved == Moved(p, m)
           t == Rekeyed(p, m, g)
           cap == piece_on(p, To(m))
           chk == IF g
                  THEN checkers_to(moved, p.side_to_move, king_square(moved, Other(p.side_to_move)), all_pieces(moved))
                  ELSE {}
           x == [moved EXCEPT !.bloom_filter = insert(@, p.state.key),
                      !.state_stack = Append(@, p.state),
                      !.state = [t EXCEPT !.key = Xor(@, SideKey), !.last_move = m, !.captured_piece = cap,
                                          !.checkers = chk],
                      !.side_to_move = Other(p.side_to_move)]
           q == set_check_info(x)
<1>1. do_move(p, m, g) = q
  BY DEF do_move, FinishMove
<1>2. /\ Shaped(moved) /\ \A f \in OtherFields : moved[f] = p[f]
      /\ moved.bloom_filter = p.bloom_filter /\ moved.state_stack = p.state_stack
  BY MovedTyped, MovedBoard DEF Sound, OtherFields
<1>3. Rekeying(p, m, t) /\ StateTyped(t)
  <2>1. Rekeying(p, m, t)
    BY RekeyedSteps DEF Sound
  <2> HIDE DEF t
  <2> QED
    BY <2>1 DEF Rekeying
<1>4. cap = p.board[To(m)]
  BY DEF piece_on
<1> HIDE DEF moved, t, cap, chk
<1>5. /\ Shaped(x) /\ \A f \in BoardFields : x[f] = moved[f]
      /\ x.side_to_move = Other(p.side_to_move)
      /\ x.state_stack = Append(p.state_stack, p.state)
      /\ x.bloom_filter = insert(p.bloom_filter, p.state.key)
  <2> DEFINE s == [t EXCEPT !.key = Xor(@, SideKey), !.last_move = m, !.captured_piece = cap, !.checkers = chk]
  <2>1. IsState(s)
    BY <1>3 DEF StateTyped, IsState
  <2> HIDE DEF s
  <2>2. x = [moved EXCEPT !.bloom_filter = insert(@, p.state.key), !.state_stack = Append(@, p.state),
                          !.state = s, !.side_to_move = Other(p.side_to_move)]
    BY DEF s
  <2> HIDE DEF x
  <2>3. Shaped(x)
    BY <1>2, <2>1, <2>2 DEF Shaped, PositionFields, BoardFields, OtherFields
  <2>4. \A f \in BoardFields : x[f] = moved[f]
    BY <1>2, <2>2 DEF Shaped, PositionFields, BoardFields, OtherFields
  <2>5. x.side_to_move = Other(p.side_to_move)
    BY <1>2, <2>2 DEF Shaped, PositionFields, BoardFields, OtherFields
  <2>6. x.state_stack = Append(p.state_stack, p.state)
    BY <1>2, <2>2 DEF Shaped, PositionFields, BoardFields, OtherFields
  <2>7. x.bloom_filter = insert(p.bloom_filter, p.state.key)
    BY <1>2, <2>2 DEF Shaped, PositionFields, BoardFields, OtherFields
  <2> QED
    BY <2>3, <2>4, <2>5, <2>6, <2>7
<1>6. /\ x.state.last_move = m /\ x.state.captured_piece = p.board[To(m)]
      /\ x.state.key = Xor(t.key, SideKey)
      /\ \A f \in StateFields \ {"key", "last_move", "captured_piece", "checkers"} : x.state[f] = t[f]
  <2>1. x.state = [t EXCEPT !.key = Xor(@, SideKey), !.last_move = m, !.captured_piece = cap, !.checkers = chk]
    BY <1>2 DEF Shaped, PositionFields, BoardFields, OtherFields
  <2> HIDE DEF x
  <2>2. x.state.last_move = m /\ x.state.captured_piece = p.board[To(m)] /\ x.state.key = Xor(t.key, SideKey)
    BY <1>3, <1>4, <2>1 DEF StateTyped, IsState, StateFields
  <2>3. \A f \in StateFields \ {"key", "last_move", "captured_piece", "checkers"} : x.state[f] = t[f]
    BY <1>3, <2>1 DEF StateTyped, IsState, StateFields
  <2> QED
    BY <2>2, <2>3
<1> HIDE DEF x
<1>7. SameButChecks(x, q) /\ ChecksFrom(q, q)
  BY <1>5, SelfChecks
<1> HIDE DEF q
<1>8. \A f \in BoardFields : q[f] = moved[f]
  BY <1>5, <1>7 DEF SameButChecks, PositionFields, BoardFields, OtherFields
<1>9. /\ q.side_to_move = Other(p.side_to_move)
      /\ q.state_stack = Append(p.state_stack, p.state)
      /\ q.bloom_filter = insert(p.bloom_filter, p.state.key)
  BY <1>5, <1>7 DEF SameButChecks, PositionFields, BoardFields, OtherFields
<1>10. /\ q.state.last_move = m /\ q.state.captured_piece = p.board[To(m)]
       /\ q.state.key = Xor(t.key, SideKey)
  BY <1>6, <1>7 DEF SameButChecks, StateFields, CheckFields
<1>11. \A f \in StateFields \ (CheckFields \cup {"key", "last_move", "captured_piece", "checkers"}) :
         q.state[f] = t[f]
  BY <1>6, <1>7 DEF SameButChecks
<1>12. Shaped(q) /\ IsState(q.state)
  BY <1>7 DEF SameButChecks, Shaped
<1>13. MovedState(p, m, q.state)
  BY <1>3, <1>10, <1>11, <1>12 DEF MovedState
<1> QED
  BY <1>1, <1>7, <1>8, <1>9, <1>12, <1>13 DEF Played, moved

\* Counting up and down within a width is lossless.
LEMMA TurnBack ==
  ASSUME NEW x \in 0 .. FilterWidth - 1
  PROVE  /\ (x + 1) % FilterWidth \in 0 .. FilterWidth - 1
         /\ (((x + 1) % FilterWidth) + FilterWidth - 1) % FilterWidth = x
<1> DEFINE w == FilterWidth
<1>0. w \in Nat /\ w > 0
  BY PositionAssumption
<1> HIDE DEF w
<1>1. x \in 0 .. w - 1
  BY DEF w
<1>2. CASE x + 1 < w
  <2>1. (x + 1) % w = x + 1
    BY <1>0, <1>1, <1>2
  <2>2. (x + w) % w = x
    BY <1>0, <1>1
  <2>3. ((x + 1) % w) + w - 1 = x + w
    BY <1>0, <1>1, <2>1
  <2> QED
    BY <1>0, <1>1, <1>2, <2>1, <2>2, <2>3 DEF w
<1>3. CASE x + 1 = w
  <2>1. (x + 1) % w = 0
    BY <1>0, <1>3
  <2>2. (w - 1) % w = w - 1
    BY <1>0
  <2>3. ((x + 1) % w) + w - 1 = w - 1 /\ x = w - 1
    BY <1>0, <1>1, <1>3, <2>1
  <2> QED
    BY <1>0, <1>1, <1>3, <2>1, <2>2, <2>3 DEF w
<1> QED
  BY <1>0, <1>1, <1>2, <1>3

\* The filter keeps its type, and what is inserted can be removed.
LEMMA InsertTyped == \A F \in Counts : \A k : insert(F, k) \in Counts
<1> TAKE F \in Counts
<1> TAKE k
<1>1. CASE Slot(k) \in FilterSlots
  <2>1. (F[Slot(k)] + 1) % FilterWidth \in 0 .. FilterWidth - 1
    BY <1>1, TurnBack DEF Counts
  <2> QED
    BY <1>1, <2>1 DEF insert, Counts
<1>2. CASE Slot(k) \notin FilterSlots
  BY <1>2 DEF insert, Counts
<1> QED
  BY <1>1, <1>2

\* remove takes back an insert, even one that wrapped.
LEMMA RemoveInserted == \A F \in Counts : \A k : remove(insert(F, k), k) = F
<1> TAKE F \in Counts
<1> TAKE k
<1> DEFINE s == Slot(k)
           G == insert(F, k)
<1>1. CASE s \in FilterSlots
  <2>1. F[s] \in 0 .. FilterWidth - 1
    BY <1>1 DEF Counts
  <2>2. (((F[s] + 1) % FilterWidth) + FilterWidth - 1) % FilterWidth = F[s]
    BY <2>1, TurnBack
  <2>3. G = [F EXCEPT ![s] = (@ + 1) % FilterWidth]
    BY DEF insert
  <2>4. remove(G, k) = [G EXCEPT ![s] = (@ + FilterWidth - 1) % FilterWidth]
    BY DEF remove
  <2> HIDE DEF s, G
  <2>5. G[s] = (F[s] + 1) % FilterWidth /\ \A u \in FilterSlots \ {s} : G[u] = F[u]
    BY <1>1, <2>3 DEF Counts
  <2>6. DOMAIN G = FilterSlots /\ G = [u \in FilterSlots |-> G[u]]
    BY <2>3 DEF Counts
  <2>7. remove(G, k) = [u \in FilterSlots |-> IF u = s THEN F[s] ELSE G[u]]
    BY <2>2, <2>4, <2>5, <2>6
  <2> QED
    BY <2>5, <2>7 DEF Counts, G
<1>2. CASE s \notin FilterSlots
  BY <1>2 DEF insert, remove, Counts
<1> QED
  BY <1>1, <1>2

\* What was pushed can be popped.
LEMMA AppendFacts ==
  ASSUME NEW s, IsSeq(s), NEW x
  PROVE  /\ IsSeq(Append(s, x)) /\ Len(Append(s, x)) = Len(s) + 1
         /\ Last(Append(s, x)) = x /\ Front(Append(s, x)) = s
         /\ \A i \in 1 .. Len(s) : Append(s, x)[i] = s[i]
         /\ Append(s, x)[Len(s) + 1] = x
<1> DEFINE S == UNION {{s[i] : i \in 1 .. Len(s)}, {x}}
           t == Append(s, x)
<1>1. s \in Seq(S) /\ x \in S
  BY DEF IsSeq
<1> HIDE DEF S
<1>2. t \in Seq(S) /\ Len(t) = Len(s) + 1 /\ t[Len(s) + 1] = x /\ \A i \in 1 .. Len(s) : t[i] = s[i]
  BY <1>1
<1> HIDE DEF t
<1>3. IsSeq(t)
  BY <1>2 DEF IsSeq
<1>4. Last(t) = x
  BY <1>2 DEF Last
<1>5. Front(t) = s
  BY <1>1, <1>2 DEF Front
<1> QED
  BY <1>2, <1>3, <1>4, <1>5 DEF t

\* Taking a man's part out of a sum and putting it back changes nothing.
LEMMA Cancel ==
  /\ \A x, y \in Int \X Int : Plus(Minus(x, y), y) = x
  /\ \A x, y, z \in Int \X Int : Plus(Minus(Plus(Minus(x, y), z), z), y) = x
<1>1. \A x, y \in Int \X Int : Plus(Minus(x, y), y) = x
  BY DEF Plus, Minus
<1>2. \A x, y, z \in Int \X Int : Plus(Minus(Plus(Minus(x, y), z), z), y) = x
  BY DEF Plus, Minus
<1> QED
  BY <1>1, <1>2

\* p and q have the same men, and say the same of them.
SameBoard(p, q) == \A f \in BoardFields : p[f] = q[f]

\* Moving a man on and back again.
LEMMA ThereAndBack ==
  ASSUME NEW p, SetsTyped(p), NEW s \in Squares, NEW t \in Squares, s # t, p.board[s] \in Pieces,
         p.board[t] = NoPiece,
         NEW x, ShiftedTo(p, x, s, t), NEW q, SetsTyped(q), SameBoard(q, x), NEW r, ShiftedTo(q, r, t, s)
  PROVE  r.board = p.board /\ r.piece_count = p.piece_count /\ r.mid_encoding = p.mid_encoding
<1> DEFINE pc == p.board[s]
           a == Lean(pc, s)
           b == Lean(pc, t)
<1>1. a \in Int \X Int /\ b \in Int \X Int
  BY LeanTyped
<1>2. q.board[t] = pc /\ q.board = [p.board EXCEPT ![s] = NoPiece, ![t] = pc]
  BY DEF ShiftedTo, SetsTyped, SameBoard, BoardFields
<1>3. r.board = p.board
  BY <1>2 DEF ShiftedTo, SetsTyped
<1>4. r.piece_count = p.piece_count
  BY DEF ShiftedTo, SameBoard, BoardFields
<1>5. r.mid_encoding = p.mid_encoding
  <2>1. q.mid_encoding = [p.mid_encoding EXCEPT ![pc] = Plus(Minus(@, a), b)]
    BY DEF ShiftedTo, SameBoard, BoardFields
  <2>2. r.mid_encoding = [q.mid_encoding EXCEPT ![pc] = Plus(Minus(@, b), a)]
    BY <1>2 DEF ShiftedTo
  <2>3. p.mid_encoding[pc] \in Int \X Int
    BY DEF SetsTyped
  <2>4. Plus(Minus(Plus(Minus(p.mid_encoding[pc], a), b), b), a) = p.mid_encoding[pc]
    BY <1>1, <2>3, Cancel
  <2> HIDE DEF pc, a, b
  <2> QED
    BY <2>1, <2>2, <2>4 DEF SetsTyped, pc
<1> QED
  BY <1>3, <1>4, <1>5

\* Taking a man off and putting it back.
LEMMA OffAndOn ==
  ASSUME NEW p, SetsTyped(p), NEW s \in Squares, NEW pc \in Pieces, p.board[s] = pc,
         NEW q, TakenOff(p, q, s),
         NEW b, b.board = q.board, b.piece_count = q.piece_count, b.mid_encoding = q.mid_encoding,
         NEW r, PutOn(b, r, pc, s)
  PROVE  r.board = p.board /\ r.piece_count = p.piece_count /\ r.mid_encoding = p.mid_encoding
<1>1. Lean(pc, s) \in Int \X Int
  BY LeanTyped
<1>2. r.board = p.board
  <2>1. q.board = [p.board EXCEPT ![s] = NoPiece] /\ r.board = [q.board EXCEPT ![s] = pc]
    BY DEF TakenOff, PutOn
  <2> QED
    BY <2>1 DEF SetsTyped
<1>3. r.piece_count = p.piece_count
  BY DEF TakenOff, PutOn, SetsTyped
<1>4. r.mid_encoding = p.mid_encoding
  <2>1. q.mid_encoding = [p.mid_encoding EXCEPT ![pc] = Minus(@, Lean(pc, s))]
    BY DEF TakenOff
  <2>2. r.mid_encoding = [q.mid_encoding EXCEPT ![pc] = Plus(@, Lean(pc, s))]
    BY DEF PutOn
  <2>3. p.mid_encoding[pc] \in Int \X Int
    BY DEF SetsTyped
  <2>4. Plus(Minus(p.mid_encoding[pc], Lean(pc, s)), Lean(pc, s)) = p.mid_encoding[pc]
    BY <1>1, <2>3, Cancel
  <2> QED
    BY <2>1, <2>2, <2>4 DEF SetsTyped
<1> QED
  BY <1>2, <1>3, <1>4

\* With equal boards, counts and sums, the sets kept beside the board are equal.
LEMMA SameSets ==
  ASSUME NEW p, NEW q, SetsTyped(p), SetsTyped(q), OnBoard(p), OnBoard(q), p.board = q.board,
         p.piece_count = q.piece_count, p.mid_encoding = q.mid_encoding
  PROVE  SameBoard(p, q)
<1>1. p.by_type = q.by_type
  <2>1. \A k \in Kinds : p.by_type[k] = q.by_type[k]
    BY DEF OnBoard, Held
  <2> QED
    BY <2>1 DEF SetsTyped
<1>2. p.by_color = q.by_color
  <2>1. \A c \in Colors : p.by_color[c] = q.by_color[c]
    BY DEF OnBoard, HeldBy
  <2> QED
    BY <2>1 DEF SetsTyped
<1> QED
  BY <1>1, <1>2 DEF SameBoard, BoardFields

\* Undoing gives the board back.
LEMMA RestoredBoard ==
  ASSUME NEW p, Sound(p), NEW m, IsMoveIn(p, m), NEW q, Shaped(q), SameBoard(q, Moved(p, m))
  PROVE  LET b == Restored(move_piece(q, To(m), From(m)), m, p.board[To(m)])
         IN  Shaped(b) /\ SameBoard(b, p) /\ \A f \in OtherFields : b[f] = q[f]
<1> DEFINE s == From(m)
           t == To(m)
           cap == p.board[t]
           back == move_piece(q, t, s)
           b == Restored(back, m, cap)
<1>1. s \in Squares /\ t \in Squares /\ s # t /\ p.board[s] \in Pieces /\ cap \in Occupants
  BY DEF IsMoveIn, From, To, Sound, SetsTyped
<1>2. PICK r : Shaped(r) /\ SetsTyped(r) /\ Between(p, r, m) /\ ShiftedTo(r, Moved(p, m), s, t)
  BY MovedFields DEF Sound
<1>3. SetsTyped(q) /\ OnBoard(q)
  <2>1. SetsTyped(Moved(p, m)) /\ OnBoard(Moved(p, m))
    BY MovedTyped DEF Sound
  <2> QED
    BY <2>1 DEF SameBoard, BoardFields, SetsTyped, OnBoard, Held, HeldBy
<1>4. ShiftedTo(q, back, t, s) /\ SetsTyped(back)
  BY <1>1, <1>3, MoveFields, MoveTyped
<1>5. r.board[t] = NoPiece /\ r.board[s] = p.board[s]
  BY <1>1, <1>2 DEF Between, TakenOff, Sound, SetsTyped
<1>6. back.board = r.board /\ back.piece_count = r.piece_count /\ back.mid_encoding = r.mid_encoding
  BY <1>1, <1>2, <1>3, <1>4, <1>5, ThereAndBack
<1>7. q.board[t] = p.board[s] /\ q.board[s] = NoPiece
  <2>1. q.board = [r.board EXCEPT ![s] = NoPiece, ![t] = r.board[s]]
    BY <1>2 DEF ShiftedTo, SameBoard, BoardFields
  <2> QED
    BY <1>1, <1>2, <1>5, <2>1 DEF SetsTyped
<1>8. OnBoard(back) /\ Shaped(back) /\ \A f \in OtherFields : back[f] = q[f]
  <2>1. q.board[t] \in Pieces /\ q.board[s] = NoPiece /\ t # s
    BY <1>1, <1>7
  <2> HIDE DEF back, s, t
  <2>2. OnBoard(back)
    BY <1>1, <1>3, <1>4, <2>1, MoveOnBoard
  <2> QED
    BY <1>4, <2>2 DEF ShiftedTo
<1>9. Shaped(b) /\ SetsTyped(b) /\ OnBoard(b) /\ \A f \in OtherFields : b[f] = q[f]
  <2>1. CASE cap = NoPiece
    BY <1>4, <1>8, <2>1 DEF Restored
  <2>2. CASE cap \in Pieces
    <3>1. b = put_piece(back, cap, t)
      BY <2>2, PieceFacts DEF Restored, PutBack
    <3> HIDE DEF b, back, s, t, cap
    <3>2. PutOn(back, b, cap, t)
      BY <1>1, <1>4, <1>8, <2>2, <3>1, PutFields
    <3>3. SetsTyped(b)
      BY <1>1, <1>4, <2>2, <3>2, PutTyped
    <3>4. OnBoard(b)
      BY <1>1, <1>4, <1>5, <1>6, <1>8, <2>2, <3>2, PutOnBoard
    <3> QED
      BY <1>8, <3>2, <3>3, <3>4 DEF PutOn
  <2> QED
    BY <1>1, <2>1, <2>2 DEF Occupants
<1>10. b.board = p.board /\ b.piece_count = p.piece_count /\ b.mid_encoding = p.mid_encoding
  <2>1. CASE cap = NoPiece
    BY <1>2, <1>6, <2>1 DEF Restored, Between
  <2>2. CASE cap \in Pieces
    <3>1. b = put_piece(back, cap, t)
      BY <2>2, PieceFacts DEF Restored, PutBack
    <3>2. TakenOff(p, r, t)
      BY <1>2, <2>2, PieceFacts DEF Between
    <3> HIDE DEF b, back
    <3>3. PutOn(back, b, cap, t)
      BY <1>1, <1>4, <1>8, <2>2, <3>1, PutFields
    <3>4. SetsTyped(p)
      BY DEF Sound
    <3> QED
      BY <1>1, <1>6, <2>2, <3>2, <3>3, <3>4, OffAndOn
  <2> QED
    BY <1>1, <2>1, <2>2 DEF Occupants
<1> HIDE DEF b
<1>11. SameBoard(b, p)
  BY <1>9, <1>10, SameSets DEF Sound
<1> QED
  BY <1>9, <1>11 DEF b

\* A position is its fields.
LEMMA SamePosition ==
  ASSUME NEW p, Shaped(p), NEW q, Shaped(q), \A f \in PositionFields : p[f] = q[f]
  PROVE  p = q
<1>1. [f \in PositionFields |-> p[f]] = [f \in PositionFields |-> q[f]]
  OBVIOUS
<1> QED
  BY <1>1 DEF Shaped

\* undo_move gives back the position the move was played in.
LEMMA UndoMoveRestores ==
  ASSUME NEW p, Sound(p), NEW m, IsMoveIn(p, m), NEW q, Played(p, q, m)
  PROVE  undo_move(q, m) = p
<1> DEFINE b == Restored(move_piece(q, To(m), From(m)), m, q.state.captured_piece)
           u == undo_move(q, m)
<1>1. q.state.captured_piece = p.board[To(m)] /\ Shaped(q) /\ SameBoard(q, Moved(p, m))
  BY DEF Played, MovedState, SameBoard
<1>2. Shaped(b) /\ SameBoard(b, p) /\ \A f \in OtherFields : b[f] = q[f]
  BY <1>1, RestoredBoard
<1>3. u = [b EXCEPT !.side_to_move = Other(@), !.state = Last(q.state_stack), !.state_stack = Front(@),
                    !.bloom_filter = remove(@, Last(q.state_stack).key)]
  BY DEF undo_move
<1> HIDE DEF b, u
<1>4. Last(q.state_stack) = p.state /\ Front(q.state_stack) = p.state_stack
  BY AppendFacts DEF Played, Sound
<1>5. Shaped(u)
  BY <1>2, <1>3, <1>4 DEF Shaped, Sound, PositionFields, BoardFields, OtherFields
<1>6. \A f \in BoardFields : u[f] = p[f]
  BY <1>2, <1>3 DEF Shaped, SameBoard, PositionFields, BoardFields, OtherFields
<1>7. u.side_to_move = p.side_to_move
  <2>1. u.side_to_move = Other(q.side_to_move)
    BY <1>2, <1>3 DEF Shaped, PositionFields, BoardFields, OtherFields
  <2> QED
    BY <2>1, PieceFacts DEF Played, Sound
<1>8. u.state = p.state
  BY <1>2, <1>3, <1>4 DEF Shaped, PositionFields, BoardFields, OtherFields
<1>9. u.state_stack = p.state_stack
  BY <1>2, <1>3, <1>4 DEF Shaped, PositionFields, BoardFields, OtherFields
<1>10. u.bloom_filter = p.bloom_filter
  <2>1. u.bloom_filter = remove(q.bloom_filter, p.state.key)
    BY <1>2, <1>3, <1>4 DEF Shaped, PositionFields, BoardFields, OtherFields
  <2>2. q.bloom_filter = insert(p.bloom_filter, p.state.key) /\ p.bloom_filter \in Counts
    BY DEF Played, Sound
  <2> QED
    BY <2>1, <2>2, RemoveInserted
<1>11. \A f \in PositionFields : u[f] = p[f]
  BY <1>6, <1>7, <1>8, <1>9, <1>10 DEF PositionFields, OtherFields
<1> QED
  BY <1>5, <1>11, SamePosition DEF Sound, u

\* q is p after a null move.
NullState(p, st) ==
  /\ StateTyped(st) /\ st.last_move = NoMove /\ st.captured_piece = NoPiece
  /\ st.key = Xor(p.state.key, SideKey) /\ st.plies_from_null = 0
  /\ \A f \in StateFields \ (CheckFields \cup {"key", "last_move", "captured_piece", "plies_from_null"}) :
       st[f] = p.state[f]
NullPlayed(p, q) ==
  /\ Shaped(q) /\ SameBoard(q, p)
  /\ q.side_to_move = Other(p.side_to_move)
  /\ q.state_stack = Append(p.state_stack, p.state)
  /\ q.bloom_filter = insert(p.bloom_filter, p.state.key)
  /\ NullState(p, q.state)
  /\ ChecksFrom(q, q)

\* do_null_move, whole.
LEMMA NullFields ==
  ASSUME NEW p, Sound(p)
  PROVE  NullPlayed(p, do_null_move(p))
<1> DEFINE s == [p.state EXCEPT !.key = Xor(@, SideKey), !.plies_from_null = 0, !.last_move = NoMove,
                                !.captured_piece = NoPiece]
           x == [p EXCEPT !.bloom_filter = insert(@, p.state.key), !.state_stack = Append(@, p.state),
                          !.state = s, !.side_to_move = Other(@)]
           q == set_check_info(x)
<1>1. do_null_move(p) = q
  BY DEF do_null_move, Sound, Shaped, IsState, StateFields, PositionFields, BoardFields, OtherFields
<1>2. IsState(s) /\ s.key = Xor(p.state.key, SideKey) /\ s.plies_from_null = 0 /\ s.last_move = NoMove
      /\ s.captured_piece = NoPiece
  BY DEF Sound, Shaped, IsState, StateFields
<1>3. \A f \in StateFields \ {"key", "plies_from_null", "last_move", "captured_piece"} : s[f] = p.state[f]
  BY DEF Sound, Shaped, IsState, StateFields
<1> HIDE DEF s
<1>4. Shaped(x)
  BY <1>2 DEF Sound, Shaped, PositionFields, BoardFields, OtherFields
<1>5. \A f \in BoardFields : x[f] = p[f]
  BY DEF Sound, Shaped, PositionFields, BoardFields, OtherFields
<1>6. x.side_to_move = Other(p.side_to_move) /\ x.state = s
  BY DEF Sound, Shaped, PositionFields, BoardFields, OtherFields
<1>7. x.state_stack = Append(p.state_stack, p.state) /\ x.bloom_filter = insert(p.bloom_filter, p.state.key)
  BY DEF Sound, Shaped, PositionFields, BoardFields, OtherFields
<1> HIDE DEF x
<1>8. SameButChecks(x, q) /\ ChecksFrom(q, q)
  BY <1>4, SelfChecks
<1> HIDE DEF q
<1>9. SameBoard(q, p)
  BY <1>5, <1>8 DEF SameButChecks, SameBoard, PositionFields, BoardFields, OtherFields
<1>10. /\ q.side_to_move = Other(p.side_to_move)
       /\ q.state_stack = Append(p.state_stack, p.state)
       /\ q.bloom_filter = insert(p.bloom_filter, p.state.key)
  BY <1>6, <1>7, <1>8 DEF SameButChecks, PositionFields, BoardFields, OtherFields
<1>11. /\ q.state.key = Xor(p.state.key, SideKey) /\ q.state.plies_from_null = 0
       /\ q.state.last_move = NoMove /\ q.state.captured_piece = NoPiece
  BY <1>2, <1>6, <1>8 DEF SameButChecks, StateFields, CheckFields
<1>12. \A f \in StateFields \ (CheckFields \cup {"key", "last_move", "captured_piece", "plies_from_null"}) :
         q.state[f] = p.state[f]
  BY <1>3, <1>6, <1>8 DEF SameButChecks
<1>13. \A f \in {"rule60", "check10", "non_pawn_key", "major_material"} : q.state[f] = p.state[f]
  BY <1>12 DEF StateFields, CheckFields
<1>14. StateTyped(q.state)
  BY <1>8, <1>11, <1>13 DEF StateTyped, Sound, SameButChecks, Shaped
<1>15. NullState(p, q.state)
  BY <1>11, <1>12, <1>14 DEF NullState
<1> QED
  BY <1>1, <1>8, <1>9, <1>10, <1>15 DEF NullPlayed, SameButChecks

\* undo_null_move gives back the position it was played in.
LEMMA UndoNullRestores ==
  ASSUME NEW p, Sound(p), NEW q, NullPlayed(p, q)
  PROVE  undo_null_move(q) = p
<1> DEFINE u == undo_null_move(q)
<1>1. Last(q.state_stack) = p.state /\ Front(q.state_stack) = p.state_stack
  BY AppendFacts DEF NullPlayed, Sound
<1>2. u = [q EXCEPT !.state = p.state, !.state_stack = p.state_stack, !.side_to_move = Other(@),
                    !.bloom_filter = remove(@, p.state.key)]
  BY <1>1 DEF undo_null_move, NullPlayed, Shaped, PositionFields, BoardFields, OtherFields
<1> HIDE DEF u
<1>3. Shaped(q) /\ IsState(p.state)
  BY DEF NullPlayed, Sound, Shaped
<1>4. Shaped(u)
  BY <1>2, <1>3 DEF Shaped, PositionFields, BoardFields, OtherFields
<1>5. \A f \in BoardFields : u[f] = p[f]
  BY <1>2, <1>3 DEF NullPlayed, SameBoard, Shaped, PositionFields, BoardFields, OtherFields
<1>6. u.side_to_move = p.side_to_move
  <2>1. u.side_to_move = Other(q.side_to_move)
    BY <1>2, <1>3 DEF Shaped, PositionFields, BoardFields, OtherFields
  <2> QED
    BY <2>1, PieceFacts DEF NullPlayed, Sound
<1>7. u.state = p.state /\ u.state_stack = p.state_stack
  BY <1>2, <1>3 DEF Shaped, PositionFields, BoardFields, OtherFields
<1>8. u.bloom_filter = p.bloom_filter
  <2>1. u.bloom_filter = remove(q.bloom_filter, p.state.key)
    BY <1>2, <1>3 DEF Shaped, PositionFields, BoardFields, OtherFields
  <2>2. q.bloom_filter = insert(p.bloom_filter, p.state.key) /\ p.bloom_filter \in Counts
    BY DEF NullPlayed, Sound
  <2> QED
    BY <2>1, <2>2, RemoveInserted
<1>9. \A f \in PositionFields : u[f] = p[f]
  BY <1>5, <1>6, <1>7, <1>8 DEF PositionFields, OtherFields
<1> QED
  BY <1>4, <1>9, SamePosition DEF Sound, u

\* A move and a null move leave a sound position.
LEMMA PlayedSound ==
  ASSUME NEW p, Sound(p), NEW m, IsMoveIn(p, m), NEW q, Played(p, q, m)
  PROVE  Sound(q)
<1>1. SetsTyped(q) /\ OnBoard(q)
  <2>1. SetsTyped(Moved(p, m)) /\ OnBoard(Moved(p, m))
    BY MovedTyped DEF Sound
  <2> QED
    BY <2>1 DEF Played, BoardFields, SetsTyped, OnBoard, Held, HeldBy
<1>2. StateTyped(q.state)
  <2>1. PICK t : /\ Rekeying(p, m, t)
                 /\ \A f \in StateFields \ (CheckFields \cup {"key", "last_move", "captured_piece", "checkers"}) :
                      q.state[f] = t[f]
    BY DEF Played, MovedState
  <2>2. StateTyped(t)
    BY <2>1 DEF Rekeying
  <2>3. \A f \in {"rule60", "plies_from_null", "check10", "non_pawn_key", "major_material"} : q.state[f] = t[f]
    BY <2>1 DEF StateFields, CheckFields
  <2> QED
    BY <2>2, <2>3 DEF StateTyped, Played, MovedState
<1>3. IsSeq(q.state_stack)
  BY AppendFacts DEF Played, Sound
<1>4. q.bloom_filter \in Counts
  BY InsertTyped DEF Played, Sound
<1> QED
  BY <1>1, <1>2, <1>3, <1>4, PieceFacts DEF Played, Sound

\* A null move leaves a sound position.
LEMMA NullSound ==
  ASSUME NEW p, Sound(p), NEW q, NullPlayed(p, q)
  PROVE  Sound(q)
<1>1. SetsTyped(q) /\ OnBoard(q)
  BY DEF NullPlayed, Sound, SameBoard, BoardFields, SetsTyped, OnBoard, Held, HeldBy
<1>2. IsSeq(q.state_stack)
  BY AppendFacts DEF NullPlayed, Sound
<1>3. q.bloom_filter \in Counts
  BY InsertTyped DEF NullPlayed, Sound
<1> QED
  BY <1>1, <1>2, <1>3, PieceFacts DEF NullPlayed, NullState, Sound

-----------------------------------------------------------------------------
(* Generated moves are moves of men, to other squares.                      *)

\* Every set of numbers has a least one.
LEMMA LeastNat ==
  ASSUME NEW T \in SUBSET Nat, T # {}
  PROVE  \E x \in T : \A y \in T : x <= y
<1>1. \E R : IsWellFoundedOn(R, Nat) /\ \A x, y \in Nat : <<y, x>> \in R <=> y < x
  <2>1. \A x, y \in Nat : <<y, x>> \in OpToRel(<, Nat) <=> y < x
    BY DEF OpToRel
  <2> QED
    BY <2>1, NatLessThanWellFounded, Zenon
<1>2. PICK R : IsWellFoundedOn(R, Nat) /\ \A x, y \in Nat : <<y, x>> \in R <=> y < x
  BY <1>1
<1>3. \E x \in T : \A y \in T : ~ (<<y, x>> \in R)
  BY <1>2, WFMin, Zenon
<1>4. PICK x \in T : \A y \in T : ~ (<<y, x>> \in R)
  BY <1>3
<1>5. \A y \in T : ~(y < x)
  BY <1>2, <1>4, Zenon
<1> QED
  BY <1>5

Elsewhere(s) == Squares \ {s}

\* No attack of any kind of man includes the square it stands on.
LEMMA SlidesElsewhere ==
  \A s \in Squares : \A occ : attacks_bb_rook(s, occ) \subseteq Elsewhere(s)
                              /\ attacks_bb_cannon(s, occ) \subseteq Elsewhere(s)
<1> TAKE s \in Squares
<1> TAKE occ
<1>1. DOMAIN Inside[s] = OnLine(s) /\ OnLine(s) \subseteq Elsewhere(s)
  BY DEF Inside, OnLine, Elsewhere
<1>2. \A x, n : WithScreens(Inside[s], x, n) \subseteq Elsewhere(s)
  BY <1>1 DEF WithScreens
<1> QED
  BY <1>2 DEF attacks_bb_rook, attacks_bb_cannon, sliding_attack_rook, sliding_attack_cannon

\* The same for knights and bishops.
LEMMA LeapsElsewhere ==
  \A s \in Squares : KnightLeaps[s] \subseteq Elsewhere(s) /\ BishopLeaps[s] \subseteq Elsewhere(s)
<1> TAKE s \in Squares
<1>1. Leaps(s, KnightDirections) \subseteq Elsewhere(s)
  BY DEF Leaps, KnightDirections, Elsewhere, Squares
<1>2. Leaps(s, BishopDirections) \subseteq Elsewhere(s)
  BY DEF Leaps, BishopDirections, Elsewhere, Squares
<1>3. KnightLeaps[s] = Leaps(s, KnightDirections)
  BY DEF KnightLeaps
<1>4. BishopLeaps[s] = Leaps(s, BishopDirections) \cap SameHalf(s)
  BY DEF BishopLeaps
<1> QED
  BY <1>1, <1>2, <1>3, <1>4

\* The same for single steps.
LEMMA StepsElsewhere ==
  ASSUME NEW s \in Squares, NEW D \in SUBSET Int, 0 \notin D
  PROVE  Steps(s, D) \subseteq Elsewhere(s)
<1>1. ASSUME NEW d \in D PROVE safe_destination(s, d) \subseteq Elsewhere(s)
  BY DEF safe_destination, Elsewhere, Squares
<1> QED
  BY <1>1 DEF Steps

\* The same for every piece.
LEMMA AttacksElsewhere ==
  ASSUME NEW s \in Squares, NEW pc \in Pieces, NEW occ
  PROVE  Attacks(pc, s, occ) \subseteq Elsewhere(s)
<1>1. attacks_bb_rook(s, occ) \subseteq Elsewhere(s) /\ attacks_bb_cannon(s, occ) \subseteq Elsewhere(s)
  BY SlidesElsewhere
<1>2. attacks_bb_knight(s, occ) \subseteq Elsewhere(s) /\ attacks_bb_bishop(s, occ) \subseteq Elsewhere(s)
  BY LeapsElsewhere DEF attacks_bb_knight, attacks_bb_bishop
<1>3. pseudo_attacks_king(s) \subseteq Elsewhere(s)
  <2>1. Steps(s, {-9, -1, 1, 9}) \subseteq Elsewhere(s)
    BY StepsElsewhere
  <2>2. UnconstrainedKing[s] = Steps(s, {-9, -1, 1, 9})
    BY DEF UnconstrainedKing
  <2> QED
    BY <2>1, <2>2 DEF pseudo_attacks_king
<1>4. pseudo_attacks_advisor(s) \subseteq Elsewhere(s)
  <2>1. Steps(s, {-10, -8, 8, 10}) \subseteq Elsewhere(s)
    BY StepsElsewhere
  <2>2. UnconstrainedAdvisor[s] = Steps(s, {-10, -8, 8, 10})
    BY DEF UnconstrainedAdvisor
  <2> QED
    BY <2>1, <2>2 DEF pseudo_attacks_advisor
<1>5. ASSUME NEW c \in Colors PROVE pawn_attacks_bb(c, s) \subseteq Elsewhere(s)
  <2>1. Steps(s, {9}) \subseteq Elsewhere(s) /\ Steps(s, {-9}) \subseteq Elsewhere(s)
    BY StepsElsewhere
  <2>2. Steps(s, {-1, 1}) \subseteq Elsewhere(s)
    BY StepsElsewhere
  <2>3. pawn_attacks_bb(c, s) = Steps(s, {IF c = White THEN 9 ELSE -9})
                                  \cup (IF s \in Half[Other(c)] THEN Sideways(s) ELSE {})
    BY DEF pawn_attacks_bb, PawnAttacksTable
  <2>4. Steps(s, {IF c = White THEN 9 ELSE -9}) \subseteq Elsewhere(s)
    BY <2>1
  <2> QED
    BY <2>2, <2>3, <2>4 DEF Sideways
<1>6. Type(pc) \in PieceTypes /\ Color(pc) \in Colors
  BY PieceFacts
<1> QED
  BY <1>1, <1>2, <1>3, <1>4, <1>5, <1>6 DEF Attacks, PieceTypes

\* A move of one of c's men.
MoveOf(p, c, m) == IsMoveIn(p, m) /\ Color(p.board[From(m)]) = c
\* One of c's men stands on s.
ManOf(p, c, s) == s \in Squares /\ p.board[s] \in Pieces /\ Color(p.board[s]) = c

\* Moves made from a man's square to others are moves of that man.
LEMMA MovesOfMen ==
  ASSUME NEW p, NEW c, NEW s, ManOf(p, c, s), NEW T \in SUBSET Elsewhere(s)
  PROVE  \A m \in MovesFrom(s, T) : MoveOf(p, c, m)
  BY DEF MovesFrom, MoveOf, ManOf, IsMoveIn, From, To, Elsewhere

\* The men a colour has, and its king.
LEMMA MenStand ==
  ASSUME NEW p, Sound(p), NEW c \in Colors
  PROVE  /\ \A s \in of_color(p, c) : ManOf(p, c, s)
         /\ pieces(p, c, "king") # {} => ManOf(p, c, king_square(p, c))
<1>1. \A s \in of_color(p, c) : ManOf(p, c, s)
  BY DEF Sound, OnBoard, HeldBy, SetsTyped, Occupants, of_color, ManOf
<1>2. ASSUME pieces(p, c, "king") # {} PROVE king_square(p, c) \in of_color(p, c)
  <2> DEFINE K == pieces(p, c, "king")
  <2>1. K \subseteq Nat /\ K # {} /\ K \subseteq of_color(p, c)
    BY <1>1, <1>2 DEF pieces, of_color, Squares, ManOf
  <2> HIDE DEF K
  <2>2. \E s \in K : \A t \in K : s <= t
    BY <2>1, LeastNat
  <2>3. king_square(p, c) \in K
    BY <2>2 DEF king_square, K
  <2> QED
    BY <2>1, <2>3
<1> QED
  BY <1>1, <1>2

\* The targets generated for a man are other squares.
LEMMA TargetsElsewhere ==
  ASSUME NEW p, NEW s \in Squares, p.board[s] \in Pieces, NEW target, NEW g
  PROVE  PieceTargets(p, s, target, g) \subseteq Elsewhere(s)
<1>1. attacks_bb_rook(s, all_pieces(p)) \subseteq Elsewhere(s)
      /\ attacks_bb_cannon(s, all_pieces(p)) \subseteq Elsewhere(s)
  BY SlidesElsewhere
<1>2. attacks_bb_bishop(s, all_pieces(p)) \subseteq Elsewhere(s)
  BY LeapsElsewhere DEF attacks_bb_bishop
<1>3. Attacks(piece_on(p, s), s, all_pieces(p)) \subseteq Elsewhere(s)
  BY AttacksElsewhere DEF piece_on
<1> QED
  BY <1>1, <1>2, <1>3 DEF PieceTargets, Elsewhere

\* The same for the king.
LEMMA KingElsewhere == \A s \in Squares : pseudo_attacks_king(s) \subseteq Elsewhere(s)
<1> TAKE s \in Squares
<1>1. Attacks(<<White, "king">>, s, {}) \subseteq Elsewhere(s)
  BY AttacksElsewhere DEF Pieces, Colors, PieceTypes
<1>2. Attacks(<<White, "king">>, s, {}) = pseudo_attacks_king(s)
  BY DEF Attacks, Type
<1> QED
  BY <1>1, <1>2

\* What generate_non_king_moves yields are moves of the side's men.
LEMMA NonKingMoves ==
  ASSUME NEW p, Sound(p), NEW c \in Colors, NEW target, NEW g
  PROVE  \A m \in generate_non_king_moves(p, c, target, g) : MoveOf(p, c, m)
<1> TAKE m \in generate_non_king_moves(p, c, target, g)
<1>1. PICK s \in of_color(p, c) : m \in MovesFrom(s, PieceTargets(p, s, target, g))
  BY DEF generate_non_king_moves
<1>2. ManOf(p, c, s) /\ s \in Squares /\ p.board[s] \in Pieces
  BY <1>1, MenStand DEF ManOf
<1>3. PieceTargets(p, s, target, g) \subseteq Elsewhere(s)
  BY <1>2, TargetsElsewhere
<1> QED
  BY <1>1, <1>2, <1>3, MovesOfMen

\* The same for generate_all, as long as the side has its king.
LEMMA AllMoves ==
  ASSUME NEW p, Sound(p), NEW c \in Colors, pieces(p, c, "king") # {}, NEW g
  PROVE  \A m \in generate_all(p, c, g) : MoveOf(p, c, m)
<1> TAKE m \in generate_all(p, c, g)
<1> DEFINE ksq == king_square(p, c)
<1>1. ManOf(p, c, ksq) /\ ksq \in Squares
  BY MenStand DEF ManOf
<1> HIDE DEF ksq
<1>2. PICK target : \/ m \in generate_non_king_moves(p, c, target, g)
                    \/ m \in MovesFrom(ksq, pseudo_attacks_king(ksq) \cap target)
  BY DEF generate_all, ksq
<1>3. pseudo_attacks_king(ksq) \cap target \subseteq Elsewhere(ksq)
  BY <1>1, KingElsewhere
<1> QED
  BY <1>1, <1>2, <1>3, MovesOfMen, NonKingMoves

\* The same for the moves of a cannon's hurdle out of its line.
LEMMA HurdlesMove ==
  ASSUME NEW p, Sound(p), NEW c \in Colors, NEW checksq, NEW H \in SUBSET of_color(p, c)
  PROVE  \A m \in HurdleMoves(p, c, checksq, H) : MoveOf(p, c, m)
<1> TAKE m \in HurdleMoves(p, c, checksq, H)
<1>1. PICK s \in H : m \in MovesFrom(s, HurdleTargets(p, c, piece_on(p, s), s, line_bb(checksq, s)))
  BY DEF HurdleMoves
<1>2. ManOf(p, c, s) /\ s \in Squares /\ p.board[s] \in Pieces
  BY <1>1, MenStand DEF ManOf
<1>3. HurdleTargets(p, c, piece_on(p, s), s, line_bb(checksq, s)) \subseteq Elsewhere(s)
  <2>1. attacks_bb_rook(s, all_pieces(p)) \subseteq Elsewhere(s)
        /\ attacks_bb_cannon(s, all_pieces(p)) \subseteq Elsewhere(s)
    BY <1>2, SlidesElsewhere
  <2>2. attacks_bb_bishop(s, all_pieces(p)) \subseteq Elsewhere(s)
    BY <1>2, LeapsElsewhere DEF attacks_bb_bishop
  <2>3. Attacks(piece_on(p, s), s, all_pieces(p)) \subseteq Elsewhere(s)
    BY <1>2, AttacksElsewhere DEF piece_on
  <2> QED
    BY <2>1, <2>2, <2>3 DEF HurdleTargets
<1> QED
  BY <1>1, <1>2, <1>3, MovesOfMen

\* The same for the evasions.
LEMMA EvasionsMove ==
  ASSUME NEW p, Sound(p), pieces(p, p.side_to_move, "king") # {}
  PROVE  \A m \in generate_evasions(p) : MoveOf(p, p.side_to_move, m)
<1> TAKE m \in generate_evasions(p)
<1> DEFINE us == p.side_to_move
           ksq == king_square(p, us)
<1>0. us \in Colors
  BY DEF Sound
<1>1. ManOf(p, us, ksq) /\ ksq \in Squares
  BY <1>0, MenStand DEF ManOf
<1>2. CASE m \in generate_all(p, us, "PseudoLegal")
  BY <1>0, <1>2, AllMoves
<1>3. CASE \E s, line : m \in EvasionsFrom(p, us, ksq, s, line)
  <2>1. PICK s, line : m \in EvasionsFrom(p, us, ksq, s, line)
    BY <1>3
  <2> HIDE DEF us, ksq
  <2>2. PICK barred : \/ m \in generate_non_king_moves(p, us, line \ of_color(p, us), "Evasions")
                      \/ m \in MovesFrom(ksq, (pseudo_attacks_king(ksq) \ of_color(p, us)) \ barred)
                      \/ m \in HurdleMoves(p, us, s, line \cap of_color(p, us))
    BY <2>1 DEF EvasionsFrom
  <2>3. (pseudo_attacks_king(ksq) \ of_color(p, us)) \ barred \subseteq Elsewhere(ksq)
    BY <1>1, KingElsewhere
  <2>4. line \cap of_color(p, us) \in SUBSET of_color(p, us)
    OBVIOUS
  <2>5. CASE m \in generate_non_king_moves(p, us, line \ of_color(p, us), "Evasions")
    BY <1>0, <2>5, NonKingMoves DEF us
  <2>6. CASE m \in MovesFrom(ksq, (pseudo_attacks_king(ksq) \ of_color(p, us)) \ barred)
    BY <1>1, <2>3, <2>6, MovesOfMen DEF us
  <2>7. CASE m \in HurdleMoves(p, us, s, line \cap of_color(p, us))
    BY <1>0, <2>4, <2>7, HurdlesMove DEF us
  <2> QED
    BY <2>2, <2>5, <2>6, <2>7
<1> QED
  BY <1>2, <1>3 DEF generate_evasions

\* A legal move is a move of a man of the side to move.
LEMMA LegalMove ==
  ASSUME NEW p, Sound(p), pieces(p, p.side_to_move, "king") # {}
  PROVE  \A m \in generate(p, "Legal") : MoveOf(p, p.side_to_move, m)
<1> TAKE m \in generate(p, "Legal")
<1>1. p.side_to_move \in Colors
  BY DEF Sound
<1>2. m \in generate_evasions(p) \/ m \in generate_all(p, p.side_to_move, "PseudoLegal")
  BY DEF generate, Generated
<1> QED
  BY <1>1, <1>2, EvasionsMove, AllMoves

-----------------------------------------------------------------------------
(* Setting up: from_fen puts the men of the record down one by one.         *)

First(S) == CHOOSE x \in S : TRUE
PutFrom(men, g, S) ==
  IF S = {} THEN EmptyPosition ELSE put_piece(g[S \ {First(S)}], men[First(S)], First(S))
IsFold(men, g, family) == g = [S \in family |-> PutFrom(men, g, S)]
Fold(men) == CHOOSE g : IsFold(men, g, SUBSET DOMAIN men)
PlacedAll(men) == Fold(men)[DOMAIN men]

\* from_fen is a fold of put_piece over the men.
LEMMA FenFold ==
  ASSUME NEW men, NEW stm, NEW r
  PROVE  from_fen(men, stm, r) = set_state([PlacedAll(men) EXCEPT !.side_to_move = stm, !.state.rule60 = r])
  BY DEF from_fen, FoldSet, MapThenFoldSet, PlacedAll, Fold, IsFold, PutFrom, First

\* Men on squares of the board.
IsMen(men) == DOMAIN men \subseteq Squares /\ men = [s \in DOMAIN men |-> men[s]]
              /\ \A s \in DOMAIN men : men[s] \in Pieces

\* The board is finite.
LEMMA SquaresFinite == IsFiniteSet(Squares) /\ \A S \in SUBSET Squares : IsFiniteSet(S) /\ Cardinality(S) \in Nat
<1>1. IsFiniteSet(Squares)
  <2>1. 0 \in Int /\ 89 \in Int
    OBVIOUS
  <2>2. IsFiniteSet(0 .. 89)
    BY <2>1, FS_Interval
  <2> QED
    BY <2>2 DEF Squares
<1> QED
  BY <1>1, FS_Subset, FS_CardinalityType

\* A square less.
LEMMA OneLess ==
  ASSUME NEW S \in SUBSET Squares, NEW x \in S
  PROVE  Cardinality(S \ {x}) = Cardinality(S) - 1 /\ S \ {x} \in SUBSET Squares /\ Cardinality(S) > 0
<1>1. IsFiniteSet(S) /\ S # {}
  BY SquaresFinite
<1>2. Cardinality(S \ {x}) = Cardinality(S) - 1
  BY <1>1, FS_RemoveElement
<1>3. Cardinality(S) # 0 /\ Cardinality(S) \in Nat
  BY <1>1, FS_EmptySet, FS_CardinalityType
<1> QED
  BY <1>2, <1>3

\* Among some sets of squares, one has no other just a square below it.
LEMMA LeastSet ==
  ASSUME NEW Bad \in SUBSET SUBSET Squares, Bad # {}
  PROVE  \E S \in Bad : \A x \in S : S \ {x} \notin Bad
<1> DEFINE N == {Cardinality(S) : S \in Bad}
<1>1. N \in SUBSET Nat /\ N # {}
  BY SquaresFinite
<1>2. PICK n \in N : \A k \in N : n <= k
  BY <1>1, LeastNat
<1>3. PICK S \in Bad : Cardinality(S) = n
  BY <1>2
<1>4. ASSUME NEW x \in S, S \ {x} \in Bad PROVE FALSE
  <2>1. Cardinality(S \ {x}) \in N
    BY <1>4
  <2>2. Cardinality(S \ {x}) = n - 1 /\ n \in Nat
    BY <1>1, <1>3, OneLess
  <2> QED
    BY <1>2, <2>1, <2>2
<1> QED
  BY <1>3, <1>4

\* First picks a member.
LEMMA FirstIn == \A S : S # {} => First(S) \in S
  BY DEF First

\* The fold exists: a function on the sets of men that places them one by one.
LEMMA FoldExists ==
  ASSUME NEW men, DOMAIN men \subseteq Squares
  PROVE  IsFold(men, Fold(men), SUBSET DOMAIN men)
<1> DEFINE D == DOMAIN men
           Upto(n) == {S \in SUBSET D : Cardinality(S) <= n}
           Bad == {n \in Nat : ~ \E g : IsFold(men, g, Upto(n))}
<1>1. Bad = {}
  <2> SUFFICES ASSUME Bad # {} PROVE FALSE
    OBVIOUS
  <2>1. PICK n \in Bad : \A k \in Bad : n <= k
    BY LeastNat
  <2>2. n \in Nat /\ ~ \E g : IsFold(men, g, Upto(n))
    BY <2>1
  <2>3. CASE n = 0
    <3> DEFINE g == [S \in Upto(n) |-> EmptyPosition]
    <3>1. \A S \in Upto(n) : S = {}
      BY <2>3, SquaresFinite, FS_EmptySet
    <3>2. g = [S \in Upto(n) |-> PutFrom(men, g, S)]
      BY <3>1 DEF PutFrom
    <3> QED
      BY <2>2, <3>2 DEF IsFold
  <2>4. CASE n > 0
    <3>1. n - 1 \in Nat /\ n - 1 \notin Bad
      <4>1. n - 1 \in Nat /\ ~(n <= n - 1)
        BY <2>2, <2>4
      <4> HIDE DEF Bad
      <4> QED
        BY <2>1, <4>1
    <3>2. PICK h : IsFold(men, h, Upto(n - 1))
      BY <3>1
    <3> DEFINE g == [S \in Upto(n) |-> IF Cardinality(S) <= n - 1 THEN h[S] ELSE PutFrom(men, h, S)]
    <3>3. ASSUME NEW S \in Upto(n) PROVE g[S] = PutFrom(men, g, S)
      <4>1. g[S] = PutFrom(men, h, S)
        <5>1. CASE Cardinality(S) <= n - 1
          <6>1. S \in Upto(n - 1)
            BY <5>1
          <6>2. h[S] = PutFrom(men, h, S)
            BY <3>2, <6>1 DEF IsFold
          <6> QED
            BY <5>1, <6>2
        <5>2. CASE ~(Cardinality(S) <= n - 1)
          BY <5>2
        <5> QED
          BY <5>1, <5>2
      <4>2. ASSUME S # {} PROVE g[S \ {First(S)}] = h[S \ {First(S)}]
        <5>1. First(S) \in S /\ S \in SUBSET Squares /\ Cardinality(S) <= n
          BY <4>2, FirstIn
        <5>2. Cardinality(S \ {First(S)}) = Cardinality(S) - 1 /\ Cardinality(S) \in Nat
          BY <5>1, OneLess, SquaresFinite
        <5>3. Cardinality(S \ {First(S)}) <= n - 1 /\ S \ {First(S)} \in SUBSET D
          BY <2>2, <5>1, <5>2
        <5>4. S \ {First(S)} \in Upto(n)
          BY <2>2, <5>2, <5>3
        <5> QED
          BY <5>3, <5>4
      <4> HIDE DEF g
      <4> QED
        BY <4>1, <4>2 DEF PutFrom
    <3>4. g = [S \in Upto(n) |-> PutFrom(men, g, S)]
      <4>1. g = [S \in Upto(n) |-> g[S]]
        OBVIOUS
      <4> HIDE DEF g
      <4> QED
        BY <3>3, <4>1
    <3> HIDE DEF g
    <3> QED
      BY <2>2, <3>4 DEF IsFold
  <2> QED
    BY <2>2, <2>3, <2>4
<1>2. Cardinality(D) \in Nat /\ Upto(Cardinality(D)) = SUBSET D
  <2>1. IsFiniteSet(D) /\ Cardinality(D) \in Nat
    BY SquaresFinite
  <2>2. \A S \in SUBSET D : Cardinality(S) <= Cardinality(D)
    BY <2>1, FS_Subset
  <2> QED
    BY <2>1, <2>2
<1>3. \E g : IsFold(men, g, SUBSET D)
  BY <1>1, <1>2
<1> QED
  BY <1>3 DEF Fold

\* One step of the fold.
LEMMA FoldStep ==
  ASSUME NEW men, IsMen(men), NEW S \in SUBSET DOMAIN men
  PROVE  Fold(men)[S] = PutFrom(men, Fold(men), S)
  BY FoldExists DEF IsFold, IsMen

\* A position before anything but its men is known.
BoardOf(men, S) == [s \in Squares |-> IF s \in S THEN men[s] ELSE NoPiece]
Laid(p, board) ==
  /\ Shaped(p) /\ SetsTyped(p) /\ OnBoard(p) /\ p.board = board
  /\ \A f \in OtherFields : p[f] = EmptyPosition[f]

\* Nothing is laid on an empty board.
LEMMA EmptyLaid == \A men : Laid(EmptyPosition, BoardOf(men, {}))
<1> TAKE men
<1>1. Shaped(EmptyPosition)
  BY DEF EmptyPosition, Shaped, PositionFields, BoardFields, OtherFields, EmptyState, IsState, StateFields
<1>2. SetsTyped(EmptyPosition)
  BY DEF EmptyPosition, SetsTyped, Kinds, Occupants
<1>3. OnBoard(EmptyPosition)
  BY DEF EmptyPosition, OnBoard, Held, HeldBy, Kinds
<1>4. EmptyPosition.board = BoardOf(men, {})
  BY DEF EmptyPosition, BoardOf
<1> QED
  BY <1>1, <1>2, <1>3, <1>4 DEF Laid

\* Placing a man lays the board with him on it.
LEMMA PutLaid ==
  ASSUME NEW p, NEW b, Laid(p, b), NEW s \in Squares, b[s] = NoPiece, NEW pc \in Pieces
  PROVE  PutOn(p, put_piece(p, pc, s), pc, s) /\ Laid(put_piece(p, pc, s), [b EXCEPT ![s] = pc])
<1> DEFINE q == put_piece(p, pc, s)
<1>1. PutOn(p, q, pc, s)
  BY PutFields DEF Laid
<1> HIDE DEF q
<1>2. SetsTyped(q)
  BY <1>1, PutTyped DEF Laid
<1>3. OnBoard(q)
  BY <1>1, PutOnBoard DEF Laid
<1> QED
  BY <1>1, <1>2, <1>3 DEF PutOn, Laid, q

\* A board without one of its men, and with him again.
LEMMA BoardLess ==
  ASSUME NEW men, IsMen(men), NEW S \in SUBSET DOMAIN men, NEW x \in S
  PROVE  /\ BoardOf(men, S \ {x})[x] = NoPiece /\ x \in Squares /\ men[x] \in Pieces
         /\ [BoardOf(men, S \ {x}) EXCEPT ![x] = men[x]] = BoardOf(men, S)
  BY DEF BoardOf, IsMen

\* The fold over some men lays the board of these men.
LEMMA FoldLaid ==
  ASSUME NEW men, IsMen(men)
  PROVE  \A S \in SUBSET DOMAIN men : Laid(Fold(men)[S], BoardOf(men, S))
<1> DEFINE F == Fold(men)
           Bad == {S \in SUBSET DOMAIN men : ~Laid(F[S], BoardOf(men, S))}
<1> SUFFICES ASSUME Bad # {} PROVE FALSE
  OBVIOUS
<1>1. Bad \in SUBSET SUBSET Squares
  BY DEF IsMen
<1>2. PICK S \in Bad : \A x \in S : S \ {x} \notin Bad
  BY <1>1, LeastSet
<1>3. S \in SUBSET DOMAIN men /\ ~Laid(F[S], BoardOf(men, S))
  BY <1>2
<1>4. F[S] = PutFrom(men, F, S)
  BY <1>3, FoldStep
<1>5. CASE S = {}
  BY <1>3, <1>4, <1>5, EmptyLaid DEF PutFrom
<1>6. CASE S # {}
  <2> DEFINE x == First(S)
  <2>1. x \in S
    BY <1>6, FirstIn
  <2>2. Laid(F[S \ {x}], BoardOf(men, S \ {x}))
    BY <1>2, <1>3, <2>1
  <2>3. F[S] = put_piece(F[S \ {x}], men[x], x)
    BY <1>4, <1>6 DEF PutFrom
  <2> HIDE DEF x, F, Bad
  <2>4. /\ BoardOf(men, S \ {x})[x] = NoPiece /\ x \in Squares /\ men[x] \in Pieces
        /\ [BoardOf(men, S \ {x}) EXCEPT ![x] = men[x]] = BoardOf(men, S)
    BY <1>3, <2>1, BoardLess
  <2> DEFINE rest == F[S \ {x}]
             b == BoardOf(men, S \ {x})
             pc == men[x]
  <2>5. Laid(F[S], [b EXCEPT ![x] = pc])
    <3>1. Laid(rest, b) /\ b[x] = NoPiece /\ x \in Squares /\ pc \in Pieces /\ F[S] = put_piece(rest, pc, x)
      BY <2>2, <2>3, <2>4
    <3> HIDE DEF rest, b, pc
    <3> QED
      BY <3>1, PutLaid
  <2> QED
    BY <1>3, <2>4, <2>5
<1> QED
  BY <1>5, <1>6

\* Sums of pairs do not depend on the order.
LEMMA SumsCommute == \A x, y, z \in Int \X Int : Plus(Plus(x, y), z) = Plus(Plus(x, z), y)
  BY DEF Plus

\* Two men may be placed in either order.
LEMMA PutsCommute ==
  ASSUME NEW p, Shaped(p), SetsTyped(p), NEW s \in Squares, NEW t \in Squares, s # t,
         NEW a \in Pieces, NEW b \in Pieces
  PROVE  put_piece(put_piece(p, a, s), b, t) = put_piece(put_piece(p, b, t), a, s)
<1> DEFINE x == put_piece(p, a, s)
           y == put_piece(x, b, t)
           u == put_piece(p, b, t)
           v == put_piece(u, a, s)
<1>1. PutOn(p, x, a, s) /\ PutOn(p, u, b, t)
  BY PutFields
<1> HIDE DEF x, u
<1>2. Shaped(x) /\ SetsTyped(x) /\ Shaped(u) /\ SetsTyped(u)
  <2>1. SetsTyped(x)
    BY <1>1, PutTyped
  <2>2. SetsTyped(u)
    BY <1>1, PutTyped
  <2> QED
    BY <1>1, <2>1, <2>2 DEF PutOn
<1>3. PutOn(x, y, b, t) /\ PutOn(u, v, a, s)
  BY <1>2, PutFields
<1> HIDE DEF y, v
<1>4. y.board = v.board
  BY <1>1, <1>3 DEF PutOn, SetsTyped
<1>5. y.by_type = v.by_type
  BY <1>1, <1>3 DEF PutOn
<1>6. y.by_color = v.by_color
  BY <1>1, <1>3 DEF PutOn
<1>7. y.piece_count = v.piece_count
  BY <1>1, <1>3 DEF PutOn, SetsTyped
<1>8. y.mid_encoding = v.mid_encoding
  <2>1. Lean(a, s) \in Int \X Int /\ Lean(b, t) \in Int \X Int
    BY LeanTyped
  <2>2. \A pc \in Pieces : p.mid_encoding[pc] \in Int \X Int
    BY DEF SetsTyped
  <2>3. CASE a = b
    BY <1>1, <1>3, <2>1, <2>2, <2>3, SumsCommute DEF PutOn, SetsTyped
  <2>4. CASE a # b
    <3>2. p.mid_encoding = [pc \in Pieces |-> p.mid_encoding[pc]]
      BY DEF SetsTyped
    <3> DEFINE M == p.mid_encoding
               A == Plus(M[a], Lean(a, s))
               B == Plus(M[b], Lean(b, t))
    <3> HIDE DEF A, B, M
    <3>3. x.mid_encoding = [M EXCEPT ![a] = A] /\ u.mid_encoding = [M EXCEPT ![b] = B]
      BY <1>1 DEF PutOn, M, A, B
    <3>4. x.mid_encoding[b] = M[b] /\ u.mid_encoding[a] = M[a]
      BY <2>4, <3>2, <3>3 DEF M
    <3>5. y.mid_encoding = [[M EXCEPT ![a] = A] EXCEPT ![b] = B]
      BY <1>3, <3>3, <3>4 DEF PutOn, B
    <3>6. v.mid_encoding = [[M EXCEPT ![b] = B] EXCEPT ![a] = A]
      BY <1>3, <3>3, <3>4 DEF PutOn, A
    <3>7. [[M EXCEPT ![a] = A] EXCEPT ![b] = B] = [[M EXCEPT ![b] = B] EXCEPT ![a] = A]
      BY <2>4, <3>2 DEF M
    <3> QED
      BY <3>5, <3>6, <3>7
  <2> QED
    BY <2>3, <2>4
<1>9. \A f \in OtherFields : y[f] = v[f]
  BY <1>1, <1>3 DEF PutOn
<1>10. \A f \in PositionFields : y[f] = v[f]
  BY <1>4, <1>5, <1>6, <1>7, <1>8, <1>9 DEF PositionFields, BoardFields
<1>11. Shaped(y) /\ Shaped(v)
  BY <1>3 DEF PutOn
<1> QED
  BY <1>10, <1>11, SamePosition DEF x, y, u, v

\* The order in which the men are put down does not matter.
LEMMA FoldAny ==
  ASSUME NEW men, IsMen(men)
  PROVE  \A S \in SUBSET DOMAIN men : \A x \in S : Fold(men)[S] = put_piece(Fold(men)[S \ {x}], men[x], x)
<1> DEFINE F == Fold(men)
           Bad == {S \in SUBSET DOMAIN men : \E x \in S : F[S] # put_piece(F[S \ {x}], men[x], x)}
<1> SUFFICES ASSUME Bad # {} PROVE FALSE
  OBVIOUS
<1>1. Bad \in SUBSET SUBSET Squares
  BY DEF IsMen
<1>2. PICK S \in Bad : \A x \in S : S \ {x} \notin Bad
  BY <1>1, LeastSet
<1>3. PICK x \in S : S \in SUBSET DOMAIN men /\ F[S] # put_piece(F[S \ {x}], men[x], x)
  BY <1>2
<1> DEFINE y == First(S)
           R == (S \ {x}) \ {y}
<1>4. y \in S
  BY <1>3, FirstIn
<1>5. F[S] = put_piece(F[S \ {y}], men[y], y)
  BY <1>3, <1>4, FoldStep DEF PutFrom
<1>6. x # y
  BY <1>3, <1>5
<1> HIDE DEF y
<1>7. S \ {y} \in SUBSET DOMAIN men /\ S \ {x} \in SUBSET DOMAIN men
  BY <1>3
<1>8. F[S \ {y}] = put_piece(F[R], men[x], x)
  <2>1. F[S \ {y}] = put_piece(F[(S \ {y}) \ {x}], men[x], x)
    BY <1>2, <1>3, <1>4, <1>6, <1>7
  <2>2. (S \ {y}) \ {x} = R
    OBVIOUS
  <2> QED
    BY <2>1, <2>2
<1>9. F[S \ {x}] = put_piece(F[R], men[y], y)
  BY <1>2, <1>3, <1>4, <1>6, <1>7
<1>10. Shaped(F[R]) /\ SetsTyped(F[R])
  <2>1. R \in SUBSET DOMAIN men
    BY <1>7
  <2> HIDE DEF R
  <2> QED
    BY <2>1, FoldLaid DEF Laid
<1>11. x \in Squares /\ y \in Squares /\ men[x] \in Pieces /\ men[y] \in Pieces
  BY <1>3, <1>4 DEF IsMen
<1> HIDE DEF F, R, Bad
<1>12. put_piece(put_piece(F[R], men[x], x), men[y], y) = put_piece(put_piece(F[R], men[y], y), men[x], x)
  BY <1>6, <1>10, <1>11, PutsCommute
<1> QED
  BY <1>3, <1>5, <1>8, <1>9, <1>12

\* What is put down depends on the men that are, not on the rest of the record.
LEMMA FoldAgree ==
  ASSUME NEW men, IsMen(men), NEW other, IsMen(other), NEW T, T \subseteq DOMAIN men,
         T \subseteq DOMAIN other, \A s \in T : men[s] = other[s]
  PROVE  Fold(men)[T] = Fold(other)[T]
<1> DEFINE F == Fold(men)
           G == Fold(other)
           Bad == {S \in SUBSET T : F[S] # G[S]}
<1>0. SUFFICES ASSUME Bad # {} PROVE FALSE
  OBVIOUS
<1>1. Bad \in SUBSET SUBSET Squares
  BY DEF IsMen
<1>2. PICK S \in Bad : \A x \in S : S \ {x} \notin Bad
  BY <1>0, <1>1, LeastSet
<1>3. S \subseteq T /\ F[S] # G[S]
  BY <1>2
<1>4. F[S] = PutFrom(men, F, S) /\ G[S] = PutFrom(other, G, S)
  BY <1>3, FoldStep
<1>5. S # {}
  BY <1>3, <1>4 DEF PutFrom
<1> DEFINE x == First(S)
<1>6. x \in S
  BY <1>5, FirstIn
<1>7. F[S \ {x}] = G[S \ {x}] /\ men[x] = other[x]
  BY <1>2, <1>3, <1>6
<1> QED
  BY <1>3, <1>4, <1>5, <1>7 DEF PutFrom

-----------------------------------------------------------------------------
(* What set_state reads off the board.                                      *)

MenOn(p) == [s \in {t \in Squares : p.board[t] # NoPiece} |-> p.board[s]]
Built(p) == SameBoard(p, PlacedAll(MenOn(p)))
KeysRead(p) ==
  /\ p.state.key = Men(p, PieceTypes) \cup (IF p.side_to_move = Black THEN SideKey ELSE {})
  /\ p.state.pawn_key = Men(p, {"pawn"})
  /\ p.state.minor_piece_key = Men(p, {"cannon", "knight"})
  /\ p.state.non_pawn_key = [c \in Colors |-> MenOf(p, c, PieceTypes \ {"pawn"})]
  /\ p.state.major_material = [c \in Colors |-> Material(p, c)]
CheckersRead(p) ==
  p.state.checkers = checkers_to(p, Other(p.side_to_move), king_square(p, p.side_to_move), all_pieces(p))

\* What is read off the board, its sets and counts is the same in positions where these are.
LEMMA SameReading ==
  ASSUME NEW p, NEW q, SameBoard(p, q)
  PROVE  /\ \A pts : Men(p, pts) = Men(q, pts)
         /\ \A c, pts : MenOf(p, c, pts) = MenOf(q, c, pts)
         /\ \A c : Material(p, c) = Material(q, c)
         /\ \A c, s, occ : checkers_to(p, c, s, occ) = checkers_to(q, c, s, occ)
         /\ \A c : king_square(p, c) = king_square(q, c)
         /\ all_pieces(p) = all_pieces(q) /\ MenOn(p) = MenOn(q)
<1>1. p.board = q.board /\ p.by_type = q.by_type /\ p.by_color = q.by_color
  BY DEF SameBoard, BoardFields
<1>2. /\ all_pieces(p) = all_pieces(q)
      /\ \A c : of_color(p, c) = of_color(q, c)
      /\ \A t : of_type(p, t) = of_type(q, t)
  BY <1>1 DEF all_pieces, of_color, of_type
<1>3. \A c, t : pieces(p, c, t) = pieces(q, c, t)
  BY <1>1 DEF pieces
<1>4. \A c : king_square(p, c) = king_square(q, c)
  BY <1>3 DEF king_square
<1>5. \A pts : Men(p, pts) = Men(q, pts)
  BY <1>1, <1>2 DEF Men, piece_on
<1>6. \A c, pts : MenOf(p, c, pts) = MenOf(q, c, pts)
  BY <1>5 DEF MenOf
<1>7. \A c : Material(p, c) = Material(q, c)
  BY <1>6 DEF Material
<1>8. \A c, s, occ : checkers_to(p, c, s, occ) = checkers_to(q, c, s, occ)
  BY <1>2 DEF checkers_to
<1>9. MenOn(p) = MenOn(q)
  BY <1>1 DEF MenOn
<1> QED
  BY <1>2, <1>4, <1>5, <1>6, <1>7, <1>8, <1>9

\* The men of some types on a board, each with its square.
BoardMen(b, pts) == {<<b[s], s>> : s \in {t \in Squares : b[t] # NoPiece /\ Type(b[t]) \in pts}}

\* The men, read off a sound position, are those on its board.
LEMMA MenRead ==
  ASSUME NEW p, Sound(p) \/ (SetsTyped(p) /\ OnBoard(p)), NEW pts \in SUBSET PieceTypes
  PROVE  /\ Men(p, pts) = BoardMen(p.board, pts)
         /\ IsFiniteSet(Men(p, pts))
         /\ \A c : MenOf(p, c, pts) = {x \in Men(p, pts) : Color(x[1]) = c} /\ IsFiniteSet(MenOf(p, c, pts))
<1>1. all_pieces(p) = {t \in Squares : p.board[t] # NoPiece}
  BY DEF Sound, OnBoard, Held, all_pieces, Kinds
<1>2. Men(p, pts) = BoardMen(p.board, pts)
  BY <1>1 DEF Men, piece_on, BoardMen
<1>3. IsFiniteSet(Men(p, pts))
  <2> DEFINE S == {t \in Squares : p.board[t] # NoPiece /\ Type(p.board[t]) \in pts}
             f == [s \in S |-> <<p.board[s], s>>]
  <2>1. IsFiniteSet(S)
    BY SquaresFinite
  <2>2. f \in Surjection(S, Men(p, pts))
    BY <1>2 DEF Surjection, BoardMen
  <2> QED
    BY <2>1, <2>2, FS_Surjection
<1>4. \A c : IsFiniteSet(MenOf(p, c, pts))
  BY <1>3, FS_Subset DEF MenOf
<1> QED
  BY <1>2, <1>3, <1>4 DEF MenOf

\* Material is an integer.
LEMMA MaterialTyped ==
  ASSUME NEW p, Sound(p) \/ (SetsTyped(p) /\ OnBoard(p))
  PROVE  \A c : Material(p, c) \in Int
<1> TAKE c
<1>1. {"rook"} \in SUBSET PieceTypes /\ {"cannon"} \in SUBSET PieceTypes /\ {"knight"} \in SUBSET PieceTypes
  BY DEF PieceTypes
<1>2. /\ IsFiniteSet(MenOf(p, c, {"rook"})) /\ IsFiniteSet(MenOf(p, c, {"cannon"}))
      /\ IsFiniteSet(MenOf(p, c, {"knight"}))
  BY <1>1, MenRead
<1>3. /\ Cardinality(MenOf(p, c, {"rook"})) \in Nat /\ Cardinality(MenOf(p, c, {"cannon"})) \in Nat
      /\ Cardinality(MenOf(p, c, {"knight"})) \in Nat
  BY <1>2, FS_CardinalityType
<1> QED
  BY <1>3 DEF Material

\* What a position from a record is.
Begun(p, men, stm, r) ==
  /\ Sound(p) /\ SameBoard(p, PlacedAll(men)) /\ p.board = BoardOf(men, DOMAIN men)
  /\ p.side_to_move = stm /\ p.state_stack = <<>> /\ p.bloom_filter = [s \in FilterSlots |-> 0]
  /\ p.state.rule60 = r /\ p.state.check10 = [c \in Colors |-> 0] /\ p.state.plies_from_null = 0
  /\ p.state.last_move = NoMove /\ p.state.captured_piece = NoPiece
  /\ KeysRead(p) /\ CheckersRead(p)

\* What from_fen sets up: the men, the state read from them, an empty stack and an empty filter.
LEMMA FenBegins ==
  ASSUME NEW men, IsMen(men), NEW stm \in Colors, NEW r \in Nat
  PROVE  Begun(from_fen(men, stm, r), men, stm, r)
<1> DEFINE placed == PlacedAll(men)
           p == [placed EXCEPT !.side_to_move = stm, !.state.rule60 = r]
           side == IF p.side_to_move = Black THEN SideKey ELSE {}
           chk == checkers_to(p, Other(p.side_to_move), king_square(p, p.side_to_move), all_pieces(p))
           npk == [c \in Colors |-> MenOf(p, c, PieceTypes \ {"pawn"})]
           mat == [c \in Colors |-> Material(p, c)]
           x == [p EXCEPT !.state.key = Men(p, PieceTypes) \cup side,
                  !.state.pawn_key = Men(p, {"pawn"}),
                  !.state.minor_piece_key = Men(p, {"cannon", "knight"}),
                  !.state.non_pawn_key = npk,
                  !.state.major_material = mat,
                  !.state.checkers = chk]
           q == set_check_info(x)
<1>1. from_fen(men, stm, r) = q
  BY FenFold DEF set_state
<1>2. Laid(placed, BoardOf(men, DOMAIN men))
  BY FoldLaid DEF PlacedAll
<1>3. placed.state = EmptyState /\ placed.state_stack = <<>> /\ placed.bloom_filter = [s \in FilterSlots |-> 0]
  BY <1>2 DEF Laid, OtherFields, EmptyPosition
<1> HIDE DEF placed
<1>4. Shaped(p)
  BY <1>2 DEF Laid, Shaped, PositionFields, BoardFields, OtherFields, IsState, StateFields
<1>5. SameBoard(p, placed)
  BY <1>2 DEF Laid, Shaped, SameBoard, PositionFields, BoardFields, OtherFields
<1>6. /\ p.side_to_move = stm /\ p.state_stack = <<>> /\ p.bloom_filter = [s \in FilterSlots |-> 0]
      /\ p.state = [EmptyState EXCEPT !.rule60 = r]
  BY <1>2, <1>3 DEF Laid, Shaped, PositionFields, BoardFields, OtherFields
<1>7. SetsTyped(p) /\ OnBoard(p)
  BY <1>2, <1>5 DEF SameBoard, BoardFields, Laid, SetsTyped, OnBoard, Held, HeldBy
<1> HIDE DEF p
<1>8. mat \in [Colors -> Int] /\ npk = [c \in Colors |-> npk[c]]
  BY <1>7, MaterialTyped
<1> HIDE DEF side, chk, npk, mat
<1>9. Shaped(x)
  <2>1. x.state = [p.state EXCEPT !.key = Men(p, PieceTypes) \cup side, !.pawn_key = Men(p, {"pawn"}),
                                  !.minor_piece_key = Men(p, {"cannon", "knight"}), !.non_pawn_key = npk,
                                  !.major_material = mat, !.checkers = chk]
    BY <1>4 DEF Shaped, PositionFields, BoardFields, OtherFields, IsState, StateFields
  <2> DEFINE k == Men(p, PieceTypes) \cup side
             pk == Men(p, {"pawn"})
             mk == Men(p, {"cannon", "knight"})
             st == p.state
  <2>2. IsState(x.state)
    <3>1. IsState(st)
      BY <1>4 DEF Shaped
    <3>2. x.state = [st EXCEPT !.key = k, !.pawn_key = pk, !.minor_piece_key = mk, !.non_pawn_key = npk,
                               !.major_material = mat, !.checkers = chk]
      BY <2>1
    <3> HIDE DEF k, pk, mk, st
    <3> QED
      BY <3>1, <3>2 DEF IsState
  <2>3. x = [f \in PositionFields |-> x[f]]
    BY <1>4 DEF Shaped, PositionFields, BoardFields, OtherFields
  <2> QED
    BY <2>2, <2>3 DEF Shaped
<1>10. SameBoard(x, p)
  BY <1>4 DEF Shaped, SameBoard, PositionFields, BoardFields, OtherFields
<1>11. /\ x.side_to_move = stm /\ x.state_stack = <<>> /\ x.bloom_filter = [s \in FilterSlots |-> 0]
  BY <1>4, <1>6 DEF Shaped, PositionFields, BoardFields, OtherFields
<1>12. /\ x.state.key = Men(p, PieceTypes) \cup side /\ x.state.pawn_key = Men(p, {"pawn"})
       /\ x.state.minor_piece_key = Men(p, {"cannon", "knight"})
  BY <1>4 DEF Shaped, PositionFields, BoardFields, OtherFields, IsState, StateFields
<1>13. x.state.non_pawn_key = npk /\ x.state.major_material = mat /\ x.state.checkers = chk
  BY <1>4 DEF Shaped, PositionFields, BoardFields, OtherFields, IsState, StateFields
<1>14. \A f \in {"rule60", "check10", "plies_from_null", "last_move", "captured_piece"} : x.state[f] = p.state[f]
  BY <1>4 DEF Shaped, PositionFields, BoardFields, OtherFields, IsState, StateFields
<1> HIDE DEF x
<1>15. SameButChecks(x, q) /\ ChecksFrom(q, q)
  BY <1>9, SelfChecks
<1> HIDE DEF q
<1>16. SameBoard(q, p) /\ SameBoard(q, placed)
  BY <1>5, <1>10, <1>15 DEF SameButChecks, SameBoard, PositionFields, BoardFields, OtherFields
<1>17. /\ q.side_to_move = stm /\ q.state_stack = <<>> /\ q.bloom_filter = [s \in FilterSlots |-> 0]
  BY <1>11, <1>15 DEF SameButChecks, PositionFields, BoardFields, OtherFields
<1>18. \A f \in StateFields \ CheckFields : q.state[f] = x.state[f]
  BY <1>15 DEF SameButChecks
<1>19. /\ q.state.key = Men(p, PieceTypes) \cup side /\ q.state.pawn_key = Men(p, {"pawn"})
       /\ q.state.minor_piece_key = Men(p, {"cannon", "knight"})
       /\ q.state.non_pawn_key = npk /\ q.state.major_material = mat /\ q.state.checkers = chk
  BY <1>12, <1>13, <1>18 DEF StateFields, CheckFields
<1>20. /\ q.state.rule60 = r /\ q.state.check10 = [c \in Colors |-> 0] /\ q.state.plies_from_null = 0
       /\ q.state.last_move = NoMove /\ q.state.captured_piece = NoPiece
  <2>1. \A f \in {"rule60", "check10", "plies_from_null", "last_move", "captured_piece"} : q.state[f] = p.state[f]
    BY <1>14, <1>18 DEF StateFields, CheckFields
  <2>2. /\ p.state.rule60 = r /\ p.state.check10 = [c \in Colors |-> 0] /\ p.state.plies_from_null = 0
        /\ p.state.last_move = NoMove /\ p.state.captured_piece = NoPiece
    BY <1>6 DEF EmptyState
  <2> QED
    BY <2>1, <2>2
<1>21. KeysRead(q)
  <2>1. \A c \in Colors : /\ Material(q, c) = Material(p, c)
                          /\ MenOf(q, c, PieceTypes \ {"pawn"}) = MenOf(p, c, PieceTypes \ {"pawn"})
    BY <1>16, SameReading
  <2>2. npk = [c \in Colors |-> MenOf(q, c, PieceTypes \ {"pawn"})] /\ mat = [c \in Colors |-> Material(q, c)]
    BY <2>1 DEF npk, mat
  <2>3. \A pts : Men(q, pts) = Men(p, pts)
    BY <1>16, SameReading
  <2> QED
    BY <1>6, <1>17, <1>19, <2>2, <2>3 DEF KeysRead, side
<1>22. CheckersRead(q)
  <2>1. /\ \A c, s, occ : checkers_to(q, c, s, occ) = checkers_to(p, c, s, occ)
        /\ \A c : king_square(q, c) = king_square(p, c)
        /\ all_pieces(q) = all_pieces(p)
    BY <1>16, SameReading
  <2> QED
    BY <1>6, <1>17, <1>19, <2>1 DEF CheckersRead, chk
<1>23. Sound(q)
  <2>1. SetsTyped(q) /\ OnBoard(q)
    BY <1>7, <1>16 DEF SameBoard, BoardFields, SetsTyped, OnBoard, Held, HeldBy
  <2>2. Shaped(q) /\ IsState(q.state)
    BY <1>15 DEF SameButChecks, Shaped
  <2>3. StateTyped(q.state)
    BY <1>8, <1>19, <1>20, <2>2 DEF StateTyped, Colors
  <2>4. IsSeq(q.state_stack)
    BY <1>17 DEF IsSeq
  <2>5. q.bloom_filter \in Counts
    BY <1>17, PositionAssumption DEF Counts
  <2> QED
    BY <1>15, <1>17, <2>1, <2>2, <2>3, <2>4, <2>5 DEF Sound
<1>24. q.board = BoardOf(men, DOMAIN men)
  BY <1>2, <1>16 DEF SameBoard, BoardFields, Laid
<1> QED
  BY <1>1, <1>16, <1>17, <1>20, <1>21, <1>22, <1>23, <1>24 DEF Begun, placed

-----------------------------------------------------------------------------
(* What a position and the states under it say of the line that led to it.  *)

Plies(p) == Len(p.state_stack)
MadeIn(p, i) == IF i = Plies(p) THEN p.state ELSE p.state_stack[i + 1]
CapturesIn(p) == {i \in 1 .. Plies(p) : MadeIn(p, i).captured_piece # NoPiece}
NullsIn(p) == {i \in 1 .. Plies(p) : MadeIn(p, i).last_move = NoMove}
Latest(S) == IF S = {} THEN 0 ELSE CHOOSE i \in S : \A j \in S : j <= i
QuietIn(p) == {i \in Latest(CapturesIn(p)) + 1 .. Plies(p) : i \notin NullsIn(p)}
Accounts(p, r) ==
  /\ Reversible(p.state) = Cardinality(QuietIn(p)) + (IF CapturesIn(p) = {} THEN r ELSE 0)
  /\ p.state.plies_from_null = Plies(p) - Latest(NullsIn(p))

\* Above p in q's stack: one more state.
Pushed(p, q) == q.state_stack = Append(p.state_stack, p.state)

\* A ply more leaves the earlier ones where they were.
LEMMA PushedFacts ==
  ASSUME NEW p, Sound(p), NEW q, Pushed(p, q)
  PROVE  /\ Plies(p) \in Nat /\ Plies(q) = Plies(p) + 1
         /\ \A i \in 1 .. Plies(p) : MadeIn(q, i) = MadeIn(p, i)
         /\ MadeIn(q, Plies(p) + 1) = q.state
<1>1. IsSeq(p.state_stack)
  BY DEF Sound
<1>2. Plies(p) \in Nat
  BY <1>1 DEF IsSeq, Plies
<1>3. Plies(q) = Plies(p) + 1 /\ q.state_stack[Plies(p) + 1] = p.state
      /\ \A i \in 1 .. Plies(p) : q.state_stack[i] = p.state_stack[i]
  BY <1>1, AppendFacts DEF Pushed, Plies
<1>4. MadeIn(q, Plies(p) + 1) = q.state
  BY <1>3 DEF MadeIn
<1>5. ASSUME NEW i \in 1 .. Plies(p) PROVE MadeIn(q, i) = MadeIn(p, i)
  <2>1. i # Plies(q) /\ MadeIn(q, i) = q.state_stack[i + 1]
    BY <1>2, <1>3 DEF MadeIn
  <2>2. CASE i = Plies(p)
    BY <1>2, <1>3, <2>1, <2>2 DEF MadeIn
  <2>3. CASE i # Plies(p)
    <3>1. i + 1 \in 1 .. Plies(p)
      BY <1>2, <2>3
    <3> QED
      BY <1>3, <2>1, <2>3, <3>1 DEF MadeIn
  <2> QED
    BY <2>2, <2>3
<1> QED
  BY <1>2, <1>3, <1>4, <1>5

\* The latest of some plies, and a new latest one.
LEMMA LatestFacts ==
  ASSUME NEW n \in Nat, NEW S \in SUBSET (1 .. n)
  PROVE  /\ Latest(S) \in 0 .. n
         /\ Latest(S \cup {n + 1}) = n + 1
<1>1. Latest(S) \in 0 .. n
  <2>1. CASE S = {}
    BY <2>1 DEF Latest
  <2>2. CASE S # {}
    <3> DEFINE T == {n - i : i \in S}
    <3>0. \A i \in S : i \in Int /\ 1 <= i /\ i <= n
      OBVIOUS
    <3>1. T \in SUBSET Nat /\ T # {}
      <4>1. \A i \in S : n - i \in Nat
        BY <3>0
      <4> QED
        BY <2>2, <4>1
    <3>2. PICK k \in T : \A y \in T : k <= y
      BY <3>1, LeastNat
    <3>3. PICK i \in S : k = n - i
      BY <3>2
    <3>4. \A j \in S : j <= i
      <4>1. TAKE j \in S
      <4>2. n - j \in T /\ n - i <= n - j
        BY <3>2, <3>3
      <4> QED
        BY <3>0, <4>2
    <3>5. Latest(S) \in S
      BY <2>2, <3>4 DEF Latest
    <3>6. \A j \in S : j \in 0 .. n
      BY <3>0
    <3> QED
      BY <3>5, <3>6
  <2> QED
    BY <2>1, <2>2
<1>2. Latest(S \cup {n + 1}) = n + 1
  <2> DEFINE T == S \cup {n + 1}
  <2>1. n + 1 \in T /\ \A j \in T : j \in Nat /\ j <= n + 1
    OBVIOUS
  <2>2. T # {}
    BY <2>1
  <2> HIDE DEF T
  <2>3. \A i \in T : (\A j \in T : j <= i) => i = n + 1
    BY <2>1
  <2> QED
    BY <2>1, <2>2, <2>3 DEF Latest, T
<1> QED
  BY <1>1, <1>2

\* The lists of captures and null moves after one more ply.
LEMMA ListsGrow ==
  ASSUME NEW p, Sound(p), NEW q, Pushed(p, q)
  PROVE  /\ CapturesIn(q) = CapturesIn(p) \cup (IF q.state.captured_piece # NoPiece THEN {Plies(p) + 1} ELSE {})
         /\ NullsIn(q) = NullsIn(p) \cup (IF q.state.last_move = NoMove THEN {Plies(p) + 1} ELSE {})
         /\ CapturesIn(p) \in SUBSET (1 .. Plies(p)) /\ NullsIn(p) \in SUBSET (1 .. Plies(p))
<1> DEFINE n == Plies(p)
<1>1. /\ n \in Nat /\ Plies(q) = n + 1 /\ MadeIn(q, n + 1) = q.state
      /\ \A i \in 1 .. n : MadeIn(q, i) = MadeIn(p, i)
  BY PushedFacts
<1> HIDE DEF n
<1>2. 1 .. n + 1 = (1 .. n) \cup {n + 1}
  BY <1>1
<1>3. CapturesIn(q) = CapturesIn(p) \cup (IF q.state.captured_piece # NoPiece THEN {n + 1} ELSE {})
  BY <1>1, <1>2 DEF CapturesIn, n
<1>4. NullsIn(q) = NullsIn(p) \cup (IF q.state.last_move = NoMove THEN {n + 1} ELSE {})
  BY <1>1, <1>2 DEF NullsIn, n
<1> QED
  BY <1>3, <1>4 DEF CapturesIn, NullsIn, n

\* A move of a man is not the null move.
LEMMA NoMoveIsNone == ASSUME NEW p, NEW m, IsMoveIn(p, m) PROVE m # NoMove
  BY DEF IsMoveIn, NoMove, Squares

\* A move is accounted for.
LEMMA PlayedAccounts ==
  ASSUME NEW p, Sound(p), NEW r \in Nat, Accounts(p, r), NEW m, IsMoveIn(p, m), NEW q, Played(p, q, m)
  PROVE  Accounts(q, r)
<1> DEFINE n == Plies(p)
           cap == p.board[To(m)]
<1>1. /\ n \in Nat /\ Plies(q) = n + 1
      /\ CapturesIn(q) = CapturesIn(p) \cup (IF cap # NoPiece THEN {n + 1} ELSE {})
      /\ NullsIn(q) = NullsIn(p)
      /\ CapturesIn(p) \in SUBSET (1 .. n) /\ NullsIn(p) \in SUBSET (1 .. n)
  <2>1. Pushed(p, q) /\ q.state.captured_piece = cap /\ q.state.last_move = m /\ m # NoMove
    BY NoMoveIsNone DEF Played, Pushed, MovedState
  <2>2. Plies(p) \in Nat /\ Plies(q) = Plies(p) + 1
    BY <2>1, PushedFacts
  <2>3. /\ CapturesIn(q) = CapturesIn(p) \cup (IF q.state.captured_piece # NoPiece THEN {Plies(p) + 1} ELSE {})
        /\ NullsIn(q) = NullsIn(p) \cup (IF q.state.last_move = NoMove THEN {Plies(p) + 1} ELSE {})
        /\ CapturesIn(p) \in SUBSET (1 .. Plies(p)) /\ NullsIn(p) \in SUBSET (1 .. Plies(p))
    BY <2>1, ListsGrow
  <2> QED
    BY <2>1, <2>2, <2>3
<1>2. /\ q.state.plies_from_null = p.state.plies_from_null + 1
      /\ Reversible(q.state) = IF cap = NoPiece THEN Reversible(p.state) + 1 ELSE 0
  <2>1. PICK t : /\ Rekeying(p, m, t)
                 /\ \A f \in StateFields \ (CheckFields \cup {"key", "last_move", "captured_piece", "checkers"}) :
                      q.state[f] = t[f]
    BY DEF Played, MovedState
  <2>2. AfterMove(p, m, t)
    BY <2>1, RekeyedAccounts
  <2>3. q.state.plies_from_null = t.plies_from_null /\ q.state.rule60 = t.rule60 /\ q.state.check10 = t.check10
    BY <2>1 DEF StateFields, CheckFields
  <2>4. Reversible(q.state) = Reversible(t)
    BY <2>3 DEF Reversible
  <2> QED
    BY <2>2, <2>3, <2>4 DEF AfterMove
<1>3. Latest(CapturesIn(p)) \in 0 .. n /\ Latest(NullsIn(p)) \in 0 .. n
  BY <1>1, LatestFacts
<1> HIDE DEF n, cap
<1>4. q.state.plies_from_null = Plies(q) - Latest(NullsIn(q))
  BY <1>1, <1>2, <1>3 DEF Accounts, n
<1>5. CASE cap = NoPiece
  <2>1. CapturesIn(q) = CapturesIn(p)
    BY <1>1, <1>5
  <2>2. QuietIn(q) = QuietIn(p) \cup {n + 1} /\ n + 1 \notin QuietIn(p)
    BY <1>1, <1>3, <2>1 DEF QuietIn, n
  <2>3. IsFiniteSet(QuietIn(p))
    <3>1. IsFiniteSet(1 .. n)
      BY <1>1, FS_Interval
    <3>2. QuietIn(p) \in SUBSET (1 .. n)
      BY <1>1, <1>3 DEF QuietIn, n
    <3> QED
      BY <3>1, <3>2, FS_Subset
  <2>4. Cardinality(QuietIn(q)) = Cardinality(QuietIn(p)) + 1 /\ Cardinality(QuietIn(p)) \in Nat
    BY <2>2, <2>3, FS_AddElement, FS_CardinalityType
  <2>5. Reversible(q.state) = Reversible(p.state) + 1
    BY <1>2, <1>5
  <2>6. Reversible(p.state) \in Nat
    BY PositionAssumption DEF Sound, StateTyped, Reversible, Extra, Colors
  <2>7. CASE CapturesIn(p) = {}
    <3>1. Reversible(p.state) = Cardinality(QuietIn(p)) + r
      BY <2>7 DEF Accounts
    <3>2. Reversible(q.state) = Cardinality(QuietIn(q)) + r
      BY <2>4, <2>5, <3>1
    <3> QED
      BY <1>4, <2>1, <2>7, <3>2 DEF Accounts
  <2>8. CASE CapturesIn(p) # {}
    BY <1>4, <2>1, <2>4, <2>5, <2>8 DEF Accounts
  <2> QED
    BY <2>7, <2>8
<1>6. CASE cap # NoPiece
  <2>1. CapturesIn(q) = CapturesIn(p) \cup {n + 1} /\ CapturesIn(q) # {}
    BY <1>1, <1>6
  <2>2. Latest(CapturesIn(q)) = n + 1
    BY <1>1, <2>1, LatestFacts
  <2>3. QuietIn(q) = {}
    BY <1>1, <2>2 DEF QuietIn
  <2> QED
    BY <1>2, <1>4, <1>6, <2>1, <2>3, FS_EmptySet DEF Accounts
<1> QED
  BY <1>5, <1>6

\* A null move is accounted for.
LEMMA NullAccounts ==
  ASSUME NEW p, Sound(p), NEW r, Accounts(p, r), NEW q, NullPlayed(p, q)
  PROVE  Accounts(q, r)
<1> DEFINE n == Plies(p)
<1>1. /\ n \in Nat /\ Plies(q) = n + 1
      /\ CapturesIn(q) = CapturesIn(p)
      /\ NullsIn(q) = NullsIn(p) \cup {n + 1}
      /\ CapturesIn(p) \in SUBSET (1 .. n) /\ NullsIn(p) \in SUBSET (1 .. n)
  <2>1. Pushed(p, q) /\ q.state.captured_piece = NoPiece /\ q.state.last_move = NoMove
    BY DEF NullPlayed, Pushed, NullState
  <2>2. Plies(p) \in Nat /\ Plies(q) = Plies(p) + 1
    BY <2>1, PushedFacts
  <2>3. /\ CapturesIn(q) = CapturesIn(p) \cup (IF q.state.captured_piece # NoPiece THEN {Plies(p) + 1} ELSE {})
        /\ NullsIn(q) = NullsIn(p) \cup (IF q.state.last_move = NoMove THEN {Plies(p) + 1} ELSE {})
        /\ CapturesIn(p) \in SUBSET (1 .. Plies(p)) /\ NullsIn(p) \in SUBSET (1 .. Plies(p))
    BY <2>1, ListsGrow
  <2> QED
    BY <2>1, <2>2, <2>3
<1>2. q.state.plies_from_null = 0 /\ Reversible(q.state) = Reversible(p.state)
  <2>1. q.state.rule60 = p.state.rule60 /\ q.state.check10 = p.state.check10
    BY DEF NullPlayed, NullState, StateFields, CheckFields
  <2> QED
    BY <2>1 DEF NullPlayed, NullState, Reversible
<1>3. Latest(CapturesIn(p)) \in 0 .. n /\ Latest(NullsIn(q)) = n + 1
  BY <1>1, LatestFacts
<1> HIDE DEF n
<1>4. QuietIn(q) = QuietIn(p)
  BY <1>1, <1>3 DEF QuietIn, n
<1> QED
  BY <1>1, <1>2, <1>3, <1>4 DEF Accounts

-----------------------------------------------------------------------------
(* The repetition filter counts the keys under a position.                  *)

KeysAt(p, s) == {i \in 1 .. Plies(p) : Slot(p.state_stack[i].key) = s}
\* A slot counts modulo its width.
FilterCounts(p) ==
  \A s \in FilterSlots : \E q \in Nat : Cardinality(KeysAt(p, s)) = p.bloom_filter[s] + FilterWidth * q

\* A ply more in the filter.
LEMMA PushedCounts ==
  ASSUME NEW p, Sound(p), FilterCounts(p), NEW q, Pushed(p, q),
         q.bloom_filter = insert(p.bloom_filter, p.state.key)
  PROVE  FilterCounts(q)
<1> DEFINE n == Plies(p)
           t == Slot(p.state.key)
           w == FilterWidth
<1>0. w \in Nat /\ w > 0
  BY PositionAssumption
<1>1. /\ n \in Nat /\ Plies(q) = n + 1 /\ q.state_stack[n + 1] = p.state
      /\ \A i \in 1 .. n : q.state_stack[i] = p.state_stack[i]
  BY AppendFacts DEF Sound, Pushed, Plies, IsSeq
<1> HIDE DEF n, t, w
<1>2. ASSUME NEW s \in FilterSlots PROVE \E k \in Nat : Cardinality(KeysAt(q, s)) = q.bloom_filter[s] + w * k
  <2>1. KeysAt(q, s) = KeysAt(p, s) \cup (IF s = t THEN {n + 1} ELSE {})
    BY <1>1 DEF KeysAt, n, t
  <2>2. KeysAt(p, s) \in SUBSET (1 .. n) /\ IsFiniteSet(KeysAt(p, s))
    <3>1. KeysAt(p, s) \in SUBSET (1 .. n)
      BY DEF KeysAt, n
    <3> QED
      BY <1>1, <3>1, FS_Interval, FS_Subset
  <2>3. p.bloom_filter[s] \in 0 .. w - 1 /\ p.bloom_filter = [u \in FilterSlots |-> p.bloom_filter[u]]
    BY DEF Sound, Counts, w
  <2>4. q.bloom_filter[s] = IF s = t THEN (p.bloom_filter[s] + 1) % w ELSE p.bloom_filter[s]
    BY <2>3 DEF insert, t, w
  <2>5. PICK k \in Nat : Cardinality(KeysAt(p, s)) = p.bloom_filter[s] + w * k
    BY DEF FilterCounts, w
  <2>6. CASE s # t
    BY <2>1, <2>4, <2>5, <2>6
  <2>7. CASE s = t
    <3>1. n + 1 \notin KeysAt(p, s)
      BY <1>1, <2>2
    <3>2. Cardinality(KeysAt(q, s)) = Cardinality(KeysAt(p, s)) + 1
      BY <2>1, <2>2, <2>7, <3>1, FS_AddElement
    <3>3. CASE p.bloom_filter[s] + 1 < w
      <4>1. (p.bloom_filter[s] + 1) % w = p.bloom_filter[s] + 1
        BY <1>0, <2>3, <3>3
      <4>2. Cardinality(KeysAt(q, s)) = q.bloom_filter[s] + w * k
        BY <1>0, <2>3, <2>4, <2>5, <2>7, <3>2, <4>1
      <4> QED
        BY <4>2
    <3>4. CASE p.bloom_filter[s] + 1 = w
      <4>1. (p.bloom_filter[s] + 1) % w = 0
        BY <1>0, <3>4
      <4>2. w * k + w = w * (k + 1)
        BY <1>0
      <4>3. Cardinality(KeysAt(q, s)) = w * k + w
        BY <1>0, <2>3, <2>5, <3>2, <3>4
      <4>4. Cardinality(KeysAt(q, s)) = q.bloom_filter[s] + w * (k + 1) /\ k + 1 \in Nat
        BY <1>0, <2>4, <2>7, <4>1, <4>2, <4>3
      <4> QED
        BY <4>4
    <3>5. p.bloom_filter[s] + 1 < w \/ p.bloom_filter[s] + 1 = w
      BY <1>0, <2>3
    <3> QED
      BY <3>3, <3>4, <3>5
  <2> QED
    BY <2>6, <2>7
<1> QED
  BY <1>2 DEF FilterCounts, w

\* A slot holds the number of its keys, cut to its width.
LEMMA CountsRead ==
  ASSUME NEW p, Sound(p), FilterCounts(p), NEW s \in FilterSlots
  PROVE  p.bloom_filter[s] = Cardinality(KeysAt(p, s)) % FilterWidth
<1>1. PICK k \in Nat : Cardinality(KeysAt(p, s)) = p.bloom_filter[s] + FilterWidth * k
  BY DEF FilterCounts
<1>2. FilterWidth \in Nat /\ FilterWidth > 0 /\ p.bloom_filter[s] \in 0 .. FilterWidth - 1
  BY PositionAssumption DEF Sound, Counts
<1>3. (p.bloom_filter[s] + FilterWidth * k) % FilterWidth = p.bloom_filter[s]
  <2> DEFINE r == p.bloom_filter[s]
             w == FilterWidth
  <2>1. r \in Nat /\ w \in Nat /\ w > 0 /\ r < w
    BY <1>2
  <2> HIDE DEF r, w
  <2>2. (r + w * k) % w = r
    BY <2>1, SMTT(30)
  <2> QED
    BY <2>2 DEF r, w
<1> QED
  BY <1>1, <1>3

-----------------------------------------------------------------------------
(* The keys and the material after a move are those of the board after it.  *)

\* The men with one more, one less, or one elsewhere.
ManOn(pc, s, pts) == IF Type(pc) \in pts THEN {<<pc, s>>} ELSE {}

\* The men after a move are those before it, three times toggled.
LEMMA MenAfter ==
  ASSUME NEW p, SetsTyped(p), OnBoard(p), NEW q, SetsTyped(q), OnBoard(q), NEW m, IsMoveIn(p, m),
         q.board = [p.board EXCEPT ![From(m)] = NoPiece, ![To(m)] = p.board[From(m)]],
         NEW pts \in SUBSET PieceTypes
  PROVE  Men(q, pts) = Xor(Xor(Xor(Men(p, pts), ManOn(p.board[To(m)], To(m), pts)),
                               ManOn(p.board[From(m)], From(m), pts)), ManOn(p.board[From(m)], To(m), pts))
<1> DEFINE s == From(m)
           t == To(m)
           pc == p.board[s]
           cap == p.board[t]
           A == Men(p, pts)
           B == Men(q, pts)
<1>1. s \in Squares /\ t \in Squares /\ s # t /\ pc \in Pieces /\ pc # NoPiece /\ cap \in Occupants
  BY PieceFacts DEF IsMoveIn, From, To, SetsTyped
<1>2. A = BoardMen(p.board, pts) /\ B = BoardMen(q.board, pts)
  <2>1. SetsTyped(p) /\ OnBoard(p) /\ SetsTyped(q) /\ OnBoard(q)
    OBVIOUS
  <2> QED
    BY <2>1, MenRead
<1>3. Type(NoPiece) \notin pts
  BY PieceFacts DEF Kinds
<1>4. q.board[s] = NoPiece /\ q.board[t] = pc /\ \A u \in Squares \ {s, t} : q.board[u] = p.board[u]
  BY <1>1 DEF SetsTyped
<1> HIDE DEF s, t, pc, cap, A, B
<1>6. \A u \in Squares : \A y : (<<y, u>> \in A <=> y = p.board[u] /\ y # NoPiece /\ Type(y) \in pts)
                              /\ (<<y, u>> \in B <=> y = q.board[u] /\ y # NoPiece /\ Type(y) \in pts)
  BY <1>2 DEF BoardMen
<1> DEFINE X == Xor(Xor(Xor(A, ManOn(cap, t, pts)), ManOn(pc, s, pts)), ManOn(pc, t, pts))
<1>7. \A x \in X : \E u \in Squares : \E y : x = <<y, u>>
  BY <1>1, <1>2 DEF Xor, ManOn, BoardMen
<1>8. \A x \in B : \E u \in Squares : \E y : x = <<y, u>>
  BY <1>2 DEF BoardMen
<1>9. ASSUME NEW u \in Squares, NEW y PROVE <<y, u>> \in X <=> <<y, u>> \in B
  <2>1. CASE u = s
    BY <1>1, <1>3, <1>4, <1>6, <2>1 DEF Xor, ManOn, pc
  <2>2. CASE u = t
    BY <1>1, <1>3, <1>4, <1>6, <2>2 DEF Xor, ManOn, cap
  <2>3. CASE u # s /\ u # t
    BY <1>1, <1>3, <1>4, <1>6, <2>3 DEF Xor, ManOn
  <2> QED
    BY <2>1, <2>2, <2>3
<1> HIDE DEF X
<1>10. X = B
  BY <1>7, <1>8, <1>9
<1> QED
  BY <1>10 DEF X, A, B, s, t, pc, cap

\* Turning keys over in another order, or for one colour, makes no difference.
LEMMA XorSwap == \A A, B, C : Xor(Xor(A, B), C) = Xor(Xor(A, C), B)
  BY DEF Xor

OfColor(A, c) == {x \in A : Color(x[1]) = c}

\* Toggling respects the sides.
LEMMA XorOfColor == \A A, B, c : OfColor(Xor(A, B), c) = Xor(OfColor(A, c), OfColor(B, c))
  BY DEF Xor, OfColor

\* A man turned over in a key that covers these types.
Turned(key, pc, s, pts) == Xor(key, ManOn(pc, s, pts))
TurnedFor(keys, pc, s, pts) == [c \in Colors |-> Xor(keys[c], OfColor(ManOn(pc, s, pts), c))]

\* The keys of a state, of the men the side's key aside: st's turned over for pc on s.
TurnedKeys(st, t, pc, s) ==
  /\ t.key = Turned(st.key, pc, s, PieceTypes)
  /\ t.pawn_key = Turned(st.pawn_key, pc, s, {"pawn"})
  /\ t.minor_piece_key = Turned(st.minor_piece_key, pc, s, {"cannon", "knight"})
  /\ t.non_pawn_key = TurnedFor(st.non_pawn_key, pc, s, PieceTypes \ {"pawn"})
SameKeys(st, t) ==
  /\ t.key = st.key /\ t.pawn_key = st.pawn_key /\ t.minor_piece_key = st.minor_piece_key
  /\ t.non_pawn_key = st.non_pawn_key

\* Turning the keys toggles the man in each of them.
LEMMA KeysTurned ==
  ASSUME NEW st, NEW t, NEW pc \in Pieces, NEW s, KeyTurned(st, t, pc, s)
  PROVE  TurnedKeys(st, t, pc, s)
<1>1. Type(pc) \in PieceTypes /\ Color(pc) \in Colors
  BY PieceFacts
<1>2. t.key = Turned(st.key, pc, s, PieceTypes)
  BY <1>1 DEF KeyTurned, Turned, ManOn
<1>3. t.pawn_key = Turned(st.pawn_key, pc, s, {"pawn"})
  BY DEF KeyTurned, Turned, ManOn
<1>4. t.minor_piece_key = Turned(st.minor_piece_key, pc, s, {"cannon", "knight"})
  BY DEF KeyTurned, Turned, ManOn
<1>5. t.non_pawn_key = TurnedFor(st.non_pawn_key, pc, s, PieceTypes \ {"pawn"})
  <2> DEFINE pts == PieceTypes \ {"pawn"}
  <2>1. ASSUME NEW c \in Colors
        PROVE  OfColor(ManOn(pc, s, pts), c) = IF c = Color(pc) /\ Type(pc) # "pawn" THEN {<<pc, s>>} ELSE {}
    BY <1>1 DEF OfColor, ManOn
  <2> HIDE DEF pts
  <2>2. t.non_pawn_key = TurnedFor(st.non_pawn_key, pc, s, pts)
    BY <2>1 DEF KeyTurned, TurnedFor
  <2> QED
    BY <2>2 DEF pts
<1> QED
  BY <1>2, <1>3, <1>4, <1>5 DEF TurnedKeys

\* An empty square toggles nothing.
LEMMA NothingTurned ==
  ASSUME NEW st, NEW t, SameKeys(st, t), st.non_pawn_key = [c \in Colors |-> st.non_pawn_key[c]], NEW s
  PROVE  TurnedKeys(st, t, NoPiece, s)
<1>1. \A pts \in SUBSET PieceTypes : ManOn(NoPiece, s, pts) = {}
  BY PieceFacts DEF ManOn, Kinds
<1>2. /\ PieceTypes \in SUBSET PieceTypes /\ {"pawn"} \in SUBSET PieceTypes
      /\ {"cannon", "knight"} \in SUBSET PieceTypes /\ PieceTypes \ {"pawn"} \in SUBSET PieceTypes
  BY DEF PieceTypes
<1>3. \A c : OfColor({}, c) = {}
  BY DEF OfColor
<1>4. t.non_pawn_key = TurnedFor(st.non_pawn_key, NoPiece, s, PieceTypes \ {"pawn"})
  BY <1>1, <1>2, <1>3, XorNothing DEF TurnedFor, SameKeys
<1>5. t.key = Turned(st.key, NoPiece, s, PieceTypes) /\ t.pawn_key = Turned(st.pawn_key, NoPiece, s, {"pawn"})
  BY <1>1, <1>2, XorNothing DEF Turned, SameKeys
<1>6. t.minor_piece_key = Turned(st.minor_piece_key, NoPiece, s, {"cannon", "knight"})
  BY <1>1, <1>2, XorNothing DEF Turned, SameKeys
<1> QED
  BY <1>4, <1>5, <1>6 DEF TurnedKeys

\* The keys after a move, but for the side's: three men turned over.
LEMMA KeysMoved ==
  ASSUME NEW p, Sound(p), NEW m, IsMoveIn(p, m), NEW t, Rekeying(p, m, t)
  PROVE  \E a, b : /\ TurnedKeys(p.state, a, p.board[To(m)], To(m))
                   /\ TurnedKeys(a, b, p.board[From(m)], From(m))
                   /\ TurnedKeys(b, t, p.board[From(m)], To(m))
<1> DEFINE cap == p.board[To(m)]
           pc == p.board[From(m)]
<1>1. PICK counted, taken, lifted :
        /\ Counting(p.state, counted)
        /\ Taking(counted, taken, cap, To(m))
        /\ KeyTurned(taken, lifted, pc, From(m))
        /\ KeyTurned(lifted, t, pc, To(m))
  BY DEF Rekeying
<1>2. pc \in Pieces /\ cap \in Occupants
  BY DEF IsMoveIn, Sound, SetsTyped, To
<1> HIDE DEF cap, pc
<1>3. SameKeys(p.state, counted) /\ StateTyped(counted)
  BY <1>1 DEF Counting, SameKeys, StateFields
<1>4. TurnedKeys(p.state, taken, cap, To(m))
  <2>1. CASE cap = NoPiece
    <3>1. SameKeys(p.state, taken)
      BY <1>1, <1>3, <2>1 DEF Taking
    <3>2. p.state.non_pawn_key = [c \in Colors |-> p.state.non_pawn_key[c]]
      BY DEF Sound, StateTyped
    <3> QED
      BY <2>1, <3>1, <3>2, NothingTurned
  <2>2. CASE cap \in Pieces
    <3>1. TakenKeys(counted, taken, cap, To(m))
      BY <1>1, <2>2, PieceFacts DEF Taking
    <3>2. PICK k : /\ KeyTurned(counted, k, cap, To(m))
                   /\ \A f \in StateFields \ {"major_material", "check10", "rule60"} : taken[f] = k[f]
      BY <3>1 DEF TakenKeys
    <3>3. TurnedKeys(counted, k, cap, To(m))
      BY <2>2, <3>2, KeysTurned
    <3>4. SameKeys(k, taken)
      BY <3>2 DEF SameKeys, StateFields
    <3> QED
      BY <1>3, <3>3, <3>4 DEF TurnedKeys, SameKeys
  <2> QED
    BY <1>2, <2>1, <2>2 DEF Occupants
<1>5. TurnedKeys(taken, lifted, pc, From(m)) /\ TurnedKeys(lifted, t, pc, To(m))
  BY <1>1, <1>2, KeysTurned
<1> QED
  BY <1>4, <1>5 DEF cap, pc

\* The men of p's colours and types, turned over for the move, are those of q.
ThreeTurned(key, p, m, pts) ==
  Turned(Turned(Turned(key, p.board[To(m)], To(m), pts), p.board[From(m)], From(m), pts), p.board[From(m)], To(m), pts)

\* The men of any kinds, toggled as the keys are.
LEMMA MenTurned ==
  ASSUME NEW p, Sound(p), NEW m, IsMoveIn(p, m), NEW q, Played(p, q, m), NEW pts \in SUBSET PieceTypes
  PROVE  Men(q, pts) = ThreeTurned(Men(p, pts), p, m, pts)
<1>1. SetsTyped(p) /\ OnBoard(p) /\ SetsTyped(q) /\ OnBoard(q)
  BY PlayedSound DEF Sound
<1>2. q.board = [p.board EXCEPT ![From(m)] = NoPiece, ![To(m)] = p.board[From(m)]]
  <2>1. q.board = Moved(p, m).board
    BY DEF Played, BoardFields
  <2> QED
    BY <2>1, MovedBoard DEF Sound
<1> QED
  BY <1>1, <1>2, MenAfter DEF ThreeTurned, Turned

MenKeysRead(p) ==
  /\ p.state.key = Men(p, PieceTypes) \cup (IF p.side_to_move = Black THEN SideKey ELSE {})
  /\ p.state.pawn_key = Men(p, {"pawn"})
  /\ p.state.minor_piece_key = Men(p, {"cannon", "knight"})
  /\ p.state.non_pawn_key = [c \in Colors |-> MenOf(p, c, PieceTypes \ {"pawn"})]
MaterialRead(p) == p.state.major_material = [c \in Colors |-> Material(p, c)]

\* The keys of the men are read off the board, before a move and after it.
LEMMA KeysFollow ==
  ASSUME NEW p, Sound(p), KeysRead(p), NEW m, IsMoveIn(p, m), NEW q, Played(p, q, m)
  PROVE  MenKeysRead(q)
<1>1. PICK t : /\ Rekeying(p, m, t) /\ q.state.key = Xor(t.key, SideKey)
               /\ \A f \in StateFields \ (CheckFields \cup {"key", "last_move", "captured_piece", "checkers"}) :
                    q.state[f] = t[f]
  BY DEF Played, MovedState
<1>2. PICK a, b : /\ TurnedKeys(p.state, a, p.board[To(m)], To(m))
                  /\ TurnedKeys(a, b, p.board[From(m)], From(m))
                  /\ TurnedKeys(b, t, p.board[From(m)], To(m))
  BY <1>1, KeysMoved
<1>3. /\ q.state.pawn_key = t.pawn_key /\ q.state.minor_piece_key = t.minor_piece_key
      /\ q.state.non_pawn_key = t.non_pawn_key
  BY <1>1 DEF StateFields, CheckFields
<1>4. /\ PieceTypes \in SUBSET PieceTypes /\ {"pawn"} \in SUBSET PieceTypes
      /\ {"cannon", "knight"} \in SUBSET PieceTypes /\ PieceTypes \ {"pawn"} \in SUBSET PieceTypes
  BY DEF PieceTypes
<1>5. q.state.pawn_key = Men(q, {"pawn"})
  BY <1>2, <1>3, <1>4, MenTurned DEF TurnedKeys, ThreeTurned, KeysRead
<1>6. q.state.minor_piece_key = Men(q, {"cannon", "knight"})
  BY <1>2, <1>3, <1>4, MenTurned DEF TurnedKeys, ThreeTurned, KeysRead
<1>7. q.state.key = Men(q, PieceTypes) \cup (IF q.side_to_move = Black THEN SideKey ELSE {})
  <2> DEFINE A == Men(p, PieceTypes)
             side(c) == IF c = Black THEN SideKey ELSE {}
             us == p.side_to_move
             X == ManOn(p.board[To(m)], To(m), PieceTypes)
             Y == ManOn(p.board[From(m)], From(m), PieceTypes)
             Z == ManOn(p.board[From(m)], To(m), PieceTypes)
  <2>1. Men(q, PieceTypes) = Xor(Xor(Xor(A, X), Y), Z)
    BY <1>4, MenTurned DEF ThreeTurned, Turned
  <2>2. t.key = Xor(Xor(Xor(p.state.key, X), Y), Z) /\ p.state.key = A \cup side(us)
    BY <1>2 DEF TurnedKeys, Turned, KeysRead
  <2>3. \A r : Sound(r) => SideKey \cap Men(r, PieceTypes) = {}
    <3>1. TAKE r
    <3>2. HAVE Sound(r)
    <3>3. Men(r, PieceTypes) = BoardMen(r.board, PieceTypes)
      BY <1>4, <3>2, MenRead
    <3> QED
      BY <3>3 DEF BoardMen, SideKey, Squares
  <2>4. SideKey \cap A = {} /\ SideKey \cap Men(q, PieceTypes) = {}
    BY <2>3, PlayedSound
  <2>5. us \in Colors /\ q.side_to_move = Other(us)
    BY DEF Played, Sound
  <2> HIDE DEF A, X, Y, Z, us
  <2>6. CASE us = White
    <3>1. side(us) = {} /\ side(q.side_to_move) = SideKey
      BY <2>5, <2>6 DEF Other, White, Black
    <3>2. t.key = Men(q, PieceTypes)
      BY <2>1, <2>2, <3>1
    <3>3. q.state.key = Men(q, PieceTypes) \cup SideKey
      BY <1>1, <2>4, <3>2 DEF Xor
    <3> QED
      BY <3>1, <3>3
  <2>7. CASE us = Black
    <3>1. side(us) = SideKey /\ side(q.side_to_move) = {}
      BY <2>5, <2>7 DEF Other, White, Black
    <3>2. p.state.key = Xor(A, SideKey)
      BY <2>2, <2>4, <3>1 DEF Xor
    <3>3. t.key = Xor(Xor(Xor(Xor(A, X), Y), Z), SideKey)
      <4>2. Xor(Xor(A, SideKey), X) = Xor(Xor(A, X), SideKey)
        BY XorSwap
      <4>3. Xor(Xor(Xor(A, X), SideKey), Y) = Xor(Xor(Xor(A, X), Y), SideKey)
        BY XorSwap
      <4>4. Xor(Xor(Xor(Xor(A, X), Y), SideKey), Z) = Xor(Xor(Xor(Xor(A, X), Y), Z), SideKey)
        BY XorSwap
      <4> QED
        BY <2>2, <3>2, <4>2, <4>3, <4>4
    <3>4. q.state.key = Men(q, PieceTypes)
      <4>1. \A S : Xor(Xor(S, SideKey), SideKey) = S
        BY DEF Xor
      <4> QED
        BY <1>1, <2>1, <3>3, <4>1
    <3> QED
      BY <3>1, <3>4
  <2> QED
    BY <2>5, <2>6, <2>7 DEF Colors
<1>8. q.state.non_pawn_key = [c \in Colors |-> MenOf(q, c, PieceTypes \ {"pawn"})]
  <2> DEFINE pts == PieceTypes \ {"pawn"}
             X == ManOn(p.board[To(m)], To(m), pts)
             Y == ManOn(p.board[From(m)], From(m), pts)
             Z == ManOn(p.board[From(m)], To(m), pts)
  <2>1. Men(q, pts) = Xor(Xor(Xor(Men(p, pts), X), Y), Z)
    BY <1>4, MenTurned DEF ThreeTurned, Turned
  <2>2. \A r, c : MenOf(r, c, pts) = OfColor(Men(r, pts), c)
    BY DEF MenOf, OfColor
  <2>3. \A c : OfColor(Men(q, pts), c)
                 = Xor(Xor(Xor(OfColor(Men(p, pts), c), OfColor(X, c)), OfColor(Y, c)), OfColor(Z, c))
    BY <2>1, XorOfColor
  <2>4. t.non_pawn_key =
          [c \in Colors |-> Xor(Xor(Xor(OfColor(Men(p, pts), c), OfColor(X, c)), OfColor(Y, c)), OfColor(Z, c))]
    <3> HIDE DEF X, Y, Z
    <3>1. p.state.non_pawn_key = [c \in Colors |-> OfColor(Men(p, pts), c)]
      BY <2>2 DEF KeysRead
    <3>2. a.non_pawn_key = [c \in Colors |-> Xor(p.state.non_pawn_key[c], OfColor(X, c))]
      BY <1>2 DEF TurnedKeys, TurnedFor, X
    <3>3. b.non_pawn_key = [c \in Colors |-> Xor(a.non_pawn_key[c], OfColor(Y, c))]
      BY <1>2 DEF TurnedKeys, TurnedFor, Y
    <3>4. t.non_pawn_key = [c \in Colors |-> Xor(b.non_pawn_key[c], OfColor(Z, c))]
      BY <1>2 DEF TurnedKeys, TurnedFor, Z
    <3> HIDE DEF pts
    <3> QED
      BY <3>1, <3>2, <3>3, <3>4
  <2> HIDE DEF X, Y, Z, pts
  <2>5. t.non_pawn_key = [c \in Colors |-> OfColor(Men(q, pts), c)]
    BY <2>3, <2>4
  <2> QED
    BY <1>3, <2>2, <2>5 DEF pts
<1> QED
  BY <1>5, <1>6, <1>7, <1>8 DEF MenKeysRead

-----------------------------------------------------------------------------
(* Material: so much for each rook, cannon and knight.                      *)

Stand(b, pc) == {s \in Squares : b[s] = pc}

\* As many men of a kind as the board shows.
LEMMA CountByBoard ==
  ASSUME NEW p, SetsTyped(p), OnBoard(p), NEW c, NEW pt \in PieceTypes
  PROVE  Cardinality(MenOf(p, c, {pt})) = Cardinality(Stand(p.board, <<c, pt>>))
<1> DEFINE b == p.board
           S == Stand(b, <<c, pt>>)
           M == MenOf(p, c, {pt})
           f == [s \in S |-> <<b[s], s>>]
<1>1. \A x : x \in M <=> \E s \in Squares : /\ x = <<b[s], s>> /\ b[s] # NoPiece
                                            /\ Type(b[s]) = pt /\ Color(b[s]) = c
  <2>1. {pt} \in SUBSET PieceTypes
    OBVIOUS
  <2>2. Men(p, {pt}) = BoardMen(p.board, {pt})
    BY <2>1, MenRead
  <2>3. M = {x \in BoardMen(p.board, {pt}) : Color(x[1]) = c}
    BY <2>2 DEF MenOf
  <2> HIDE DEF M
  <2> QED
    BY <2>3 DEF BoardMen
<1>2. b \in [Squares -> Occupants]
  BY DEF SetsTyped
<1> HIDE DEF b, M
<1>3. \A s \in Squares : b[s] = <<c, pt>> <=> /\ b[s] # NoPiece /\ Type(b[s]) = pt
                                              /\ Color(b[s]) = c
  <2>1. ASSUME NEW s \in Squares
        PROVE b[s] = <<c, pt>> <=> (b[s] # NoPiece /\ Type(b[s]) = pt /\ Color(b[s]) = c)
    <3>1. b[s] = NoPiece \/ \E x \in Colors, y \in PieceTypes : b[s] = <<x, y>>
      BY <1>2 DEF Occupants, Pieces
    <3> QED
      BY <3>1 DEF Type, Color, NoPiece, PieceTypes
  <2> QED
    BY <2>1
<1>4. \A s : s \in S <=> s \in Squares /\ b[s] = <<c, pt>>
  BY DEF Stand
<1>5. IsFiniteSet(S)
  BY SquaresFinite DEF Stand
<1> HIDE DEF S
<1>6. \A s \in S : f[s] = <<b[s], s>> /\ f[s] \in M
  BY <1>1, <1>3, <1>4
<1>7. \A x \in M : \E s \in S : f[s] = x
  BY <1>1, <1>3, <1>4
<1>8. \A s, t \in S : f[s] = f[t] => s = t
  BY <1>6
<1>9. f \in [S -> M]
  BY <1>6
<1> HIDE DEF f
<1>10. f \in Bijection(S, M)
  BY <1>7, <1>8, <1>9 DEF Bijection, Injection, Surjection, IsInjective
<1>11. ExistsBijection(S, M)
  BY <1>10 DEF ExistsBijection
<1> QED
  BY <1>5, <1>11, FS_Bijection DEF S, M, b

Shifts(b, d, s, t) == d = [b EXCEPT ![s] = NoPiece, ![t] = b[s]]

\* A move changes how many of a kind there are by the one it takes.
LEMMA StandMoved ==
  ASSUME NEW b \in [Squares -> Occupants], NEW s \in Squares, NEW t \in Squares, s # t, b[s] \in Pieces,
         NEW d, Shifts(b, d, s, t), NEW x \in Pieces
  PROVE  Cardinality(Stand(d, x)) = Cardinality(Stand(b, x)) - (IF b[t] = x THEN 1 ELSE 0)
<1> DEFINE S == Stand(b, x)
           T == Stand(d, x)
<1>0. NoPiece \notin Pieces /\ d \in [Squares -> Occupants]
  BY PieceFacts DEF Occupants, Shifts
<1>1. d[s] # x /\ d[t] = b[s] /\ \A u \in Squares \ {s, t} : d[u] = b[u]
  BY <1>0 DEF Shifts
<1>2. \A u \in Squares : (u \in S <=> b[u] = x) /\ (u \in T <=> d[u] = x)
  BY DEF Stand
<1>3. S \in SUBSET Squares /\ T \in SUBSET Squares /\ IsFiniteSet(S) /\ IsFiniteSet(T)
  BY SquaresFinite DEF Stand
<1> HIDE DEF S, T
<1>4. Cardinality(S) \in Nat /\ Cardinality(T) \in Nat
  BY <1>3, FS_CardinalityType
<1>5. CASE b[s] = x /\ b[t] = x
  <2>1. T = S \ {s} /\ s \in S
    BY <1>1, <1>2, <1>3, <1>5
  <2>2. Cardinality(T) = Cardinality(S) - 1
    BY <1>3, <2>1, FS_RemoveElement
  <2> QED
    BY <1>5, <2>2 DEF S, T
<1>6. CASE b[s] = x /\ b[t] # x
  <2>1. T = (S \ {s}) \cup {t} /\ s \in S /\ t \notin S \ {s}
    BY <1>1, <1>2, <1>3, <1>6
  <2>2. Cardinality(S \ {s}) = Cardinality(S) - 1 /\ IsFiniteSet(S \ {s})
    BY <1>3, <2>1, FS_RemoveElement
  <2>3. Cardinality(T) = Cardinality(S \ {s}) + 1
    BY <2>1, <2>2, FS_AddElement
  <2>4. Cardinality(T) = Cardinality(S)
    BY <1>4, <2>2, <2>3
  <2> QED
    BY <1>4, <1>6, <2>4 DEF S, T
<1>7. CASE b[s] # x /\ b[t] = x
  <2>1. T = S \ {t} /\ t \in S
    BY <1>1, <1>2, <1>3, <1>7
  <2>2. Cardinality(T) = Cardinality(S) - 1
    BY <1>3, <2>1, FS_RemoveElement
  <2> QED
    BY <1>7, <2>2 DEF S, T
<1>8. CASE b[s] # x /\ b[t] # x
  <2>1. T = S
    BY <1>1, <1>2, <1>3, <1>8
  <2> QED
    BY <1>4, <1>8, <2>1 DEF S, T
<1> QED
  BY <1>5, <1>6, <1>7, <1>8

Loss(pc, c) == IF c = Color(pc) /\ IsMajor(Type(pc)) THEN PieceValue(pc) ELSE 0

\* A side's material less the man it lost.
LEMMA MaterialLess ==
  ASSUME NEW p, Sound(p), NEW m, IsMoveIn(p, m), NEW q, Played(p, q, m), NEW c \in Colors
  PROVE  Material(q, c) = Material(p, c) - Loss(p.board[To(m)], c)
<1> DEFINE cap == p.board[To(m)]
           N(r, pt) == Cardinality(MenOf(r, c, {pt}))
           one(pt) == IF cap = <<c, pt>> THEN 1 ELSE 0
<1>1. SetsTyped(p) /\ OnBoard(p) /\ SetsTyped(q) /\ OnBoard(q)
  BY PlayedSound DEF Sound
<1>2. q.board = [p.board EXCEPT ![From(m)] = NoPiece, ![To(m)] = p.board[From(m)]]
  <2>1. q.board = Moved(p, m).board
    BY DEF Played, BoardFields
  <2> QED
    BY <2>1, MovedBoard DEF Sound
<1>3. ASSUME NEW pt \in PieceTypes PROVE N(q, pt) = N(p, pt) - one(pt) /\ N(p, pt) \in Nat
  <2>1. /\ N(p, pt) = Cardinality(Stand(p.board, <<c, pt>>))
        /\ N(q, pt) = Cardinality(Stand(q.board, <<c, pt>>))
    BY <1>1, CountByBoard
  <2>2. <<c, pt>> \in Pieces /\ p.board \in [Squares -> Occupants]
    BY <1>1 DEF Pieces, SetsTyped
  <2>3. From(m) \in Squares /\ To(m) \in Squares /\ From(m) # To(m) /\ p.board[From(m)] \in Pieces
    BY DEF IsMoveIn, From, To
  <2> DEFINE s == From(m)
             t == To(m)
             x == <<c, pt>>
             b == p.board
             d == q.board
  <2>4. Cardinality(Stand(d, x)) = Cardinality(Stand(b, x)) - (IF b[t] = x THEN 1 ELSE 0)
    <3>1. /\ b \in [Squares -> Occupants] /\ s \in Squares /\ t \in Squares /\ s # t /\ b[s] \in Pieces
          /\ Shifts(b, d, s, t) /\ x \in Pieces
      BY <1>2, <2>2, <2>3 DEF Shifts
    <3> HIDE DEF s, t, x, b, d
    <3> QED
      BY <3>1, StandMoved
  <2>5. Cardinality(Stand(p.board, <<c, pt>>)) \in Nat
    BY SquaresFinite DEF Stand
  <2> QED
    BY <2>1, <2>4, <2>5
<1>4. \A r : Material(r, c) = 1305 * N(r, "rook") + 773 * N(r, "cannon") + 720 * N(r, "knight")
  BY DEF Material
<1>5. "rook" \in PieceTypes /\ "cannon" \in PieceTypes /\ "knight" \in PieceTypes
  BY DEF PieceTypes
<1>6. Loss(cap, c) = 1305 * one("rook") + 773 * one("cannon") + 720 * one("knight")
  <2>1. cap \in Occupants
    BY <1>1 DEF IsMoveIn, SetsTyped, To
  <2>2. CASE cap = NoPiece
    BY <2>2 DEF NoPiece, Loss, Type, Color, IsMajor, Colors, White, Black
  <2>3. CASE cap \in Pieces
    <3>1. PICK x \in Colors, y \in PieceTypes : cap = <<x, y>>
      BY <2>3 DEF Pieces
    <3> HIDE DEF cap
    <3>2. Type(cap) = y /\ Color(cap) = x
      BY <3>1 DEF Type, Color
    <3>3. CASE x # c
      BY <3>1, <3>2, <3>3 DEF Loss
    <3>4. CASE x = c
      <4>1. CASE y = "rook"
        BY <3>1, <3>2, <3>4, <4>1 DEF Loss, IsMajor, PieceValue
      <4>2. CASE y = "cannon"
        BY <3>1, <3>2, <3>4, <4>2 DEF Loss, IsMajor, PieceValue
      <4>3. CASE y = "knight"
        BY <3>1, <3>2, <3>4, <4>3 DEF Loss, IsMajor, PieceValue
      <4>4. CASE y \notin {"rook", "cannon", "knight"}
        <5>1. Loss(cap, c) = 0
          BY <3>1, <3>2, <3>4, <4>4 DEF Loss, IsMajor, PieceValue, PieceTypes
        <5> QED
          BY <3>1, <3>4, <4>4, <5>1
      <4> QED
        BY <4>1, <4>2, <4>3, <4>4
    <3> QED
      BY <3>3, <3>4
  <2> QED
    BY <2>1, <2>2, <2>3 DEF Occupants
<1>7. one("rook") \in Int /\ one("cannon") \in Int /\ one("knight") \in Int
  OBVIOUS
<1> HIDE DEF N, one
<1>8. /\ N(q, "rook") = N(p, "rook") - one("rook") /\ N(p, "rook") \in Nat
      /\ N(q, "cannon") = N(p, "cannon") - one("cannon") /\ N(p, "cannon") \in Nat
      /\ N(q, "knight") = N(p, "knight") - one("knight") /\ N(p, "knight") \in Nat
  BY <1>3, <1>5
<1> HIDE DEF cap
<1>9. Material(q, c) = Material(p, c) - Loss(cap, c)
  BY <1>4, <1>6, <1>7, <1>8
<1> QED
  BY <1>9 DEF cap

\* major_material follows the board through a move.
LEMMA MaterialFollows ==
  ASSUME NEW p, Sound(p), KeysRead(p), NEW m, IsMoveIn(p, m), NEW q, Played(p, q, m)
  PROVE  MaterialRead(q)
<1> DEFINE cap == p.board[To(m)]
<1>1. PICK t : /\ Rekeying(p, m, t)
               /\ \A f \in StateFields \ (CheckFields \cup {"key", "last_move", "captured_piece", "checkers"}) :
                    q.state[f] = t[f]
  BY DEF Played, MovedState
<1>2. PICK counted, taken, lifted :
        /\ Counting(p.state, counted)
        /\ Taking(counted, taken, cap, To(m))
        /\ KeyTurned(taken, lifted, p.board[From(m)], From(m))
        /\ KeyTurned(lifted, t, p.board[From(m)], To(m))
  BY <1>1 DEF Rekeying
<1>3. q.state.major_material = taken.major_material /\ counted.major_material = p.state.major_material
  BY <1>1, <1>2 DEF KeyTurned, KeyFields, StateFields, CheckFields, Counting
<1>4. p.state.major_material = [c \in Colors |-> Material(p, c)]
  BY DEF KeysRead
<1>5. taken.major_material = [c \in Colors |-> Material(p, c) - Loss(cap, c)]
  <2>1. CASE cap = NoPiece
    <3>1. \A c \in Colors : Loss(cap, c) = 0
      BY <2>1 DEF NoPiece, Loss, Color, Colors, White, Black
    <3>2. \A c \in Colors : Material(p, c) \in Int
      BY MaterialTyped
    <3>3. \A c \in Colors : Material(p, c) - Loss(cap, c) = Material(p, c)
      BY <3>1, <3>2
    <3> QED
      BY <1>2, <1>3, <1>4, <2>1, <3>3 DEF Taking
  <2>2. CASE cap # NoPiece
    <3>1. taken.major_material = [c \in Colors |-> counted.major_material[c] - Loss(cap, c)]
      BY <1>2, <2>2 DEF Taking, TakenKeys, Loss
    <3> QED
      BY <1>3, <1>4, <3>1
  <2> QED
    BY <2>1, <2>2
<1>6. \A c \in Colors : Material(q, c) = Material(p, c) - Loss(cap, c)
  BY MaterialLess
<1> QED
  BY <1>3, <1>5, <1>6 DEF MaterialRead

\* The keys and the material follow the board through a move.
LEMMA KeysPlayed ==
  ASSUME NEW p, Sound(p), KeysRead(p), NEW m, IsMoveIn(p, m), NEW q, Played(p, q, m)
  PROVE  KeysRead(q)
<1>1. MenKeysRead(q) /\ MaterialRead(q)
  BY KeysFollow, MaterialFollows
<1> QED
  BY <1>1 DEF KeysRead, MenKeysRead, MaterialRead

\* A null move leaves them to the same board.
LEMMA KeysNull ==
  ASSUME NEW p, Sound(p), KeysRead(p), NEW q, NullPlayed(p, q)
  PROVE  KeysRead(q)
<1>1. SameBoard(q, p)
  BY DEF NullPlayed
<1>2. /\ \A pts : Men(q, pts) = Men(p, pts)
      /\ \A c \in Colors : Material(q, c) = Material(p, c)
      /\ \A c \in Colors : MenOf(q, c, PieceTypes \ {"pawn"}) = MenOf(p, c, PieceTypes \ {"pawn"})
  BY <1>1, SameReading
<1>3. \A f \in {"pawn_key", "minor_piece_key", "non_pawn_key", "major_material"} : q.state[f] = p.state[f]
  BY DEF NullPlayed, NullState, StateFields, CheckFields
<1>4. q.state.pawn_key = Men(q, {"pawn"}) /\ q.state.minor_piece_key = Men(q, {"cannon", "knight"})
  BY <1>2, <1>3 DEF KeysRead
<1>5. q.state.non_pawn_key = [c \in Colors |-> MenOf(q, c, PieceTypes \ {"pawn"})]
  BY <1>2, <1>3 DEF KeysRead
<1>6. q.state.major_material = [c \in Colors |-> Material(q, c)]
  BY <1>2, <1>3 DEF KeysRead
<1>7. q.state.key = Men(q, PieceTypes) \cup (IF q.side_to_move = Black THEN SideKey ELSE {})
  <2> DEFINE A == Men(p, PieceTypes)
             us == p.side_to_move
  <2>1. SideKey \cap A = {}
    <3>1. A = BoardMen(p.board, PieceTypes)
      BY MenRead DEF Sound
    <3> QED
      BY <3>1 DEF BoardMen, SideKey, Squares
  <2>2. us \in Colors /\ q.side_to_move = Other(us) /\ q.state.key = Xor(p.state.key, SideKey)
    BY DEF NullPlayed, NullState, Sound
  <2>3. p.state.key = A \cup (IF us = Black THEN SideKey ELSE {}) /\ Men(q, PieceTypes) = A
    BY <1>2 DEF KeysRead
  <2> HIDE DEF A, us
  <2>4. CASE us = White
    BY <2>1, <2>2, <2>3, <2>4 DEF Other, White, Black, Xor
  <2>5. CASE us = Black
    BY <2>1, <2>2, <2>3, <2>5 DEF Other, White, Black, Xor
  <2> QED
    BY <2>2, <2>4, <2>5 DEF Colors
<1> QED
  BY <1>4, <1>5, <1>6, <1>7 DEF KeysRead

-----------------------------------------------------------------------------
(* The counts and the middle encoding are those of the board set up anew.   *)

\* The men on a board, and what putting them all down gives.
OnSquares(b) == {s \in Squares : b[s] # NoPiece}
MenOfBoard(b) == [s \in OnSquares(b) |-> b[s]]
SetUp(b) == PlacedAll(MenOfBoard(b))
IsBoard(b) == b = [s \in Squares |-> b[s]] /\ \A s \in Squares : b[s] \in Occupants
Without(b, s) == [u \in Squares |-> IF u = s THEN NoPiece ELSE b[u]]

\* A board's men, laid out again, are that board.
LEMMA MenAreMen ==
  ASSUME NEW b, IsBoard(b)
  PROVE  IsMen(MenOfBoard(b)) /\ DOMAIN MenOfBoard(b) = OnSquares(b) /\ BoardOf(MenOfBoard(b), OnSquares(b)) = b
<1>1. DOMAIN MenOfBoard(b) = OnSquares(b) /\ \A s \in OnSquares(b) : MenOfBoard(b)[s] = b[s]
  BY DEF MenOfBoard
<1>2. IsMen(MenOfBoard(b))
  <2>1. \A s \in OnSquares(b) : b[s] \in Pieces
    BY DEF IsBoard, OnSquares, Occupants
  <2>2. MenOfBoard(b) = [s \in DOMAIN MenOfBoard(b) |-> MenOfBoard(b)[s]]
    BY <1>1 DEF MenOfBoard
  <2> QED
    BY <1>1, <2>1, <2>2 DEF IsMen, OnSquares
<1>3. BoardOf(MenOfBoard(b), OnSquares(b)) = b
  <2>1. \A s \in Squares : (IF s \in OnSquares(b) THEN MenOfBoard(b)[s] ELSE NoPiece) = b[s]
    BY <1>1 DEF OnSquares
  <2> QED
    BY <2>1 DEF BoardOf, IsBoard
<1> QED
  BY <1>1, <1>2, <1>3

\* A board set up anew is that board.
LEMMA SetUpLaid ==
  ASSUME NEW b, IsBoard(b)
  PROVE  Laid(SetUp(b), b)
<1>1. IsMen(MenOfBoard(b)) /\ DOMAIN MenOfBoard(b) = OnSquares(b) /\ BoardOf(MenOfBoard(b), OnSquares(b)) = b
  BY MenAreMen
<1>2. Laid(Fold(MenOfBoard(b))[OnSquares(b)], BoardOf(MenOfBoard(b), OnSquares(b)))
  BY <1>1, FoldLaid
<1> QED
  BY <1>1, <1>2 DEF SetUp, PlacedAll

\* Any man may be the last to be put down.
LEMMA LastMan ==
  ASSUME NEW b, IsBoard(b), NEW s \in Squares, b[s] \in Pieces
  PROVE  IsBoard(Without(b, s)) /\ SetUp(b) = put_piece(SetUp(Without(b, s)), b[s], s)
<1> DEFINE d == Without(b, s)
           men == MenOfBoard(b)
           less == MenOfBoard(d)
<1>1. IsBoard(d)
  BY DEF IsBoard, Without, Occupants
<1>2. OnSquares(d) = OnSquares(b) \ {s} /\ s \in OnSquares(b)
  BY PieceFacts DEF OnSquares, Without
<1>3. /\ IsMen(men) /\ DOMAIN men = OnSquares(b)
      /\ IsMen(less) /\ DOMAIN less = OnSquares(d)
  BY <1>1, MenAreMen
<1>4. men[s] = b[s] /\ \A u \in OnSquares(d) : men[u] = less[u]
  BY <1>2 DEF MenOfBoard, Without, OnSquares
<1> HIDE DEF d, men, less
<1>5. Fold(men)[OnSquares(b)] = put_piece(Fold(men)[OnSquares(b) \ {s}], men[s], s)
  BY <1>2, <1>3, FoldAny
<1>6. Fold(men)[OnSquares(d)] = Fold(less)[OnSquares(d)]
  BY <1>2, <1>3, <1>4, FoldAgree
<1>7. Fold(men)[OnSquares(b)] = put_piece(Fold(less)[OnSquares(d)], b[s], s)
  BY <1>2, <1>4, <1>5, <1>6
<1>8. SetUp(b) = put_piece(SetUp(d), b[s], s)
  BY <1>3, <1>7 DEF SetUp, PlacedAll, men, less
<1> QED
  BY <1>1, <1>8 DEF d

\* What one more man adds to the counts and the encoding.
OneMore(x, y, pc, s) ==
  /\ y.piece_count = [k \in Pieces |-> x.piece_count[k] + (IF k = pc THEN 1 ELSE 0)]
  /\ y.mid_encoding = [x.mid_encoding EXCEPT ![pc] = Plus(@, Lean(pc, s))]

\* Setting up a board is setting it up without one man and then placing him.
LEMMA LastManCounts ==
  ASSUME NEW b, IsBoard(b), NEW s \in Squares, b[s] \in Pieces
  PROVE  OneMore(SetUp(Without(b, s)), SetUp(b), b[s], s) /\ SetsTyped(SetUp(Without(b, s)))
<1> DEFINE x == SetUp(Without(b, s))
<1>1. IsBoard(Without(b, s)) /\ SetUp(b) = put_piece(x, b[s], s)
  BY LastMan
<1>2. Shaped(x) /\ SetsTyped(x)
  BY <1>1, SetUpLaid DEF Laid
<1> HIDE DEF x
<1>3. PutOn(x, put_piece(x, b[s], s), b[s], s)
  BY <1>2, PutFields
<1>4. OneMore(x, SetUp(b), b[s], s)
  BY <1>1, <1>3 DEF PutOn, OneMore
<1> QED
  BY <1>2, <1>4 DEF x

\* p counts and encodes its men as setting its board up would.
CountsAs(p, b) == p.piece_count = SetUp(b).piece_count /\ p.mid_encoding = SetUp(b).mid_encoding

\* Taking a part out of a sum it was put in.
LEMMA MinusPlus == \A x, y \in Int \X Int : Minus(Plus(x, y), y) = x
  BY DEF Plus, Minus

\* Counts and middle encoding are the board's after a man is taken off.
LEMMA TakenCounts ==
  ASSUME NEW p, SetsTyped(p), NEW b, IsBoard(b), p.board = b, CountsAs(p, b), NEW s \in Squares, b[s] \in Pieces,
         NEW q, TakenOff(p, q, s)
  PROVE  q.board = Without(b, s) /\ IsBoard(Without(b, s)) /\ CountsAs(q, Without(b, s))
<1> DEFINE pc == b[s]
           x == SetUp(Without(b, s))
<1>1. OneMore(x, SetUp(b), pc, s) /\ SetsTyped(x)
  BY LastManCounts
<1>2. q.board = Without(b, s) /\ IsBoard(Without(b, s))
  <2>1. q.board = [b EXCEPT ![s] = NoPiece]
    BY DEF TakenOff
  <2> QED
    BY <2>1 DEF Without, IsBoard, Occupants
<1>3. pc \in Pieces /\ Lean(pc, s) \in Int \X Int
  BY LeanTyped
<1> HIDE DEF pc, x
<1>4. q.piece_count = x.piece_count
  <2>1. q.piece_count = [k \in Pieces |-> p.piece_count[k] - (IF k = pc THEN 1 ELSE 0)]
    BY DEF TakenOff, pc
  <2>2. p.piece_count = [k \in Pieces |-> x.piece_count[k] + (IF k = pc THEN 1 ELSE 0)]
    BY <1>1 DEF OneMore, CountsAs
  <2>3. x.piece_count = [k \in Pieces |-> x.piece_count[k]] /\ \A k \in Pieces : x.piece_count[k] \in Int
    BY <1>1 DEF SetsTyped
  <2>4. \A k \in Pieces : q.piece_count[k] = x.piece_count[k]
    BY <2>1, <2>2, <2>3
  <2> QED
    BY <2>1, <2>3, <2>4
<1>5. q.mid_encoding = x.mid_encoding
  <2> DEFINE M == x.mid_encoding
             a == Lean(pc, s)
  <2>1. q.mid_encoding = [p.mid_encoding EXCEPT ![pc] = Minus(@, a)]
    BY DEF TakenOff, pc
  <2>2. p.mid_encoding = [M EXCEPT ![pc] = Plus(@, a)]
    BY <1>1 DEF OneMore, CountsAs
  <2>3. M = [k \in Pieces |-> M[k]] /\ M[pc] \in Int \X Int
    BY <1>1, <1>3 DEF SetsTyped
  <2>4. Minus(Plus(M[pc], a), a) = M[pc]
    BY <1>3, <2>3, MinusPlus
  <2> HIDE DEF M, a
  <2>5. q.mid_encoding = M
    BY <1>3, <2>1, <2>2, <2>3, <2>4
  <2> QED
    BY <2>5 DEF M
<1> QED
  BY <1>2, <1>4, <1>5 DEF CountsAs, x

\* The same after a man is moved.
LEMMA ShiftedCounts ==
  ASSUME NEW p, SetsTyped(p), NEW b, IsBoard(b), p.board = b, CountsAs(p, b), NEW s \in Squares, NEW t \in Squares,
         s # t, b[s] \in Pieces, b[t] = NoPiece, NEW q, ShiftedTo(p, q, s, t)
  PROVE  IsBoard(q.board) /\ CountsAs(q, q.board)
<1> DEFINE pc == b[s]
           d == q.board
           x == SetUp(Without(b, s))
<1>1. OneMore(x, SetUp(b), pc, s) /\ SetsTyped(x)
  BY LastManCounts
<1>2. d = [b EXCEPT ![s] = NoPiece, ![t] = pc]
  BY DEF ShiftedTo
<1>3. IsBoard(d) /\ d[t] = pc
  BY <1>2 DEF IsBoard, Occupants
<1>4. Without(d, t) = Without(b, s)
  <2>1. \A u \in Squares : (IF u = t THEN NoPiece ELSE d[u]) = (IF u = s THEN NoPiece ELSE b[u])
    BY <1>2 DEF IsBoard
  <2> HIDE DEF d
  <2> QED
    BY <2>1 DEF Without
<1>5. pc \in Pieces /\ Lean(pc, s) \in Int \X Int /\ Lean(pc, t) \in Int \X Int
  BY LeanTyped
<1> HIDE DEF d, pc
<1>6. OneMore(SetUp(Without(d, t)), SetUp(d), d[t], t)
  BY <1>3, <1>5, LastManCounts
<1>7. OneMore(x, SetUp(d), pc, t)
  BY <1>3, <1>4, <1>6
<1> HIDE DEF x
<1>8. q.piece_count = SetUp(d).piece_count
  BY <1>1, <1>7 DEF OneMore, CountsAs, ShiftedTo
<1>9. q.mid_encoding = SetUp(d).mid_encoding
  <2> DEFINE M == x.mid_encoding
             a == Lean(pc, s)
             c == Lean(pc, t)
  <2>1. q.mid_encoding = [p.mid_encoding EXCEPT ![pc] = Plus(Minus(@, a), c)]
    BY DEF ShiftedTo, pc
  <2>2. p.mid_encoding = [M EXCEPT ![pc] = Plus(@, a)] /\ SetUp(d).mid_encoding = [M EXCEPT ![pc] = Plus(@, c)]
    BY <1>1, <1>7 DEF OneMore, CountsAs
  <2>3. M = [k \in Pieces |-> M[k]] /\ M[pc] \in Int \X Int
    BY <1>1, <1>5 DEF SetsTyped
  <2>4. Minus(Plus(M[pc], a), a) = M[pc]
    BY <1>5, <2>3, MinusPlus
  <2> HIDE DEF M, a, c
  <2>5. p.mid_encoding[pc] = Plus(M[pc], a)
    BY <1>5, <2>2, <2>3
  <2>6. q.mid_encoding = [M EXCEPT ![pc] = Plus(M[pc], c)]
    BY <1>5, <2>1, <2>2, <2>3, <2>4, <2>5
  <2> QED
    BY <2>2, <2>6
<1> QED
  BY <1>3, <1>8, <1>9 DEF CountsAs, d

\* A sound position is as set up anew when its counts and sums are.
LEMMA BuiltCounts ==
  ASSUME NEW p, Sound(p)
  PROVE  IsBoard(p.board) /\ (Built(p) <=> CountsAs(p, p.board))
<1> DEFINE b == p.board
<1>1. IsBoard(b)
  BY DEF Sound, SetsTyped, IsBoard
<1>2. MenOn(p) = MenOfBoard(b)
  BY DEF MenOn, MenOfBoard, OnSquares
<1>3. Laid(SetUp(b), b)
  BY <1>1, SetUpLaid
<1>4. Built(p) <=> SameBoard(p, SetUp(b))
  BY <1>2 DEF Built, SetUp
<1>5. ASSUME CountsAs(p, b) PROVE SameBoard(p, SetUp(b))
  BY <1>3, <1>5, SameSets DEF CountsAs, Laid, Sound
<1>6. ASSUME SameBoard(p, SetUp(b)) PROVE CountsAs(p, b)
  BY <1>6 DEF SameBoard, BoardFields, CountsAs
<1> QED
  BY <1>1, <1>4, <1>5, <1>6

\* A move leaves a position that is as set up anew.
LEMMA BuiltPlayed ==
  ASSUME NEW p, Sound(p), Built(p), NEW m, IsMoveIn(p, m), NEW q, Played(p, q, m)
  PROVE  Built(q)
<1> DEFINE s == From(m)
           t == To(m)
           b == p.board
           x == Moved(p, m)
<1>1. IsBoard(b) /\ CountsAs(p, b)
  BY BuiltCounts
<1>2. PICK r : Shaped(r) /\ SetsTyped(r) /\ Between(p, r, m) /\ ShiftedTo(r, x, s, t)
  BY MovedFields DEF Sound
<1>3. s \in Squares /\ t \in Squares /\ s # t /\ b[s] \in Pieces
  BY DEF IsMoveIn, From, To
<1>4. IsBoard(r.board) /\ CountsAs(r, r.board) /\ r.board[s] = b[s] /\ r.board[t] = NoPiece
  <2>1. CASE b[t] = NoPiece
    BY <1>1, <1>2, <2>1 DEF Between
  <2>2. CASE b[t] # NoPiece
    <3>1. TakenOff(p, r, t) /\ b[t] \in Pieces
      BY <1>1, <1>2, <1>3, <2>2 DEF Between, IsBoard, Occupants
    <3> HIDE DEF s, t, b, x
    <3>2. SetsTyped(p) /\ p.board = b
      BY DEF Sound, b
    <3>3. r.board = Without(b, t) /\ IsBoard(Without(b, t)) /\ CountsAs(r, Without(b, t))
      BY <1>1, <1>3, <3>1, <3>2, TakenCounts
    <3> QED
      BY <1>3, <3>3 DEF Without
  <2> QED
    BY <2>1, <2>2
<1> DEFINE d == r.board
<1> HIDE DEF s, t, b, x
<1>5. IsBoard(x.board) /\ CountsAs(x, x.board)
  <2>1. d[s] \in Pieces /\ d[t] = NoPiece /\ IsBoard(d) /\ CountsAs(r, d) /\ r.board = d
    BY <1>3, <1>4
  <2> HIDE DEF d
  <2> QED
    BY <1>2, <1>3, <2>1, ShiftedCounts
<1>6. q.board = x.board /\ q.piece_count = x.piece_count /\ q.mid_encoding = x.mid_encoding
  BY DEF Played, BoardFields, x
<1>7. CountsAs(q, q.board)
  BY <1>5, <1>6 DEF CountsAs
<1> QED
  BY <1>7, BuiltCounts, PlayedSound

\* So does a null move.
LEMMA BuiltNull ==
  ASSUME NEW p, Sound(p), Built(p), NEW q, NullPlayed(p, q)
  PROVE  Built(q)
<1>1. CountsAs(p, p.board)
  BY BuiltCounts
<1>2. q.board = p.board /\ q.piece_count = p.piece_count /\ q.mid_encoding = p.mid_encoding
  BY DEF NullPlayed, SameBoard, BoardFields
<1>3. CountsAs(q, q.board)
  BY <1>1, <1>2 DEF CountsAs
<1> QED
  BY <1>3, BuiltCounts, NullSound

-----------------------------------------------------------------------------
(* What is true of every position of a line.                                *)

Kept(p, r) == Sound(p) /\ Accounts(p, r) /\ FilterCounts(p) /\ KeysRead(p) /\ Built(p)

\* All of it survives a move.
LEMMA KeptPlayed ==
  ASSUME NEW p, NEW r \in Nat, Kept(p, r), NEW m, IsMoveIn(p, m), NEW q, Played(p, q, m)
  PROVE  Kept(q, r)
<1>1. Sound(q)
  BY PlayedSound DEF Kept
<1>2. Accounts(q, r)
  BY PlayedAccounts DEF Kept
<1>3. FilterCounts(q)
  BY PushedCounts DEF Kept, Played, Pushed
<1>4. KeysRead(q)
  BY KeysPlayed DEF Kept
<1>5. Built(q)
  BY BuiltPlayed DEF Kept
<1> QED
  BY <1>1, <1>2, <1>3, <1>4, <1>5 DEF Kept

\* And a null move.
LEMMA KeptNull ==
  ASSUME NEW p, NEW r \in Nat, Kept(p, r), NEW q, NullPlayed(p, q)
  PROVE  Kept(q, r)
<1>1. Sound(q)
  BY NullSound DEF Kept
<1>2. Accounts(q, r)
  BY NullAccounts DEF Kept
<1>3. FilterCounts(q)
  BY PushedCounts DEF Kept, NullPlayed, Pushed
<1>4. KeysRead(q)
  BY KeysNull DEF Kept
<1>5. Built(q)
  BY BuiltNull DEF Kept
<1> QED
  BY <1>1, <1>2, <1>3, <1>4, <1>5 DEF Kept

\* And holds where a line begins.
LEMMA KeptBegins ==
  ASSUME NEW men, IsMen(men), NEW stm \in Colors, NEW r \in Nat
  PROVE  Kept(from_fen(men, stm, r), r) /\ Plies(from_fen(men, stm, r)) = 0
<1> DEFINE p == from_fen(men, stm, r)
<1>1. Begun(p, men, stm, r)
  BY FenBegins
<1> HIDE DEF p
<1>2. Plies(p) = 0
  BY <1>1 DEF Begun, Plies
<1>3. Accounts(p, r)
  <2>1. CapturesIn(p) = {} /\ NullsIn(p) = {} /\ QuietIn(p) = {}
    BY <1>2 DEF CapturesIn, NullsIn, QuietIn, Latest
  <2>2. Extra(p.state.check10, White) = 0 /\ Extra(p.state.check10, Black) = 0
    BY <1>1, PositionAssumption DEF Begun, Extra, Colors
  <2>3. Reversible(p.state) = r
    BY <1>1, <2>2 DEF Begun, Reversible
  <2>4. p.state.plies_from_null = 0
    BY <1>1 DEF Begun
  <2> QED
    BY <1>2, <2>1, <2>3, <2>4, FS_EmptySet DEF Accounts, Latest
<1>4. FilterCounts(p)
  <2>1. \A s \in FilterSlots : KeysAt(p, s) = {} /\ p.bloom_filter[s] = 0
    BY <1>1, <1>2 DEF Begun, KeysAt
  <2>2. Cardinality({}) = 0
    BY FS_EmptySet
  <2>3. 0 = 0 + FilterWidth * 0
    BY PositionAssumption
  <2> QED
    BY <2>1, <2>2, <2>3 DEF FilterCounts
<1>5. Built(p)
  <2>1. MenOn(p) = men
    <3>1. p.board = BoardOf(men, DOMAIN men)
      BY <1>1 DEF Begun
    <3>2. \A s \in Squares : p.board[s] # NoPiece <=> s \in DOMAIN men
      BY <3>1, PieceFacts DEF BoardOf, IsMen
    <3>3. {s \in Squares : p.board[s] # NoPiece} = DOMAIN men
      BY <3>2 DEF IsMen
    <3>4. \A s \in DOMAIN men : p.board[s] = men[s]
      BY <3>1 DEF BoardOf, IsMen
    <3>5. MenOn(p) = [s \in DOMAIN men |-> p.board[s]]
      BY <3>3 DEF MenOn
    <3> QED
      BY <3>4, <3>5 DEF IsMen
  <2> QED
    BY <1>1, <2>1 DEF Built, Begun
<1> QED
  BY <1>1, <1>2, <1>3, <1>4, <1>5 DEF Kept, Begun, p

-----------------------------------------------------------------------------
(* The line that led to the position: each of its positions follows from    *)
(* the one before, and undoing goes back to it.                             *)

Follows(p, q) == NullPlayed(p, q) \/ \E m : MoveOf(p, p.side_to_move, m) /\ Played(p, q, m)
Undone(q) == IF q.state.last_move = NoMove THEN undo_null_move(q) ELSE undo_move(q, q.state.last_move)

\* A step forth keeps all that is kept, and Undone takes it back.
LEMMA FollowsKept ==
  ASSUME NEW r \in Nat, NEW p, Kept(p, r), NEW q, Follows(p, q)
  PROVE  Kept(q, r) /\ Plies(q) = Plies(p) + 1 /\ Plies(p) \in Nat /\ Undone(q) = p
<1>0. Sound(p)
  BY DEF Kept
<1>1. CASE NullPlayed(p, q)
  <2>1. Undone(q) = p
    BY <1>0, <1>1, UndoNullRestores DEF Undone, NullPlayed, NullState
  <2>2. Pushed(p, q)
    BY <1>1 DEF Pushed, NullPlayed
  <2> QED
    BY <1>0, <1>1, <2>1, <2>2, KeptNull, PushedFacts
<1>2. ASSUME NEW m, MoveOf(p, p.side_to_move, m), Played(p, q, m)
      PROVE  Kept(q, r) /\ Plies(q) = Plies(p) + 1 /\ Plies(p) \in Nat /\ Undone(q) = p
  <2>0. IsMoveIn(p, m)
    BY <1>2 DEF MoveOf
  <2>1. q.state.last_move = m /\ m # NoMove
    BY <1>2, <2>0, NoMoveIsNone DEF Played, MovedState
  <2>2. undo_move(q, m) = p
    BY <1>0, <1>2, <2>0, UndoMoveRestores
  <2>3. Undone(q) = p
    BY <2>1, <2>2 DEF Undone
  <2>4. Pushed(p, q)
    BY <1>2 DEF Pushed, Played
  <2> QED
    BY <1>0, <1>2, <2>0, <2>3, <2>4, KeptPlayed, PushedFacts
<1> QED
  BY <1>1, <1>2 DEF Follows

\* How many men there are; a line never gains one, and loses one with every capture.
Occupied(p) == Cardinality(OnSquares(p.board))

\* A step takes a man off the board exactly when it captures.
LEMMA FollowsThins ==
  ASSUME NEW r, NEW p, Kept(p, r), NEW q, Follows(p, q)
  PROVE  /\ Occupied(p) \in Nat /\ Occupied(q) \in Nat
         /\ Occupied(q) = IF q.state.captured_piece = NoPiece THEN Occupied(p) ELSE Occupied(p) - 1
<1>1. Occupied(p) \in Nat /\ Occupied(q) \in Nat
  BY SquaresFinite DEF Occupied, OnSquares
<1>2. CASE NullPlayed(p, q)
  <2>1. q.board = p.board /\ q.state.captured_piece = NoPiece
    BY <1>2 DEF NullPlayed, NullState, SameBoard, BoardFields
  <2> QED
    BY <1>1, <2>1 DEF Occupied
<1>3. ASSUME NEW m, MoveOf(p, p.side_to_move, m), Played(p, q, m)
      PROVE  Occupied(q) = IF q.state.captured_piece = NoPiece THEN Occupied(p) ELSE Occupied(p) - 1
  <2> DEFINE s == From(m)
             t == To(m)
             D == OnSquares(p.board)
             E == OnSquares(q.board)
  <2>1. s \in Squares /\ t \in Squares /\ s # t /\ p.board[s] \in Pieces /\ p.board \in [Squares -> Occupants]
    BY <1>3 DEF MoveOf, IsMoveIn, From, To, Kept, Sound, SetsTyped
  <2>2. q.board = [p.board EXCEPT ![s] = NoPiece, ![t] = p.board[s]] /\ q.state.captured_piece = p.board[t]
    <3>1. q.board = Moved(p, m).board /\ q.state.captured_piece = p.board[t]
      BY <1>3 DEF Played, BoardFields, MovedState
    <3> QED
      BY <1>3, <3>1, MovedBoard DEF Kept, Sound, MoveOf
  <2>3. \A u \in Squares : q.board[u] = IF u = s THEN NoPiece ELSE IF u = t THEN p.board[s] ELSE p.board[u]
    BY <2>1, <2>2
  <2>4. s \in D /\ IsFiniteSet(D) /\ Cardinality(D) \in Nat /\ E = (D \ {s}) \cup {t}
    BY <2>1, <2>3, PieceFacts, SquaresFinite DEF OnSquares
  <2>5. t \in D <=> q.state.captured_piece # NoPiece
    BY <2>1, <2>2 DEF OnSquares
  <2> HIDE DEF s, t, D, E
  <2>6. Cardinality(D \ {s}) = Cardinality(D) - 1 /\ IsFiniteSet(D \ {s})
    BY <2>4, FS_RemoveElement
  <2>7. CASE t \in D
    <3>1. E = D \ {s}
      BY <2>1, <2>4, <2>7
    <3> QED
      BY <2>5, <2>6, <2>7, <3>1 DEF Occupied, D, E
  <2>8. CASE t \notin D
    <3>1. Cardinality(E) = Cardinality(D \ {s}) + 1
      BY <2>4, <2>6, <2>8, FS_AddElement
    <3> QED
      BY <2>4, <2>5, <2>6, <2>8, <3>1 DEF Occupied, D, E
  <2> QED
    BY <2>7, <2>8
<1> QED
  BY <1>1, <1>2, <1>3 DEF Follows

Thinned(line, k, i) ==
  \/ Occupied(line[i]) < Occupied(line[k])
  \/ /\ Occupied(line[i]) = Occupied(line[k])
     /\ \A j \in k + 1 .. i : line[j].state.captured_piece = NoPiece
\* What a position of the line keeps of those before it.
Chained(line, n) ==
  \A i \in 1 .. n : /\ \A k \in 1 .. i - 1 : line[i].state_stack[k] = line[k].state
                   /\ \A k \in 1 .. i : Thinned(line, k, i)

\* What a scene's line is: its length, and that it leads to p.
IsLine(line, n, p, r) ==
  /\ n \in Nat \ {0} /\ line[n] = p
  /\ \A i \in 1 .. n : Kept(line[i], r) /\ Plies(line[i]) = i - 1
  /\ \A i \in 1 .. n - 1 : Follows(line[i], line[i + 1])
LineLedHere(p, r) == \E line, n : IsLine(line, n, p, r) /\ Chained(line, n)

\* A step more on the line is stacked on all before it.
LEMMA ChainGrows ==
  ASSUME NEW r, NEW p, NEW line, NEW n, IsLine(line, n, p, r), Chained(line, n), NEW q, Follows(p, q),
         NEW longer, longer[n + 1] = q, \A i \in 1 .. n : longer[i] = line[i]
  PROVE  Chained(longer, n + 1)
<1>1. n \in Nat \ {0} /\ line[n] = p /\ Kept(p, r) /\ Plies(p) = n - 1
  BY DEF IsLine
<1>2. ASSUME NEW i \in 1 .. n, NEW k \in 1 .. i - 1 PROVE longer[i].state_stack[k] = longer[k].state
  BY <1>1 DEF Chained
<1>3. ASSUME NEW i \in 1 .. n, NEW k \in 1 .. i PROVE Thinned(longer, k, i)
  <2>1. Thinned(line, k, i)
    BY DEF Chained
  <2>2. k \in 1 .. n /\ \A j \in k + 1 .. i : j \in 1 .. n
    BY <1>1
  <2> QED
    BY <2>1, <2>2 DEF Thinned
<1>4. ASSUME NEW k \in 1 .. n PROVE longer[n + 1].state_stack[k] = longer[k].state
  <2>1. q.state_stack = Append(p.state_stack, p.state) /\ IsSeq(p.state_stack) /\ Len(p.state_stack) = n - 1
    BY <1>1 DEF Follows, NullPlayed, Played, Kept, Sound, Plies
  <2>2. q.state_stack[n] = p.state /\ \A j \in 1 .. n - 1 : q.state_stack[j] = p.state_stack[j]
    BY <1>1, <2>1, AppendFacts
  <2>3. CASE k = n
    BY <1>1, <2>2, <2>3
  <2>4. CASE k # n
    <3>1. k \in 1 .. n - 1 /\ n \in 1 .. n
      BY <1>1, <2>4
    <3>2. p.state_stack[k] = line[k].state
      BY <1>1, <3>1 DEF Chained
    <3> QED
      BY <2>2, <3>1, <3>2
  <2> QED
    BY <2>3, <2>4
<1>5. ASSUME NEW k \in 1 .. n + 1 PROVE Thinned(longer, k, n + 1)
  <2>1. CASE k = n + 1
    <3>1. Occupied(longer[n + 1]) = Occupied(longer[k]) /\ \A j \in k + 1 .. n + 1 : FALSE
      BY <1>1, <2>1
    <3> QED
      BY <3>1 DEF Thinned
  <2>2. CASE k \in 1 .. n
    <3>1. Thinned(line, k, n)
      BY <1>1, <2>2 DEF Chained
    <3>2. /\ Occupied(p) \in Nat /\ Occupied(q) \in Nat
          /\ Occupied(q) = IF q.state.captured_piece = NoPiece THEN Occupied(p) ELSE Occupied(p) - 1
      BY <1>1, FollowsThins
    <3>3. Occupied(line[k]) \in Nat
      BY SquaresFinite DEF Occupied, OnSquares
    <3>4. CASE Occupied(p) < Occupied(line[k])
      <4>1. Occupied(longer[n + 1]) < Occupied(longer[k])
        BY <2>2, <3>2, <3>3, <3>4
      <4> QED
        BY <4>1 DEF Thinned
    <3>5. CASE Occupied(p) = Occupied(line[k]) /\ \A j \in k + 1 .. n : line[j].state.captured_piece = NoPiece
      <4>1. CASE q.state.captured_piece = NoPiece
        <5>1. Occupied(longer[n + 1]) = Occupied(longer[k])
          BY <2>2, <3>2, <3>5, <4>1
        <5>2. \A j \in k + 1 .. n + 1 : longer[j].state.captured_piece = NoPiece
          <6>1. TAKE j \in k + 1 .. n + 1
          <6>2. j = n + 1 \/ (j \in k + 1 .. n /\ j \in 1 .. n)
            BY <1>1, <2>2
          <6> QED
            BY <3>5, <4>1, <6>2
        <5> QED
          BY <5>1, <5>2 DEF Thinned
      <4>2. CASE q.state.captured_piece # NoPiece
        <5>1. Occupied(longer[n + 1]) < Occupied(longer[k])
          BY <2>2, <3>2, <3>3, <3>5, <4>2
        <5> QED
          BY <5>1 DEF Thinned
      <4> QED
        BY <4>1, <4>2
    <3> QED
      BY <1>1, <3>1, <3>4, <3>5 DEF Thinned
  <2> QED
    BY <1>1, <2>1, <2>2
<1>6. ASSUME NEW i \in 1 .. n + 1
      PROVE  /\ \A k \in 1 .. i - 1 : longer[i].state_stack[k] = longer[k].state
             /\ \A k \in 1 .. i : Thinned(longer, k, i)
  <2>1. CASE i \in 1 .. n
    BY <1>2, <1>3, <2>1
  <2>2. CASE i = n + 1
    <3>1. (n + 1) - 1 = n
      BY <1>1
    <3> QED
      BY <1>4, <1>5, <2>2, <3>1
  <2> QED
    BY <1>1, <2>1, <2>2
<1> QED
  BY <1>6 DEF Chained

\* A line of one position.
LEMMA LineStarts ==
  ASSUME NEW r, NEW p, Kept(p, r), Plies(p) = 0
  PROVE  LineLedHere(p, r)
<1> DEFINE line == [i \in {1} |-> p]
<1>1. line[1] = p
  OBVIOUS
<1> HIDE DEF line
<1>2. IsLine(line, 1, p, r)
  BY <1>1 DEF IsLine
<1>3. Chained(line, 1)
  BY DEF Chained, Thinned
<1> QED
  BY <1>2, <1>3 DEF LineLedHere

\* Going forth one step.
LEMMA LineGrows ==
  ASSUME NEW r \in Nat, NEW p, LineLedHere(p, r), NEW q, Follows(p, q)
  PROVE  LineLedHere(q, r)
<1>1. PICK line, n : IsLine(line, n, p, r) /\ Chained(line, n)
  BY DEF LineLedHere
<1> DEFINE longer == [i \in 1 .. n + 1 |-> IF i = n + 1 THEN q ELSE line[i]]
<1>2. n \in Nat \ {0} /\ line[n] = p /\ Kept(p, r) /\ Plies(p) = n - 1
  BY <1>1 DEF IsLine
<1>3. longer[n + 1] = q /\ \A i \in 1 .. n : longer[i] = line[i]
  BY <1>2
<1>4. Kept(q, r) /\ Plies(q) = n
  BY <1>2, FollowsKept
<1> HIDE DEF longer
<1>5. ASSUME NEW i \in 1 .. n + 1 PROVE Kept(longer[i], r) /\ Plies(longer[i]) = i - 1
  <2>1. CASE i = n + 1
    BY <1>2, <1>3, <1>4, <2>1
  <2>2. CASE i \in 1 .. n
    BY <1>1, <1>3, <2>2 DEF IsLine
  <2> QED
    BY <1>2, <2>1, <2>2
<1>6. ASSUME NEW i \in 1 .. n PROVE Follows(longer[i], longer[i + 1])
  <2>1. CASE i = n
    BY <1>2, <1>3, <2>1
  <2>2. CASE i # n
    <3>1. i \in 1 .. n - 1 /\ i + 1 \in 1 .. n
      BY <1>2, <2>2
    <3> QED
      BY <1>1, <1>3, <3>1 DEF IsLine
  <2> QED
    BY <2>1, <2>2
<1>7. IsLine(longer, n + 1, q, r)
  <2>1. n + 1 \in Nat \ {0} /\ n + 1 - 1 = n
    BY <1>2
  <2>2. (n + 1) - 1 = n
    BY <1>2
  <2>3. \A i \in 1 .. (n + 1) - 1 : Follows(longer[i], longer[i + 1])
    BY <1>6, <2>2
  <2> QED
    BY <1>3, <1>5, <2>1, <2>3 DEF IsLine
<1>8. Chained(longer, n + 1)
  BY <1>1, <1>3, ChainGrows
<1> QED
  BY <1>7, <1>8 DEF LineLedHere

\* Going back one step.
LEMMA LineShrinks ==
  ASSUME NEW r \in Nat, NEW p, LineLedHere(p, r), Plies(p) > 0
  PROVE  LineLedHere(Undone(p), r) /\ Plies(Undone(p)) = Plies(p) - 1
<1>1. PICK line, n : IsLine(line, n, p, r) /\ Chained(line, n)
  BY DEF LineLedHere
<1>2. n \in Nat \ {0} /\ line[n] = p /\ Plies(p) = n - 1 /\ n - 1 \in Nat \ {0}
  BY <1>1 DEF IsLine
<1> DEFINE before == line[n - 1]
<1>3. Kept(before, r) /\ Plies(before) = n - 2 /\ Follows(before, p)
  <2>1. n - 1 \in 1 .. n - 1 /\ n - 1 \in 1 .. n /\ (n - 1) + 1 = n /\ (n - 1) - 1 = n - 2
    BY <1>2
  <2>2. Follows(line[n - 1], line[(n - 1) + 1])
    BY <1>1, <2>1 DEF IsLine
  <2> QED
    BY <1>1, <1>2, <2>1, <2>2 DEF IsLine
<1>4. Undone(p) = before
  BY <1>3, FollowsKept
<1>5. IsLine(line, n - 1, before, r)
  <2>1. \A i \in 1 .. n - 1 : i \in 1 .. n
    BY <1>2
  <2>2. \A i \in 1 .. (n - 1) - 1 : i \in 1 .. n - 1
    BY <1>2
  <2> QED
    BY <1>1, <1>2, <2>1, <2>2 DEF IsLine
<1>6. Chained(line, n - 1)
  <2>1. \A i \in 1 .. n - 1 : i \in 1 .. n
    BY <1>2
  <2> QED
    BY <1>1, <2>1 DEF Chained
<1> QED
  BY <1>2, <1>3, <1>4, <1>5, <1>6 DEF LineLedHere

\* The last position of a line keeps what all keep.
LEMMA LineKept ==
  ASSUME NEW r, NEW p, LineLedHere(p, r)
  PROVE  Kept(p, r) /\ Plies(p) \in Nat
<1>1. PICK line, n : IsLine(line, n, p, r) /\ Chained(line, n)
  BY DEF LineLedHere
<1>2. n \in Nat \ {0} /\ line[n] = p /\ Kept(p, r) /\ Plies(p) = n - 1
  BY <1>1 DEF IsLine
<1> QED
  BY <1>2

-----------------------------------------------------------------------------
(* The specification.                                                       *)

LineInv == scene \in KnownScenes /\ LineLedHere(pos, scene.rule60)

\* What is assumed of a scene.
LEMMA SceneFacts ==
  ASSUME NEW sc \in KnownScenes
  PROVE  IsMen(sc.men) /\ sc.stm \in Colors /\ sc.rule60 \in Nat /\ sc.next \subseteq KnownScenes
  BY ScenesAssumption DEF IsMen

\* A scene begins a line.
LEMMA SceneBegins ==
  ASSUME NEW sc \in KnownScenes
  PROVE  LineLedHere(from_fen(sc.men, sc.stm, sc.rule60), sc.rule60) /\ Plies(from_fen(sc.men, sc.stm, sc.rule60)) = 0
  BY SceneFacts, KeptBegins, LineStarts

\* gives_check is a truth value.
LEMMA ForesightTyped == \A p, m : gives_check(p, m) \in BOOLEAN
  BY DEF gives_check, LooksDown

\* What a step does to the position.
Forth == scene' = scene /\ Ply < scene.depth /\ Follows(pos, pos')
Back == scene' = scene /\ Plies(pos) > 0 /\ pos' = Undone(pos)
Anew == /\ scene' \in scene.next /\ Plies(pos) = 0
        /\ pos' = from_fen(scene'.men, scene'.stm, scene'.rule60)
Stay == UNCHANGED <<scene, pos>>

\* Every step of the specification goes forth, goes back, begins anew or stays.
LEMMA StepKinds ==
  ASSUME LineInv, KingsStand, [Next]_vars
  PROVE  Forth \/ Back \/ Anew \/ Stay
<1>1. Sound(pos) /\ Plies(pos) \in Nat /\ Ply = Plies(pos)
  BY LineKept DEF LineInv, Kept, Ply, Plies
<1>2. ASSUME NEW m \in Legal, pos' = do_move(pos, m, gives_check(pos, m)), scene' = scene, Ply < scene.depth
      PROVE  Forth
  <2>1. pieces(pos, pos.side_to_move, "king") # {}
    BY <1>1 DEF KingsStand, Sound
  <2>2. MoveOf(pos, pos.side_to_move, m) /\ IsMoveIn(pos, m)
    BY <1>1, <2>1, LegalMove DEF Legal, MoveOf
  <2>3. Played(pos, do_move(pos, m, gives_check(pos, m)), m)
    BY <1>1, <2>2, ForesightTyped, PlayedFields
  <2> QED
    BY <1>2, <2>2, <2>3 DEF Forth, Follows
<1>3. ASSUME Ply > 0, ~AfterNull, pos' = undo_move(pos, pos.state.last_move), scene' = scene PROVE Back
  BY <1>1, <1>3 DEF AfterNull, Back, Undone
<1>4. CASE DoMove
  BY <1>2, <1>4 DEF DoMove, Playable
<1>5. CASE UndoMove
  BY <1>3, <1>5 DEF UndoMove
<1>6. CASE SearchMove
  BY <1>2, <1>6 DEF SearchMove, Playable
<1>7. CASE SearchUndo
  BY <1>3, <1>7 DEF SearchUndo
<1>8. CASE NullMove
  <2>1. NullPlayed(pos, do_null_move(pos))
    BY <1>1, NullFields
  <2> QED
    BY <1>8, <2>1 DEF NullMove, Forth, Follows
<1>9. CASE UndoNull
  BY <1>1, <1>9 DEF UndoNull, AfterNull, Back, Undone
<1>10. CASE Evaluate
  BY <1>10 DEF Evaluate, Stay
<1>11. CASE NewSearch
  BY <1>1, <1>11 DEF NewSearch, Anew
<1>12. CASE UNCHANGED vars
  BY <1>12 DEF vars, Stay
<1> QED
  BY <1>4, <1>5, <1>6, <1>7, <1>8, <1>9, <1>10, <1>11, <1>12 DEF Next

\* The invariant survives each of them.
LEMMA LineStep ==
  ASSUME LineInv, KingsStand, [Next]_vars
  PROVE  LineInv'
<1>1. scene.rule60 \in Nat /\ scene.next \subseteq KnownScenes /\ scene \in KnownScenes
  BY SceneFacts DEF LineInv
<1>2. CASE Forth
  <2>1. LineLedHere(pos', scene.rule60)
    BY <1>1, <1>2, LineGrows DEF Forth, LineInv
  <2> QED
    BY <1>1, <1>2, <2>1 DEF Forth, LineInv
<1>3. CASE Back
  <2>1. LineLedHere(pos', scene.rule60)
    BY <1>1, <1>3, LineShrinks DEF Back, LineInv
  <2> QED
    BY <1>1, <1>3, <2>1 DEF Back, LineInv
<1>4. CASE Anew
  <2>1. scene' \in KnownScenes
    BY <1>1, <1>4 DEF Anew
  <2>2. LineLedHere(from_fen(scene'.men, scene'.stm, scene'.rule60), scene'.rule60)
    BY <2>1, SceneBegins
  <2> QED
    BY <1>4, <2>1, <2>2 DEF Anew, LineInv
<1>5. CASE Stay
  BY <1>5 DEF Stay, LineInv
<1> QED
  BY <1>2, <1>3, <1>4, <1>5, StepKinds

\* A line led to every position that occurs.
LEMMA LineHolds == Spec /\ []KingsStand => []LineInv
<1>1. Init => LineInv
  <2> SUFFICES ASSUME Init PROVE LineInv
    OBVIOUS
  <2>1. scene \in KnownScenes
    BY DEF Init, KnownScenes
  <2> QED
    BY <2>1, SceneBegins DEF Init, LineInv
<1>2. LineInv /\ KingsStand /\ [Next]_vars => LineInv'
  BY LineStep
<1> QED
  BY <1>1, <1>2, PTL DEF Spec

\* Undoing a move or a null move gives back the very position it was played in, whatever the line.
THEOREM UndoGivesBack == Spec /\ []KingsStand => UndoRestores
<1> DEFINE Restores == Len(pos'.state_stack) > Ply => pos = Undone(pos')
<1>1. LineInv /\ KingsStand /\ [Next]_vars => Restores
  <2> SUFFICES ASSUME LineInv, KingsStand, [Next]_vars, Len(pos'.state_stack) > Ply PROVE pos = Undone(pos')
    OBVIOUS
  <2>1. scene.rule60 \in Nat /\ Kept(pos, scene.rule60) /\ Plies(pos) \in Nat /\ Ply = Plies(pos)
        /\ scene \in KnownScenes
    BY SceneFacts, LineKept DEF LineInv, Ply, Plies
  <2>2. CASE Forth
    BY <2>1, <2>2, FollowsKept DEF Forth
  <2>3. CASE Back
    <3>1. Plies(pos') = Plies(pos) - 1
      BY <2>1, <2>3, LineShrinks DEF Back, LineInv
    <3> QED
      BY <2>1, <3>1 DEF Plies
  <2>4. CASE Anew
    <3>1. scene' \in KnownScenes
      BY <2>1, <2>4, SceneFacts DEF Anew
    <3>2. Plies(pos') = 0
      BY <2>4, <3>1, SceneBegins DEF Anew
    <3> QED
      BY <2>1, <3>2 DEF Plies
  <2>5. CASE Stay
    BY <2>1, <2>5 DEF Stay, Plies
  <2> QED
    BY <2>2, <2>3, <2>4, <2>5, StepKinds
<1>2. Restores <=> (Len(pos'.state_stack) > Ply =>
        pos = IF pos'.state.last_move = NoMove THEN undo_null_move(pos')
              ELSE undo_move(pos', pos'.state.last_move))
  BY DEF Undone
<1> HIDE DEF Restores
<1>3. LineInv /\ KingsStand /\ [Next]_vars
        => [Len(pos'.state_stack) > Ply =>
              pos = IF pos'.state.last_move = NoMove THEN undo_null_move(pos')
                    ELSE undo_move(pos', pos'.state.last_move)]_vars
  BY <1>1, <1>2
<1> QED
  BY <1>3, LineHolds, PTL DEF Spec, UndoRestores

\* Every ply since the last capture or null move is accounted for in the window a repetition is looked for in.
THEOREM PliesInWindow == Spec /\ []KingsStand => []PliesAccounted
<1>1. LineInv => PliesAccounted
  <2> SUFFICES ASSUME LineInv PROVE PliesAccounted
    OBVIOUS
  <2>1. Accounts(pos, scene.rule60) /\ Ply = Plies(pos)
    BY LineKept DEF LineInv, Kept, Ply, Plies
  <2>2. Window(pos) = IF Reversible(pos.state) < pos.state.plies_from_null
                      THEN Reversible(pos.state) ELSE pos.state.plies_from_null
    BY DEF Window, Reversible, Extra
  <2> DEFINE made(i) == IF i = Ply THEN pos.state ELSE pos.state_stack[i + 1]
             captures == {i \in 1 .. Ply : made(i).captured_piece # NoPiece}
             nulls == {i \in 1 .. Ply : made(i).last_move = NoMove}
             latest(S) == IF S = {} THEN 0 ELSE CHOOSE i \in S : \A j \in S : j <= i
             quiet == {i \in latest(captures) + 1 .. Ply : i \notin nulls}
  <2>3. captures = CapturesIn(pos) /\ nulls = NullsIn(pos)
    BY <2>1 DEF CapturesIn, NullsIn, MadeIn
  <2>4. \A S : latest(S) = Latest(S)
    BY DEF Latest
  <2> HIDE DEF captures, nulls, latest
  <2>5. quiet = QuietIn(pos)
    BY <2>1, <2>3, <2>4 DEF QuietIn
  <2> HIDE DEF quiet
  <2> DEFINE reversible == Cardinality(quiet) + (IF captures = {} THEN scene.rule60 ELSE 0)
             since_null == Ply - latest(nulls)
  <2>6. reversible = Reversible(pos.state) /\ since_null = pos.state.plies_from_null
    BY <2>1, <2>3, <2>4, <2>5 DEF Accounts
  <2> HIDE DEF reversible, since_null
  <2>7. Window(pos) = IF reversible < since_null THEN reversible ELSE since_null
    BY <2>2, <2>6
  <2> QED
    BY <2>7 DEF PliesAccounted, reversible, since_null, quiet, latest, nulls, captures
<1> QED
  BY <1>1, LineHolds, PTL

\* Everything a position keeps, the checkers aside, is what its men give when set up anew.
LEMMA KeptAsFresh ==
  ASSUME NEW p, NEW r, Kept(p, r), CheckersRead(p), NEW q, Begun(q, MenOn(p), p.side_to_move, p.state.rule60)
  PROVE  /\ SameBoard(p, q)
         /\ \A f \in {"key", "pawn_key", "minor_piece_key", "non_pawn_key", "major_material"} : p.state[f] = q.state[f]
         /\ p.state.checkers = q.state.checkers
         /\ \A f \in CheckFields : p.state[f] = q.state[f]
<1>1. SameBoard(p, q)
  <2>1. SameBoard(p, PlacedAll(MenOn(p))) /\ SameBoard(q, PlacedAll(MenOn(p)))
    BY DEF Kept, Built, Begun
  <2> QED
    BY <2>1 DEF SameBoard
<1>2. KeysRead(p) /\ KeysRead(q) /\ CheckersRead(q) /\ p.side_to_move = q.side_to_move
  BY DEF Kept, Begun
<1>3. /\ \A pts : Men(p, pts) = Men(q, pts)
      /\ \A c, pts : MenOf(p, c, pts) = MenOf(q, c, pts)
      /\ \A c : Material(p, c) = Material(q, c)
      /\ \A c, s, occ : checkers_to(p, c, s, occ) = checkers_to(q, c, s, occ)
      /\ \A c : king_square(p, c) = king_square(q, c)
      /\ all_pieces(p) = all_pieces(q)
  BY <1>1, SameReading
<1>4. p.state.key = q.state.key /\ p.state.pawn_key = q.state.pawn_key
      /\ p.state.minor_piece_key = q.state.minor_piece_key
  BY <1>2, <1>3 DEF KeysRead
<1>5. p.state.non_pawn_key = q.state.non_pawn_key
  <2>1. \A c \in Colors : MenOf(p, c, PieceTypes \ {"pawn"}) = MenOf(q, c, PieceTypes \ {"pawn"})
    BY <1>3
  <2> QED
    BY <1>2, <2>1 DEF KeysRead
<1>6. p.state.major_material = q.state.major_material
  BY <1>2, <1>3 DEF KeysRead
<1>7. p.state.checkers = q.state.checkers
  BY <1>2, <1>3 DEF CheckersRead
<1>8. SameForChecks(p, q)
  BY <1>1, <1>2, <1>7 DEF SameForChecks, SameBoard
<1>9. ChecksFrom(p, p) /\ ChecksFrom(q, q)
  BY DEF Kept, Begun, Sound
<1>10. \A f \in CheckFields : p.state[f] = q.state[f]
  BY <1>8, <1>9, SameChecks DEF ChecksFrom, CheckFields
<1> QED
  BY <1>1, <1>4, <1>5, <1>6, <1>7, <1>10

\* All that do_move, undo_move and the null moves keep up to date is what a fresh reading of the board gives,
\* after any line; the filter counts the line's keys.
THEOREM DerivedFromBoard == Spec /\ []KingsStand /\ []CheckersKnown => []DerivedState
<1>1. LineInv /\ CheckersKnown => DerivedState
  <2> SUFFICES ASSUME LineInv, CheckersKnown PROVE DerivedState
    OBVIOUS
  <2> DEFINE men == [s \in {t \in Squares : pos.board[t] # NoPiece} |-> pos.board[s]]
             fresh == from_fen(men, pos.side_to_move, pos.state.rule60)
  <2>1. Kept(pos, scene.rule60) /\ CheckersRead(pos) /\ men = MenOn(pos)
    BY LineKept DEF LineInv, CheckersKnown, CheckersRead, MenOn
  <2>2. IsMen(MenOn(pos))
    <3>1. IsBoard(pos.board)
      BY <2>1, BuiltCounts DEF Kept
    <3>2. MenOn(pos) = MenOfBoard(pos.board)
      BY DEF MenOn, MenOfBoard, OnSquares
    <3> QED
      BY <3>1, <3>2, MenAreMen
  <2> HIDE DEF men
  <2>3. Begun(fresh, MenOn(pos), pos.side_to_move, pos.state.rule60)
    BY <2>1, <2>2, FenBegins DEF Kept, Sound, StateTyped
  <2> HIDE DEF fresh
  <2>4. /\ SameBoard(pos, fresh)
        /\ \A f \in {"key", "pawn_key", "minor_piece_key", "non_pawn_key", "major_material"} :
             pos.state[f] = fresh.state[f]
        /\ pos.state.checkers = fresh.state.checkers
        /\ \A f \in CheckFields : pos.state[f] = fresh.state[f]
    BY <2>1, <2>3, KeptAsFresh
  <2>5. \A f \in {"by_type", "by_color", "piece_count", "mid_encoding"} : pos[f] = fresh[f]
    BY <2>4 DEF SameBoard, BoardFields
  <2>6. \A f \in {"key", "pawn_key", "minor_piece_key", "non_pawn_key", "major_material",
                  "checkers", "blockers_for_king", "pinners", "check_squares", "need_full_check"} :
          pos.state[f] = fresh.state[f]
    BY <2>4 DEF CheckFields
  <2>7. \A s \in FilterSlots : pos.bloom_filter[s] = InFilter(s) % FilterWidth
    <3>1. TAKE s \in FilterSlots
    <3>2. pos.bloom_filter[s] = Cardinality(KeysAt(pos, s)) % FilterWidth
      BY <2>1, CountsRead DEF Kept
    <3> QED
      BY <3>2 DEF KeysAt, InFilter, Ply, Plies
  <2> QED
    BY <2>5, <2>6, <2>7 DEF DerivedState, AsFresh, fresh, men
<1> QED
  BY <1>1, LineHolds, PTL

-----------------------------------------------------------------------------
(* Repetitions: what the search for one finds in the line.                  *)

\* No slot has counted the line's keys past its width at the position's own key.
SlotHolds == Slot(pos.state.key) \in FilterSlots /\ InFilter(Slot(pos.state.key)) < FilterWidth

\* The states of the line, from either end.
LEMMA StatesOfLine ==
  ASSUME NEW r, NEW p, NEW line, NEW n, IsLine(line, n, p, r), Chained(line, n)
  PROVE  /\ n \in Nat \ {0} /\ Plies(p) = n - 1
         /\ \A j \in 0 .. n - 1 : MadeIn(p, j) = line[j + 1].state
         /\ \A k \in 0 .. n - 1 : state_at(p, k) = line[n - k].state
<1>1. n \in Nat \ {0} /\ line[n] = p /\ Plies(p) = n - 1
  BY DEF IsLine
<1>2. \A k \in 1 .. n - 1 : p.state_stack[k] = line[k].state
  <2>1. n \in 1 .. n
    BY <1>1
  <2> QED
    BY <1>1, <2>1 DEF Chained
<1>3. ASSUME NEW j \in 0 .. n - 1 PROVE MadeIn(p, j) = line[j + 1].state
  <2>1. CASE j = n - 1
    BY <1>1, <2>1 DEF MadeIn
  <2>2. CASE j # n - 1
    <3>1. j + 1 \in 1 .. n - 1
      BY <1>1, <2>2
    <3> QED
      BY <1>1, <1>2, <2>2, <3>1 DEF MadeIn
  <2> QED
    BY <2>1, <2>2
<1>4. ASSUME NEW k \in 0 .. n - 1 PROVE state_at(p, k) = line[n - k].state
  <2>1. CASE k = 0
    BY <1>1, <2>1 DEF state_at
  <2>2. CASE k # 0
    <3>1. n - k \in 1 .. n - 1 /\ Len(p.state_stack) + 1 - k = n - k
      BY <1>1, <2>2 DEF Plies
    <3> QED
      BY <1>2, <2>2, <3>1 DEF state_at
  <2> QED
    BY <2>1, <2>2
<1> QED
  BY <1>1, <1>3, <1>4

\* Positions with the same key have the same board.
LEMMA SameKeySameBoard ==
  ASSUME NEW p, Sound(p), KeysRead(p), NEW q, Sound(q), KeysRead(q), p.state.key = q.state.key
  PROVE  p.board = q.board
<1>1. p.board \in [Squares -> Occupants] /\ q.board \in [Squares -> Occupants]
  BY DEF Sound, SetsTyped
<1>2. Men(p, PieceTypes) = BoardMen(p.board, PieceTypes) /\ Men(q, PieceTypes) = BoardMen(q.board, PieceTypes)
  BY MenRead
<1>3. \A x : x \in BoardMen(p.board, PieceTypes) \/ x \in BoardMen(q.board, PieceTypes) => x \notin SideKey
  BY DEF BoardMen, SideKey
<1>4. \A x : x \in BoardMen(p.board, PieceTypes) <=> x \in p.state.key /\ x \notin SideKey
  BY <1>2, <1>3 DEF KeysRead
<1>5. \A x : x \in BoardMen(q.board, PieceTypes) <=> x \in q.state.key /\ x \notin SideKey
  BY <1>2, <1>3 DEF KeysRead
<1>6. \A x : x \in BoardMen(p.board, PieceTypes) <=> x \in BoardMen(q.board, PieceTypes)
  BY <1>4, <1>5
<1>7. \A u \in Squares : /\ p.board[u] # NoPiece <=> <<p.board[u], u>> \in BoardMen(p.board, PieceTypes)
                         /\ q.board[u] # NoPiece <=> <<q.board[u], u>> \in BoardMen(q.board, PieceTypes)
  BY <1>1, PieceFacts DEF BoardMen, Occupants
<1>8. \A u \in Squares : \A y : /\ <<y, u>> \in BoardMen(p.board, PieceTypes) => y = p.board[u]
                                /\ <<y, u>> \in BoardMen(q.board, PieceTypes) => y = q.board[u]
  BY DEF BoardMen
<1>9. \A u \in Squares : p.board[u] = q.board[u]
  BY <1>6, <1>7, <1>8
<1> QED
  BY <1>1, <1>9

\* The board after a move.
LEMMA PlayedBoard ==
  ASSUME NEW p, Sound(p), NEW m, IsMoveIn(p, m), NEW q, Played(p, q, m)
  PROVE  q.board = [p.board EXCEPT ![From(m)] = NoPiece, ![To(m)] = p.board[From(m)]]
<1>1. q.board = Moved(p, m).board
  BY DEF Played, BoardFields
<1> QED
  BY <1>1, MovedBoard DEF Sound

\* A move and an answer never bring the same board back.
LEMMA NoTwoPlyCycle ==
  ASSUME NEW a, Sound(a), NEW b, Sound(b), NEW c,
         NEW m, MoveOf(a, a.side_to_move, m), Played(a, b, m),
         NEW k, MoveOf(b, b.side_to_move, k), Played(b, c, k)
  PROVE  c.board # a.board
<1> DEFINE s == From(m)
           t == To(m)
           u == From(k)
           v == To(k)
<1>1. b.board = [a.board EXCEPT ![s] = NoPiece, ![t] = a.board[s]]
  BY PlayedBoard DEF MoveOf
<1>2. c.board = [b.board EXCEPT ![u] = NoPiece, ![v] = b.board[u]]
  BY PlayedBoard DEF MoveOf
<1>3. /\ s \in Squares /\ t \in Squares /\ u \in Squares /\ v \in Squares /\ s # t /\ u # v
      /\ a.board[s] \in Pieces /\ b.board[u] \in Pieces
  BY DEF MoveOf, IsMoveIn, From, To
<1>4. Color(b.board[u]) # Color(a.board[s])
  <2>1. b.side_to_move = Other(a.side_to_move) /\ a.side_to_move \in Colors
    BY DEF Played, Sound
  <2> QED
    BY <2>1, PieceFacts DEF MoveOf
<1>5. a.board \in [Squares -> Occupants] /\ b.board \in [Squares -> Occupants]
  BY DEF Sound, SetsTyped
<1> HIDE DEF s, t, u, v
<1>6. c.board[s] = IF s = v THEN b.board[u] ELSE IF s = u THEN NoPiece ELSE b.board[s]
  BY <1>2, <1>3, <1>5
<1>7. b.board[s] = NoPiece
  BY <1>1, <1>3, <1>5
<1>8. c.board[s] # a.board[s]
  BY <1>3, <1>4, <1>6, <1>7, PieceFacts
<1> QED
  BY <1>8

\* The latest of some plies is one of them, and none is later.
LEMMA LatestTops ==
  ASSUME NEW n \in Nat, NEW S \in SUBSET (1 .. n), NEW j \in S
  PROVE  Latest(S) \in S /\ j <= Latest(S)
<1> DEFINE T == {n - i : i \in S}
<1>1. \A i \in S : i \in Int /\ 1 <= i /\ i <= n
  OBVIOUS
<1>2. T \in SUBSET Nat /\ T # {}
  <2>1. \A i \in S : n - i \in Nat
    BY <1>1
  <2> QED
    BY <2>1
<1>3. PICK k \in T : \A y \in T : k <= y
  BY <1>2, LeastNat
<1>4. PICK i \in S : k = n - i
  BY <1>3
<1>5. \A l \in S : l <= i
  <2>1. TAKE l \in S
  <2>2. n - l \in T /\ n - i <= n - l
    BY <1>3, <1>4
  <2> QED
    BY <1>1, <2>2
<1>6. S # {} /\ \E x \in S : \A l \in S : l <= x
  BY <1>5
<1> QED
  BY <1>6 DEF Latest

\* The state n plies ago is the one made then.
LEMMA StateAt ==
  ASSUME NEW p, Plies(p) \in Nat, NEW k \in 0 .. Plies(p)
  PROVE  state_at(p, k) = MadeIn(p, Plies(p) - k)
<1>1. CASE k = 0
  BY <1>1 DEF state_at, MadeIn
<1>2. CASE k # 0
  <2>1. Plies(p) - k # Plies(p) /\ (Plies(p) - k) + 1 = Plies(p) + 1 - k
    BY <1>2
  <2> QED
    BY <1>2, <2>1 DEF state_at, MadeIn, Plies
<1> QED
  BY <1>1, <1>2

\* No null move was among the last i plies.
NoNullFor(p, i) == \A n \in 0 .. i - 1 : state_at(p, n).last_move # NoMove

\* A window of the plies since the last null move holds none.
LEMMA NoNullInWindow ==
  ASSUME NEW p, Plies(p) \in Nat, NEW i \in 1 .. Plies(p)
  PROVE  i <= Plies(p) - Latest(NullsIn(p)) <=> NoNullFor(p, i)
<1> DEFINE N == Plies(p)
           S == NullsIn(p)
<1>1. S \in SUBSET (1 .. N) /\ \A l \in 1 .. N : l \in S <=> MadeIn(p, l).last_move = NoMove
  BY DEF NullsIn
<1>2. N \in Nat /\ i \in 1 .. N
  OBVIOUS
<1>3. \A k \in 0 .. i - 1 : state_at(p, k) = MadeIn(p, N - k) /\ N - k \in 1 .. N
  <2>1. TAKE k \in 0 .. i - 1
  <2>2. k \in 0 .. N /\ N - k \in 1 .. N
    BY <1>2
  <2> QED
    BY <2>2, StateAt
<1> HIDE DEF N, S
<1>4. Latest(S) \in 0 .. N
  BY <1>1, <1>2, LatestFacts
<1>5. ASSUME i <= N - Latest(S) PROVE \A k \in 0 .. i - 1 : state_at(p, k).last_move # NoMove
  <2>1. TAKE k \in 0 .. i - 1
  <2>2. ~(N - k <= Latest(S))
    BY <1>2, <1>4, <1>5
  <2>3. N - k \notin S
    BY <1>1, <1>2, <2>2, LatestTops
  <2> QED
    BY <1>1, <1>3, <2>3
<1>6. ASSUME \A k \in 0 .. i - 1 : state_at(p, k).last_move # NoMove PROVE i <= N - Latest(S)
  <2>1. CASE S = {}
    BY <1>2, <2>1 DEF Latest
  <2>2. CASE S # {}
    <3>1. Latest(S) \in S
      BY <1>1, <1>2, <2>2, LatestTops
    <3>2. SUFFICES ASSUME ~(i <= N - Latest(S)) PROVE FALSE
      OBVIOUS
    <3>3. N - Latest(S) \in 0 .. i - 1 /\ N - (N - Latest(S)) = Latest(S)
      BY <1>2, <1>4, <3>2
    <3> QED
      BY <1>1, <1>3, <1>6, <3>1, <3>3
  <2> QED
    BY <2>1, <2>2
<1> QED
  BY <1>5, <1>6 DEF NoNullFor, N, S

\* Plies without captures or null moves lie within the reversible ones.
LEMMA QuietForLong ==
  ASSUME NEW p, Plies(p) \in Nat, NEW r \in Nat, Accounts(p, r), NEW i \in 1 .. Plies(p), NoNullFor(p, i),
         \A j \in Plies(p) - i + 1 .. Plies(p) : MadeIn(p, j).captured_piece = NoPiece
  PROVE  i <= Reversible(p.state)
<1> DEFINE N == Plies(p)
           S == CapturesIn(p)
           Z == NullsIn(p)
           Q == QuietIn(p)
           I == N - i + 1 .. N
<1>1. N \in Nat /\ i \in 1 .. N
  OBVIOUS
<1>2. S \in SUBSET (1 .. N) /\ \A l \in 1 .. N : l \in S <=> MadeIn(p, l).captured_piece # NoPiece
  BY DEF CapturesIn
<1>3. Z \in SUBSET (1 .. N) /\ i <= N - Latest(Z)
  BY NoNullInWindow DEF NullsIn
<1>4. Q = {l \in Latest(S) + 1 .. N : l \notin Z}
  BY DEF QuietIn
<1>5. \A j \in I : MadeIn(p, j).captured_piece = NoPiece
  OBVIOUS
<1> HIDE DEF N, S, Z, Q
<1>6. Latest(S) \in 0 .. N /\ Latest(Z) \in 0 .. N
  BY <1>1, <1>2, <1>3, LatestFacts
<1>7. Latest(S) <= N - i
  <2>1. CASE S = {}
    BY <1>1, <2>1 DEF Latest
  <2>2. CASE S # {}
    <3>1. Latest(S) \in S
      BY <1>1, <1>2, <2>2, LatestTops
    <3>2. Latest(S) \notin I
      BY <1>2, <1>5, <3>1
    <3> QED
      BY <1>1, <1>6, <3>2
  <2> QED
    BY <2>1, <2>2
<1>8. \A j \in I : j \notin Z
  <2>1. TAKE j \in I
  <2>2. ~(j <= Latest(Z))
    BY <1>1, <1>3, <1>6
  <2> QED
    BY <1>1, <1>3, <2>2, LatestTops
<1>9. I \subseteq Q
  <2>1. \A j \in I : j \in Latest(S) + 1 .. N
    BY <1>1, <1>6, <1>7
  <2> QED
    BY <1>4, <1>8, <2>1
<1>10. IsFiniteSet(Q)
  <2>1. Latest(S) + 1 \in Int /\ N \in Int
    BY <1>1, <1>6
  <2>2. IsFiniteSet(Latest(S) + 1 .. N)
    BY <2>1, FS_Interval
  <2>3. Q \subseteq Latest(S) + 1 .. N
    BY <1>4
  <2> QED
    BY <2>2, <2>3, FS_Subset
<1>11. Cardinality(I) = i
  <2>1. N - i + 1 \in Int /\ N \in Int /\ ~(N - i + 1 > N)
    BY <1>1
  <2>2. Cardinality(I) = N - (N - i + 1) + 1
    BY <2>1, FS_Interval
  <2> QED
    BY <1>1, <2>2
<1>12. i <= Cardinality(Q) /\ Cardinality(Q) \in Nat
  <2> HIDE DEF I
  <2>1. Cardinality(I) <= Cardinality(Q)
    BY <1>9, <1>10, FS_Subset
  <2> QED
    BY <1>10, <1>11, <2>1, FS_CardinalityType
<1>13. Reversible(p.state) = Cardinality(Q) + (IF S = {} THEN r ELSE 0)
  BY DEF Accounts, Q, S
<1> QED
  BY <1>1, <1>12, <1>13

\* The earlier occurrences of a position in its line.
OccursIn(p) == {i \in 1 .. Plies(p) : i % 2 = 0 /\ state_at(p, i).key = p.state.key /\ NoNullFor(p, i)}

\* The window reaches over the reversible plies, or back to the last null move.
LEMMA WindowRead ==
  ASSUME NEW p, StateTyped(p.state)
  PROVE  /\ Reversible(p.state) \in Nat /\ p.state.plies_from_null \in Nat
         /\ Window(p) = IF Reversible(p.state) < p.state.plies_from_null
                        THEN Reversible(p.state) ELSE p.state.plies_from_null
<1>1. p.state.rule60 \in Nat /\ p.state.plies_from_null \in Nat /\ p.state.check10 \in [Colors -> Nat]
  BY DEF StateTyped
<1>2. \A c \in Colors : Extra(p.state.check10, c) \in Nat
  BY <1>1, PositionAssumption DEF Extra
<1>3. Reversible(p.state) \in Nat
  BY <1>1, <1>2 DEF Reversible, Colors
<1>4. Window(p) = IF Reversible(p.state) < p.state.plies_from_null
                  THEN Reversible(p.state) ELSE p.state.plies_from_null
  BY DEF Window, Reversible, Extra
<1> QED
  BY <1>1, <1>3, <1>4

\* What is found occurs: no null move lies in the window.
LEMMA FoundOccurs ==
  ASSUME NEW p, NEW r, Kept(p, r), Plies(p) \in Nat
  PROVE  Repeats(p) \subseteq OccursIn(p)
<1>1. p.state.plies_from_null = Plies(p) - Latest(NullsIn(p)) /\ StateTyped(p.state)
  BY DEF Kept, Accounts, Sound
<1>2. Window(p) \in Nat /\ Window(p) <= p.state.plies_from_null
  BY <1>1, WindowRead
<1> SUFFICES ASSUME NEW i \in Repeats(p) PROVE i \in OccursIn(p)
  OBVIOUS
<1>3. i \in 4 .. Window(p) /\ i % 2 = 0 /\ i <= Plies(p) /\ state_at(p, i).key = p.state.key
  BY DEF Repeats, HasState, Plies
<1>4. i \in 1 .. Plies(p) /\ i <= Plies(p) - Latest(NullsIn(p))
  <2>1. i \in Int /\ 4 <= i /\ i <= Window(p) /\ p.state.plies_from_null \in Nat
    BY <1>1, <1>2, <1>3 DEF StateTyped
  <2>2. i <= p.state.plies_from_null
    BY <1>2, <2>1
  <2> QED
    BY <1>1, <1>3, <2>1, <2>2
<1>5. NoNullFor(p, i)
  BY <1>4, NoNullInWindow
<1> QED
  BY <1>3, <1>4, <1>5 DEF OccursIn

\* What occurs is found: it is at least four plies old, nothing has been taken since, and the plies since are all in
\* the window.
LEMMA OccurrenceFound ==
  ASSUME NEW p, NEW r \in Nat, LineLedHere(p, r)
  PROVE  OccursIn(p) \subseteq Repeats(p)
<1>1. PICK line, n : IsLine(line, n, p, r) /\ Chained(line, n)
  BY DEF LineLedHere
<1>2. /\ n \in Nat \ {0} /\ Plies(p) = n - 1 /\ line[n] = p
      /\ \A j \in 0 .. n - 1 : MadeIn(p, j) = line[j + 1].state
      /\ \A k \in 0 .. n - 1 : state_at(p, k) = line[n - k].state
  <2>1. line[n] = p
    BY <1>1 DEF IsLine
  <2> QED
    BY <1>1, <2>1, StatesOfLine
<1>3. Kept(p, r) /\ Plies(p) \in Nat
  BY LineKept
<1> SUFFICES ASSUME NEW i \in OccursIn(p) PROVE i \in Repeats(p)
  OBVIOUS
<1>4. i \in 1 .. Plies(p) /\ i % 2 = 0 /\ state_at(p, i).key = p.state.key /\ NoNullFor(p, i)
  BY DEF OccursIn
<1> DEFINE q == line[n - i]
<1>5. n - i \in 1 .. n /\ n \in 1 .. n /\ i \in 0 .. n - 1
  BY <1>2, <1>4
<1>6. Kept(q, r) /\ q.state.key = p.state.key
  BY <1>1, <1>2, <1>4, <1>5 DEF IsLine
<1>7. q.board = p.board
  BY <1>3, <1>6, SameKeySameBoard DEF Kept
<1>8. \A j \in Plies(p) - i + 1 .. Plies(p) : MadeIn(p, j).captured_piece = NoPiece
  <2>1. Thinned(line, n - i, n)
    <3>1. n - i \in 1 .. n
      BY <1>5
    <3> QED
      BY <1>1, <1>5, <3>1 DEF Chained
  <2>2. Occupied(line[n]) = Occupied(line[n - i]) /\ Occupied(p) \in Nat
    BY <1>2, <1>7, SquaresFinite DEF Occupied, OnSquares
  <2>3. \A l \in (n - i) + 1 .. n : line[l].state.captured_piece = NoPiece
    BY <1>2, <2>1, <2>2 DEF Thinned
  <2>4. TAKE j \in Plies(p) - i + 1 .. Plies(p)
  <2>5. j + 1 \in (n - i) + 1 .. n /\ j \in 0 .. n - 1
    BY <1>2, <1>4
  <2> QED
    BY <1>2, <2>3, <2>5
<1>9. i <= Window(p)
  <2>1. i <= Reversible(p.state)
    BY <1>3, <1>4, <1>8, QuietForLong DEF Kept
  <2>2. i <= p.state.plies_from_null
    <3>1. p.state.plies_from_null = Plies(p) - Latest(NullsIn(p))
      BY <1>3 DEF Kept, Accounts
    <3> QED
      BY <1>3, <1>4, <3>1, NoNullInWindow
  <2> QED
    BY <1>3, <2>1, <2>2, WindowRead DEF Kept, Sound
<1>10. i # 2
  <2> SUFFICES ASSUME i = 2 PROVE FALSE
    OBVIOUS
  <2> DEFINE a == line[n - 2]
             b == line[n - 1]
  <2>1. n - 2 \in 1 .. n - 1 /\ n - 1 \in 1 .. n - 1 /\ (n - 2) + 1 = n - 1 /\ (n - 1) + 1 = n
        /\ n - 2 \in 1 .. n /\ n - 1 \in 1 .. n /\ 0 \in 0 .. n - 1 /\ 1 \in 0 .. n - 1
    BY <1>2, <1>4
  <2>2. Follows(a, b)
    BY <1>1, <2>1 DEF IsLine
  <2>3. Follows(b, p)
    BY <1>1, <1>2, <2>1 DEF IsLine
  <2>4. Sound(a) /\ Sound(b)
    BY <1>1, <2>1 DEF IsLine, Kept
  <2>5. p.state.last_move # NoMove /\ b.state.last_move # NoMove
    <3>1. state_at(p, 0) = p.state /\ state_at(p, 1) = b.state
      BY <1>2, <2>1 DEF state_at
    <3> QED
      BY <1>4, <3>1 DEF NoNullFor
  <2> HIDE DEF a, b
  <2>6. PICK m : MoveOf(a, a.side_to_move, m) /\ Played(a, b, m)
    BY <2>2, <2>5 DEF Follows, NullPlayed, NullState
  <2>7. PICK k : MoveOf(b, b.side_to_move, k) /\ Played(b, p, k)
    BY <2>3, <2>5 DEF Follows, NullPlayed, NullState
  <2>8. p.board # a.board
    BY <2>4, <2>6, <2>7, NoTwoPlyCycle
  <2> QED
    BY <1>7, <2>8 DEF a
<1>11. i \in 4 .. Window(p)
  <2>1. i \in Nat /\ 4 <= i
    BY <1>3, <1>4, <1>10
  <2>2. Window(p) \in Nat
    BY <1>3, WindowRead DEF Kept, Sound
  <2> QED
    BY <1>9, <2>1, <2>2
<1> QED
  BY <1>4, <1>11 DEF Repeats, HasState, Plies

\* The filter has counted every occurrence of the position's key.
LEMMA FilterSees ==
  ASSUME NEW p, NEW r \in Nat, Kept(p, r), Plies(p) \in Nat,
         Slot(p.state.key) \in FilterSlots, Cardinality(KeysAt(p, Slot(p.state.key))) < FilterWidth,
         NEW i \in OccursIn(p), NEW j \in OccursIn(p)
  PROVE  /\ count(p.bloom_filter, p.state.key) \in Nat /\ count(p.bloom_filter, p.state.key) >= 1
         /\ i # j => count(p.bloom_filter, p.state.key) > 1
<1> DEFINE N == Plies(p)
           s == Slot(p.state.key)
           K == KeysAt(p, s)
<1>1. N \in Nat /\ i \in 1 .. N /\ j \in 1 .. N
  BY DEF OccursIn
<1>2. \A k \in OccursIn(p) : N + 1 - k \in K
  <2>1. TAKE k \in OccursIn(p)
  <2>2. k \in 1 .. N /\ state_at(p, k).key = p.state.key
    BY DEF OccursIn
  <2>3. N + 1 - k \in 1 .. N /\ k # 0
    BY <1>1, <2>2
  <2>4. p.state_stack[N + 1 - k].key = p.state.key
    BY <2>2, <2>3 DEF state_at, Plies
  <2> QED
    BY <2>3, <2>4 DEF KeysAt
<1>3. K \subseteq 1 .. N
  BY DEF KeysAt
<1>4. p.bloom_filter[s] = Cardinality(K) % FilterWidth /\ Cardinality(K) < FilterWidth
  BY CountsRead DEF Kept
<1> HIDE DEF N, K
<1>5. IsFiniteSet(K) /\ Cardinality(K) \in Nat
  <2>1. IsFiniteSet(1 .. N)
    BY <1>1, FS_Interval
  <2> QED
    BY <1>3, <2>1, FS_Subset, FS_CardinalityType
<1>6. count(p.bloom_filter, p.state.key) = Cardinality(K)
  <2>1. FilterWidth \in Nat \ {0}
    BY PositionAssumption
  <2>2. Cardinality(K) % FilterWidth = Cardinality(K)
    BY <1>4, <1>5, <2>1
  <2> QED
    BY <1>4, <2>2 DEF count
<1>7. Cardinality(K) >= 1
  <2>1. K # {}
    BY <1>2
  <2> QED
    BY <1>5, <2>1, FS_EmptySet
<1>8. ASSUME i # j PROVE Cardinality(K) > 1
  <2> DEFINE x == N + 1 - i
             y == N + 1 - j
  <2>1. x # y /\ x \in K /\ y \in K
    BY <1>1, <1>2, <1>8
  <2> HIDE DEF x, y
  <2>2. IsFiniteSet(K \ {x}) /\ Cardinality(K \ {x}) = Cardinality(K) - 1
    BY <1>5, <2>1, FS_RemoveElement
  <2>3. Cardinality(K \ {x}) \in Nat /\ Cardinality(K \ {x}) # 0
    <3>1. K \ {x} # {}
      BY <2>1
    <3>2. Cardinality(K \ {x}) # 0
      BY <2>2, <3>1, FS_EmptySet
    <3> QED
      BY <2>2, <3>2, FS_CardinalityType
  <2> QED
    BY <1>5, <2>2, <2>3
<1> QED
  BY <1>5, <1>6, <1>7, <1>8

\* The least of some numbers.
LEMMA LeastFacts ==
  ASSUME NEW S \in SUBSET Nat, S # {}
  PROVE  Least(S) \in S /\ \A j \in S : Least(S) <= j
<1>1. \E x \in S : \A y \in S : x <= y
  BY LeastNat
<1> QED
  BY <1>1 DEF Least

\* Whether one side was in check with every other ply of a cycle.
Always(p, i, parity) == \A n \in 0 .. i : n % 2 = parity => InCheckAt(p, n)

\* The value of a cycle in which one side alone checked with every move.
LEMMA CycleOfChecks ==
  ASSUME NEW p, NEW i, NEW ply
  PROVE  /\ Always(p, i, 0) /\ ~Always(p, i, 1) => CycleValue(p, i, ply) = mate_in(ply)
         /\ Always(p, i, 1) /\ ~Always(p, i, 0) => CycleValue(p, i, ply) = mated_in(ply)
  BY DEF CycleValue, Always

\* A longer cycle holds the checks of a shorter one.
LEMMA AlwaysWithin ==
  ASSUME NEW p, NEW i \in Nat, NEW j \in Nat, i <= j, NEW parity, Always(p, j, parity)
  PROVE  Always(p, i, parity)
<1>1. \A n \in 0 .. i : n \in 0 .. j
  OBVIOUS
<1> QED
  BY <1>1 DEF Always

\* Without a repetition rule60 and the material decide.
LEMMA NoRepeatJudged ==
  ASSUME NEW p, NEW ply, Repeats(p) = {}
  PROVE  rule_judge(p, ply) = check_rule60_and_material_rj(p, ply, NoValue)
<1> DEFINE seen == Window(p) >= 4 /\ count(p.bloom_filter, p.state.key) >= 1
<1>1. (IF seen THEN Repeats(p) ELSE {}) = {}
  OBVIOUS
<1>2. JudgeRepeats(p, ply, {}) = Verdict("None", NoValue)
  BY DEF JudgeRepeats
<1>3. rule_judge(p, ply) = UnlessDecided(p, ply, Verdict("None", NoValue))
  BY <1>1, <1>2 DEF rule_judge
<1> QED
  BY <1>3 DEF UnlessDecided, Verdict

\* A third occurrence decides: by the longer cycle, unless the shorter one was drawn.
LEMMA ThirdDecides ==
  ASSUME NEW p, NEW ply, Window(p) >= 4, count(p.bloom_filter, p.state.key) \in Nat,
         count(p.bloom_filter, p.state.key) > 1, Repeats(p) # {}, Repeats(p) \ {Least(Repeats(p))} # {}
  PROVE  LET first == Least(Repeats(p))
             second == Least(Repeats(p) \ {first})
             v == rule_judge(p, ply)
         IN  /\ v.kind = "Definitive"
             /\ \/ v.value = CycleValue(p, second, ply)
                \/ v.value = VALUE_DRAW /\ CycleValue(p, first, ply) = VALUE_DRAW
<1> DEFINE first == Least(Repeats(p))
           later == Repeats(p) \ {first}
           result == IF ply > first THEN CycleValue(p, first, ply) ELSE NoValue
           k == count(p.bloom_filter, p.state.key)
           v == JudgeFirst(p, first, later, ply, result)
<1>1. k \in Nat /\ k > 1 /\ later # {}
  OBVIOUS
<1>2. JudgeRepeats(p, ply, Repeats(p)) = v
  BY DEF JudgeRepeats
<1>3. v = IF result # NoValue /\ result = VALUE_DRAW THEN Verdict("Definitive", result)
          ELSE Verdict("Definitive", CycleValue(p, Least(later), ply))
  <2> HIDE DEF first, later, result
  <2>1. DecidesAtOnce(p, first, result) <=> result = VALUE_DRAW
    BY <1>1 DEF DecidesAtOnce
  <2> QED
    BY <1>1, <2>1 DEF JudgeFirst
<1>4. rule_judge(p, ply) = UnlessDecided(p, ply, v)
  <2>1. (Window(p) >= 4 /\ k >= 1) = TRUE
    BY <1>1
  <2> HIDE DEF v
  <2> QED
    BY <1>2, <2>1 DEF rule_judge
<1>5. result = VALUE_DRAW /\ result # NoValue => CycleValue(p, first, ply) = VALUE_DRAW
  BY DEF NoValue, VALUE_DRAW
<1> HIDE DEF result, later, first
<1>6. /\ v.kind = "Definitive"
      /\ \/ v.value = CycleValue(p, Least(later), ply)
         \/ v.value = VALUE_DRAW /\ CycleValue(p, first, ply) = VALUE_DRAW
  BY <1>3, <1>5 DEF Verdict
<1> HIDE DEF v
<1>7. rule_judge(p, ply) = v
  BY <1>4, <1>6 DEF UnlessDecided
<1> QED
  BY <1>6, <1>7 DEF first, later

\* The verdict is that of the rules wherever a line led.
LEMMA JudgedRight ==
  ASSUME LineInv, SlotHolds, NEW ply \in JudgedPlies
  PROVE  JudgedByTheRules(ply, rule_judge(pos, ply), Occurrences)
<1> DEFINE O == Occurrences
           v == rule_judge(pos, ply)
<1>1. scene.rule60 \in Nat /\ LineLedHere(pos, scene.rule60) /\ Kept(pos, scene.rule60) /\ Plies(pos) \in Nat
  BY SceneFacts, LineKept DEF LineInv
<1>2. O = OccursIn(pos)
  BY DEF Occurrences, OccursIn, NoNullFor, Ply, Plies
<1>3. Repeats(pos) = OccursIn(pos)
  <2>1. Repeats(pos) \subseteq OccursIn(pos)
    BY <1>1, FoundOccurs
  <2>2. OccursIn(pos) \subseteq Repeats(pos)
    BY <1>1, OccurrenceFound
  <2> QED
    BY <2>1, <2>2
<1>4. O \in SUBSET (1 .. Plies(pos)) /\ O \in SUBSET Nat
  BY <1>1, <1>2 DEF OccursIn
<1>5. ply \in 0 .. 100
  BY DEF JudgedPlies
<1>6. Slot(pos.state.key) \in FilterSlots /\ Cardinality(KeysAt(pos, Slot(pos.state.key))) < FilterWidth
  BY DEF SlotHolds, InFilter, KeysAt, Ply, Plies
<1> HIDE DEF O
<1>7. CASE O = {}
  <2>1. v = check_rule60_and_material_rj(pos, ply, NoValue)
    BY <1>2, <1>3, <1>7, NoRepeatJudged
  <2> QED
    BY <1>7, <2>1 DEF JudgedByTheRules, O
<1>8. CASE O # {} /\ Cardinality(O) > 1
  <2> DEFINE first == Least(O)
             second == Least(O \ {first})
  <2>1. first \in O /\ first \in Nat
    BY <1>4, <1>8, LeastFacts
  <2>2. O \ {first} # {}
    <3> SUFFICES ASSUME O \ {first} = {} PROVE FALSE
      OBVIOUS
    <3>1. O = {first}
      BY <2>1
    <3> HIDE DEF first
    <3>2. Cardinality(O) = 1
      BY <3>1, FS_Singleton
    <3> QED
      BY <1>8, <3>2
  <2>3. second \in O /\ second # first /\ second \in Nat
    <3>1. O \ {first} \in SUBSET Nat
      BY <1>4
    <3>2. second \in O \ {first}
      BY <2>2, <3>1, LeastFacts
    <3> QED
      BY <1>4, <3>2
  <2>4. first <= second
    BY <1>4, <1>8, <2>3, LeastFacts
  <2>5. count(pos.bloom_filter, pos.state.key) \in Nat /\ count(pos.bloom_filter, pos.state.key) > 1
    BY <1>1, <1>2, <1>6, <2>1, <2>3, FilterSees
  <2>6. Window(pos) >= 4
    <3>1. first \in 4 .. Window(pos) /\ Window(pos) \in Nat
      BY <1>1, <1>2, <1>3, <2>1, WindowRead DEF Repeats, Kept, Sound
    <3> QED
      BY <3>1
  <2> HIDE DEF v
  <2>7. /\ v.kind = "Definitive"
        /\ \/ v.value = CycleValue(pos, second, ply)
           \/ v.value = VALUE_DRAW /\ CycleValue(pos, first, ply) = VALUE_DRAW
    BY <1>2, <1>3, <1>8, <2>2, <2>5, <2>6, ThirdDecides DEF v
  <2> HIDE DEF first, second
  <2>8. mate_in(ply) # VALUE_DRAW /\ mated_in(ply) # VALUE_DRAW
    BY <1>5 DEF mate_in, mated_in, VALUE_DRAW
  <2>9. ASSUME Always(pos, second, 0), ~Always(pos, first, 1) PROVE v.value = mate_in(ply)
    <3>1. Always(pos, first, 0) /\ ~Always(pos, second, 1)
      BY <2>1, <2>3, <2>4, <2>9, AlwaysWithin
    <3>2. CycleValue(pos, first, ply) = mate_in(ply) /\ CycleValue(pos, second, ply) = mate_in(ply)
      BY <2>9, <3>1, CycleOfChecks
    <3> QED
      BY <2>7, <2>8, <3>2
  <2>10. ASSUME Always(pos, second, 1), ~Always(pos, first, 0) PROVE v.value = mated_in(ply)
    <3>1. Always(pos, first, 1) /\ ~Always(pos, second, 0)
      BY <2>1, <2>3, <2>4, <2>10, AlwaysWithin
    <3>2. CycleValue(pos, first, ply) = mated_in(ply) /\ CycleValue(pos, second, ply) = mated_in(ply)
      BY <2>10, <3>1, CycleOfChecks
    <3> QED
      BY <2>7, <2>8, <3>2
  <2> QED
    BY <1>8, <2>7, <2>9, <2>10 DEF JudgedByTheRules, Always, first, second, v, O
<1>9. CASE O # {} /\ ~(Cardinality(O) > 1)
  BY <1>9 DEF JudgedByTheRules, O
<1> QED
  BY <1>7, <1>8, <1>9

\* A repetition is judged for what the line really holds, whatever other keys share its slot of the filter, until a
\* slot has counted past its width.
THEOREM RepetitionJudged == Spec /\ []KingsStand /\ []SlotHolds => []RepetitionByTheRules
<1>1. LineInv /\ SlotHolds => RepetitionByTheRules
  BY JudgedRight DEF RepetitionByTheRules
<1> QED
  BY <1>1, LineHolds, PTL

-----------------------------------------------------------------------------
(* Lines shorter than the width of a slot.                                  *)

\* A key is made of men on squares, and of the side to move.
Keys == SUBSET ((Occupants \X Squares) \cup SideKey)
ShortLines == /\ \A key \in Keys : Slot(key) \in FilterSlots
              /\ \A sc \in KnownScenes : sc.depth \in Nat /\ sc.depth < FilterWidth
WithinDepth == Ply <= scene.depth

\* A line is never longer than its scene allows.
LEMMA DepthStep ==
  ASSUME ShortLines, LineInv, KingsStand, WithinDepth, [Next]_vars
  PROVE  WithinDepth'
<1>1. /\ Plies(pos) \in Nat /\ scene.rule60 \in Nat /\ Kept(pos, scene.rule60)
      /\ scene \in KnownScenes /\ scene.next \subseteq KnownScenes
  BY SceneFacts, LineKept DEF LineInv
<1>2. scene.depth \in Nat /\ Plies(pos) <= scene.depth
  BY <1>1 DEF ShortLines, WithinDepth, Ply, Plies
<1>3. Plies(pos') <= scene'.depth
  <2>1. CASE Forth
    <3>1. scene' = scene /\ Plies(pos) < scene.depth /\ Plies(pos') = Plies(pos) + 1
      BY <1>1, <2>1, FollowsKept DEF Forth, Ply, Plies
    <3> QED
      BY <1>1, <1>2, <3>1
  <2>2. CASE Back
    <3>1. scene' = scene /\ Plies(pos') = Plies(pos) - 1
      BY <1>1, <2>2, LineShrinks DEF Back, LineInv
    <3> QED
      BY <1>1, <1>2, <3>1
  <2>3. CASE Anew
    <3>1. scene' \in KnownScenes
      BY <1>1, <2>3 DEF Anew
    <3>2. Plies(pos') = 0 /\ scene'.depth \in Nat
      BY <2>3, <3>1, SceneBegins DEF Anew, ShortLines
    <3> QED
      BY <3>2
  <2>4. CASE Stay
    BY <1>2, <2>4 DEF Stay
  <2> QED
    BY <2>1, <2>2, <2>3, <2>4, StepKinds
<1> QED
  BY <1>3 DEF WithinDepth, Ply, Plies

\* What the key of a position is made of.
LEMMA KeyTyped ==
  ASSUME NEW p, Sound(p), KeysRead(p)
  PROVE  p.state.key \in Keys
<1>1. p.board \in [Squares -> Occupants] /\ all_pieces(p) \subseteq Squares
  BY DEF Sound, SetsTyped, Kinds, all_pieces
<1>2. Men(p, PieceTypes) \subseteq Occupants \X Squares
  BY <1>1 DEF Men, piece_on
<1> QED
  BY <1>2 DEF KeysRead, Keys

\* In such lines no slot counts past its width.
LEMMA ShortHolds ==
  ASSUME ShortLines, LineInv, WithinDepth
  PROVE  SlotHolds
<1>1. Plies(pos) \in Nat /\ scene \in KnownScenes
  BY SceneFacts, LineKept DEF LineInv
<1>2. Plies(pos) < FilterWidth
  <2>1. scene.depth \in Nat /\ scene.depth < FilterWidth /\ Plies(pos) <= scene.depth
    BY <1>1 DEF ShortLines, WithinDepth, Ply, Plies
  <2> QED
    BY <1>1, <2>1, PositionAssumption
<1> DEFINE s == Slot(pos.state.key)
           N == Plies(pos)
           K == KeysAt(pos, s)
<1>3. K \subseteq 1 .. N
  BY DEF KeysAt
<1>4. N \in Nat /\ N < FilterWidth
  BY <1>1, <1>2
<1>5. Cardinality(K) < FilterWidth
  <2> HIDE DEF N, K
  <2>1. IsFiniteSet(1 .. N) /\ Cardinality(1 .. N) = N
    <3>1. 1 \in Int /\ N \in Int /\ (IF 1 > N THEN 0 ELSE N - 1 + 1) = N
      BY <1>4
    <3> QED
      BY <3>1, FS_Interval
  <2>2. Cardinality(K) <= N /\ IsFiniteSet(K)
    BY <1>3, <2>1, FS_Subset
  <2> QED
    BY <1>4, <2>2, FS_CardinalityType, PositionAssumption
<1>6. pos.state.key \in Keys
  BY LineKept, KeyTyped DEF LineInv, Kept
<1> QED
  BY <1>5, <1>6 DEF ShortLines, SlotHolds, InFilter, KeysAt, Ply, Plies

\* In lines shorter than the width of a slot every repetition is judged by the rules.
THEOREM ShortLinesJudged == ASSUME ShortLines PROVE Spec /\ []KingsStand => []RepetitionByTheRules
<1>1. Init => WithinDepth
  <2> SUFFICES ASSUME Init PROVE WithinDepth
    OBVIOUS
  <2>1. scene \in KnownScenes /\ pos = from_fen(scene.men, scene.stm, scene.rule60)
    BY DEF Init, KnownScenes
  <2>2. Plies(pos) = 0 /\ scene.depth \in Nat
    BY <2>1, SceneBegins DEF ShortLines
  <2> QED
    BY <2>2 DEF WithinDepth, Ply, Plies
<1>2. LineInv /\ KingsStand /\ WithinDepth /\ [Next]_vars => WithinDepth'
  BY DepthStep
<1>3. LineInv /\ WithinDepth => SlotHolds
  BY ShortHolds
<1> QED
  BY <1>1, <1>2, <1>3, LineHolds, RepetitionJudged, PTL DEF Spec
=============================================================================
