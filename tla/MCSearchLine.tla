---------------------------- MODULE MCSearchLine ----------------------------
(***************************************************************************)
(* Scenes for SearchLine, and for what SearchMoves asks of its nodes.      *)
(* a(r) .. i(r) are the squares of a file.  The filter has four slots, so  *)
(* that keys collide in every longer line; a check is free twice, and the  *)
(* game is drawn after twelve plies.                                       *)
(***************************************************************************)
EXTENDS SearchMoves, TLC

MCSlots == 0 .. 3
MCSlot(key) == Cardinality({x \in key : x[2] % 2 = 0}) % 4

a(r) == 9 * r
b(r) == 9 * r + 1
c(r) == 9 * r + 2
d(r) == 9 * r + 3
e(r) == 9 * r + 4
f(r) == 9 * r + 5
g(r) == 9 * r + 6
h(r) == 9 * r + 7
i(r) == 9 * r + 8

W(pt) == <<White, pt>>
B(pt) == <<Black, pt>>

(* All moves, a ply or two deep. *)
Wide(men, stm, depth) ==
  [men |-> men, stm |-> stm, rule60 |-> 0, moves |-> {}, depth |-> depth, null |-> TRUE,
   worker |-> FALSE, lazy |-> FALSE, next |-> {}]

(* The first position of the game. *)
Opening ==
  LET back == <<"rook", "knight", "bishop", "advisor", "king", "advisor", "bishop", "knight", "rook">>
  IN  [s \in 0 .. 8 |-> W(back[s + 1])] @@ [s \in 81 .. 89 |-> B(back[s - 80])]
        @@ [s \in {b(2), h(2)} |-> W("cannon")] @@ [s \in {b(7), h(7)} |-> B("cannon")]
        @@ [s \in {a(3), c(3), e(3), g(3), i(3)} |-> W("pawn")]
        @@ [s \in {a(6), c(6), e(6), g(6), i(6)} |-> B("pawn")]
(* Two screens between a cannon and the king, a pinned knight and advisor. *)
Screens ==
  e(0) :> W("king") @@ e(1) :> W("advisor") @@ e(2) :> W("knight") @@ a(4) :> W("rook")
    @@ c(0) :> W("bishop") @@ e(5) :> W("cannon")
    @@ e(9) :> B("king") @@ e(7) :> B("knight") @@ e(8) :> B("advisor") @@ a(9) :> B("rook")
    @@ e(4) :> B("cannon") @@ g(9) :> B("bishop") @@ c(5) :> B("pawn")
(* A cannon facing the king with nothing between, and facing kings. *)
Hollow ==
  d(0) :> W("king") @@ e(1) :> W("advisor") @@ e(4) :> W("cannon") @@ h(5) :> W("rook")
    @@ f(6) :> W("pawn") @@ e(9) :> B("king") @@ d(9) :> B("advisor") @@ f(9) :> B("advisor")
    @@ g(7) :> B("knight") @@ b(8) :> B("cannon")
Facing ==
  e(1) :> W("king") @@ e(2) :> W("bishop") @@ f(7) :> W("pawn") @@ c(7) :> W("knight")
    @@ e(8) :> B("king") @@ d(2) :> B("pawn") @@ h(3) :> B("knight") @@ i(4) :> B("rook")
    @@ a(0) :> B("cannon")
(* A cannon pinned by a rook, with a man behind the rook to take. *)
Pinned ==
  d(0) :> W("king") @@ d(2) :> W("cannon") @@ g(2) :> W("cannon") @@ d(6) :> B("rook")
    @@ d(8) :> B("knight") @@ e(9) :> B("king") @@ b(5) :> W("pawn") @@ g(5) :> B("bishop")
(* Black is in check by a cannon whose screen is his own cannon, or twice. *)
Answers ==
  f(0) :> W("king") @@ e(3) :> W("cannon") @@ b(9) :> W("rook") @@ h(4) :> W("knight")
    @@ e(9) :> B("king") @@ e(6) :> B("cannon") @@ c(3) :> B("knight") @@ c(9) :> B("bishop")
    @@ d(9) :> B("advisor")
Twice ==
  d(0) :> W("king") @@ e(5) :> W("rook") @@ e(2) :> W("cannon") @@ d(7) :> W("knight")
    @@ e(9) :> B("king") @@ f(9) :> B("advisor") @@ a(7) :> B("rook") @@ i(5) :> B("cannon")

(* Exchanges: on e5 nearly everybody takes part, men uncover men behind     *)
(* them, and both kings have pinned defenders; on d8 and d1 kings do.       *)
Tension ==
  d(0) :> W("king") @@ e(4) :> W("pawn") @@ d(3) :> W("knight") @@ f(3) :> W("knight") @@ e(2) :> W("rook")
    @@ e(0) :> W("rook") @@ b(5) :> W("cannon") @@ d(5) :> W("pawn") @@ c(3) :> W("cannon")
    @@ e(1) :> W("advisor") @@ g(4) :> W("bishop")
    @@ f(9) :> B("king") @@ e(5) :> B("pawn") @@ e(6) :> B("pawn") @@ f(7) :> B("knight") @@ d(7) :> B("knight")
    @@ e(8) :> B("rook") @@ h(5) :> B("cannon") @@ g(5) :> B("pawn") @@ e(9) :> B("cannon")
    @@ d(9) :> B("rook") @@ c(5) :> B("bishop") @@ f(8) :> B("advisor")
Palaces ==
  e(0) :> W("king") @@ d(0) :> W("advisor") @@ d(1) :> W("knight") @@ d(6) :> W("rook") @@ e(7) :> W("pawn")
    @@ d(4) :> W("cannon") @@ b(7) :> W("knight") @@ e(2) :> W("bishop")
    @@ e(9) :> B("king") @@ d(8) :> B("bishop") @@ e(8) :> B("advisor") @@ d(2) :> B("pawn") @@ b(1) :> B("rook")
    @@ c(3) :> B("knight") @@ f(9) :> B("advisor") @@ d(5) :> B("rook") @@ a(1) :> B("rook")

(* A few moves, to and fro. *)
Line(men, stm, moves, depth, null) ==
  [men |-> men, stm |-> stm, rule60 |-> 0, moves |-> moves, depth |-> depth, null |-> null,
   worker |-> FALSE, lazy |-> FALSE, next |-> {}]
ToAndFro(pairs) == pairs \cup {<<m[2], m[1]>> : m \in pairs}

PerpetualCheck ==
  Line(f(0) :> W("king") @@ d(4) :> W("rook") @@ a(3) :> W("pawn")
         @@ d(9) :> B("king") @@ i(6) :> B("pawn"), Black,
       ToAndFro({<<d(9), e(9)>>, <<d(4), e(4)>>, <<d(9), d(8)>>, <<e(9), e(8)>>, <<d(4), d(3)>>}), 10, FALSE)
MutualCheck ==
  Line(f(0) :> W("king") @@ d(4) :> W("rook") @@ a(3) :> W("pawn")
         @@ d(9) :> B("king") @@ f(8) :> B("rook") @@ i(6) :> B("pawn") @@ d(7) :> B("knight"), White,
       ToAndFro({<<d(4), e(4)>>, <<d(9), e(9)>>, <<f(8), e(8)>>, <<f(0), e(0)>>}), 8, TRUE)
PerpetualChase ==
  Line(d(0) :> W("king") @@ a(3) :> W("rook") @@ i(3) :> W("pawn")
         @@ f(9) :> B("king") @@ a(7) :> B("cannon") @@ i(6) :> B("pawn"), Black,
       ToAndFro({<<a(7), b(7)>>, <<a(3), b(3)>>, <<d(0), d(1)>>}), 9, FALSE)
ChaseByCannon ==
  Line(e(0) :> W("king") @@ e(1) :> W("advisor") @@ c(2) :> W("cannon") @@ c(0) :> W("bishop")
         @@ d(9) :> B("king") @@ c(5) :> B("pawn") @@ c(7) :> B("rook") @@ g(7) :> B("rook"), Black,
       ToAndFro({<<c(7), c(8)>>, <<g(7), g(8)>>, <<c(2), g(2)>>, <<e(1), d(0)>>}), 8, FALSE)
(* Neither side can win. *)
Bare ==
  Line(e(0) :> W("king") @@ c(4) :> W("bishop") @@ h(5) :> W("cannon")
         @@ d(9) :> B("king") @@ e(8) :> B("advisor"), White, {}, 2, FALSE)
LateGame ==
  [Line(d(0) :> W("king") @@ a(5) :> W("rook") @@ f(9) :> B("king") @@ d(9) :> B("advisor")
          @@ c(8) :> B("knight") @@ a(3) :> W("pawn"), White,
        ToAndFro({<<a(5), a(9)>>, <<a(5), c(5)>>, <<d(9), e(8)>>, <<c(8), a(7)>>, <<f(9), e(9)>>}), 4, TRUE)
   EXCEPT !.rule60 = 8]

(* A worker's lines. *)
Work(men, stm, moves, depth, null) == [Line(men, stm, moves, depth, null) EXCEPT !.worker = TRUE]

MidKings ==
  Work(e(0) :> W("king") @@ d(0) :> W("advisor") @@ c(3) :> W("rook") @@ g(4) :> W("pawn")
         @@ e(9) :> B("king") @@ d(9) :> B("advisor") @@ c(6) :> B("knight") @@ g(6) :> B("cannon")
         @@ e(7) :> B("knight"),
       White, {<<c(3), c(6)>>, <<d(0), e(1)>>, <<e(9), f(9)>>}, 3, FALSE)
Lazily == [MidKings EXCEPT !.lazy = TRUE, !.moves = {<<c(3), c(6)>>, <<e(0), f(0)>>, <<d(9), e(8)>>}]
NullLines ==
  Work(f(1) :> W("king") @@ c(4) :> W("cannon") @@ a(3) :> W("pawn") @@ c(2) :> W("knight")
         @@ d(8) :> B("king") @@ c(7) :> B("rook") @@ g(9) :> B("bishop") @@ e(6) :> B("pawn"),
       White, {<<c(4), c(7)>>, <<f(1), e(1)>>, <<d(8), e(8)>>, <<c(7), c(4)>>}, 3, TRUE)
AllLazily == [Work(Answers, Black, {}, 1, FALSE) EXCEPT !.lazy = TRUE]
(* A short search, and the next one of the game. *)
Following ==
  [NullLines EXCEPT !.moves = {<<f(1), e(1)>>, <<d(8), e(8)>>}, !.depth = 1,
     !.next = {[Lazily EXCEPT !.depth = 2], [MidKings EXCEPT !.depth = 2]}]

(* Nothing learnt, and scores that mix the moves up, good and bad. *)
Learnt(x, y, z) ==
  [captures |-> [m \in Squares \X Squares |-> ((x * m[1] + y * m[2]) % z) * 2000 - 10000],
   quiets |-> [m \in Squares \X Squares |-> ((y * m[1] + x * m[2]) % z) * 4000 - 20000],
   evasions |-> [m \in Squares \X Squares |-> ((x * m[1] + x * m[2]) % z) * 3000 - 15000]]
MCHistories == {Learnt(0, 0, 1), Learnt(3, 5, 11)}

MCScenes ==
  {Wide(Opening, White, 1), Wide(Screens, White, 2), Wide(Screens, Black, 1), Wide(Hollow, White, 2),
   Wide(Facing, Black, 2), Wide(Pinned, White, 1), Wide(Answers, Black, 2), Wide(Twice, Black, 2),
   Wide(Tension, White, 0), Wide(Tension, Black, 0), Wide(Palaces, White, 0), Wide(Palaces, Black, 0),
   PerpetualCheck, MutualCheck, PerpetualChase, ChaseByCannon, Bare, LateGame, MidKings, Lazily, NullLines, AllLazily, Following}

\* No line is long enough for a slot of the filter to count past its width.
ASSUME MCLinesAreShort == \A sc \in KnownScenes : sc.depth < FilterWidth
=============================================================================
