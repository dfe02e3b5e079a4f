------------------------------- MODULE Board -------------------------------
(***************************************************************************)
(* The xiangqi board: squares, pieces, and the attack tables that move     *)
(* generation, check detection and the network's features are built from   *)
(* (crates/pikarust-core/src/types and src/bitboard).                      *)
(*                                                                         *)
(* A bitboard is the set of the squares whose bit is set.  The tables the  *)
(* program fills at start-up (magic.rs, PseudoAttacksTable) are constant   *)
(* functions here: TLC evaluates them once as well.  A lookup in a magic   *)
(* table depends on the occupied squares INSIDE THE MASK only; whether the *)
(* masks keep every square that matters is a property of this code, so a   *)
(* lookup is modelled as the ray walk on the masked occupancy.  The 128-   *)
(* bit multiplications that hash a masked occupancy to a table slot are    *)
(* left out (each table asserts that its hash has no harmful collision).   *)
(***************************************************************************)
EXTENDS Integers, FiniteSets

Squares == 0 .. 89
File(s) == s % 9
Rank(s) == s \div 9
AbsDiff(a, b) == IF a > b THEN a - b ELSE b - a
Larger(a, b) == IF a > b THEN a ELSE b
SquareDistance(s, t) == Larger(AbsDiff(File(s), File(t)), AbsDiff(Rank(s), Rank(t)))

White == "white"
Black == "black"
Colors == {White, Black}
Other(c) == IF c = White THEN Black ELSE White

PieceTypes == {"rook", "advisor", "cannon", "pawn", "knight", "bishop", "king"}
Pieces == Colors \X PieceTypes
NoPiece == <<"none", "none">>
Color(pc) == pc[1]
Type(pc) == pc[2]
(* The discriminants of PieceType are odd for rook, cannon, knight and king. *)
IsMajor(pt) == pt \in {"rook", "cannon", "knight", "king"}
PieceValue(pc) ==
  CASE Type(pc) = "rook" -> 1305 [] Type(pc) = "advisor" -> 219 [] Type(pc) = "cannon" -> 773
    [] Type(pc) = "pawn" -> 144 [] Type(pc) = "knight" -> 720 [] Type(pc) = "bishop" -> 187
    [] OTHER -> 0

Half == [c \in Colors |-> {s \in Squares : (Rank(s) > 4) = (c = Black)}]
Palace == {s \in Squares : File(s) \in 3 .. 5 /\ Rank(s) \notin 3 .. 6}
SameHalf(s) == IF Rank(s) > 4 THEN Half[Black] ELSE Half[White]
Edges(s) == {t \in Squares : \/ Rank(t) \in {0, 9} /\ Rank(t) # Rank(s)
                             \/ File(t) \in {0, 8} /\ File(t) # File(s)}

-----------------------------------------------------------------------------
(* Sliders.  Walking from s in a direction, a rook attacks up to the first  *)
(* occupied square, a cannon the squares after the first occupied one (its  *)
(* hurdle) up to the second.                                                *)

OnLine(s) == {t \in Squares \ {s} : File(t) = File(s) \/ Rank(t) = Rank(s)}
InsideOf(s, t) == {u \in OnLine(s) \cap OnLine(t) : (s < u) = (u < t)}
Inside == [s \in Squares |-> [t \in OnLine(s) |-> InsideOf(s, t)]]

WithScreens(inside, occupied, n) == {t \in DOMAIN inside : Cardinality(inside[t] \cap occupied) = n}
sliding_attack_rook(s, occupied) == WithScreens(Inside[s], occupied, 0)
sliding_attack_cannon(s, occupied) == WithScreens(Inside[s], occupied, 1)

RookMask == [s \in Squares |-> OnLine(s) \ Edges(s)]
attacks_bb_rook(s, occupied) == sliding_attack_rook(s, occupied \cap RookMask[s])
attacks_bb_cannon(s, occupied) == sliding_attack_cannon(s, occupied \cap RookMask[s])

-----------------------------------------------------------------------------
(* Lame leapers.  A knight or bishop step is a raw difference of square     *)
(* numbers; one that wraps round the board's edge is recognised by its      *)
(* distance.                                                                *)

KnightDirections == {-19, -17, -11, -7, 7, 11, 17, 19}
BishopDirections == {-20, -16, 16, 20}
Leaps(s, directions) == {s + d : d \in directions} \cap {t \in Squares : SquareDistance(s, t) < 3}
KnightLeaps == [s \in Squares |-> Leaps(s, KnightDirections)]
BishopLeaps == [s \in Squares |-> Leaps(s, BishopDirections) \cap SameHalf(s)]

(* The square next to s that blocks the leap from s to t: half of each      *)
(* coordinate's difference, towards s.                                      *)
Halved(d) == IF d < 0 THEN -((-d) \div 2) ELSE d \div 2
Leg(s, t) == s + Halved(File(t) - File(s)) + 9 * Halved(Rank(t) - Rank(s))
KnightLeg == [s \in Squares |-> [t \in KnightLeaps[s] |-> Leg(s, t)]]
KnightToLeg == [s \in Squares |-> [t \in KnightLeaps[s] |-> Leg(t, s)]]
BishopEye == [s \in Squares |-> [t \in BishopLeaps[s] |-> Leg(s, t)]]

KnightMask == [s \in Squares |-> {Leg(s, t) : t \in KnightLeaps[s]} \ Edges(s)]
BishopMask ==
  [s \in Squares |-> ({Leg(s, t) : t \in Leaps(s, BishopDirections)} \cap SameHalf(s)) \ Edges(s)]
attacks_bb_knight(s, occupied) ==
  {t \in KnightLeaps[s] : KnightLeg[s][t] \notin occupied \cap KnightMask[s]}
(* The squares a knight can come from to attack s. *)
attacks_bb_knight_to(s, occupied) == {t \in KnightLeaps[s] : KnightToLeg[s][t] \notin occupied}
attacks_bb_bishop(s, occupied) ==
  {t \in BishopLeaps[s] : BishopEye[s][t] \notin occupied \cap BishopMask[s]}

-----------------------------------------------------------------------------
(* Steppers: pawns, kings and advisors.                                     *)

safe_destination(s, step) == {s + step} \cap {t \in Squares : SquareDistance(s, t) <= 2}
Steps(s, steps) == UNION {safe_destination(s, d) : d \in steps}
Sideways(s) == Steps(s, {-1, 1})

PawnAttacksTable ==
  [c \in Colors |-> [s \in Squares |->
     Steps(s, {IF c = White THEN 9 ELSE -9})
       \cup (IF s \in Half[Other(c)] THEN Sideways(s) ELSE {})]]
PawnAttacksToTable ==
  [c \in Colors |-> [s \in Squares |->
     Steps(s, {IF c = White THEN -9 ELSE 9})
       \cup (IF s \in Half[Other(c)] THEN Sideways(s) ELSE {})]]
pawn_attacks_bb(c, s) == PawnAttacksTable[c][s]
pawn_attacks_to_bb(c, s) == PawnAttacksToTable[c][s]

UnconstrainedKing == [s \in Squares |-> Steps(s, {-9, -1, 1, 9})]
UnconstrainedAdvisor == [s \in Squares |-> Steps(s, {-10, -8, 8, 10})]
pseudo_attacks_king(s) == IF s \in Palace THEN UnconstrainedKing[s] \cap Palace ELSE {}
pseudo_attacks_advisor(s) == IF s \in Palace THEN UnconstrainedAdvisor[s] \cap Palace ELSE {}

(* The squares a piece attacks (attacks_by, attacks_bb_by_type). *)
Attacks(pc, s, occupied) ==
  CASE Type(pc) = "pawn" -> pawn_attacks_bb(Color(pc), s)
    [] Type(pc) = "rook" -> attacks_bb_rook(s, occupied)
    [] Type(pc) = "cannon" -> attacks_bb_cannon(s, occupied)
    [] Type(pc) = "knight" -> attacks_bb_knight(s, occupied)
    [] Type(pc) = "bishop" -> attacks_bb_bishop(s, occupied)
    [] Type(pc) = "advisor" -> pseudo_attacks_advisor(s)
    [] Type(pc) = "king" -> pseudo_attacks_king(s)

-----------------------------------------------------------------------------
(* Relations between two squares (bitboard/mod.rs).                         *)

BetweenTable ==
  [s \in Squares |-> [t \in Squares |->
     {t} \cup (IF t \in OnLine(s) THEN attacks_bb_rook(s, {t}) \cap attacks_bb_rook(t, {s}) ELSE {})
         \cup (IF t \in KnightLeaps[s] THEN {KnightToLeg[s][t]} ELSE {})]]
LineTable ==
  [s \in Squares |-> [t \in OnLine(s) |->
     (attacks_bb_rook(s, {}) \cap attacks_bb_rook(t, {})) \cup {s, t}]]
RayPassTable == [s \in Squares |-> [t \in OnLine(s) |-> attacks_bb_cannon(s, {t})]]
LeaperPassTable ==
  [s \in Squares |-> [t \in UnconstrainedKing[s] \cup UnconstrainedAdvisor[s] |->
     UnconstrainedAdvisor[t] \cap
       (IF t \in UnconstrainedKing[s] THEN attacks_bb_knight(s, {}) ELSE attacks_bb_bishop(s, {}))]]

between_bb(s, t) == BetweenTable[s][t]
line_bb(s, t) == IF t \in DOMAIN LineTable[s] THEN LineTable[s][t] ELSE {}
ray_pass_bb(s, t) == IF t \in DOMAIN RayPassTable[s] THEN RayPassTable[s][t] ELSE {}
leaper_pass_bb(s, t) == IF t \in DOMAIN LeaperPassTable[s] THEN LeaperPassTable[s][t] ELSE {}
aligned(s, t, u) == u \in line_bb(s, t)
=============================================================================
