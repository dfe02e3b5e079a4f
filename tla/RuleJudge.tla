----------------------------- MODULE RuleJudge -----------------------------
(***************************************************************************)
(* Repetitions, perpetual checks and perpetual chases                      *)
(* (crates/pikarust-core/src/position/rule_judge.rs and chase.rs): what a  *)
(* search node is worth when the line it ends repeats itself, when rule60  *)
(* runs out, or when the material cannot win.                              *)
(***************************************************************************)
EXTENDS MoveGen

CONSTANT RuleLimit  \* rule60 at which the game is drawn (120 in the code)

VALUE_DRAW == 0
mate_in(ply) == 32000 - ply
mated_in(ply) == -32000 + ply

(* The state n plies ago; 0 is the current one. *)
HasState(p, n) == n <= Len(p.state_stack)
state_at(p, n) == IF n = 0 THEN p.state ELSE p.state_stack[Len(p.state_stack) + 1 - n]

-----------------------------------------------------------------------------
(* Chases (chase.rs).  ids names the men by colour and number, so that a    *)
(* man keeps its name while the line is undone.                             *)

chase_legal(p, m) ==
  LET us == p.side_to_move
      occupied == Xor(all_pieces(p), {From(m)}) \cup {To(m)}
  IN  IF Type(piece_on(p, From(m))) = "king" THEN checkers_to(p, Other(us), To(m), occupied) = {}
      ELSE checkers_to(p, Other(us), king_square(p, us), occupied) \subseteq {To(m)}

do_move_for_chase(p, m) ==
  LET taken == remove_piece(p, To(m))
  IN  [move_piece(taken, From(m), To(m)) EXCEPT !.side_to_move = Other(@)]

(* Nothing of the other side may legally take back on the target square. *)
Unprotected(after, s) ==
  \A t \in attackers_to(after, s, all_pieces(after)) \cap of_color(after, after.side_to_move) :
    ~chase_legal(after, <<t, s>>)
TrueChase(p, m) == Unprotected(do_move_for_chase(p, m), To(m))

(* The man on from, legal to take on to, chases it. *)
Chases(p, m) ==
  LET attacker == Type(piece_on(p, From(m)))
      target == Type(piece_on(p, To(m)))
      turned == [p EXCEPT !.side_to_move = Other(@)]
      blocked == /\ attacker = "knight"
                 /\ (between_bb(From(m), To(m)) \ {To(m)}) \cap all_pieces(p) # {}
  IN  \/ attacker \in {"knight", "cannon"} /\ target = "rook"
      \/ attacker \in {"advisor", "bishop"} /\ IsMajor(target)
      \/ /\ TrueChase(p, m)
         /\ attacker = target => blocked \/ ~chase_legal(turned, <<To(m), From(m)>>)

(* The names of the men of the other side that c, to move in q, chases. *)
ChasedBy(q, ids, c) ==
  LET them == Other(c)
      prey == (of_color(q, them) \ (of_type(q, "king") \cup of_type(q, "pawn")))
                \cup (pieces(q, them, "pawn") \cap Half[c])
      pinned_prey == q.state.pinners[them] \ of_type(q, "king")
      hunters == of_color(q, c) \ (of_type(q, "king") \cup of_type(q, "pawn"))
      targets(s) == Attacks(piece_on(q, s), s, all_pieces(q))
                      \cap (IF s \in q.state.blockers_for_king[c] THEN pinned_prey ELSE prey)
  IN  {ids[m[2]] : m \in {n \in UNION {MovesFrom(s, targets(s)) : s \in hunters} :
                            chase_legal(q, n) /\ Chases(q, n)}}
chased(p, ids, c) == ChasedBy([p EXCEPT !.side_to_move = c], ids, c)

(* Taking back the last move: the board, the names and the state. *)
undo_move_light(x) ==
  LET from == From(x.p.state.last_move)
      to == To(x.p.state.last_move)
  IN  [x EXCEPT !.ids = [@ EXCEPT ![from] = x.ids[to], ![to] = 0],
                !.p = [Restored(move_piece(x.p, to, from), <<from, to>>, x.p.state.captured_piece) EXCEPT
                         !.side_to_move = Other(@),
                         !.state = Last(x.p.state_stack),
                         !.state_stack = Front(@)]]

(* One turn of the loop of detect_chases_inner: chase[c] keeps the men that *)
(* c has chased anew with each of its moves so far.                         *)
ChaseStep(x, back) ==
  LET us == x.p.side_to_move
      them == Other(us)
  IN  CASE x.done -> x
        [] ~x.done /\ x.p.state.checkers # {} -> [x EXCEPT !.done = TRUE, !.drawn = TRUE]
        [] ~x.done /\ x.p.state.checkers = {} /\ x.chase[them] = {} ->
             IF x.chase[us] = {} THEN [x EXCEPT !.done = TRUE] ELSE back
        [] OTHER -> [back EXCEPT !.chase[them] =
                       @ \cap (chased(x.p, x.ids, them) \ chased(back.p, back.ids, them))]
ChaseVerdict(end, us, ply) ==
  LET we == end.chase[us] # {}
      they == end.chase[Other(us)] # {}
  IN  IF end.drawn \/ we = they THEN VALUE_DRAW
      ELSE IF we THEN mated_in(ply) ELSE mate_in(ply)

detect_chases(p, d, ply) ==
  LET name(s) == Cardinality({t \in of_color(p, Color(piece_on(p, s))) : t < s})
      start == [p |-> p, ids |-> [s \in Squares |-> IF s \in all_pieces(p) THEN name(s) ELSE 0],
                chase |-> [c \in Colors |-> 0 .. 15], done |-> FALSE, drawn |-> FALSE]
      OneStep(x) == ChaseStep(x, undo_move_light(x))
      x[i \in 0 .. d] == IF i = 0 THEN start ELSE OneStep(x[i - 1])
  IN  ChaseVerdict(x[d], p.side_to_move, ply)

-----------------------------------------------------------------------------
(* Rule 60 and insufficient material.  NoValue stands for Option::None.     *)

NoValue == 32002

classify_material(p) ==
  LET cannon == PieceValue(<<White, "cannon">>)
      major == p.state.major_material
      bishops(c) == count_type(p, c, "bishop")
      advisors(c) == count_type(p, c, "advisor")
      side == IF major[White] = cannon THEN White ELSE Black
  IN  IF major[White] + major[Black] = 0 THEN "Direct"
      ELSE IF major[White] + major[Black] = cannon THEN
        (IF advisors(side) # 0 THEN "None"
         ELSE CASE advisors(Other(side)) = 0 -> "Direct"
                [] advisors(Other(side)) = 1 ->
                     IF bishops(side) = 0 THEN "Direct" ELSE "RequiresMateCheck"
                [] OTHER -> IF bishops(side) = 0 THEN "RequiresMateCheck" ELSE "None")
      ELSE IF major[White] = cannon /\ major[Black] = cannon
              /\ advisors(White) = 0 /\ advisors(Black) = 0
      THEN (IF bishops(White) + bishops(Black) = 0 THEN "Direct" ELSE "RequiresMateCheck")
      ELSE "None"

Mates(p, m) == generate(do_move(p, m, gives_check(p, m)), "Legal") = {}
MateCheck(p, moves, ply) ==
  IF moves = {} THEN mated_in(ply)
  ELSE IF \E m \in moves : Mates(p, m) THEN NoValue ELSE VALUE_DRAW

check_insufficient_material(p, ply) ==
  LET level == classify_material(p)
  IN  CASE level = "None" -> NoValue
        [] level = "Direct" -> VALUE_DRAW
        [] level = "RequiresMateCheck" -> MateCheck(p, generate(p, "Legal"), ply)

check_rule60_and_material(p, ply) ==
  IF p.state.rule60 >= RuleLimit
  THEN (IF generate(p, "Legal") = {} THEN mated_in(ply) ELSE VALUE_DRAW)
  ELSE IF count_type(p, White, "pawn") = 0 /\ count_type(p, Black, "pawn") = 0
  THEN check_insufficient_material(p, ply)
  ELSE NoValue

-----------------------------------------------------------------------------
(* Repetitions.                                                             *)

(* How far back the line is searched: to the last capture or null move. *)
Window(p) ==
  LET extra(c) == IF p.state.check10[c] > FreeChecks THEN p.state.check10[c] - FreeChecks ELSE 0
      reversible == p.state.rule60 + extra(White) + extra(Black)
  IN  IF reversible < p.state.plies_from_null THEN reversible ELSE p.state.plies_from_null

InCheckAt(p, n) == state_at(p, n).checkers # {}
(* The value of a repetition after i plies: whoever checked with every move *)
(* of the cycle loses, then whoever chased with every move.                 *)
CycleValue(p, i, ply) ==
  LET check_them == \A n \in 0 .. i : n % 2 = 0 => InCheckAt(p, n)
      check_us == \A n \in 0 .. i : n % 2 = 1 => InCheckAt(p, n)
  IN  IF ~check_them /\ ~check_us THEN detect_chases(p, i, ply)
      ELSE IF ~check_us THEN mate_in(ply)
      ELSE IF ~check_them THEN mated_in(ply)
      ELSE VALUE_DRAW

Repeats_ByFilter(p) == {i \in 4 .. Window(p) : i % 2 = 0 /\ HasState(p, i)}
Repeats(p) ==
  {i \in 4 .. Window(p) : i % 2 = 0 /\ HasState(p, i) /\ state_at(p, i).key = p.state.key}

(* A first repetition decides when nothing else in the cycle is repeated. *)
NothingElseRepeats(p, i) ==
  /\ p.state.rule60 < RuleLimit
  /\ HasState(p, i + 1) /\ state_at(p, 1).key = state_at(p, i + 1).key
  /\ \A n \in 2 .. i : count(p.bloom_filter, state_at(p, n).key) <= 1

Least(S) == CHOOSE i \in S : \A j \in S : i <= j
Verdict(kind, value) == [kind |-> kind, value |-> value]

(* What is left when no repetition decides; v: of rule60 and the material. *)
Undecided(v, two_fold) ==
  IF v # NoValue THEN Verdict("Definitive", v)
  ELSE IF two_fold # NoValue THEN Verdict("TwoFold", two_fold)
  ELSE Verdict("None", VALUE_DRAW)
check_rule60_and_material_rj(p, ply, two_fold) == Undecided(check_rule60_and_material(p, ply), two_fold)

(* The first repetition, judged inside the search only: it decides, or is   *)
(* remembered unless a later one decides.                                   *)
DecidesAtOnce(p, first, result) ==
  \/ result = VALUE_DRAW
  \/ count(p.bloom_filter, p.state.key) <= 1 /\ NothingElseRepeats(p, first)
JudgeFirst(p, first, later, ply, result) ==
  IF result # NoValue /\ DecidesAtOnce(p, first, result) THEN Verdict("Definitive", result)
  ELSE IF later # {} /\ (result = NoValue \/ count(p.bloom_filter, p.state.key) > 1)
  THEN Verdict("Definitive", CycleValue(p, Least(later), ply))
  ELSE Verdict("TwoFold", result)
JudgeRepeats(p, ply, repeats) ==
  LET first == Least(repeats)
  IN  IF repeats = {} THEN Verdict("None", NoValue)
      ELSE JudgeFirst(p, first, repeats \ {first}, ply,
                      IF ply > first THEN CycleValue(p, first, ply) ELSE NoValue)
UnlessDecided(p, ply, v) ==
  IF v.kind = "Definitive" THEN v ELSE check_rule60_and_material_rj(p, ply, v.value)

rule_judge(p, ply) ==
  LET seen == Window(p) >= 4 /\ count(p.bloom_filter, p.state.key) >= 1
  IN  UnlessDecided(p, ply, JudgeRepeats(p, ply, IF seen THEN Repeats(p) ELSE {}))
=============================================================================
