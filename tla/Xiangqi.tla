------------------------------ MODULE Xiangqi ------------------------------
(***************************************************************************)
(* The rules of xiangqi, written from the rules of the game and not from   *)
(* the program: the reference the generated moves and the foreseen checks  *)
(* are compared with.  A board b is a function from the squares 0..89      *)
(* (rank by rank, file A first) to <<colour, type>> or to the empty mark.  *)
(***************************************************************************)
EXTENDS Integers, FiniteSets

LOCAL F(s) == s % 9
LOCAL R(s) == s \div 9
LOCAL Dist(x, y) == IF x > y THEN x - y ELSE y - x
LOCAL Df(s, t) == Dist(F(s), F(t))
LOCAL Dr(s, t) == Dist(R(s), R(t))
LOCAL Empty(b, s) == b[s][1] = "none"
LOCAL Foe(c) == IF c = "white" THEN "black" ELSE "white"
LOCAL Crossed(c, s) == IF c = "white" THEN R(s) >= 5 ELSE R(s) <= 4
LOCAL InPalace(s) == F(s) \in 3 .. 5 /\ (R(s) <= 2 \/ R(s) >= 7)

LOCAL Lo(x, y) == IF x < y THEN x ELSE y
LOCAL Hi(x, y) == IF x < y THEN y ELSE x
(* The number of men strictly between two squares of one rank or file. *)
LOCAL Screens(b, s, t) ==
  LET squares == IF F(s) = F(t)
                 THEN {9 * r + F(s) : r \in (Lo(R(s), R(t)) + 1) .. (Hi(R(s), R(t)) - 1)}
                 ELSE {9 * R(s) + f : f \in (Lo(F(s), F(t)) + 1) .. (Hi(F(s), F(t)) - 1)}
  IN  Cardinality({u \in squares : ~Empty(b, u)})
LOCAL Mid(x, y) == (x + y) \div 2

(* The man on s may go to t, whoever stands there. *)
Reaches(b, s, t) ==
  LET c == b[s][1]
      straight == s # t /\ (F(s) = F(t) \/ R(s) = R(t))
      ahead == IF c = "white" THEN R(t) = R(s) + 1 ELSE R(t) = R(s) - 1
  IN  CASE b[s][2] = "king" -> InPalace(s) /\ InPalace(t) /\ Df(s, t) + Dr(s, t) = 1
        [] b[s][2] = "advisor" -> InPalace(s) /\ InPalace(t) /\ Df(s, t) = 1 /\ Dr(s, t) = 1
        [] b[s][2] = "bishop" -> /\ Df(s, t) = 2 /\ Dr(s, t) = 2
                                 /\ ~Crossed(c, s) /\ ~Crossed(c, t)
                                 /\ Empty(b, 9 * Mid(R(s), R(t)) + Mid(F(s), F(t)))
        [] b[s][2] = "knight" -> \/ /\ Df(s, t) = 1 /\ Dr(s, t) = 2
                                    /\ Empty(b, 9 * Mid(R(s), R(t)) + F(s))
                                 \/ /\ Df(s, t) = 2 /\ Dr(s, t) = 1
                                    /\ Empty(b, 9 * R(s) + Mid(F(s), F(t)))
        [] b[s][2] = "rook" -> straight /\ Screens(b, s, t) = 0
        [] b[s][2] = "cannon" -> straight /\ Screens(b, s, t) = IF Empty(b, t) THEN 0 ELSE 1
        [] b[s][2] = "pawn" -> \/ ahead /\ F(s) = F(t)
                               \/ Crossed(c, s) /\ R(s) = R(t) /\ Df(s, t) = 1
        [] OTHER -> FALSE

MenOfSide(b, c) == {s \in 0 .. 89 : b[s][1] = c}
KingOf(b, c) == CHOOSE s \in MenOfSide(b, c) : b[s][2] = "king"

(* The king of c could be taken, by a man or by the king facing it. *)
InCheck(b, c) ==
  LET k == KingOf(b, c)
      k2 == KingOf(b, Foe(c))
  IN  \/ \E s \in MenOfSide(b, Foe(c)) : Reaches(b, s, k)
      \/ F(k) = F(k2) /\ Screens(b, k, k2) = 0

After(b, m) == [b EXCEPT ![m[1]] = <<"none", "none">>, ![m[2]] = b[m[1]]]

LegalMoves(b, c) ==
  {m \in UNION {{<<s, t>> : t \in {u \in 0 .. 89 : b[u][1] # c /\ Reaches(b, s, u)}} : s \in MenOfSide(b, c)} :
     ~InCheck(After(b, m), c)}
=============================================================================
