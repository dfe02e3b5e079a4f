------------------------------ MODULE MCSearch ------------------------------
(* Small games for Search: a position is a name, its moves go to others.    *)
EXTENDS Search

Quiet(from, to) == [from |-> from, to |-> to, capture |-> FALSE]
Takes(from, to) == [from |-> from, to |-> to, capture |-> TRUE]
Table(pairs) == [k \in {p[1] : p \in pairs} |-> (CHOOSE p \in pairs : p[1] = k)[2]]
(* Positions have no moves, are worth 0 and cannot pass, unless stated. *)
Game(positions, moves, checks, evals, nulls, searches) ==
  [moves |-> [p \in positions |->
      SelectSeq(moves, LAMBDA m : m.from = p)],
   checks |-> checks,
   eval |-> [p \in positions |-> IF \E e \in evals : e[1] = p THEN Table(evals)[p] ELSE 0],
   null |-> [p \in positions |-> IF \E n \in nulls : n[1] = p THEN Table(nulls)[p] ELSE NONE],
   searches |-> searches]

(* A mate in three plies; the mated position d is one ply from the root and *)
(* three; b offers a way out.  The second search has few moves left.        *)
Hunt ==
  Game({"r", "a", "b", "c", "d", "e", "f", "q"},
       <<Quiet("r", "b"), Quiet("r", "a"), Quiet("a", "c"), Takes("a", "e"), Quiet("c", "f"), Takes("c", "d"),
         Quiet("e", "d"), Takes("b", "e"), Quiet("b", "q")>>,
       {"d", "c"}, {<<"a", 1>>, <<"q", -1>>, <<"f", 1>>}, {<<"b", "c">>},
       <<[root |-> "r", rule60 |-> 0], [root |-> "r", rule60 |-> 4]>>)
(* Every move loses, by a in two plies, by b in four. *)
Doom ==
  Game({"r", "a", "b", "c", "d", "e", "m"},
       <<Quiet("r", "a"), Quiet("r", "b"), Takes("a", "m"), Quiet("a", "c"), Quiet("b", "c"), Quiet("b", "d"),
         Quiet("c", "e"), Quiet("d", "e"), Quiet("e", "m")>>,
       {"m", "r"}, {<<"a", -1>>, <<"b", 2>>, <<"c", 1>>}, {<<"d", "e">>}, <<[root |-> "r", rule60 |-> 0]>>)

(* Many ways through the same positions, most by captures: null moves, late *)
(* and singular moves and ProbCut are all tried. *)
Maze ==
  Game({"r", "a", "b", "c", "d", "e", "f", "m"},
       <<Quiet("r", "a"), Quiet("r", "b"), Quiet("a", "e"), Takes("a", "d"), Quiet("b", "m"), Takes("b", "f"),
         Takes("b", "e"), Takes("d", "e"), Quiet("d", "f"), Takes("e", "m"), Quiet("f", "m")>>,
       {"m", "a"}, {<<"r", 1>>, <<"b", 1>>, <<"d", -3>>, <<"e", -2>>, <<"f", 3>>},
       {<<"d", "e">>, <<"e", "f">>, <<"f", "m">>}, <<[root |-> "r", rule60 |-> 0]>>)
Ladder ==
  Game({"r", "a", "b", "c", "d", "e", "m"},
       <<Takes("r", "a"), Quiet("a", "b"), Quiet("a", "c"), Quiet("a", "d"), Quiet("c", "e"), Takes("c", "d"), Takes("b", "e"),
         Takes("b", "d"), Quiet("b", "m"), Takes("d", "e"), Quiet("d", "m"), Takes("e", "m")>>,
       {"e", "m"}, {<<"r", 2>>, <<"a", 3>>, <<"c", -1>>, <<"b", 1>>, <<"d", -1>>, <<"e", 2>>, <<"m", -2>>},
       {<<"r", "d">>, <<"c", "m">>, <<"d", "e">>}, <<[root |-> "r", rule60 |-> 0]>>)

MCGames == [hunt |-> Hunt, doom |-> Doom, maze |-> Maze, ladder |-> Ladder]
=============================================================================
