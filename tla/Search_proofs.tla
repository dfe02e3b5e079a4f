---------------------------- MODULE Search_proofs ----------------------------
(***************************************************************************)
(* Proofs about Search, for any games, depths, windows, margins and table,  *)
(* and any number of decisions that depart from the plain search.           *)
(***************************************************************************)
EXTENDS Search, FiniteSetTheorems, SequenceTheorems, WellFoundedInduction, TLAPS

-----------------------------------------------------------------------------
\* Types, for the game of a name n.

Positions(n) == DOMAIN Games[n].moves
Moves(n) == [from : Positions(n), to : Positions(n), capture : BOOLEAN]
Legal(n, pos) == {Games[n].moves[pos][i] : i \in DOMAIN Games[n].moves[pos]}
Bounds == {"none", "lower", "upper", "exact"}
Entries(n) ==
  [key : Positions(n) \cup {NONE}, depth8 : Int, gen : Int, bound : Bounds, pv : BOOLEAN,
   move : Moves(n) \cup {NONE}, value : Int]
Hints(n) ==
  [hit : BOOLEAN, move : Moves(n) \cup {NONE}, value : Int, depth : Int, bound : Bounds, pv : BOOLEAN]
Scopes(n) == [excluded : Moves(n) \cup {NONE}, pv : Seq(Moves(n)), ttPv : BOOLEAN]
Plies == -1 .. MAX_PLY + 1
RootMoveRecords(n) ==
  [pv : Seq(Moves(n)), score : Int, prev : Int, avg : Int, lower : BOOLEAN, upper : BOOLEAN]
Iterations(n) ==
  [phase : {"iterate", "pass", "searching", "record", "restore", "done"},
   search : DOMAIN Games[n].searches, depth : Int, alpha : Int, beta : Int, delta : Int,
   failedHigh : Int, recovery : Int, moves : Seq(RootMoveRecords(n)), forgotten : BOOLEAN,
   last : [pv : Seq(Moves(n)), score : Int]]

\* Where search_node and qsearch go on.
NodeAt ==
  {"judge", "probe", "cutoff", "prune", "null", "nulled", "verified", "probcut", "probed",
   "probedTwice", "small", "next", "singular", "singled", "make", "reduced", "scouted", "tried", "finish"}
QuiescenceAt == {"qjudge", "qprobe", "qnext", "qtried", "qfinish"}
FramesOf(n, positions) ==
  [at : NodeAt \cup QuiescenceAt, root : BOOLEAN, pos : positions, rule60 : Int, ply : Nat,
   asked : Int \X Int, alpha : Int, beta : Int, depth : Int, cut : BOOLEAN, pv : BOOLEAN,
   hint : Hints(n), slot : Int, best : Int, bestMove : Moves(n) \cup {NONE}, count : Nat,
   left : SUBSET Moves(n), move : Moves(n) \cup {NONE}, newDepth : Int, kept : Int]
Frames(n) == FramesOf(n, Positions(n))

\* Where a frame's move is made on the board, where it has one in hand, and
\* where its move or null move is made.
MadeAt == {"probed", "probedTwice", "reduced", "scouted", "tried", "qtried"}
InHandAt == MadeAt \cup {"singular", "singled", "make"}
BelowAt == MadeAt \cup {"nulled"}
PvWaitAt == {"tried", "qtried"}

-----------------------------------------------------------------------------
\* Each frame by itself: what it tries are moves of its position.
FrameOk(n, f) ==
  /\ f \in Frames(n)
  /\ f.ply <= MAX_PLY /\ (f.at \notin {"judge", "qjudge"} => f.ply < MAX_PLY)
  /\ f.at \in NodeAt => f.depth >= 1
  /\ f.root => f.pv /\ f.at \in NodeAt
  /\ f.left \subseteq Legal(n, f.pos)
  /\ f.at \in InHandAt => f.move \in Legal(n, f.pos)

FramesOk == stack \in Seq(Frames(game)) /\ \A i \in 1 .. Len(stack) : FrameOk(game, stack[i])

\* The positions on the line while a frame is the current one.
Level(f) == f.ply + (IF f.at \in BelowAt THEN 2 ELSE 1)

\* The frames stand on the line: each at its ply, a caller at the position
\* above that of the node it searches, or at the same one.
StackInv ==
  /\ line \in Seq(Positions(game))
  /\ \A i \in 1 .. Len(stack) : line[stack[i].ply + 1] = stack[i].pos
  /\ \A i \in 1 .. Len(stack) : stack[i].at \in MadeAt => line[stack[i].ply + 2] = stack[i].move.to
  /\ \A i, j \in 1 .. Len(stack) : i <= j => stack[i].ply <= stack[j].ply
  /\ \A i \in 1 .. Len(stack) - 1 : Level(stack[i]) = stack[i + 1].ply + 1
  /\ stack = << >> => Len(line) = 1
  /\ stack # << >> => stack[1].ply = 0 /\ Len(line) = Level(stack[Len(stack)])

\* The line begins at the root of the search under way.
RootOf(n, it) == Games[n].searches[it.search].root
RootInv ==
  /\ stack # << >> => iter.phase = "searching"
  /\ line[1] = RootOf(game, iter)

\* What is set around a nested search belongs to a frame that waits for it.
MarkInv ==
  /\ nmp # 0 => \E i \in 1 .. Len(stack) : stack[i].at = "verified"
  /\ \A ply \in Plies : ss[ply].excluded # NONE =>
       \E i \in 1 .. Len(stack) : stack[i].at = "singled" /\ stack[i].ply = ply

\* The rest of the state.
RestOk ==
  /\ game \in DOMAIN Games /\ generation \in Int /\ nmp \in Int
  /\ ret.value \in Int
  /\ table \in [Slots -> Entries(game)]
  /\ ss \in [Plies -> Scopes(game)]
  /\ iter \in Iterations(game)

-----------------------------------------------------------------------------
\* The principal variations.  Only callers on the principal variation call
\* such a node, and of the moves they have in hand the line kept below is
\* playable whenever they may prepend the move to it.
PlayableIn(n, pos, pv) ==
  /\ pv # << >> => pv[1] \in Legal(n, pos)
  /\ \A i \in 2 .. Len(pv) : pv[i] \in Legal(n, pv[i - 1].to)
PvChain ==
  \A i, j \in 1 .. Len(stack) :
    i < j /\ stack[j].pv => stack[i].pv /\ stack[i].at \in PvWaitAt
OwnLine(n, s, f) ==
  f.pv /\ ~f.root /\ f.at # "qjudge" => PlayableIn(n, f.pos, s[f.ply].pv)
LineBelow(n, s, f) ==
  f.pv /\ f.at \in {"singular", "singled", "make", "reduced", "scouted", "tried"}
    => PlayableIn(n, f.move.to, s[f.ply + 1].pv)
QLineBelow(n, s, f) == f.pv /\ f.at = "qtried" => PlayableIn(n, f.move.to, s[f.ply + 1].pv)
\* A node of quiescence clears its line itself, when it is entered.
Entered(i) == i = Len(stack) - 1 /\ stack[i + 1].at = "qjudge" /\ stack[i + 1].pv
StackLines ==
  \A i \in 1 .. Len(stack) :
    /\ OwnLine(game, ss, stack[i]) /\ LineBelow(game, ss, stack[i])
    /\ Entered(i) \/ QLineBelow(game, ss, stack[i])
    /\ stack[i].root <=> i = 1

\* The root moves are those of the root, each with a line that begins with it.
LinesKnown(n, root, moves, last) ==
  /\ \A i \in DOMAIN moves : moves[i].pv # << >> /\ PlayableIn(n, root, moves[i].pv)
  /\ PlayableIn(n, root, last.pv)
  /\ \A m \in Legal(n, root) : \E i \in DOMAIN moves : moves[i].pv[1] = m
RootLines == LinesKnown(game, RootOf(game, iter), iter.moves, iter.last)

Inv == RestOk /\ FramesOk /\ StackInv /\ RootInv /\ MarkInv /\ PvChain /\ StackLines /\ RootLines

-----------------------------------------------------------------------------
\* Every set of numbers has a least one.
LEMMA LeastNat ==
  ASSUME NEW T \in SUBSET Nat, T # {}
  PROVE  \E x \in T : \A y \in T : x <= y
<1>1. \E R : IsWellFoundedOn(R, Nat) /\ \A x, y \in Nat : <<y, x>> \in R <=> y < x
  <2>1. \A x, y \in Nat : <<y, x>> \in OpToRel(<, Nat) <=> y < x
    BY DEF OpToRel
  <2> QED
    BY <2>1, NatLessThanWellFounded, Zenon
<1>2. PICK R : IsWellFoundedOn(R, Nat) /\ \A x, y \in Nat : <<y, x>> \in R <=> y < x
  BY <1>1
<1>3. \E x \in T : \A y \in T : ~ (<<y, x>> \in R)
  BY <1>2, WFMin, Zenon
<1>4. PICK x \in T : \A y \in T : ~ (<<y, x>> \in R)
  BY <1>3
<1>5. \A y \in T : ~(y < x)
  BY <1>2, <1>4, Zenon
<1> QED
  BY <1>5

\* What is assumed of a game.
LEMMA GameFacts ==
  ASSUME NEW n \in DOMAIN Games
  PROVE  /\ \A p \in Positions(n) : Games[n].moves[p] \in Seq(Moves(n)) /\ Legal(n, p) \subseteq Moves(n)
         /\ Games[n].eval \in [Positions(n) -> Int]
         /\ Games[n].null \in [Positions(n) -> Positions(n) \cup {NONE}]
         /\ Games[n].searches \in Seq([root : Positions(n), rule60 : Nat]) /\ Games[n].searches # << >>
         /\ \A i \in DOMAIN Games[n].searches :
              Games[n].searches[i].root \in Positions(n) /\ Games[n].moves[Games[n].searches[i].root] # << >>
<1>1. /\ \A p \in Positions(n) : Games[n].moves[p] \in Seq(Moves(n))
      /\ Games[n].eval \in [Positions(n) -> Int]
      /\ Games[n].null \in [Positions(n) -> Positions(n) \cup {NONE}]
      /\ Games[n].searches \in Seq([root : Positions(n), rule60 : Nat]) /\ Games[n].searches # << >>
      /\ \A i \in DOMAIN Games[n].searches : Games[n].moves[Games[n].searches[i].root] # << >>
  BY GameAssumption DEF Positions, Moves
<1>2. \A p \in Positions(n) : Legal(n, p) \subseteq Moves(n)
  BY <1>1 DEF Legal
<1>3. \A i \in DOMAIN Games[n].searches : Games[n].searches[i].root \in Positions(n)
  <2> TAKE i \in DOMAIN Games[n].searches
  <2>1. Games[n].searches[i] \in [root : Positions(n), rule60 : Nat]
    BY <1>1, LenProperties, ElementOfSeq, Zenon
  <2> QED
    BY <2>1
<1> QED
  BY <1>1, <1>2, <1>3

\* The next move of a frame is one of those it has left.
LEMMA NextIsLeft ==
  ASSUME game \in DOMAIN Games, NEW f, FrameOk(game, f), f.left # {}
  PROVE  NextOf(f) \in f.left
<1> DEFINE moves == Games[game].moves[f.pos]
<1>1. moves \in Seq(Moves(game)) /\ f.left \subseteq {moves[i] : i \in DOMAIN moves} /\ DOMAIN moves \subseteq Nat
  <2>1. f.pos \in Positions(game)
    BY DEF FrameOk, Frames, FramesOf
  <2>2. moves \in Seq(Moves(game))
    BY <2>1, GameFacts
  <2>3. f.left \subseteq {moves[i] : i \in DOMAIN moves}
    BY DEF FrameOk, Legal
  <2> QED
    BY <2>2, <2>3
<1>2. \A m \in f.left : Index(f.pos, m) \in DOMAIN moves /\ moves[Index(f.pos, m)] = m
  BY <1>1 DEF Index, MovesOf, G
<1> HIDE DEF moves
<1>3. \E m \in f.left : \A k \in f.left \ {m} : Precedes(f, m, k)
  <2>1. CASE f.hint.move \in f.left
    BY <2>1 DEF Precedes
  <2>2. CASE f.hint.move \notin f.left
    <3> DEFINE T == {Index(f.pos, m) : m \in f.left}
    <3>1. PICK x \in T : \A y \in T : x <= y
      <4>1. T \in SUBSET Nat /\ T # {}
        BY <1>1, <1>2
      <4> HIDE DEF T
      <4> QED
        BY <4>1, LeastNat
    <3>2. PICK m \in f.left : x = Index(f.pos, m)
      BY <3>1
    <3>3. \A k \in f.left \ {m} : Index(f.pos, m) < Index(f.pos, k)
      <4> TAKE k \in f.left \ {m}
      <4>1. Index(f.pos, m) \in Nat /\ Index(f.pos, k) \in Nat /\ Index(f.pos, m) # Index(f.pos, k)
        BY <1>1, <1>2
      <4>2. Index(f.pos, m) <= Index(f.pos, k)
        BY <3>1, <3>2
      <4> QED
        BY <4>1, <4>2
    <3> QED
      BY <2>2, <3>3 DEF Precedes
  <2> QED
    BY <2>1, <2>2
<1> QED
  BY <1>3 DEF NextOf

-----------------------------------------------------------------------------
\* Values and the table.

LEMMA ConstantTypes ==
  /\ MAX_PLY \in Nat /\ MAX_PLY > 1 /\ VALUE_MATE \in Nat /\ Margin \in Nat /\ NullReduction \in Nat
  /\ Delta \in Nat /\ Rule60Max \in Nat /\ MaxDepth \in Nat /\ CLUSTER_SIZE \in Nat \ {0} /\ Generations \in Nat \ {0}
  /\ VALUE_INFINITE \in Int /\ VALUE_NONE \in Int /\ VALUE_MATE_IN_MAX_PLY \in Int
BY SearchAssumption, TableAssumption DEF VALUE_INFINITE, VALUE_NONE, VALUE_MATE_IN_MAX_PLY

LEMMA ChoiceTypes ==
  ASSUME NEW a \in Int, NEW b \in Int
  PROVE  /\ Larger(a, b) \in Int /\ Smaller(a, b) \in Int
         /\ Larger(a, b) >= a /\ Larger(a, b) >= b /\ Smaller(a, b) <= a /\ Smaller(a, b) <= b
         /\ Larger(a, b) \in {a, b} /\ Smaller(a, b) \in {a, b}
         /\ b > 0 => Quotient(a, b) \in Int
BY DEF Larger, Smaller, Quotient

LEMMA MateTypes ==
  ASSUME NEW ply \in Int
  PROVE  mate_in(ply) \in Int /\ mated_in(ply) \in Int
BY ConstantTypes DEF mate_in, mated_in

LEMMA TableValueTypes ==
  ASSUME NEW v \in Int, NEW ply \in Int, NEW rule60 \in Int
  PROVE  value_to_tt(v, ply) \in Int /\ value_from_tt(v, ply, rule60) \in Int
BY ConstantTypes DEF value_to_tt, value_from_tt

\* A probe gives a slot of the cluster.
LEMMA SlotIsThere ==
  ASSUME NEW cluster, NEW key, NEW gen \in Int,
         \A i \in Slots : cluster[i].depth8 \in Int /\ cluster[i].gen \in Int,
         Matching(cluster, key) # {}
  PROVE  SlotFor(cluster, key, gen) \in Matching(cluster, key)
<1>1. Matching(cluster, key) \in SUBSET Nat
  BY DEF Matching, Slots
<1>2. \E i \in Matching(cluster, key) : \A j \in Matching(cluster, key) : i <= j
  BY <1>1, LeastNat
<1> QED
  BY <1>2 DEF SlotFor

\* Of the entries of a cluster one is worth least.
LEMMA LeastSlot ==
  ASSUME NEW cluster, NEW gen \in Int, \A i \in Slots : cluster[i].depth8 \in Int /\ cluster[i].gen \in Int
  PROVE  \E i \in Slots : Least(cluster, gen, i)
<1> DEFINE W(i) == Worth(cluster[i], gen)
           Better(i, j) == W(i) < W(j) \/ (W(i) = W(j) /\ i <= j)
           \* The numbers for which the first so many entries have no least one.
           T == {n \in 1 .. CLUSTER_SIZE : ~ \E i \in 1 .. n : \A j \in 1 .. n : Better(i, j)}
<1>1. \A i \in Slots : W(i) \in Int
  <2>1. Generations \in Nat \ {0}
    BY ConstantTypes
  <2> QED
    BY <2>1 DEF Worth, relative_age
<1>2. CLUSTER_SIZE \in Nat \ {0} /\ Slots = 1 .. CLUSTER_SIZE
  BY ConstantTypes DEF Slots
<1> HIDE DEF W
<1>3. ASSUME T # {}
      PROVE  FALSE
  <2>1. T \in SUBSET Nat
    BY <1>2
  <2>2. PICK n \in T : \A k \in T : n <= k
    <3> HIDE DEF T
    <3> QED
      BY <1>3, <2>1, LeastNat
  <2>3. n \in 1 .. CLUSTER_SIZE /\ n # 1
    BY <1>1, <1>2
  <2>4. n - 1 \in 1 .. CLUSTER_SIZE /\ n - 1 \notin T
    <3>1. n - 1 \in 1 .. CLUSTER_SIZE /\ ~(n <= n - 1)
      BY <1>2, <2>3
    <3> HIDE DEF T
    <3> QED
      BY <2>2, <3>1
  <2>5. PICK i \in 1 .. n - 1 : \A j \in 1 .. n - 1 : Better(i, j)
    BY <2>4
  <2>6. i \in Slots /\ n \in Slots /\ W(i) \in Int /\ W(n) \in Int
    BY <1>1, <1>2, <2>3, <2>5
  <2>7. \A j \in 1 .. n : j \in 1 .. n - 1 \/ j = n
    BY <2>3
  <2>8. CASE W(i) <= W(n)
    <3>1. Better(i, n)
      BY <2>3, <2>5, <2>6, <2>8
    <3>2. \A j \in 1 .. n : Better(i, j)
      BY <2>5, <2>7, <3>1
    <3>3. i \in 1 .. n
      BY <2>3, <2>5
    <3> QED
      BY <2>2, <3>2, <3>3
  <2>9. CASE W(n) < W(i)
    <3>1. \A j \in 1 .. n - 1 : W(j) \in Int /\ W(n) < W(j)
      <4> TAKE j \in 1 .. n - 1
      <4>1. j \in Slots
        BY <1>2, <2>3
      <4>2. W(j) \in Int /\ W(i) <= W(j)
        BY <1>1, <2>5, <2>6, <4>1
      <4> QED
        BY <2>6, <2>9, <4>2
    <3>2. \A j \in 1 .. n : Better(n, j)
      BY <2>3, <2>6, <2>7, <3>1
    <3>3. n \in 1 .. n
      BY <2>3
    <3> QED
      BY <2>2, <3>2, <3>3
  <2> QED
    BY <2>6, <2>8, <2>9
<1>4. CLUSTER_SIZE \notin T
  BY <1>3
<1>5. PICK i \in Slots : \A j \in Slots : Better(i, j)
  BY <1>2, <1>4
<1> QED
  BY <1>5 DEF Least, W

\* What is written is an entry, and what is read of one a hint.
LEMMA WriteType ==
  ASSUME NEW n, NEW cluster \in [Slots -> Entries(n)], NEW slot, NEW gen \in Int, NEW decisive,
         NEW key \in Positions(n), NEW value \in Int, NEW pv \in BOOLEAN, NEW bound \in Bounds,
         NEW depth \in Int, NEW move \in Moves(n) \cup {NONE}
  PROVE  write(cluster, slot, [key |-> key, value |-> value, pv |-> pv, bound |-> bound, depth |-> depth, move |-> move],
               gen, decisive) \in [Slots -> Entries(n)]
<1> DEFINE new == [key |-> key, value |-> value, pv |-> pv, bound |-> bound, depth |-> depth, move |-> move]
<1>1. \A e \in Entries(n) : MoveSaved(e, new) \in Moves(n) \cup {NONE} /\ penalized(e) \in Entries(n)
  BY DEF Entries, MoveSaved, penalized
<1>2. \A e \in Entries(n), m \in Moves(n) \cup {NONE} : [e EXCEPT !.move = m] \in Entries(n)
  BY DEF Entries
<1>3. \A e \in Entries(n) : MoveSaved(e, new) \in Moves(n) \cup {NONE} =>
        [key |-> new.key, depth8 |-> new.depth - DEPTH_NONE, gen |-> gen, bound |-> new.bound,
         pv |-> new.pv, move |-> MoveSaved(e, new), value |-> new.value] \in Entries(n)
  BY DEF Entries, DEPTH_NONE
<1>4. \A e \in Entries(n) : saved(e, new, gen, decisive) \in Entries(n)
  <2> HIDE DEF new
  <2> QED
    BY <1>1, <1>2, <1>3 DEF saved
<1> QED
  <2> HIDE DEF new
  <2>1. write(cluster, slot, new, gen, decisive) \in [Slots -> Entries(n)]
    BY <1>4 DEF write
  <2> QED
    BY <2>1 DEF new

LEMMA PenaltyType ==
  ASSUME NEW n, NEW cluster \in [Slots -> Entries(n)], NEW slot
  PROVE  [cluster EXCEPT ![slot] = penalized(@)] \in [Slots -> Entries(n)]
<1>1. \A e \in Entries(n) : penalized(e) \in Entries(n)
  BY DEF Entries, penalized
<1> QED
  BY <1>1

\* The current frame.
LEMMA TopFacts ==
  ASSUME FramesOk, stack # << >>
  PROVE  /\ Top \in Frames(game) /\ FrameOk(game, Top) /\ Ply \in Nat
         /\ Len(stack) \in Nat /\ Len(stack) >= 1 /\ Top = stack[Len(stack)] /\ Ply = Top.ply
<1>1. Len(stack) \in Nat /\ Len(stack) >= 1
  BY DEF FramesOk
<1>2. FrameOk(game, Top)
  BY <1>1 DEF FramesOk, Top
<1>3. Top \in Frames(game)
  BY <1>2 DEF FrameOk
<1>4. Top.ply \in Nat
  BY <1>3 DEF Frames, FramesOf
<1> QED
  BY <1>1, <1>2, <1>3, <1>4 DEF Ply, Top

LEMMA HintTypes ==
  ASSUME RestOk, FramesOk, stack # << >>
  PROVE  ProbeHint \in Hints(game) /\ TornHints \subseteq Hints(game) /\ NoHint \in Hints(game)
<1>1. Ply \in Int /\ Top.rule60 \in Int /\ generation \in Int
  BY TopFacts DEF RestOk, Frames, FramesOf
<1>2. \A e \in Entries(game) : DataOf(e) \in Hints(game)
  <2> TAKE e \in Entries(game)
  <2>1. e.value \in Int /\ e.depth8 \in Int /\ e.move \in Moves(game) \cup {NONE} /\ e.bound \in Bounds /\ e.pv \in BOOLEAN
    BY DEF Entries
  <2>2. value_from_tt(e.value, Ply, Top.rule60) \in Int
    BY <1>1, <2>1, TableValueTypes
  <2>3. Depth(e) \in Int
    BY <2>1 DEF Depth, DEPTH_NONE
  <2> QED
    BY <2>1, <2>2, <2>3 DEF DataOf, Hints
<1>3. NoHint \in Hints(game)
  BY ConstantTypes DEF NoHint, Hints, Bounds, DEPTH_NONE
<1>4. TornHints \subseteq Hints(game)
  BY <1>2 DEF TornHints, RestOk
<1>5. ASSUME found(table, Top.pos, generation)
      PROVE  ProbeSlot \in Slots
  <2>1. \A i \in Slots : table[i].depth8 \in Int /\ table[i].gen \in Int
    BY DEF RestOk, Entries
  <2>2. Matching(table, Top.pos) # {}
    BY <1>5 DEF found
  <2>3. ProbeSlot \in Matching(table, Top.pos)
    BY <1>1, <2>1, <2>2, SlotIsThere DEF ProbeSlot
  <2> QED
    BY <2>3 DEF Matching
<1>6. ProbeHint \in Hints(game)
  BY <1>2, <1>3, <1>5 DEF ProbeHint, RestOk
<1> QED
  BY <1>3, <1>4, <1>6

-----------------------------------------------------------------------------
\* What a step of a node does to the stack and the line: it goes on, calls, or
\* returns.

SameNode(g) ==
  FrameOk(game, g) /\ g.ply = Top.ply /\ g.pos = Top.pos /\ g.pv = Top.pv /\ g.root = Top.root
Settled(len) ==
  line' \in Seq(Positions(game)) /\ Len(line') = len /\ \A k \in 1 .. Top.ply + 1 : line'[k] = line[k]
GoesOn(g) ==
  SameNode(g) /\ Settled(Level(g)) /\ (g.at \in MadeAt => line'[g.ply + 2] = g.move.to)
Called(g, c) ==
  /\ FrameOk(game, c) /\ c.at \in {"judge", "qjudge"} /\ ~c.root
  /\ Level(g) = c.ply + 1 /\ line'[c.ply + 1] = c.pos
  /\ c.pv => g.pv /\ g.at \in PvWaitAt
Staying(g) == GoesOn(g) /\ stack' = Under(g)
Calling(g, c) == GoesOn(g) /\ Called(g, c) /\ stack' = Append(Under(g), c)
Returning == stack' = SubSeq(stack, 1, Len(stack) - 1) /\ Settled(Top.ply + 1)

\* The line of the current frame.
LEMMA LineFacts ==
  ASSUME FramesOk, StackInv, stack # << >>
  PROVE  /\ line \in Seq(Positions(game)) /\ Len(line) = Level(Top)
         /\ line[Ply + 1] = Top.pos /\ Top.pos \in Positions(game)
         /\ Top.at \in MadeAt => line[Ply + 2] = Top.move.to
<1>1. Top.pos \in Positions(game)
  BY TopFacts DEF Frames, FramesOf
<1>2. line \in Seq(Positions(game)) /\ Len(line) = Level(Top)
  BY TopFacts, Zenon DEF StackInv
<1>3. line[Ply + 1] = Top.pos /\ (Top.at \in MadeAt => line[Ply + 2] = Top.move.to)
  BY TopFacts DEF StackInv
<1> QED
  BY <1>1, <1>2, <1>3

LEMMA StayHere ==
  ASSUME FramesOk, StackInv, stack # << >>, NEW g, SameNode(g), Stay(g), UNCHANGED line,
         g.at \in BelowAt <=> Top.at \in BelowAt,
         g.at \in MadeAt => Top.at \in MadeAt /\ g.move = Top.move
  PROVE  Staying(g)
<1>1. Level(g) = Level(Top)
  BY DEF Level, SameNode
<1> QED
  BY <1>1, TopFacts, LineFacts DEF Staying, GoesOn, Settled, Stay, SameNode

LEMMA StayBack ==
  ASSUME FramesOk, StackInv, stack # << >>, NEW g, SameNode(g), Stay(g), TakenBack,
         Top.at \in BelowAt, g.at \notin BelowAt
  PROVE  Staying(g)
<1>1. Level(g) = Ply + 1 /\ Len(line) = Ply + 2
  BY TopFacts, LineFacts DEF Level, SameNode
<1>2. Settled(Ply + 1)
  BY <1>1, TopFacts, LineFacts DEF Settled, TakenBack
<1> QED
  BY <1>1, <1>2 DEF Staying, GoesOn, Stay, BelowAt

LEMMA ReturnHere ==
  ASSUME FramesOk, StackInv, stack # << >>, NEW v \in Int, Return(v), UNCHANGED line, Top.at \notin BelowAt
  PROVE  Returning /\ ret'.value \in Int
<1>1. Level(Top) = Ply + 1
  BY TopFacts DEF Level
<1> QED
  BY <1>1, TopFacts, LineFacts DEF Returning, Settled, Return

LEMMA ReturnBack ==
  ASSUME FramesOk, StackInv, stack # << >>, NEW v \in Int, Return(v), TakenBack, Top.at \in BelowAt
  PROVE  Returning /\ ret'.value \in Int
<1>1. Len(line) = Ply + 2
  BY TopFacts, LineFacts DEF Level
<1>2. Settled(Ply + 1)
  BY <1>1, TopFacts, LineFacts DEF Settled, TakenBack
<1> QED
  BY <1>2, TopFacts DEF Returning, Return

\* A frame as it is called.
CalleeOk(n, c, pos, ply, pv) ==
  /\ FrameOk(n, c) /\ c.at \in {"judge", "qjudge"} /\ ~c.root
  /\ c.pv = pv /\ c.ply = ply /\ c.pos = pos

\* A frame with another value of one of its fields.
LEMMA FrameUpdates ==
  ASSUME NEW n, NEW positions, NEW f \in FramesOf(n, positions)
  PROVE  /\ \A v \in NodeAt \cup QuiescenceAt : [f EXCEPT !.at = v] \in FramesOf(n, positions)
         /\ \A v \in BOOLEAN : [f EXCEPT !.root = v] \in FramesOf(n, positions)
         /\ \A v \in Int : [f EXCEPT !.rule60 = v] \in FramesOf(n, positions)
         /\ \A v \in Nat : [f EXCEPT !.ply = v] \in FramesOf(n, positions)
         /\ \A v \in Int \X Int : [f EXCEPT !.asked = v] \in FramesOf(n, positions)
         /\ \A v \in Int : [f EXCEPT !.alpha = v] \in FramesOf(n, positions)
         /\ \A v \in Int : [f EXCEPT !.beta = v] \in FramesOf(n, positions)
         /\ \A v \in Int : [f EXCEPT !.depth = v] \in FramesOf(n, positions)
         /\ \A v \in Hints(n) : [f EXCEPT !.hint = v] \in FramesOf(n, positions)
         /\ \A v \in Int : [f EXCEPT !.slot = v] \in FramesOf(n, positions)
         /\ \A v \in Int : [f EXCEPT !.best = v] \in FramesOf(n, positions)
         /\ \A v \in Moves(n) \cup {NONE} : [f EXCEPT !.bestMove = v] \in FramesOf(n, positions)
         /\ \A v \in Nat : [f EXCEPT !.count = v] \in FramesOf(n, positions)
         /\ \A v \in SUBSET Moves(n) : [f EXCEPT !.left = v] \in FramesOf(n, positions)
         /\ \A v \in Moves(n) \cup {NONE} : [f EXCEPT !.move = v] \in FramesOf(n, positions)
         /\ \A v \in Int : [f EXCEPT !.newDepth = v] \in FramesOf(n, positions)
         /\ \A v \in Int : [f EXCEPT !.kept = v] \in FramesOf(n, positions)
         /\ \A S : \A v \in S : [f EXCEPT !.pos = v] \in FramesOf(n, S)
<1>1. \A v \in NodeAt \cup QuiescenceAt : [f EXCEPT !.at = v] \in FramesOf(n, positions)
  BY DEF FramesOf
<1>2. \A v \in BOOLEAN : [f EXCEPT !.root = v] \in FramesOf(n, positions)
  BY DEF FramesOf
<1>3. \A v \in Int : [f EXCEPT !.rule60 = v] \in FramesOf(n, positions)
  BY DEF FramesOf
<1>4. \A v \in Nat : [f EXCEPT !.ply = v] \in FramesOf(n, positions)
  BY DEF FramesOf
<1>5. \A v \in Int \X Int : [f EXCEPT !.asked = v] \in FramesOf(n, positions)
  BY DEF FramesOf
<1>6. \A v \in Int : [f EXCEPT !.alpha = v] \in FramesOf(n, positions)
  BY DEF FramesOf
<1>7. \A v \in Int : [f EXCEPT !.beta = v] \in FramesOf(n, positions)
  BY DEF FramesOf
<1>8. \A v \in Int : [f EXCEPT !.depth = v] \in FramesOf(n, positions)
  BY DEF FramesOf
<1>9. \A v \in Hints(n) : [f EXCEPT !.hint = v] \in FramesOf(n, positions)
  BY DEF FramesOf
<1>10. \A v \in Int : [f EXCEPT !.slot = v] \in FramesOf(n, positions)
  BY DEF FramesOf
<1>11. \A v \in Int : [f EXCEPT !.best = v] \in FramesOf(n, positions)
  BY DEF FramesOf
<1>12. \A v \in Moves(n) \cup {NONE} : [f EXCEPT !.bestMove = v] \in FramesOf(n, positions)
  BY DEF FramesOf
<1>13. \A v \in Nat : [f EXCEPT !.count = v] \in FramesOf(n, positions)
  BY DEF FramesOf
<1>14. \A v \in SUBSET Moves(n) : [f EXCEPT !.left = v] \in FramesOf(n, positions)
  BY DEF FramesOf
<1>15. \A v \in Moves(n) \cup {NONE} : [f EXCEPT !.move = v] \in FramesOf(n, positions)
  BY DEF FramesOf
<1>16. \A v \in Int : [f EXCEPT !.newDepth = v] \in FramesOf(n, positions)
  BY DEF FramesOf
<1>17. \A v \in Int : [f EXCEPT !.kept = v] \in FramesOf(n, positions)
  BY DEF FramesOf
<1>18. \A S : \A v \in S : [f EXCEPT !.pos = v] \in FramesOf(n, S)
  BY DEF FramesOf
<1> QED
  BY <1>1, <1>2, <1>3, <1>4, <1>5, <1>6, <1>7, <1>8, <1>9, <1>10, <1>11, <1>12, <1>13, <1>14, <1>15, <1>16, <1>17, <1>18

LEMMA NewFrameType ==
  ASSUME NEW n, NEW at \in NodeAt \cup QuiescenceAt, NEW alpha \in Int, NEW beta \in Int, NEW depth \in Int,
         NEW cut \in BOOLEAN, NEW pv \in BOOLEAN
  PROVE  NewFrame(at, alpha, beta, depth, cut, pv) \in FramesOf(n, {NONE})
<1>1. NoHint \in Hints(n) /\ -VALUE_INFINITE \in Int
  BY ConstantTypes DEF NoHint, Hints, Bounds, DEPTH_NONE
<1>2. <<alpha, beta>> \in Int \X Int /\ NONE \in Moves(n) \cup {NONE} /\ {} \in SUBSET Moves(n)
  OBVIOUS
<1> QED
  BY <1>1, <1>2 DEF NewFrame, FramesOf

LEMMA NewFrameOk ==
  ASSUME NEW n, NEW at \in {"judge", "qjudge"}, NEW alpha \in Int, NEW beta \in Int, NEW depth \in Int,
         NEW cut \in BOOLEAN, NEW pv \in BOOLEAN, at = "judge" => depth >= 1,
         NEW pos \in Positions(n), NEW rule60 \in Int, NEW ply \in Nat, ply <= MAX_PLY
  PROVE  CalleeOk(n, Placed(NewFrame(at, alpha, beta, depth, cut, pv), pos, rule60, ply),
                  pos, ply, pv)
<1> DEFINE b == NewFrame(at, alpha, beta, depth, cut, pv)
           c == Placed(b, pos, rule60, ply)
<1>1. b \in FramesOf(n, {NONE})
  BY NewFrameType DEF NodeAt, QuiescenceAt
<1>2. b.at = at /\ b.root = FALSE /\ b.pv = pv /\ b.left = {} /\ b.depth = depth
  BY DEF NewFrame
<1> HIDE DEF b
<1>3. c \in Frames(n)
  BY <1>1, FrameUpdates DEF Frames, Placed
<1>4. c.at = at /\ c.root = FALSE /\ c.pv = pv /\ c.left = {} /\ c.depth = depth /\ c.ply = ply /\ c.pos = pos
  BY <1>1, <1>2 DEF FramesOf, Placed
<1> HIDE DEF c
<1>5. FrameOk(n, c)
  BY <1>3, <1>4, ConstantTypes DEF FrameOk, NodeAt, InHandAt, MadeAt
<1>6. CalleeOk(n, c, pos, ply, pv)
  BY <1>4, <1>5 DEF CalleeOk
<1> QED
  BY <1>6 DEF b, c

LEMMA QCallee ==
  ASSUME NEW alpha \in Int, NEW beta \in Int, NEW pv \in BOOLEAN,
         NEW pos \in Positions(game), NEW rule60 \in Int, NEW ply \in Nat, ply <= MAX_PLY
  PROVE  CalleeOk(game, Placed(qsearch(alpha, beta, pv), pos, rule60, ply), pos, ply, pv)
<1>1. qsearch(alpha, beta, pv) = NewFrame("qjudge", alpha, beta, 0, FALSE, pv)
  BY DEF qsearch
<1>2. CalleeOk(game, Placed(NewFrame("qjudge", alpha, beta, 0, FALSE, pv), pos, rule60, ply), pos, ply, pv)
  <2>1. \A at \in {"judge", "qjudge"}, depth \in Int, cut \in BOOLEAN : at = "qjudge" =>
          CalleeOk(game, Placed(NewFrame(at, alpha, beta, depth, cut, pv), pos, rule60, ply), pos, ply, pv)
    BY NewFrameOk
  <2>2. \A cut \in BOOLEAN : CalleeOk(game, Placed(NewFrame("qjudge", alpha, beta, 0, cut, pv), pos, rule60, ply), pos, ply, pv)
    BY <2>1
  <2> QED
    BY <2>2
<1> QED
  BY <1>1, <1>2

LEMMA QScoutCallee ==
  ASSUME NEW alpha \in Int, NEW beta \in Int,
         NEW pos \in Positions(game), NEW rule60 \in Int, NEW ply \in Nat, ply <= MAX_PLY
  PROVE  CalleeOk(game, Placed(qsearch(alpha, beta, FALSE), pos, rule60, ply), pos, ply, FALSE)
<1>1. \A pv \in BOOLEAN : CalleeOk(game, Placed(qsearch(alpha, beta, pv), pos, rule60, ply), pos, ply, pv)
  BY QCallee
<1> QED
  BY <1>1

LEMMA Callee ==
  ASSUME NEW alpha \in Int, NEW beta \in Int, NEW depth \in Int, NEW cut \in BOOLEAN, NEW pv \in BOOLEAN,
         NEW pos \in Positions(game), NEW rule60 \in Int, NEW ply \in Nat, ply <= MAX_PLY
  PROVE  CalleeOk(game, Placed(search_node(alpha, beta, depth, cut, pv), pos, rule60, ply), pos, ply, pv)
<1>1. CASE depth <= 0
  <2>1. search_node(alpha, beta, depth, cut, pv) = qsearch(alpha, beta, pv)
    BY <1>1 DEF search_node
  <2> QED
    BY <2>1, QCallee
<1>2. CASE depth > 0
  <2>1. Smaller(depth, MAX_PLY - 1) \in Int /\ Smaller(depth, MAX_PLY - 1) >= 1
    BY <1>2, ConstantTypes DEF Smaller
  <2>2. search_node(alpha, beta, depth, cut, pv) = NewFrame("judge", alpha, beta, Smaller(depth, MAX_PLY - 1), cut, pv)
    BY <1>2 DEF search_node
  <2>3. CalleeOk(game, Placed(NewFrame("judge", alpha, beta, Smaller(depth, MAX_PLY - 1), cut, pv)
                       , pos, rule60, ply), pos, ply, pv)
    BY <2>1, NewFrameOk
  <2> QED
    BY <2>2, <2>3
<1> QED
  BY <1>1, <1>2

\* A window of one point is not on the principal variation.
LEMMA AbCallee ==
  ASSUME NEW alpha \in Int, NEW beta \in Int, alpha + 1 = beta, NEW depth \in Int, NEW cut \in BOOLEAN,
         NEW pos \in Positions(game), NEW rule60 \in Int, NEW ply \in Nat, ply <= MAX_PLY
  PROVE  CalleeOk(game, Placed(ab_search(alpha, beta, depth, cut), pos, rule60, ply), pos, ply, FALSE)
<1>1. ab_search(alpha, beta, depth, cut) = search_node(alpha, beta, depth, cut, FALSE)
  BY DEF ab_search
<1> QED
  BY <1>1, Callee

LEMMA AbScoutCallee ==
  ASSUME NEW alpha \in Int, NEW beta \in Int, alpha + 1 = beta, NEW depth \in Int,
         NEW pos \in Positions(game), NEW rule60 \in Int, NEW ply \in Nat, ply <= MAX_PLY
  PROVE  CalleeOk(game, Placed(ab_search(alpha, beta, depth, FALSE), pos, rule60, ply), pos, ply, FALSE)
<1>1. \A cut \in BOOLEAN : CalleeOk(game, Placed(ab_search(alpha, beta, depth, cut), pos, rule60, ply), pos, ply, FALSE)
  BY AbCallee
<1> QED
  BY <1>1

LEMMA CallHereStep ==
  ASSUME FramesOk, StackInv, stack # << >>, NEW g, NEW c, SameNode(g), CallHere(g, c),
         g.at \notin BelowAt, (UNCHANGED line /\ Top.at \notin BelowAt) \/ (TakenBack /\ Top.at \in BelowAt),
         CalleeOk(game, Placed(c, g.pos, g.rule60, Ply), g.pos, Ply, FALSE)
  PROVE  Calling(g, Placed(c, g.pos, g.rule60, Ply))
<1> DEFINE d == Placed(c, g.pos, g.rule60, Ply)
<1>1. Level(g) = Ply + 1
  BY TopFacts DEF Level, SameNode
<1>2. Settled(Ply + 1)
  <2>1. CASE UNCHANGED line /\ Top.at \notin BelowAt
    BY <2>1, TopFacts, LineFacts DEF Settled, Level
  <2>2. CASE TakenBack /\ Top.at \in BelowAt
    <3>1. Len(line) = Ply + 2
      BY <2>2, TopFacts, LineFacts DEF Level
    <3> QED
      BY <2>2, <3>1, TopFacts, LineFacts DEF Settled, TakenBack
  <2> QED
    BY <2>1, <2>2
<1>3. GoesOn(g)
  BY <1>1, <1>2 DEF GoesOn, BelowAt
<1>4. line'[Ply + 1] = Top.pos
  BY <1>2, TopFacts, LineFacts DEF Settled
<1>5. Called(g, d)
  <2> HIDE DEF d
  <2>1. CalleeOk(game, d, g.pos, Ply, FALSE)
    BY DEF d
  <2> QED
    BY <1>1, <1>4, <2>1 DEF Called, SameNode, CalleeOk
<1> QED
  BY <1>3, <1>5 DEF Calling, CallHere, Call

\* A further search after the same move.
LEMMA CallBelowStep ==
  ASSUME FramesOk, StackInv, stack # << >>, NEW g, NEW c, NEW pv, SameNode(g), CallBelow(g, c),
         Top.at \in MadeAt, g.at \in MadeAt, g.move = Top.move, pv => g.pv /\ g.at \in PvWaitAt,
         CalleeOk(game, Placed(c, Pos, After(g.move, g.rule60), Ply + 1), Pos, Ply + 1, pv)
  PROVE  Calling(g, Placed(c, Pos, After(g.move, g.rule60), Ply + 1))
<1> DEFINE d == Placed(c, Pos, After(g.move, g.rule60), Ply + 1)
<1>1. Level(g) = Ply + 2 /\ Len(line) = Ply + 2
  BY TopFacts, LineFacts DEF Level, SameNode, BelowAt
<1>2. Settled(Ply + 2)
  BY <1>1, TopFacts, LineFacts DEF Settled, CallBelow
<1>3. GoesOn(g)
  BY <1>1, <1>2, TopFacts, LineFacts DEF GoesOn, CallBelow, SameNode
<1>4. line'[Ply + 2] = Pos
  BY <1>1 DEF CallBelow, Pos
<1>5. Called(g, d)
  <2> HIDE DEF d
  <2>1. CalleeOk(game, d, Pos, Ply + 1, pv)
    BY DEF d
  <2> QED
    BY <1>1, <1>4, <2>1, TopFacts DEF Called, SameNode, CalleeOk
<1> QED
  BY <1>3, <1>5 DEF Calling, CallBelow, Call

\* A search after a move, or a null move.
LEMMA CallStep ==
  ASSUME FramesOk, StackInv, stack # << >>, NEW g, NEW c, NEW pv, NEW to \in Positions(game), NEW rule60, SameNode(g),
         Call(g, c, to, rule60, Ply + 1), line' = Append(line, to),
         Top.at \notin BelowAt, g.at \in BelowAt, g.at \in MadeAt => to = g.move.to, pv => g.pv /\ g.at \in PvWaitAt,
         CalleeOk(game, Placed(c, to, rule60, Ply + 1), to, Ply + 1, pv)
  PROVE  Calling(g, Placed(c, to, rule60, Ply + 1))
<1> DEFINE d == Placed(c, to, rule60, Ply + 1)
<1>1. Level(g) = Ply + 2 /\ Len(line) = Ply + 1
  BY TopFacts, LineFacts DEF Level, SameNode
<1>2. Settled(Ply + 2) /\ line'[Ply + 2] = to
  BY <1>1, TopFacts, LineFacts DEF Settled
<1>3. GoesOn(g)
  BY <1>1, <1>2, TopFacts DEF GoesOn, SameNode
<1>5. Called(g, d)
  <2> HIDE DEF d
  <2>1. CalleeOk(game, d, to, Ply + 1, pv)
    BY DEF d
  <2> QED
    BY <1>1, <1>2, <2>1, TopFacts DEF Called, SameNode, CalleeOk
<1> QED
  BY <1>3, <1>5 DEF Calling, Call

\* The principal variations after such a step.
LinesOf(g) == OwnLine(game, ss', g) /\ LineBelow(game, ss', g) /\ QLineBelow(game, ss', g)
CallLines(g, c) ==
  /\ OwnLine(game, ss', g) /\ LineBelow(game, ss', g) /\ OwnLine(game, ss', c)
  /\ (c.at = "qjudge" /\ c.pv) \/ QLineBelow(game, ss', g)
FrameStep ==
  /\ ret'.value \in Int
  /\ \/ \E g : Staying(g) /\ LinesOf(g)
     \/ \E g, c : Calling(g, c) /\ CallLines(g, c)
     \/ Returning /\ (Top.pv /\ Top.at = "qjudge" => ss'[Top.ply].pv = << >>)

\* The fields of the current frame.
LEMMA TopFields ==
  ASSUME RestOk, FramesOk, stack # << >>
  PROVE  /\ Top.alpha \in Int /\ Top.beta \in Int /\ Top.depth \in Int /\ Top.best \in Int /\ Top.count \in Nat
         /\ Top.newDepth \in Int /\ Top.kept \in Int /\ Top.rule60 \in Int /\ Top.ply \in Nat /\ Top.slot \in Int
         /\ Top.pos \in Positions(game) /\ Top.asked \in Int \X Int /\ Top.hint \in Hints(game)
         /\ Top.cut \in BOOLEAN /\ Top.pv \in BOOLEAN /\ Top.root \in BOOLEAN
         /\ Top.bestMove \in Moves(game) \cup {NONE} /\ Top.move \in Moves(game) \cup {NONE}
         /\ Top.left \subseteq Legal(game, Top.pos) /\ Top.left \subseteq Moves(game)
         /\ Top.hint.value \in Int /\ Top.hint.depth \in Int /\ Top.hint.move \in Moves(game) \cup {NONE} /\ Top.hint.bound \in Bounds
         /\ Top.hint.pv \in BOOLEAN /\ Eval \in Int /\ Top.pos \in Positions(game) /\ ret.value \in Int
<1>1. Top \in Frames(game) /\ FrameOk(game, Top)
  BY TopFacts
<1>2. Top.hint \in Hints(game) /\ Top.pos \in Positions(game)
  BY <1>1 DEF Frames, FramesOf
<1>3. /\ Top.hint.value \in Int /\ Top.hint.depth \in Int /\ Top.hint.move \in Moves(game) \cup {NONE} /\ Top.hint.bound \in Bounds
      /\ Top.hint.pv \in BOOLEAN
  BY <1>2 DEF Hints
<1>4. Eval \in Int
  BY <1>2, GameFacts DEF Eval, G, RestOk
<1>5. Top.left \subseteq Legal(game, Top.pos)
  BY <1>1 DEF FrameOk
<1>6. /\ Top.alpha \in Int /\ Top.beta \in Int /\ Top.depth \in Int /\ Top.best \in Int /\ Top.count \in Nat
      /\ Top.newDepth \in Int /\ Top.kept \in Int /\ Top.rule60 \in Int /\ Top.ply \in Nat /\ Top.slot \in Int
      /\ Top.asked \in Int \X Int
      /\ Top.cut \in BOOLEAN /\ Top.pv \in BOOLEAN /\ Top.root \in BOOLEAN
  BY <1>1 DEF Frames, FramesOf
<1>7. /\ Top.bestMove \in Moves(game) \cup {NONE} /\ Top.move \in Moves(game) \cup {NONE} /\ Top.left \subseteq Moves(game)
  BY <1>1 DEF Frames, FramesOf
<1> QED
  BY <1>2, <1>3, <1>4, <1>5, <1>6, <1>7 DEF RestOk

LEMMA InvParts ==
  ASSUME Inv, stack # << >>
  PROVE  /\ FramesOk /\ StackInv /\ RestOk /\ RootInv /\ game \in DOMAIN Games
         /\ OwnLine(game, ss, Top) /\ LineBelow(game, ss, Top) /\ QLineBelow(game, ss, Top)
<1>1. FramesOk /\ StackInv /\ RestOk /\ RootInv /\ StackLines /\ game \in DOMAIN Games
  BY DEF Inv, RestOk
<1>2. Len(stack) \in 1 .. Len(stack) /\ Top = stack[Len(stack)] /\ ~Entered(Len(stack))
  BY <1>1, TopFacts DEF Entered
<1> QED
  BY <1>1, <1>2, Zenon DEF StackLines

\* The lines of a frame that goes on: its own is as it was, and the one below
\* too unless it was cleared.
InHandLineAt == {"singular", "singled", "make", "reduced", "scouted", "tried"}
LEMMA SameLines ==
  ASSUME Inv, stack # << >>, ss'[Ply].pv = ss[Ply].pv, Top.at # "qjudge",
         NEW g, g.ply = Top.ply, g.pos = Top.pos, g.pv = Top.pv, g.root = Top.root,
         g.at \in InHandLineAt =>
           \/ Top.at \in InHandLineAt /\ g.move = Top.move /\ ss'[Ply + 1].pv = ss[Ply + 1].pv
           \/ g.pv => ss'[Ply + 1].pv = << >>,
         g.at # "qtried"
  PROVE  LinesOf(g)
<1>1. Ply = Top.ply /\ OwnLine(game, ss, Top) /\ LineBelow(game, ss, Top)
  BY InvParts, TopFacts
<1>2. OwnLine(game, ss', g)
  BY <1>1 DEF OwnLine
<1>3. LineBelow(game, ss', g)
  <2>1. \A pos : PlayableIn(game, pos, << >>)
    BY DEF PlayableIn
  <2> QED
    BY <1>1, <2>1 DEF LineBelow, InHandLineAt
<1> QED
  BY <1>2, <1>3 DEF LinesOf, QLineBelow

LEMMA StayStep ==
  ASSUME Inv, stack # << >>, NEW g \in Frames(game), Stay(g), LinesOf(g),
         g.ply = Top.ply, g.pos = Top.pos, g.pv = Top.pv, g.root = Top.root,
         Ply < MAX_PLY, g.at \in NodeAt <=> Top.at \in NodeAt, g.at \in NodeAt => g.depth >= 1,
         g.left \subseteq Legal(game, Top.pos), g.at \in InHandAt => g.move \in Legal(game, Top.pos),
         \/ /\ UNCHANGED line /\ (g.at \in BelowAt <=> Top.at \in BelowAt)
            /\ g.at \in MadeAt => Top.at \in MadeAt /\ g.move = Top.move
         \/ TakenBack /\ Top.at \in BelowAt /\ g.at \notin BelowAt
  PROVE  FrameStep
<1>1. SameNode(g)
  BY InvParts, TopFacts, ConstantTypes DEF SameNode, FrameOk
<1>2. Staying(g)
  BY <1>1, InvParts, StayHere, StayBack
<1> QED
  BY <1>2, InvParts DEF FrameStep, Stay, RestOk

LEMMA ReturnStep ==
  ASSUME Inv, stack # << >>, NEW v \in Int, Return(v),
         (UNCHANGED line /\ Top.at \notin BelowAt) \/ (TakenBack /\ Top.at \in BelowAt),
         Top.pv /\ Top.at = "qjudge" => ss'[Top.ply].pv = << >>
  PROVE  FrameStep
<1>1. Returning /\ ret'.value \in Int
  BY InvParts, ReturnHere, ReturnBack
<1> QED
  BY <1>1 DEF FrameStep

LinesKept == \A p \in Plies : ss'[p].pv = ss[p].pv
LEMMA KeptHere ==
  ASSUME Inv, stack # << >>, LinesKept
  PROVE  ss'[Ply].pv = ss[Ply].pv /\ ss'[Ply + 1].pv = ss[Ply + 1].pv
<1>1. Ply \in Nat /\ Ply <= MAX_PLY
  BY InvParts, TopFacts DEF FrameOk
<1>2. Ply \in Plies /\ Ply + 1 \in Plies
  BY <1>1, ConstantTypes DEF Plies
<1> QED
  BY <1>2 DEF LinesKept

LEMMA GotoStep ==
  ASSUME Inv, stack # << >>, NEW at \in NodeAt \cup QuiescenceAt, Goto(at), LinesKept,
         Ply < MAX_PLY, at \in NodeAt <=> Top.at \in NodeAt, Top.at # "qjudge", at # "qtried",
         at \in InHandAt => Top.at \in InHandAt, at \in InHandLineAt => Top.at \in InHandLineAt,
         \/ UNCHANGED line /\ (at \in BelowAt <=> Top.at \in BelowAt) /\ (at \in MadeAt => Top.at \in MadeAt)
         \/ TakenBack /\ Top.at \in BelowAt /\ at \notin BelowAt
  PROVE  FrameStep
<1> DEFINE g == [Top EXCEPT !.at = at]
<1>1. FramesOk /\ RestOk /\ Top \in Frames(game) /\ FrameOk(game, Top)
  BY InvParts, TopFacts
<1>2. g \in Frames(game)
  BY <1>1, FrameUpdates DEF Frames
<1>3. /\ g.at = at /\ g.ply = Top.ply /\ g.pos = Top.pos /\ g.pv = Top.pv /\ g.root = Top.root
      /\ g.depth = Top.depth /\ g.left = Top.left /\ g.move = Top.move
  BY <1>1 DEF Frames, FramesOf
<1>4. Stay(g)
  BY DEF Goto
<1> HIDE DEF g
<1>5. LinesOf(g)
  BY <1>3, KeptHere, SameLines
<1>6. /\ g.at \in NodeAt => g.depth >= 1
      /\ g.left \subseteq Legal(game, Top.pos) /\ (g.at \in InHandAt => g.move \in Legal(game, Top.pos))
  BY <1>1, <1>3 DEF FrameOk
<1> QED
  BY <1>2, <1>3, <1>4, <1>5, <1>6, StayStep

\* The root is at ply 0.
LEMMA RootPly ==
  ASSUME Inv, stack # << >>, Top.root
  PROVE  Ply = 0
<1>1. StackLines /\ Len(stack) \in 1 .. Len(stack) /\ stack[Len(stack)].root
  <2>1. FramesOk /\ StackLines
    BY InvParts DEF Inv
  <2> QED
    BY <2>1, TopFacts
<1>2. Len(stack) = 1
  BY <1>1, Zenon DEF StackLines
<1> QED
  BY <1>2, InvParts, TopFacts DEF StackInv

LEMMA DeepPly ==
  ASSUME Inv, stack # << >>, Top.at \notin {"judge", "qjudge"}
  PROVE  Ply < MAX_PLY
BY InvParts, TopFacts DEF FrameOk

LEMMA Deeper ==
  ASSUME Inv, stack # << >>, Top.at \notin {"judge", "qjudge"}
  PROVE  Ply + 1 \in Nat /\ Ply + 1 <= MAX_PLY
<1>1. Ply < MAX_PLY /\ Ply \in Nat
  BY DeepPly, InvParts, TopFacts
<1> QED
  BY <1>1, ConstantTypes

\* rule_judge's window, and what search_node does before its table probe.
LEMMA WindowType ==
  ASSUME Inv, stack # << >>, NEW margin \in Int, NEW f \in TwoFold(Top, margin) \cup {Top}
  PROVE  /\ f \in Frames(game) /\ f.at = Top.at /\ f.ply = Top.ply /\ f.pos = Top.pos /\ f.pv = Top.pv /\ f.root = Top.root
         /\ f.depth = Top.depth /\ f.left = Top.left /\ f.move = Top.move /\ f.alpha \in Int /\ f.beta \in Int
<1>1. FramesOk /\ RestOk /\ Top \in Frames(game) /\ Top.alpha \in Int /\ Top.beta \in Int
  BY InvParts, TopFacts, TopFields
<1>2. Larger(Top.alpha, VALUE_DRAW - margin) \in Int /\ Smaller(Top.beta, VALUE_DRAW + margin) \in Int
  <2>1. VALUE_DRAW - margin \in Int /\ VALUE_DRAW + margin \in Int
    BY DEF VALUE_DRAW
  <2> QED
    BY <1>1, <2>1, ChoiceTypes
<1>3. CASE f = Top
  BY <1>1, <1>3
<1>4. ASSUME NEW v \in Int, f = [Top EXCEPT !.alpha = v] \/ f = [Top EXCEPT !.beta = v]
      PROVE  /\ f \in Frames(game) /\ f.at = Top.at /\ f.ply = Top.ply /\ f.pos = Top.pos /\ f.pv = Top.pv /\ f.root = Top.root
             /\ f.depth = Top.depth /\ f.left = Top.left /\ f.move = Top.move /\ f.alpha \in Int /\ f.beta \in Int
  <2>1. f \in Frames(game)
    BY <1>1, <1>4, FrameUpdates DEF Frames
  <2> QED
    BY <1>1, <1>4, <2>1 DEF Frames, FramesOf
<1> QED
  BY <1>2, <1>3, <1>4 DEF TwoFold

LEMMA EnterStep ==
  ASSUME Inv, Running("judge"), NEW f \in TwoFold(Top, 1) \cup {Top}, Enter(f), UNCHANGED line, LinesKept
  PROVE  FrameStep
<1> stack # << >> /\ Top.at = "judge"
  BY DEF Running
<1>1. FramesOk /\ RestOk /\ Ply \in Nat /\ Ply = Top.ply /\ Eval \in Int /\ FrameOk(game, Top)
  BY InvParts, TopFacts, TopFields
<1>2. Larger(f.alpha, mated_in(Ply)) \in Int /\ Smaller(f.beta, mate_in(Ply + 1)) \in Int
  <2>1. f.alpha \in Int /\ f.beta \in Int
    BY WindowType
  <2>2. mated_in(Ply) \in Int /\ mate_in(Ply + 1) \in Int
    <3>1. Ply \in Int /\ Ply + 1 \in Int
      BY <1>1
    <3> QED
      BY <3>1, MateTypes
  <2> QED
    BY <2>1, <2>2, ChoiceTypes
<1>3. ASSUME NEW v \in Int, Return(v)
      PROVE  FrameStep
  BY <1>3, ReturnStep DEF BelowAt, MadeAt
<1>4. Draws \subseteq Int
  BY DEF Draws, VALUE_DRAW
<1>5. ASSUME NEW alpha \in Int, NEW beta \in Int, Ply < MAX_PLY,
             Stay([f EXCEPT !.at = "probe", !.alpha = alpha, !.beta = beta])
      PROVE  FrameStep
  <2> DEFINE g == [f EXCEPT !.at = "probe", !.alpha = alpha, !.beta = beta]
  <2>0. /\ f \in Frames(game) /\ f.ply = Top.ply /\ f.pos = Top.pos /\ f.pv = Top.pv /\ f.root = Top.root
        /\ f.depth = Top.depth /\ f.left = Top.left
    <3>1. 1 \in Int
      OBVIOUS
    <3> QED
      BY <3>1, WindowType
  <2>1. g \in Frames(game)
    <3>1. "probe" \in NodeAt \cup QuiescenceAt
      BY DEF NodeAt
    <3> QED
      BY <2>0, <3>1, FrameUpdates DEF Frames
  <2>2. /\ g.at = "probe" /\ g.ply = Top.ply /\ g.pos = Top.pos /\ g.pv = Top.pv /\ g.root = Top.root
        /\ g.depth = Top.depth /\ g.left = Top.left
    BY <2>0 DEF Frames, FramesOf
  <2> HIDE DEF g
  <2>3. LinesOf(g)
    BY <1>5, <2>2, KeptHere, SameLines DEF InHandLineAt
  <2>4. g.depth >= 1 /\ g.left \subseteq Legal(game, Top.pos)
    BY <1>1, <2>2 DEF FrameOk, NodeAt
  <2>5. Stay(g)
    BY <1>5 DEF g
  <2> QED
    BY <1>5, <2>1, <2>2, <2>3, <2>4, <2>5, StayStep DEF NodeAt, InHandAt, MadeAt, BelowAt
<1>6. CASE Ply >= MAX_PLY /\ ~InCheck
  BY <1>1, <1>3, <1>6 DEF Enter
<1>7. CASE ~(Ply >= MAX_PLY /\ ~InCheck) /\ (stop \/ Ply >= MAX_PLY)
  BY <1>3, <1>4, <1>7 DEF Enter
<1>8. CASE ~(stop \/ Ply >= MAX_PLY)
  <2>1. Ply < MAX_PLY
    BY <1>1, <1>8, ConstantTypes
  <2> QED
    BY <1>2, <1>3, <1>5, <1>8, <2>1 DEF Enter
<1> QED
  BY <1>6, <1>7, <1>8

LEMMA LegalFacts ==
  ASSUME game \in DOMAIN Games, NEW pos \in Positions(game)
  PROVE  /\ LegalMoves(pos) = Legal(game, pos) /\ Legal(game, pos) \subseteq Moves(game)
         /\ Captures(LegalMoves(pos)) \subseteq Legal(game, pos)
         /\ \A m \in Legal(game, pos) : m.to \in Positions(game) /\ \A r \in Int : After(m, r) \in Int
<1>1. LegalMoves(pos) = Legal(game, pos)
  BY DEF LegalMoves, MovesOf, G, Legal
<1>2. Legal(game, pos) \subseteq Moves(game)
  BY GameFacts
<1>3. \A m \in Moves(game) : m.to \in Positions(game) /\ \A r \in Int : After(m, r) \in Int
  BY DEF Moves, After
<1> QED
  BY <1>1, <1>2, <1>3 DEF Captures

-----------------------------------------------------------------------------
\* One lemma for each action of a node: what it does to the frames and the
\* line.

LEMMA KeptWhenSame ==
  ASSUME UNCHANGED ss
  PROVE  LinesKept
BY DEF LinesKept

LEMMA JudgeStep ==
  ASSUME Inv, Judge
  PROVE  FrameStep
<1> /\ Running("judge") /\ stack # << >> /\ Top.at = "judge" /\ UNCHANGED <<line, ss>> /\ LinesKept
  BY KeptWhenSame DEF Judge, Running
<1>1. ASSUME NEW v \in Int, Return(v)
      PROVE  FrameStep
  BY <1>1, ReturnStep DEF BelowAt, MadeAt
<1>2. Draws \subseteq Int /\ mated_in(Ply) \in Int
  <2>1. Ply \in Int
    BY InvParts, TopFacts
  <2> QED
    BY <2>1, MateTypes DEF Draws, VALUE_DRAW
<1>3. CASE Top.root /\ Goto("probe")
  <2>1. Ply < MAX_PLY
    BY <1>3, RootPly, ConstantTypes
  <2>2. "probe" \in NodeAt \cup QuiescenceAt
    BY DEF NodeAt
  <2> QED
    BY <1>3, <2>1, <2>2, GotoStep DEF NodeAt, InHandAt, InHandLineAt, BelowAt, MadeAt
<1>4. CASE Judged(Top, Draws)
  BY <1>1, <1>2, <1>4 DEF Judged
<1>5. CASE \E f \in TwoFold(Top, 1) \cup {Top} : Enter(f)
  BY <1>5, EnterStep
<1>6. CASE \E v \in Draws : Return(v)
  BY <1>1, <1>2, <1>6
<1> QED
  BY <1>3, <1>4, <1>5, <1>6 DEF Judge

LEMMA CutoffStep ==
  ASSUME Inv, Cutoff
  PROVE  FrameStep
<1> /\ stack # << >> /\ Top.at = "cutoff" /\ UNCHANGED <<line, ss>> /\ LinesKept
  BY KeptWhenSame DEF Cutoff, Running
<1>1. CASE Return(Top.hint.value)
  <2>1. Top.hint.value \in Int
    BY InvParts, TopFields
  <2> QED
    BY <1>1, <2>1, ReturnStep DEF BelowAt, MadeAt
<1>2. CASE Goto("prune")
  <2>1. "prune" \in NodeAt \cup QuiescenceAt
    BY DEF NodeAt
  <2> QED
    BY <1>2, <2>1, DeepPly, GotoStep DEF NodeAt, InHandAt, InHandLineAt, BelowAt, MadeAt
<1> QED
  BY <1>1, <1>2 DEF Cutoff

LEMMA BetteredType ==
  ASSUME Inv, stack # << >>, NEW hint \in Hints(game), NEW usable
  PROVE  Bettered(hint, usable) \in Int
<1>1. hint.value \in Int /\ Eval \in Int
  BY InvParts, TopFields DEF Hints
<1> QED
  BY <1>1 DEF Bettered

LEMMA QuotientType ==
  ASSUME NEW a \in Int, NEW b \in Int, b > 0
  PROVE  Quotient(a, b) \in Int
BY DEF Quotient

LEMMA PruneStep ==
  ASSUME Inv, Prune
  PROVE  FrameStep
<1> /\ stack # << >> /\ Top.at = "prune" /\ UNCHANGED <<line, ss>> /\ LinesKept
  BY KeptWhenSame DEF Prune, Running
<1> DEFINE eval == Bettered(Top.hint, Excluded = NONE)
           c == Placed(qsearch(Top.alpha, Top.beta, FALSE), Top.pos, Top.rule60, Top.ply)
           g == [c EXCEPT !.asked = Top.asked]
<1>1. FramesOk /\ StackInv /\ RestOk /\ FrameOk(game, Top) /\ Ply < MAX_PLY
  BY InvParts, TopFacts, DeepPly
<1>2. ASSUME NEW at \in {"small", "null"}, Goto(at)
      PROVE  FrameStep
  <2>1. at \in NodeAt \cup QuiescenceAt
    BY DEF NodeAt
  <2> QED
    BY <1>1, <1>2, <2>1, GotoStep DEF NodeAt, InHandAt, InHandLineAt, BelowAt, MadeAt
<1>3. CASE AllNode(Top) /\ Stay(g)
  <2>1. Top.pv = FALSE /\ Top.root = FALSE
    BY <1>1, <1>3, TopFields DEF AllNode, FrameOk
  <2>2. CalleeOk(game, c, Top.pos, Top.ply, FALSE)
    <3>1. /\ Top.alpha \in Int /\ Top.beta \in Int /\ Top.pos \in Positions(game) /\ Top.rule60 \in Int
          /\ Top.ply \in Nat /\ Top.ply <= MAX_PLY
      BY <1>1, TopFields DEF FrameOk
    <3> QED
      BY <3>1, QScoutCallee
  <2>3. c.at = "qjudge" /\ c \in Frames(game) /\ c.root = FALSE /\ c.pv = FALSE
    <3>1. c.at = "qjudge"
      BY DEF Placed, qsearch, NewFrame
    <3> HIDE DEF c
    <3>2. c \in Frames(game) /\ ~c.root /\ c.pv = FALSE
      BY <2>2 DEF CalleeOk, FrameOk
    <3>3. c.root \in BOOLEAN
      BY <3>2 DEF Frames, FramesOf
    <3> QED
      BY <3>1, <3>2, <3>3
  <2> HIDE DEF c
  <2>4. g \in Frames(game)
    BY <1>1, <2>3, TopFields, FrameUpdates DEF Frames
  <2>5. /\ g.at = c.at /\ g.root = c.root /\ g.pv = c.pv /\ g.pos = c.pos /\ g.ply = c.ply /\ g.left = c.left
        /\ g.depth = c.depth
    BY <2>3 DEF Frames, FramesOf
  <2> HIDE DEF g
  <2>6. FrameOk(game, g) /\ g.at = "qjudge" /\ ~g.pv
    BY <2>2, <2>3, <2>4, <2>5 DEF FrameOk, CalleeOk, NodeAt, InHandAt, MadeAt
  <2>7. SameNode(g)
    BY <2>1, <2>2, <2>3, <2>5, <2>6 DEF SameNode, CalleeOk
  <2>8. Staying(g)
    BY <1>1, <1>3, <2>6, <2>7, StayHere DEF BelowAt, MadeAt
  <2>9. LinesOf(g)
    BY <2>6 DEF LinesOf, OwnLine, LineBelow, QLineBelow
  <2> QED
    BY <1>1, <1>3, <2>8, <2>9 DEF FrameStep, Stay, RestOk
<1>4. CASE Return(Quotient(718 * Top.beta + 306 * eval, 1024))
  <2>1. eval \in Int /\ Top.beta \in Int
    BY <1>1, TopFields, BetteredType
  <2> HIDE DEF eval
  <2>2. 718 * Top.beta + 306 * eval \in Int
    BY <2>1
  <2>3. Quotient(718 * Top.beta + 306 * eval, 1024) \in Int
    BY <2>2, QuotientType
  <2> QED
    BY <1>4, <2>3, ReturnStep DEF BelowAt, MadeAt
<1> QED
  BY <1>2, <1>3, <1>4 DEF Prune

\* The moves of ProbCut, after the null move or without it.
LEMMA CaptureFirstStep ==
  ASSUME Inv, stack # << >>, Stay(CaptureFirst(Top)), LinesKept, Top.at \in {"null", "nulled", "verified"},
         (UNCHANGED line /\ Top.at \notin BelowAt) \/ (TakenBack /\ Top.at \in BelowAt)
  PROVE  FrameStep
<1> DEFINE moves == Captures(LegalMoves(Top.pos))
           g == [Top EXCEPT !.at = "probcut", !.left = moves]
<1>1. FramesOk /\ RestOk /\ Top \in Frames(game) /\ FrameOk(game, Top) /\ Ply < MAX_PLY
  BY InvParts, TopFacts, DeepPly
<1>2. moves \subseteq Legal(game, Top.pos) /\ moves \subseteq Moves(game)
  BY <1>1, TopFields, LegalFacts DEF RestOk
<1>3. Stay(g)
  BY DEF CaptureFirst
<1> HIDE DEF moves
<1>4. g \in Frames(game)
  <2>1. "probcut" \in NodeAt \cup QuiescenceAt /\ moves \in SUBSET Moves(game)
    BY <1>2 DEF NodeAt
  <2> QED
    BY <1>1, <2>1, FrameUpdates DEF Frames
<1>5. /\ g.at = "probcut" /\ g.ply = Top.ply /\ g.pos = Top.pos /\ g.pv = Top.pv /\ g.root = Top.root
      /\ g.depth = Top.depth /\ g.left = moves
  BY <1>1 DEF Frames, FramesOf
<1> HIDE DEF g
<1>6. LinesOf(g)
  BY <1>5, KeptHere, SameLines DEF InHandLineAt
<1>7. g.depth >= 1
  BY <1>1, <1>5 DEF FrameOk, NodeAt
<1> QED
  BY <1>1, <1>2, <1>3, <1>4, <1>5, <1>6, <1>7, StayStep DEF NodeAt, BelowAt, MadeAt, InHandAt

\* A call off the principal variation, or any call of a frame that keeps it.
LEMMA ScoutStep ==
  ASSUME Inv, stack # << >>, NEW g, NEW c, Calling(g, c), UNCHANGED ret, LinesKept, ~c.pv,
         Top.at # "qjudge", g.at # "qtried",
         g.at \in InHandLineAt /\ g.pv => Top.at \in InHandLineAt /\ g.move = Top.move
  PROVE  FrameStep
<1>1. g.ply = Top.ply /\ g.pos = Top.pos /\ g.pv = Top.pv /\ g.root = Top.root
  BY DEF Calling, GoesOn, SameNode
<1>2. CASE g.pv \/ g.at \notin InHandLineAt
  <2>1. LinesOf(g)
    BY <1>1, <1>2, KeptHere, SameLines
  <2> QED
    BY <2>1, InvParts DEF LinesOf, CallLines, FrameStep, OwnLine, RestOk
<1>3. CASE ~g.pv
  BY <1>3, InvParts DEF LinesOf, CallLines, FrameStep, OwnLine, LineBelow, QLineBelow, RestOk
<1> QED
  BY <1>2, <1>3

LEMMA TryNullStep ==
  ASSUME Inv, TryNull
  PROVE  FrameStep
<1> /\ stack # << >> /\ Top.at = "null" /\ UNCHANGED ss /\ LinesKept
  BY KeptWhenSame DEF TryNull, Running
<1> DEFINE g == [Top EXCEPT !.at = "nulled"]
           to == G.null[Top.pos]
           c == ab_search(-Top.beta, -Top.beta + 1, Top.depth - NullReduction, FALSE)
<1>1. FramesOk /\ StackInv /\ RestOk /\ Top \in Frames(game) /\ FrameOk(game, Top) /\ Ply < MAX_PLY /\ Ply \in Nat
  BY InvParts, TopFacts, DeepPly
<1>2. CASE Stay(CaptureFirst(Top)) /\ UNCHANGED line
  BY <1>2, CaptureFirstStep DEF BelowAt, MadeAt
<1>3. CASE Call(g, c, to, Top.rule60, Ply + 1) /\ to # NONE /\ line' = Append(line, to)
  <2>1. to \in Positions(game)
    BY <1>1, <1>3, TopFields, GameFacts DEF G, RestOk
  <2>2. CalleeOk(game, Placed(c, to, Top.rule60, Ply + 1), to, Ply + 1, FALSE)
    <3>1. Top.beta \in Int /\ Top.depth \in Int /\ Top.rule60 \in Int /\ Ply + 1 \in Nat /\ Ply + 1 <= MAX_PLY
      BY <1>1, TopFields, Deeper
    <3>2. -Top.beta \in Int /\ -Top.beta + 1 \in Int /\ Top.depth - NullReduction \in Int
      BY <3>1, ConstantTypes
    <3> QED
      BY <2>1, <3>1, <3>2, AbScoutCallee
  <2>3. g \in Frames(game)
    <3>1. "nulled" \in NodeAt \cup QuiescenceAt
      BY DEF NodeAt
    <3> QED
      BY <1>1, <3>1, FrameUpdates DEF Frames
  <2>4. /\ g.at = "nulled" /\ g.ply = Top.ply /\ g.pos = Top.pos /\ g.pv = Top.pv /\ g.root = Top.root
        /\ g.depth = Top.depth /\ g.left = Top.left
    BY <1>1 DEF Frames, FramesOf
  <2> HIDE DEF g, c, to
  <2>5. SameNode(g)
    BY <1>1, <2>3, <2>4 DEF SameNode, FrameOk, NodeAt, InHandAt, MadeAt
  <2>6. Calling(g, Placed(c, to, Top.rule60, Ply + 1))
    BY <1>1, <1>3, <2>1, <2>2, <2>4, <2>5, CallStep DEF BelowAt, MadeAt
  <2>7. ~Placed(c, to, Top.rule60, Ply + 1).pv
    BY <2>2 DEF CalleeOk
  <2> QED
    BY <1>3, <2>4, <2>6, <2>7, ScoutStep DEF InHandLineAt, Call
<1> QED
  BY <1>2, <1>3 DEF TryNull

LEMMA NullSearchedStep ==
  ASSUME Inv, NullSearched
  PROVE  FrameStep
<1> /\ stack # << >> /\ Top.at = "nulled" /\ UNCHANGED ss /\ LinesKept /\ TakenBack
  BY KeptWhenSame DEF NullSearched, Running
<1> DEFINE value == -ret.value
           depth == Top.depth - NullReduction
           g == [Top EXCEPT !.at = "verified", !.kept = value]
           c == ab_search(Top.beta - 1, Top.beta, depth, FALSE)
<1>1. FramesOk /\ StackInv /\ RestOk /\ Top \in Frames(game) /\ FrameOk(game, Top) /\ Ply < MAX_PLY /\ Ply \in Nat
  BY InvParts, TopFacts, DeepPly
<1>2. value \in Int /\ depth \in Int /\ Top.beta \in Int /\ Top.rule60 \in Int /\ Top.pos \in Positions(game)
  <2>1. ret.value \in Int /\ Top.depth \in Int /\ Top.beta \in Int /\ Top.rule60 \in Int /\ Top.pos \in Positions(game)
    BY <1>1, TopFields
  <2> QED
    BY <2>1, ConstantTypes
<1>3. CASE Stay(CaptureFirst(Top))
  BY <1>3, CaptureFirstStep DEF BelowAt
<1>4. CASE Return(value)
  BY <1>2, <1>4, ReturnStep DEF BelowAt
<1>5. CASE CallHere(g, c)
  <2> HIDE DEF value, depth
  <2>1. g \in Frames(game)
    <3>1. "verified" \in NodeAt \cup QuiescenceAt
      BY DEF NodeAt
    <3> QED
      BY <1>1, <1>2, <3>1, FrameUpdates DEF Frames
  <2>2. /\ g.at = "verified" /\ g.ply = Top.ply /\ g.pos = Top.pos /\ g.pv = Top.pv /\ g.root = Top.root
        /\ g.depth = Top.depth /\ g.left = Top.left /\ g.rule60 = Top.rule60
    BY <1>1 DEF Frames, FramesOf
  <2>3. CalleeOk(game, Placed(c, Top.pos, Top.rule60, Ply), Top.pos, Ply, FALSE)
    <3>1. Top.beta - 1 \in Int /\ Top.beta - 1 + 1 = Top.beta /\ Ply <= MAX_PLY
      BY <1>1, <1>2, ConstantTypes
    <3> QED
      BY <1>1, <1>2, <3>1, AbScoutCallee
  <2> HIDE DEF g, c
  <2>4. SameNode(g)
    BY <1>1, <2>1, <2>2 DEF SameNode, FrameOk, NodeAt, InHandAt, MadeAt
  <2>5. Calling(g, Placed(c, g.pos, g.rule60, Ply))
    BY <1>1, <1>5, <2>2, <2>3, <2>4, CallHereStep DEF BelowAt, MadeAt
  <2>6. ~Placed(c, g.pos, g.rule60, Ply).pv
    BY <2>2, <2>3 DEF CalleeOk
  <2> QED
    BY <1>5, <2>2, <2>5, <2>6, ScoutStep DEF InHandLineAt, CallHere, Call
<1> QED
  BY <1>3, <1>4, <1>5 DEF NullSearched

LEMMA NullVerifiedStep ==
  ASSUME Inv, NullVerified
  PROVE  FrameStep
<1> /\ stack # << >> /\ Top.at = "verified" /\ UNCHANGED <<line, ss>> /\ LinesKept
  BY KeptWhenSame DEF NullVerified, Running
<1>1. CASE Return(Top.kept)
  <2>1. Top.kept \in Int
    BY InvParts, TopFields
  <2> QED
    BY <1>1, <2>1, ReturnStep DEF BelowAt, MadeAt
<1>2. CASE Stay(CaptureFirst(Top))
  BY <1>2, CaptureFirstStep DEF BelowAt, MadeAt
<1> QED
  BY <1>1, <1>2 DEF NullVerified

LEMMA ProbCutStep ==
  ASSUME Inv, ProbCut
  PROVE  FrameStep
<1> /\ stack # << >> /\ Top.at = "probcut" /\ UNCHANGED ss /\ LinesKept
  BY KeptWhenSame DEF ProbCut, Running
<1>1. FramesOk /\ StackInv /\ RestOk /\ Top \in Frames(game) /\ FrameOk(game, Top) /\ Ply < MAX_PLY /\ Ply \in Nat
  BY InvParts, TopFacts, DeepPly
<1>2. CASE Goto("small") /\ UNCHANGED line
  <2>1. "small" \in NodeAt \cup QuiescenceAt
    BY DEF NodeAt
  <2> QED
    BY <1>1, <1>2, <2>1, GotoStep DEF NodeAt, InHandAt, InHandLineAt, BelowAt, MadeAt
<1>3. ASSUME NEW m \in Top.left,
             CallAfter([Top EXCEPT !.at = "probed", !.move = m, !.left = {k \in @ : Precedes(Top, m, k)}],
                       qsearch(-prob_cut_beta(Top), -prob_cut_beta(Top) + 1, FALSE))
      PROVE  FrameStep
  <2> DEFINE left == {k \in Top.left : Precedes(Top, m, k)}
             g == [Top EXCEPT !.at = "probed", !.move = m, !.left = left]
             c == qsearch(-prob_cut_beta(Top), -prob_cut_beta(Top) + 1, FALSE)
             r == After(m, Top.rule60)
  <2>1. /\ Top.left \subseteq Legal(game, Top.pos) /\ Top.left \subseteq Moves(game) /\ Top.beta \in Int /\ Top.rule60 \in Int
        /\ Top.pos \in Positions(game)
    BY <1>1, TopFields
  <2>2. m.to \in Positions(game) /\ r \in Int
    BY <1>1, <2>1, LegalFacts DEF RestOk
  <2>3. CallAfter(g, c)
    BY <1>3
  <2>4. CalleeOk(game, Placed(c, m.to, r, Ply + 1), m.to, Ply + 1, FALSE)
    <3>1. -prob_cut_beta(Top) \in Int /\ -prob_cut_beta(Top) + 1 \in Int
      BY <2>1, ConstantTypes DEF prob_cut_beta
    <3>2. Ply + 1 \in Nat /\ Ply + 1 <= MAX_PLY
      BY Deeper
    <3> QED
      BY <2>2, <3>1, <3>2, QScoutCallee
  <2> HIDE DEF c, r
  <2>5. left \in SUBSET Moves(game) /\ left \subseteq Legal(game, Top.pos)
    BY <2>1
  <2> HIDE DEF left
  <2>6. g \in Frames(game)
    <3>1. "probed" \in NodeAt \cup QuiescenceAt /\ m \in Moves(game) \cup {NONE}
      BY <2>1 DEF NodeAt
    <3> QED
      BY <1>1, <2>5, <3>1, FrameUpdates DEF Frames
  <2>7. /\ g.at = "probed" /\ g.ply = Top.ply /\ g.pos = Top.pos /\ g.pv = Top.pv /\ g.root = Top.root
        /\ g.depth = Top.depth /\ g.left = left /\ g.move = m /\ g.rule60 = Top.rule60
    BY <1>1 DEF Frames, FramesOf
  <2> HIDE DEF g
  <2>8. SameNode(g)
    BY <1>1, <2>1, <2>5, <2>6, <2>7 DEF SameNode, FrameOk, NodeAt
  <2>9. Call(g, c, m.to, r, Ply + 1) /\ line' = Append(line, m.to)
    BY <2>3, <2>7 DEF CallAfter, r
  <2>10. Calling(g, Placed(c, m.to, r, Ply + 1))
    BY <1>1, <2>2, <2>4, <2>7, <2>8, <2>9, CallStep DEF BelowAt, MadeAt
  <2>11. ~Placed(c, m.to, r, Ply + 1).pv
    BY <2>4 DEF CalleeOk
  <2> QED
    BY <2>7, <2>9, <2>10, <2>11, ScoutStep DEF InHandLineAt, Call
<1> QED
  BY <1>2, <1>3 DEF ProbCut

\* The searches after a move with a window of one point.
LEMMA ScoutingCallee ==
  ASSUME Inv, stack # << >>, Ply < MAX_PLY, NEW alpha \in Int, NEW beta \in Int, alpha + 1 = beta,
         NEW depth \in Int, NEW cut \in BOOLEAN, NEW m \in Legal(game, Top.pos)
  PROVE  /\ m.to \in Positions(game) /\ m \in Moves(game) /\ After(m, Top.rule60) \in Int
         /\ CalleeOk(game, Placed(ab_search(alpha, beta, depth, cut), m.to, After(m, Top.rule60), Ply + 1), m.to, Ply + 1, FALSE)
<1>1. FramesOk /\ RestOk /\ Ply \in Nat /\ game \in DOMAIN Games
  BY InvParts, TopFacts
<1>2. Top.pos \in Positions(game) /\ Top.rule60 \in Int
  BY <1>1, TopFields
<1>3. m.to \in Positions(game) /\ m \in Moves(game) /\ After(m, Top.rule60) \in Int
  BY <1>1, <1>2, LegalFacts
<1>4. Ply + 1 \in Nat /\ Ply + 1 <= MAX_PLY
  BY <1>1, ConstantTypes
<1> QED
  BY <1>3, <1>4, AbCallee

\* The position after the move in hand, where it is made.
LEMMA MadePosition ==
  ASSUME Inv, stack # << >>, Top.at \in MadeAt
  PROVE  Pos = Top.move.to /\ Top.move \in Legal(game, Top.pos)
<1>1. FramesOk /\ StackInv /\ FrameOk(game, Top) /\ Ply = Top.ply
  BY InvParts, TopFacts
<1>2. Len(line) = Ply + 2 /\ line[Ply + 2] = Top.move.to
  BY <1>1, LineFacts DEF Level, BelowAt
<1> QED
  BY <1>1, <1>2 DEF Pos, FrameOk, InHandAt

LEMMA ProbCutHoldsStep ==
  ASSUME Inv, ProbCutHolds
  PROVE  FrameStep
<1> /\ stack # << >> /\ Top.at = "probed" /\ UNCHANGED ss /\ LinesKept
  BY KeptWhenSame DEF ProbCutHolds, Running
<1>1. FramesOk /\ StackInv /\ RestOk /\ Top \in Frames(game) /\ FrameOk(game, Top) /\ Ply < MAX_PLY /\ Ply \in Nat
  BY InvParts, TopFacts, DeepPly
<1>2. "probedTwice" \in NodeAt \cup QuiescenceAt
  BY DEF NodeAt
<1>3. CASE Goto("probedTwice") /\ UNCHANGED line
  BY <1>1, <1>2, <1>3, GotoStep DEF NodeAt, InHandAt, InHandLineAt, BelowAt, MadeAt
<1> DEFINE alpha == -prob_cut_beta(Top)
           beta == alpha + 1
           depth == prob_cut_depth(Top)
           cut == ~Top.cut
           c == ab_search(alpha, beta, depth, cut)
           g == [Top EXCEPT !.at = "probedTwice"]
           r == After(Top.move, Top.rule60)
<1>4. CASE CallBelow(g, c)
  <2>1. alpha \in Int /\ beta \in Int /\ alpha + 1 = beta /\ depth \in Int /\ cut \in BOOLEAN
    <3>1. Top.beta \in Int /\ Top.depth \in Int
      BY <1>1, TopFields
    <3> QED
      BY <3>1, ConstantTypes DEF prob_cut_beta, prob_cut_depth
  <2> HIDE DEF alpha, beta, depth, cut
  <2>2. Pos = Top.move.to /\ Top.move \in Legal(game, Top.pos)
    BY MadePosition DEF MadeAt
  <2>3. CalleeOk(game, Placed(c, Pos, r, Ply + 1), Pos, Ply + 1, FALSE)
    BY <1>1, <2>1, <2>2, ScoutingCallee
  <2>4. g \in Frames(game)
    BY <1>1, <1>2, FrameUpdates DEF Frames
  <2>5. /\ g.at = "probedTwice" /\ g.ply = Top.ply /\ g.pos = Top.pos /\ g.pv = Top.pv /\ g.root = Top.root
        /\ g.depth = Top.depth /\ g.left = Top.left /\ g.move = Top.move /\ g.rule60 = Top.rule60
    BY <1>1 DEF Frames, FramesOf
  <2> HIDE DEF c, g, r
  <2>6. SameNode(g)
    BY <1>1, <2>2, <2>4, <2>5 DEF SameNode, FrameOk, NodeAt
  <2>7. Calling(g, Placed(c, Pos, r, Ply + 1))
    BY <1>1, <1>4, <2>3, <2>5, <2>6, CallBelowStep DEF MadeAt, r
  <2>8. ~Placed(c, Pos, r, Ply + 1).pv
    BY <2>3 DEF CalleeOk
  <2> QED
    BY <1>4, <2>5, <2>7, <2>8, ScoutStep DEF InHandLineAt, CallBelow, Call
<1> QED
  BY <1>3, <1>4 DEF ProbCutHolds

LEMMA ProbCutDoneStep ==
  ASSUME Inv, ProbCutDone
  PROVE  FrameStep
<1> /\ stack # << >> /\ Top.at = "probedTwice" /\ UNCHANGED ss /\ LinesKept /\ TakenBack
  BY KeptWhenSame DEF ProbCutDone, Running
<1>1. FramesOk /\ RestOk /\ Ply < MAX_PLY
  BY InvParts, DeepPly
<1>2. CASE Goto("probcut")
  <2>1. "probcut" \in NodeAt \cup QuiescenceAt
    BY DEF NodeAt
  <2> QED
    BY <1>1, <1>2, <2>1, GotoStep DEF NodeAt, InHandAt, InHandLineAt, BelowAt, MadeAt
<1>3. CASE Return(-ret.value - (prob_cut_beta(Top) - Top.beta))
  <2>1. ret.value \in Int /\ Top.beta \in Int
    BY <1>1, TopFields
  <2>2. -ret.value - (prob_cut_beta(Top) - Top.beta) \in Int
    BY <2>1, ConstantTypes DEF prob_cut_beta
  <2> QED
    BY <1>3, <2>2, ReturnStep DEF BelowAt, MadeAt
<1> QED
  BY <1>2, <1>3 DEF ProbCutDone

LEMMA SmallProbCutStep ==
  ASSUME Inv, SmallProbCut
  PROVE  FrameStep
<1> /\ stack # << >> /\ Top.at = "small" /\ UNCHANGED <<line, ss>> /\ LinesKept
  BY KeptWhenSame DEF SmallProbCut, Running
<1>1. FramesOk /\ RestOk /\ Top \in Frames(game) /\ FrameOk(game, Top) /\ Ply < MAX_PLY
  BY InvParts, TopFacts, DeepPly
<1>2. CASE Return(Top.beta + 2 * Margin)
  <2>1. Top.beta \in Int
    BY <1>1, TopFields
  <2>2. Top.beta + 2 * Margin \in Int
    BY <2>1, ConstantTypes
  <2> QED
    BY <1>2, <2>2, ReturnStep DEF BelowAt, MadeAt
<1> DEFINE moves == LegalMoves(Top.pos)
           g == [Top EXCEPT !.at = "next", !.left = moves]
<1>3. CASE Stay(g)
  <2>1. moves = Legal(game, Top.pos) /\ moves \in SUBSET Moves(game)
    BY <1>1, TopFields, LegalFacts DEF RestOk
  <2> HIDE DEF moves
  <2>2. g \in Frames(game)
    <3>1. "next" \in NodeAt \cup QuiescenceAt
      BY DEF NodeAt
    <3> QED
      BY <1>1, <2>1, <3>1, FrameUpdates DEF Frames
  <2>3. /\ g.at = "next" /\ g.ply = Top.ply /\ g.pos = Top.pos /\ g.pv = Top.pv /\ g.root = Top.root
        /\ g.depth = Top.depth /\ g.left = moves
    BY <1>1 DEF Frames, FramesOf
  <2> HIDE DEF g
  <2>4. LinesOf(g)
    BY <2>3, KeptHere, SameLines DEF InHandLineAt
  <2>5. g.depth >= 1
    BY <1>1, <2>3 DEF FrameOk, NodeAt
  <2> QED
    BY <1>1, <1>3, <2>1, <2>2, <2>3, <2>4, <2>5, StayStep DEF NodeAt, BelowAt, MadeAt, InHandAt
<1> QED
  BY <1>2, <1>3 DEF SmallProbCut

-----------------------------------------------------------------------------
\* The search stack with another value at a ply.
LEMMA PvUpdate ==
  ASSUME RestOk, NEW p \in Plies, NEW v \in Seq(Moves(game))
  PROVE  LET s == [ss EXCEPT ![p].pv = v] IN
         /\ s \in [Plies -> Scopes(game)] /\ s[p].pv = v
         /\ \A q \in Plies : s[q].excluded = ss[q].excluded /\ (q # p => s[q].pv = ss[q].pv)
<1>1. ss \in [Plies -> Scopes(game)] /\ \A q \in Plies : ss[q] \in Scopes(game)
  BY DEF RestOk
<1>2. \A e \in Scopes(game) : LET d == [e EXCEPT !.pv = v]
        IN  d \in Scopes(game) /\ d.pv = v /\ d.excluded = e.excluded
  BY DEF Scopes
<1> QED
  BY <1>1, <1>2

LEMMA TtPvUpdate ==
  ASSUME RestOk, NEW p \in Plies, NEW v \in BOOLEAN
  PROVE  LET s == [ss EXCEPT ![p].ttPv = v] IN
         /\ s \in [Plies -> Scopes(game)]
         /\ \A q \in Plies : s[q].excluded = ss[q].excluded /\ s[q].pv = ss[q].pv
<1>1. ss \in [Plies -> Scopes(game)] /\ \A q \in Plies : ss[q] \in Scopes(game)
  BY DEF RestOk
<1>2. \A e \in Scopes(game) : LET d == [e EXCEPT !.ttPv = v]
        IN  d \in Scopes(game) /\ d.pv = e.pv /\ d.excluded = e.excluded
  BY DEF Scopes
<1> QED
  BY <1>1, <1>2

LEMMA ExcludedUpdate ==
  ASSUME RestOk, NEW p \in Plies, NEW v \in Moves(game) \cup {NONE}
  PROVE  LET s == [ss EXCEPT ![p].excluded = v] IN
         /\ s \in [Plies -> Scopes(game)] /\ s[p].excluded = v
         /\ \A q \in Plies : s[q].pv = ss[q].pv /\ (q # p => s[q].excluded = ss[q].excluded)
<1>1. ss \in [Plies -> Scopes(game)] /\ \A q \in Plies : ss[q] \in Scopes(game)
  BY DEF RestOk
<1>2. \A e \in Scopes(game) : LET d == [e EXCEPT !.excluded = v]
        IN  d \in Scopes(game) /\ d.pv = e.pv /\ d.excluded = v
  BY DEF Scopes
<1> QED
  BY <1>1, <1>2

LEMMA PlyIn ==
  ASSUME Inv, stack # << >>
  PROVE  Ply \in Plies /\ Ply + 1 \in Plies /\ Ply - 1 \in Plies /\ Ply \in Nat
<1>1. Ply \in Nat /\ Ply <= MAX_PLY
  BY InvParts, TopFacts DEF FrameOk
<1> QED
  BY <1>1, ConstantTypes DEF Plies

LEMMA ClearedFacts ==
  ASSUME Inv, stack # << >>, ss' = ClearedBelow(Top)
  PROVE  /\ ss' \in [Plies -> Scopes(game)] /\ ss'[Ply].pv = ss[Ply].pv /\ (Top.pv => ss'[Ply + 1].pv = << >>)
         /\ \A q \in Plies : ss'[q].excluded = ss[q].excluded
         /\ \A q \in Plies : ss'[q].pv = ss[q].pv \/ (q = Ply + 1 /\ Top.pv /\ ss'[q].pv = << >>)
<1>1. RestOk /\ << >> \in Seq(Moves(game)) /\ Ply # Ply + 1
  BY InvParts, PlyIn
<1>2. CASE ~Top.pv
  BY <1>1, <1>2 DEF ClearedBelow, RestOk
<1>3. CASE Top.pv
  <2>1. ss' = [ss EXCEPT ![Ply + 1].pv = << >>]
    BY <1>3 DEF ClearedBelow
  <2>2. /\ ss' \in [Plies -> Scopes(game)] /\ ss'[Ply + 1].pv = << >>
        /\ \A q \in Plies : ss'[q].excluded = ss[q].excluded /\ (q # Ply + 1 => ss'[q].pv = ss[q].pv)
    <3> DEFINE p == Ply + 1
               v == << >>
    <3>1. p \in Plies /\ v \in Seq(Moves(game)) /\ ss' = [ss EXCEPT ![p].pv = v]
      BY <1>1, <2>1, PlyIn
    <3>2. p = Ply + 1 /\ v = << >>
      OBVIOUS
    <3> HIDE DEF p, v
    <3>3. /\ ss' \in [Plies -> Scopes(game)] /\ ss'[p].pv = v
          /\ \A q \in Plies : ss'[q].excluded = ss[q].excluded /\ (q # p => ss'[q].pv = ss[q].pv)
      BY <1>1, <3>1, PvUpdate
    <3> QED
      BY <3>2, <3>3
  <2> QED
    BY <1>1, <1>3, <2>2, PlyIn
<1> QED
  BY <1>2, <1>3

LEMMA NextMoveStep ==
  ASSUME Inv, NextMove
  PROVE  FrameStep
<1> /\ stack # << >> /\ Top.at = "next" /\ UNCHANGED line
  BY DEF NextMove, Running
<1> DEFINE m == NextOf(Top)
           rest == Top.left \ {m}
           tried == [Top EXCEPT !.left = rest, !.move = m, !.count = @ + 1, !.newDepth = Top.depth - 1]
<1>1. FramesOk /\ StackInv /\ RestOk /\ Top \in Frames(game) /\ FrameOk(game, Top) /\ Ply < MAX_PLY /\ game \in DOMAIN Games
  BY InvParts, TopFacts, DeepPly
<1>2. CASE Goto("finish") /\ UNCHANGED ss
  <2>1. "finish" \in NodeAt \cup QuiescenceAt
    BY DEF NodeAt
  <2> QED
    BY <1>1, <1>2, <2>1, KeptWhenSame, GotoStep DEF NodeAt, InHandAt, InHandLineAt, BelowAt, MadeAt
\* Whatever is kept of the move, the node goes on with what is left.
<1>3. ASSUME NEW g \in Frames(game), Stay(g), g.at \in {"next", "singular"}, g.left \subseteq Top.left,
             g.at = "singular" => g.move \in Legal(game, Top.pos) /\ ss' = ClearedBelow(Top),
             ss' = ClearedBelow(Top) \/ UNCHANGED ss,
             g.ply = Top.ply, g.pos = Top.pos, g.pv = Top.pv, g.root = Top.root, g.depth = Top.depth
      PROVE  FrameStep
  <2>1. ss'[Ply].pv = ss[Ply].pv /\ (g.at = "singular" /\ g.pv => ss'[Ply + 1].pv = << >>)
    BY <1>3, ClearedFacts
  <2>2. LinesOf(g)
    BY <1>3, <2>1, SameLines DEF InHandLineAt
  <2>3. g.left \subseteq Legal(game, Top.pos) /\ g.depth >= 1
    BY <1>1, <1>3 DEF FrameOk, NodeAt
  <2> QED
    BY <1>1, <1>3, <2>2, <2>3, StayStep DEF NodeAt, BelowAt, MadeAt, InHandAt
<1>4. Top.left \subseteq Legal(game, Top.pos) /\ Top.left \subseteq Moves(game) /\ Top.count \in Nat /\ Top.depth \in Int /\ Eval \in Int
  BY <1>1, TopFields
<1>5. rest \in SUBSET Moves(game) /\ rest \subseteq Top.left
  BY <1>4
<1>6. CASE Top.left # {}
  <2>1. m \in Top.left
    BY <1>1, <1>6, NextIsLeft
  <2>2. ASSUME Stay([Top EXCEPT !.left = rest]), UNCHANGED ss
        PROVE  FrameStep
    <3> DEFINE g == [Top EXCEPT !.left = rest]
    <3> HIDE DEF rest
    <3>1. g \in Frames(game)
      BY <1>1, <1>5, FrameUpdates DEF Frames
    <3>2. /\ g.at = "next" /\ g.left = rest /\ g.ply = Top.ply /\ g.pos = Top.pos /\ g.pv = Top.pv /\ g.root = Top.root
          /\ g.depth = Top.depth
      BY <1>1 DEF Frames, FramesOf
    <3>3. Stay(g)
      BY <2>2
    <3> HIDE DEF g
    <3> QED
      BY <1>3, <1>5, <2>2, <3>1, <3>2, <3>3
  <2> HIDE DEF m, rest
  <2>3. tried \in Frames(game)
    <3>1. m \in Moves(game) \cup {NONE} /\ Top.count + 1 \in Nat /\ Top.depth - 1 \in Int
      BY <1>4, <2>1
    <3>2. [Top EXCEPT !.left = rest, !.move = m].count = Top.count
      BY <1>1 DEF Frames, FramesOf
    <3> QED
      BY <1>1, <1>5, <3>1, <3>2, FrameUpdates DEF Frames
  <2>4. /\ tried.at = "next" /\ tried.left = rest /\ tried.move = m /\ tried.ply = Top.ply /\ tried.pos = Top.pos
        /\ tried.pv = Top.pv /\ tried.root = Top.root /\ tried.depth = Top.depth
    BY <1>1 DEF Frames, FramesOf
  <2> HIDE DEF tried
  <2>5. CASE Stay(tried) /\ ss' = ClearedBelow(Top)
    BY <1>3, <1>5, <2>3, <2>4, <2>5
  <2>6. ASSUME NEW v \in Int, Stay([tried EXCEPT !.best = v]), ss' = ClearedBelow(Top)
        PROVE  FrameStep
    <3> DEFINE g == [tried EXCEPT !.best = v]
    <3>1. g \in Frames(game)
      BY <2>3, FrameUpdates DEF Frames
    <3>2. /\ g.at = "next" /\ g.left = rest /\ g.ply = Top.ply /\ g.pos = Top.pos /\ g.pv = Top.pv /\ g.root = Top.root
          /\ g.depth = Top.depth
      BY <2>3, <2>4 DEF Frames, FramesOf
    <3>3. Stay(g)
      BY <2>6
    <3> HIDE DEF g
    <3> QED
      BY <1>3, <1>5, <2>6, <3>1, <3>2, <3>3
  <2>7. CASE \E g \in FutilityOf(tried) : Stay(g) /\ ss' = ClearedBelow(Top)
    <3>1. tried.best \in Int /\ tried.alpha \in Int
      BY <2>3 DEF Frames, FramesOf
    <3> QED
      BY <1>4, <2>6, <2>7, <3>1 DEF FutilityOf
  <2>8. ASSUME NEW left \in SUBSET rest, Stay([tried EXCEPT !.at = "singular", !.left = left]), ss' = ClearedBelow(Top)
        PROVE  FrameStep
    <3> DEFINE g == [tried EXCEPT !.at = "singular", !.left = left]
    <3>1. g \in Frames(game)
      <4>1. "singular" \in NodeAt \cup QuiescenceAt /\ left \in SUBSET Moves(game)
        BY <1>5 DEF NodeAt
      <4> QED
        BY <2>3, <4>1, FrameUpdates DEF Frames
    <3>2. /\ g.at = "singular" /\ g.left = left /\ g.ply = Top.ply /\ g.pos = Top.pos /\ g.pv = Top.pv /\ g.root = Top.root
          /\ g.depth = Top.depth /\ g.move = m
      BY <2>3, <2>4 DEF Frames, FramesOf
    <3>3. Stay(g)
      BY <2>8
    <3> HIDE DEF g
    <3> QED
      BY <1>3, <1>4, <1>5, <2>1, <2>8, <3>1, <3>2, <3>3
  <2>9. CASE Stay([tried EXCEPT !.at = "singular"]) /\ ss' = ClearedBelow(Top)
    <3>1. [tried EXCEPT !.at = "singular"] = [tried EXCEPT !.at = "singular", !.left = rest]
      BY <2>3, <2>4 DEF Frames, FramesOf
    <3> QED
      BY <2>8, <2>9, <3>1
  <2>10. CASE Stay([tried EXCEPT !.at = "singular", !.left = Captures(rest)]) /\ ss' = ClearedBelow(Top)
    <3>1. Captures(rest) \in SUBSET rest
      BY DEF Captures
    <3> QED
      BY <2>8, <2>10, <3>1
  <2> QED
    BY <1>6, <2>2, <2>5, <2>7, <2>9, <2>10 DEF NextMove, m, rest, tried
<1> QED
  BY <1>2, <1>6 DEF NextMove

LEMMA SingularStep ==
  ASSUME Inv, Singular
  PROVE  FrameStep
<1> /\ stack # << >> /\ Top.at = "singular" /\ UNCHANGED line
  BY DEF Singular, Running
<1> DEFINE beta == SingularBeta(Top)
           alpha == beta - 1
           depth == Half(Top.newDepth)
           g == [Top EXCEPT !.at = "singled", !.kept = beta]
           c == ab_search(alpha, beta, depth, Top.cut)
<1>1. FramesOk /\ StackInv /\ RestOk /\ Top \in Frames(game) /\ FrameOk(game, Top) /\ Ply < MAX_PLY /\ Ply \in Nat
  BY InvParts, TopFacts, DeepPly
<1>2. CASE Goto("make") /\ UNCHANGED ss
  <2>1. "make" \in NodeAt \cup QuiescenceAt
    BY DEF NodeAt
  <2> QED
    BY <1>1, <1>2, <2>1, KeptWhenSame, GotoStep DEF NodeAt, InHandAt, InHandLineAt, BelowAt, MadeAt
<1>3. CASE CallHere(g, c) /\ ss' = [ss EXCEPT ![Ply].excluded = Top.move]
  <2>1. /\ Top.hint.value \in Int /\ Top.depth \in Int /\ Top.newDepth \in Int /\ Top.cut \in BOOLEAN
        /\ Top.move \in Moves(game) \cup {NONE} /\ Top.pos \in Positions(game) /\ Top.rule60 \in Int
    BY <1>1, TopFields
  <2>2. beta \in Int /\ alpha \in Int /\ alpha + 1 = beta /\ depth \in Int
    <3>1. \A k \in {117, 45} : (k * Top.depth) \div 69 \in Int
      BY <2>1
    <3>2. beta \in Int
      BY <2>1, <3>1 DEF SingularBeta
    <3>3. depth \in Int
      BY <2>1 DEF Half
    <3> HIDE DEF beta, depth
    <3> QED
      BY <3>2, <3>3
  <2> HIDE DEF alpha, beta, depth
  <2>3. LinesKept
    BY <1>1, <1>3, <2>1, PlyIn, ExcludedUpdate DEF LinesKept
  <2>4. CalleeOk(game, Placed(c, Top.pos, Top.rule60, Ply), Top.pos, Ply, FALSE)
    <3>1. Ply <= MAX_PLY
      BY <1>1, ConstantTypes
    <3> QED
      BY <1>1, <2>1, <2>2, <3>1, AbCallee
  <2>5. g \in Frames(game)
    <3>1. "singled" \in NodeAt \cup QuiescenceAt
      BY DEF NodeAt
    <3> QED
      BY <1>1, <2>2, <3>1, FrameUpdates DEF Frames
  <2>6. /\ g.at = "singled" /\ g.ply = Top.ply /\ g.pos = Top.pos /\ g.pv = Top.pv /\ g.root = Top.root
        /\ g.depth = Top.depth /\ g.left = Top.left /\ g.rule60 = Top.rule60 /\ g.move = Top.move
    BY <1>1 DEF Frames, FramesOf
  <2> HIDE DEF g, c
  <2>7. SameNode(g)
    BY <1>1, <2>5, <2>6 DEF SameNode, FrameOk, NodeAt, InHandAt, MadeAt
  <2>8. Calling(g, Placed(c, g.pos, g.rule60, Ply))
    BY <1>1, <1>3, <2>4, <2>6, <2>7, CallHereStep DEF BelowAt, MadeAt
  <2>9. ~Placed(c, g.pos, g.rule60, Ply).pv
    BY <2>4, <2>6 DEF CalleeOk
  <2> QED
    BY <1>3, <2>3, <2>6, <2>8, <2>9, ScoutStep DEF InHandLineAt, CallHere, Call
<1> QED
  BY <1>2, <1>3 DEF Singular

LEMMA SingledStep ==
  ASSUME Inv, Singled
  PROVE  FrameStep
<1> /\ stack # << >> /\ Top.at = "singled" /\ UNCHANGED line /\ ss' = [ss EXCEPT ![Ply].excluded = NONE]
  BY DEF Singled, Running
<1>1. FramesOk /\ StackInv /\ RestOk /\ Top \in Frames(game) /\ FrameOk(game, Top) /\ Ply < MAX_PLY /\ Ply \in Nat
  BY InvParts, TopFacts, DeepPly
<1>2. LinesKept
  <2>1. NONE \in Moves(game) \cup {NONE}
    OBVIOUS
  <2> QED
    BY <1>1, <2>1, PlyIn, ExcludedUpdate DEF LinesKept
<1>3. ret.value \in Int /\ Top.depth \in Int /\ Top.newDepth \in Int
  BY <1>1, TopFields
<1>4. "make" \in NodeAt \cup QuiescenceAt
  BY DEF NodeAt
<1>5. CASE Return(ret.value)
  BY <1>3, <1>5, ReturnStep DEF BelowAt, MadeAt
<1>6. CASE Goto("make")
  BY <1>1, <1>2, <1>4, <1>6, GotoStep DEF NodeAt, InHandAt, InHandLineAt, BelowAt, MadeAt
<1>7. ASSUME NEW depth \in Int, NEW newDepth \in Int, depth >= Top.depth,
             NEW g, g = [Top EXCEPT !.at = "make", !.depth = depth, !.newDepth = newDepth], Stay(g)
      PROVE  FrameStep
  <2>1. g \in Frames(game)
    BY <1>1, <1>4, <1>7, FrameUpdates DEF Frames
  <2>2. /\ g.at = "make" /\ g.ply = Top.ply /\ g.pos = Top.pos /\ g.pv = Top.pv /\ g.root = Top.root
        /\ g.depth = depth /\ g.left = Top.left /\ g.move = Top.move
    BY <1>1, <1>7 DEF Frames, FramesOf
  <2>3. LinesOf(g)
    BY <1>2, <2>2, KeptHere, SameLines DEF InHandLineAt
  <2>4. g.depth >= 1 /\ g.left \subseteq Legal(game, Top.pos) /\ g.move \in Legal(game, Top.pos)
    BY <1>1, <1>3, <1>7, <2>2 DEF FrameOk, NodeAt, InHandAt
  <2> QED
    BY <1>1, <1>7, <2>1, <2>2, <2>3, <2>4, StayStep DEF NodeAt, BelowAt, MadeAt, InHandAt
<1>8. CASE Stay([Top EXCEPT !.at = "make", !.depth = @ + 1, !.newDepth = @ + 1])
  <2> DEFINE g == [Top EXCEPT !.at = "make", !.depth = @ + 1, !.newDepth = @ + 1]
  <2>1. /\ [Top EXCEPT !.at = "make"].depth = Top.depth
        /\ [Top EXCEPT !.at = "make", !.depth = Top.depth + 1].newDepth = Top.newDepth
    BY <1>1 DEF Frames, FramesOf
  <2>2. g = [Top EXCEPT !.at = "make", !.depth = Top.depth + 1, !.newDepth = Top.newDepth + 1]
    BY <2>1
  <2>3. Top.depth + 1 \in Int /\ Top.newDepth + 1 \in Int /\ Top.depth + 1 >= Top.depth
    BY <1>3
  <2>4. Stay(g)
    BY <1>8
  <2> HIDE DEF g
  <2> QED
    BY <1>7, <2>2, <2>3, <2>4
<1>9. CASE Stay([Top EXCEPT !.at = "make", !.newDepth = @ - 3])
  <2> DEFINE g == [Top EXCEPT !.at = "make", !.newDepth = @ - 3]
             d == Top.newDepth - 3
  <2>1. [Top EXCEPT !.at = "make"].newDepth = Top.newDepth
    BY <1>1 DEF Frames, FramesOf
  <2>2. g = [Top EXCEPT !.at = "make", !.newDepth = d]
    BY <2>1
  <2>3. d \in Int
    BY <1>3
  <2> HIDE DEF d
  <2>4. g = [Top EXCEPT !.at = "make", !.depth = Top.depth, !.newDepth = d]
    BY <1>1, <2>2 DEF Frames, FramesOf
  <2>5. Stay(g)
    BY <1>9
  <2> HIDE DEF g
  <2> QED
    <3>1. Top.depth \in Int /\ Top.depth >= Top.depth
      BY <1>3
    <3> QED
      BY <1>7, <2>3, <2>4, <2>5, <3>1
<1> QED
  BY <1>5, <1>6, <1>8, <1>9 DEF Singled

\* A search of the principal variation after a move.
LEMMA PvCallee ==
  ASSUME Inv, stack # << >>, Ply < MAX_PLY, NEW m \in Legal(game, Top.pos)
  PROVE  /\ m.to \in Positions(game) /\ After(m, Top.rule60) \in Int
         /\ CalleeOk(game, Placed(PvSearch(Top), m.to, After(m, Top.rule60), Ply + 1), m.to, Ply + 1, TRUE)
<1>1. FramesOk /\ RestOk /\ Ply \in Nat /\ game \in DOMAIN Games
  BY InvParts, TopFacts
<1>2. Top.pos \in Positions(game) /\ Top.rule60 \in Int /\ Top.alpha \in Int /\ Top.beta \in Int /\ Top.newDepth \in Int
  BY <1>1, TopFields
<1>3. m.to \in Positions(game) /\ m \in Moves(game) /\ After(m, Top.rule60) \in Int
  BY <1>1, <1>2, LegalFacts
<1>4. Ply + 1 \in Nat /\ Ply + 1 <= MAX_PLY /\ -Top.beta \in Int /\ -Top.alpha \in Int
  BY <1>1, <1>2, ConstantTypes
<1> DEFINE depth == IF TrustsHint(Top) THEN Larger(Top.newDepth, 1) ELSE Top.newDepth
<1>5. depth \in Int
  BY <1>2 DEF Larger
<1>6. PvSearch(Top) = search_node(-Top.beta, -Top.alpha, depth, FALSE, TRUE)
  BY DEF PvSearch
<1> HIDE DEF depth
<1>7. \A cut, pv \in BOOLEAN :
        CalleeOk(game, Placed(search_node(-Top.beta, -Top.alpha, depth, cut, pv), m.to, After(m, Top.rule60), Ply + 1),
                 m.to, Ply + 1, pv)
  BY <1>3, <1>4, <1>5, Callee
<1> QED
  BY <1>3, <1>6, <1>7

LEMMA PvStep ==
  ASSUME Inv, stack # << >>, NEW g, NEW c, Calling(g, c), UNCHANGED ret, ss' = ClearedBelow(Top), Top.pv,
         Top.at \notin {"judge", "qjudge"}, g.at = "tried", c.ply = Ply + 1
  PROVE  FrameStep
<1>1. g.ply = Top.ply /\ g.pos = Top.pos /\ g.pv = Top.pv /\ g.root = Top.root /\ Ply = Top.ply
  BY InvParts, TopFacts DEF Calling, GoesOn, SameNode
<1>2. ss'[Ply].pv = ss[Ply].pv /\ ss'[Ply + 1].pv = << >> /\ \A pos : PlayableIn(game, pos, << >>)
  BY ClearedFacts DEF PlayableIn
<1>3. OwnLine(game, ss', g)
  BY <1>1, <1>2, InvParts DEF OwnLine
<1>4. LineBelow(game, ss', g) /\ OwnLine(game, ss', c) /\ QLineBelow(game, ss', g)
  BY <1>1, <1>2 DEF OwnLine, LineBelow, QLineBelow
<1> QED
  BY <1>3, <1>4, InvParts DEF CallLines, FrameStep, RestOk

\* The kinds of search after a move that a node may start with.
Waits(f, at, kept) == {[f EXCEPT !.at = at, !.kept = kept], [f EXCEPT !.at = at]}
LEMMA MakeStep ==
  ASSUME Inv, Make
  PROVE  FrameStep
<1> /\ stack # << >> /\ Top.at = "make"
  BY DEF Make, Running
<1> DEFINE d(r) == Larger(1, Top.newDepth - r) + (IF Top.pv THEN 1 ELSE 0)
           m == Top.move
           cut == ~Top.cut
           rule60 == After(m, Top.rule60)
<1>1. FramesOk /\ StackInv /\ RestOk /\ Top \in Frames(game) /\ FrameOk(game, Top) /\ Ply < MAX_PLY /\ Ply \in Nat
  BY InvParts, TopFacts, DeepPly
<1>2. /\ Top.alpha \in Int /\ Top.newDepth \in Int /\ Top.pos \in Positions(game) /\ Top.pv \in BOOLEAN
      /\ -(Top.alpha + 1) \in Int /\ -Top.alpha \in Int /\ -(Top.alpha + 1) + 1 = -Top.alpha
  <2>1. Top.alpha \in Int /\ Top.newDepth \in Int /\ Top.pos \in Positions(game) /\ Top.pv \in BOOLEAN
    BY <1>1, TopFields
  <2> QED
    BY <2>1
<1>3. m \in Legal(game, Top.pos) /\ m \in Moves(game) /\ m.to \in Positions(game) /\ rule60 \in Int
  <2>1. m \in Legal(game, Top.pos)
    BY <1>1 DEF FrameOk, InHandAt
  <2> QED
    BY <1>1, <1>2, <2>1, TopFields, LegalFacts DEF RestOk
<1>4. ASSUME NEW at \in {"reduced", "scouted", "tried"}, NEW kept \in Int, NEW c, NEW e, e = Placed(c, m.to, rule60, Ply + 1),
             NEW g \in Waits(Top, at, kept), CallAfter(g, c),
             CalleeOk(game, e, m.to, Ply + 1, e.pv), e.pv => Top.pv /\ at = "tried"
      PROVE  Calling(g, e) /\ g.at = at /\ g.move = m /\ UNCHANGED ret
  <2>1. g \in Frames(game)
    <3>1. at \in NodeAt \cup QuiescenceAt
      BY DEF NodeAt
    <3>2. [Top EXCEPT !.at = at] \in Frames(game)
      BY <1>1, <3>1, FrameUpdates DEF Frames
    <3>3. [Top EXCEPT !.at = at, !.kept = kept] \in Frames(game)
      BY <1>4, <3>2, FrameUpdates DEF Frames
    <3> QED
      BY <1>4, <3>2, <3>3 DEF Waits
  <2>2. /\ g.at = at /\ g.ply = Top.ply /\ g.pos = Top.pos /\ g.pv = Top.pv /\ g.root = Top.root
        /\ g.depth = Top.depth /\ g.left = Top.left /\ g.rule60 = Top.rule60 /\ g.move = m
    BY <1>1, <1>4 DEF Frames, FramesOf, Waits
  <2> HIDE DEF m
  <2>3. SameNode(g)
    BY <1>1, <1>3, <2>1, <2>2 DEF SameNode, FrameOk, NodeAt
  <2>4. Call(g, c, m.to, rule60, Ply + 1) /\ line' = Append(line, m.to) /\ UNCHANGED ret
    BY <1>4, <2>2 DEF CallAfter, Call
  <2>5. Calling(g, e)
    <3>1. at \in BelowAt /\ (e.pv => g.pv /\ at \in PvWaitAt)
      BY <1>4, <2>2 DEF BelowAt, MadeAt, PvWaitAt
    <3>2. Top.at \notin BelowAt
      BY DEF BelowAt, MadeAt
    <3> HIDE DEF rule60
    <3> QED
      BY <1>1, <1>3, <1>4, <2>2, <2>3, <2>4, <3>1, <3>2, CallStep
  <2> QED
    BY <2>2, <2>4, <2>5
\* A search with a window of one point.
<1>5. ASSUME NEW at \in {"reduced", "scouted"}, NEW kept \in Int, NEW depth \in Int, NEW cutBelow \in BOOLEAN,
             NEW g \in Waits(Top, at, kept),
             CallAfter(g, Scouting(Top, depth, cutBelow)), UNCHANGED ss
      PROVE  FrameStep
  <2> DEFINE c == Scouting(Top, depth, cutBelow)
  <2>1. CalleeOk(game, Placed(c, m.to, rule60, Ply + 1), m.to, Ply + 1, FALSE)
    BY <1>1, <1>2, <1>3, ScoutingCallee DEF Scouting
  <2> DEFINE e == Placed(c, m.to, rule60, Ply + 1)
  <2>2. CallAfter(g, c) /\ e.pv = FALSE /\ CalleeOk(game, e, m.to, Ply + 1, e.pv)
    BY <1>5, <2>1 DEF CalleeOk
  <2>3. Calling(g, e) /\ g.at = at /\ g.move = m /\ UNCHANGED ret
    <3>1. e = Placed(c, m.to, rule60, Ply + 1)
      OBVIOUS
    <3> HIDE DEF c, m, rule60, e
    <3>2. at \in {"reduced", "scouted", "tried"} /\ (e.pv => Top.pv /\ at = "tried")
      BY <2>2
    <3> QED
      BY <1>4, <1>5, <2>2, <3>1, <3>2
  <2>4. LinesKept
    BY <1>5, KeptWhenSame
  <2> HIDE DEF c, m, rule60, e
  <2> QED
    BY <1>5, <2>2, <2>3, <2>4, ScoutStep DEF InHandLineAt, m
<1>6. \A r \in {-1, 0, 2} : d(r) \in Int /\ Top.newDepth - r \in Int
  BY <1>2 DEF Larger
<1>7. ASSUME NEW r \in {-1, 0, 2}, CallAfter([Top EXCEPT !.at = "reduced", !.kept = d(r)], Scouting(Top, d(r), TRUE)), UNCHANGED ss
      PROVE  FrameStep
  <2> DEFINE kept == d(r)
             g == [Top EXCEPT !.at = "reduced", !.kept = kept]
  <2>1. kept \in Int
    BY <1>6
  <2>2. CallAfter(g, Scouting(Top, kept, TRUE)) /\ TRUE \in BOOLEAN
    BY <1>7
  <2> HIDE DEF kept
  <2>3. g \in Waits(Top, "reduced", kept)
    BY DEF Waits
  <2> HIDE DEF g
  <2>4. \A cutBelow \in BOOLEAN : cutBelow /\ CallAfter(g, Scouting(Top, kept, cutBelow)) => FrameStep
    BY <1>5, <1>7, <2>1, <2>3
  <2> QED
    BY <2>2, <2>4
<1>8. ASSUME NEW k \in {0, 1}, CallAfter([Top EXCEPT !.at = "scouted"], Scouting(Top, Top.newDepth - k, cut)), UNCHANGED ss
      PROVE  FrameStep
  <2> DEFINE g == [Top EXCEPT !.at = "scouted"]
             depth == Top.newDepth - k
  <2>1. depth \in Int /\ cut \in BOOLEAN /\ 0 \in Int
    BY <1>2
  <2>2. CallAfter(g, Scouting(Top, depth, cut)) /\ g \in Waits(Top, "scouted", 0)
    BY <1>8 DEF Waits
  <2> HIDE DEF g, depth, cut
  <2> QED
    BY <1>5, <1>8, <2>1, <2>2
<1>9. ASSUME CallAfter([Top EXCEPT !.at = "tried"], PvSearch(Top)), ss' = ClearedBelow(Top), Top.pv
      PROVE  FrameStep
  <2> DEFINE g == [Top EXCEPT !.at = "tried"]
             c == PvSearch(Top)
  <2>1. CalleeOk(game, Placed(c, m.to, rule60, Ply + 1), m.to, Ply + 1, TRUE)
    BY <1>1, <1>3, PvCallee
  <2> DEFINE e == Placed(c, m.to, rule60, Ply + 1)
  <2>2. /\ CallAfter(g, c) /\ g \in Waits(Top, "tried", 0) /\ e.ply = Ply + 1
        /\ CalleeOk(game, e, m.to, Ply + 1, e.pv)
    BY <1>9, <2>1 DEF CalleeOk, Waits
  <2>3. Calling(g, e) /\ g.at = "tried" /\ UNCHANGED ret
    <3>1. e = Placed(c, m.to, rule60, Ply + 1) /\ 0 \in Int
      OBVIOUS
    <3> HIDE DEF c, m, rule60, e, g
    <3> QED
      BY <1>4, <1>9, <2>2, <3>1
  <2> HIDE DEF c, m, rule60, e, g
  <2> QED
    BY <1>9, <2>2, <2>3, PvStep
<1>10. PICK plain \in BOOLEAN, r \in {-1, 0, 2} :
         IF Top.depth >= 2 /\ Top.count > 1
         THEN CallAfter([Top EXCEPT !.at = "reduced", !.kept = d(r)], Scouting(Top, d(r), TRUE)) /\ UNCHANGED ss
         ELSE IF ~Top.pv \/ Top.count > 1
         THEN CallAfter([Top EXCEPT !.at = "scouted"], Scouting(Top, Top.newDepth - (IF plain THEN 0 ELSE 1), cut)) /\ UNCHANGED ss
         ELSE CallAfter([Top EXCEPT !.at = "tried"], PvSearch(Top)) /\ ss' = ClearedBelow(Top)
  BY DEF Make, Reductions
<1>12. CASE Top.depth >= 2 /\ Top.count > 1
  <2> HIDE DEF d
  <2> QED
    BY <1>7, <1>10, <1>12
<1>13. CASE ~(Top.depth >= 2 /\ Top.count > 1) /\ (~Top.pv \/ Top.count > 1)
  <2>1. CASE plain
    BY <1>8, <1>10, <1>13, <2>1
  <2>2. CASE ~plain
    BY <1>8, <1>10, <1>13, <2>2
  <2> QED
    BY <2>1, <2>2
<1>14. CASE ~(Top.depth >= 2 /\ Top.count > 1) /\ ~(~Top.pv \/ Top.count > 1)
  BY <1>9, <1>10, <1>14
<1> QED
  BY <1>12, <1>13, <1>14

LEMMA ReducedStep ==
  ASSUME Inv, Reduced
  PROVE  FrameStep
<1> /\ stack # << >> /\ Top.at = "reduced" /\ UNCHANGED ss /\ LinesKept
  BY KeptWhenSame DEF Reduced, Running
<1> DEFINE v == -ret.value
           deeper == Top.kept < Top.newDepth /\ v > Top.best + 2 * Margin
           depth == Top.newDepth + (IF deeper THEN 1 ELSE 0) - (IF v <= Top.best + Margin THEN 1 ELSE 0)
           newDepth == IF v > Top.alpha THEN depth ELSE Top.newDepth
           cut == ~Top.cut
           g == [Top EXCEPT !.at = "scouted", !.newDepth = newDepth]
           c == Scouting(Top, depth, cut)
           r == After(Top.move, Top.rule60)
<1>1. FramesOk /\ StackInv /\ RestOk /\ Top \in Frames(game) /\ FrameOk(game, Top) /\ Ply < MAX_PLY /\ Ply \in Nat
  BY InvParts, TopFacts, DeepPly
<1>2. depth \in Int /\ newDepth \in Int /\ cut \in BOOLEAN
  <2>1. Top.newDepth \in Int
    BY <1>1, TopFields
  <2> QED
    BY <2>1
<1>3. [Top EXCEPT !.at = "scouted", !.newDepth = IF v > Top.alpha THEN depth ELSE @] = g
  <2>1. [Top EXCEPT !.at = "scouted"].newDepth = Top.newDepth
    BY <1>1 DEF Frames, FramesOf
  <2> QED
    BY <2>1
<1>4. (CallBelow(g, c) \/ (Stay(g) /\ UNCHANGED line))
  BY <1>3 DEF Reduced
<1>5. Top.alpha \in Int
  BY <1>1, TopFields
<1> HIDE DEF v, deeper, depth, newDepth, cut
<1>6. g \in Frames(game)
  <2>1. "scouted" \in NodeAt \cup QuiescenceAt
    BY DEF NodeAt
  <2> QED
    BY <1>1, <1>2, <2>1, FrameUpdates DEF Frames
<1>7. /\ g.at = "scouted" /\ g.ply = Top.ply /\ g.pos = Top.pos /\ g.pv = Top.pv /\ g.root = Top.root
      /\ g.depth = Top.depth /\ g.left = Top.left /\ g.rule60 = Top.rule60 /\ g.move = Top.move
  BY <1>1 DEF Frames, FramesOf
<1> HIDE DEF g
<1>8. Pos = Top.move.to /\ Top.move \in Legal(game, Top.pos)
  BY MadePosition DEF MadeAt
<1>9. CASE CallBelow(g, c)
  <2>1. CalleeOk(game, Placed(c, Pos, r, Ply + 1), Pos, Ply + 1, FALSE)
    <3>1. -(Top.alpha + 1) \in Int /\ -Top.alpha \in Int /\ -(Top.alpha + 1) + 1 = -Top.alpha
      BY <1>5
    <3> QED
      BY <1>1, <1>2, <1>8, <3>1, ScoutingCallee DEF Scouting
  <2> HIDE DEF c, r
  <2>2. SameNode(g)
    BY <1>1, <1>6, <1>7, <1>8 DEF SameNode, FrameOk, NodeAt
  <2>3. Calling(g, Placed(c, Pos, r, Ply + 1))
    BY <1>1, <1>7, <1>9, <2>1, <2>2, CallBelowStep DEF MadeAt, r
  <2>4. ~Placed(c, Pos, r, Ply + 1).pv
    BY <2>1 DEF CalleeOk
  <2> QED
    BY <1>7, <1>9, <2>3, <2>4, ScoutStep DEF InHandLineAt, CallBelow, Call
<1>10. CASE Stay(g) /\ UNCHANGED line
  <2>1. LinesOf(g)
    BY <1>7, KeptHere, SameLines DEF InHandLineAt
  <2>2. g.depth >= 1 /\ g.left \subseteq Legal(game, Top.pos)
    BY <1>1, <1>7 DEF FrameOk, NodeAt
  <2> QED
    BY <1>1, <1>6, <1>7, <1>8, <1>10, <2>1, <2>2, StayStep DEF NodeAt, BelowAt, MadeAt
<1> QED
  BY <1>4, <1>9, <1>10

LEMMA ScoutedStep ==
  ASSUME Inv, Scouted
  PROVE  FrameStep
<1> /\ stack # << >> /\ Top.at = "scouted"
  BY DEF Scouted, Running
<1> DEFINE g == [Top EXCEPT !.at = "tried"]
           c == PvSearch(Top)
           r == After(Top.move, Top.rule60)
           e == Placed(c, Pos, r, Ply + 1)
<1>1. FramesOk /\ StackInv /\ RestOk /\ Top \in Frames(game) /\ FrameOk(game, Top) /\ Ply < MAX_PLY /\ Ply \in Nat
  BY InvParts, TopFacts, DeepPly
<1>2. "tried" \in NodeAt \cup QuiescenceAt
  BY DEF NodeAt
<1>3. CASE Goto("tried") /\ UNCHANGED <<line, ss>>
  BY <1>1, <1>2, <1>3, KeptWhenSame, GotoStep DEF NodeAt, InHandAt, InHandLineAt, BelowAt, MadeAt
<1>4. CASE Top.pv /\ CallBelow(g, c) /\ ss' = ClearedBelow(Top)
  <2>1. Pos = Top.move.to /\ Top.move \in Legal(game, Top.pos)
    BY MadePosition DEF MadeAt
  <2>2. CalleeOk(game, e, Pos, Ply + 1, TRUE)
    BY <1>1, <2>1, PvCallee
  <2>3. g \in Frames(game)
    BY <1>1, <1>2, FrameUpdates DEF Frames
  <2>4. /\ g.at = "tried" /\ g.ply = Top.ply /\ g.pos = Top.pos /\ g.pv = Top.pv /\ g.root = Top.root
        /\ g.depth = Top.depth /\ g.left = Top.left /\ g.rule60 = Top.rule60 /\ g.move = Top.move
    BY <1>1 DEF Frames, FramesOf
  <2> HIDE DEF g, c
  <2>5. SameNode(g)
    BY <1>1, <2>1, <2>3, <2>4 DEF SameNode, FrameOk, NodeAt
  <2>6. CalleeOk(game, e, Pos, Ply + 1, e.pv) /\ e.ply = Ply + 1 /\ (e.pv => g.pv /\ g.at \in PvWaitAt)
    BY <1>4, <2>2, <2>4 DEF CalleeOk, PvWaitAt
  <2>7. g.at \in MadeAt /\ Top.at \in MadeAt
    BY <2>4 DEF MadeAt
  <2>8. Calling(g, e)
    BY <1>1, <1>4, <2>4, <2>5, <2>6, <2>7, CallBelowStep
  <2> HIDE DEF e
  <2> QED
    BY <1>4, <2>4, <2>6, <2>8, PvStep DEF CallBelow, Call
<1> QED
  BY <1>3, <1>4 DEF Scouted

\* A move before a line that goes on after it.
LEMMA LineBefore ==
  ASSUME game \in DOMAIN Games, NEW pos \in Positions(game), NEW m \in Legal(game, pos), NEW rest \in Seq(Moves(game)),
         PlayableIn(game, m.to, rest)
  PROVE  <<m>> \o rest \in Seq(Moves(game)) /\ PlayableIn(game, pos, <<m>> \o rest) /\ (<<m>> \o rest)[1] = m
         /\ <<m>> \o rest # << >>
<1> DEFINE pv == <<m>> \o rest
<1>1. m \in Moves(game)
  BY GameFacts
<1>2. pv \in Seq(Moves(game)) /\ pv[1] = m /\ pv # << >> /\ Len(pv) = Len(rest) + 1
      /\ \A i \in 2 .. Len(pv) : pv[i] = rest[i - 1]
  BY <1>1
<1>3. ASSUME NEW i \in 2 .. Len(pv)
      PROVE  pv[i] \in Legal(game, pv[i - 1].to)
  <2>1. CASE i = 2
    <3>1. rest # << >> /\ rest[1] \in Legal(game, m.to)
      BY <1>2, <1>3, <2>1 DEF PlayableIn
    <3> QED
      BY <1>2, <1>3, <2>1, <3>1
  <2>2. CASE i > 2
    <3>1. i - 1 \in 2 .. Len(rest) /\ i - 1 \in 2 .. Len(pv)
      BY <1>2, <2>2
    <3>2. rest[i - 1] \in Legal(game, rest[i - 1 - 1].to) /\ pv[i - 1] = rest[i - 1 - 1]
      BY <1>2, <3>1 DEF PlayableIn
    <3> QED
      BY <1>2, <1>3, <3>2
  <2> QED
    BY <1>2, <2>1, <2>2
<1> QED
  BY <1>2, <1>3 DEF PlayableIn

LEMMA ImprovedType ==
  ASSUME Inv, stack # << >>, Top.at = "tried", NEW value \in Int, NEW inc \in {0, 1}
  PROVE  LET g == Improved(Top, value, inc)
         IN  /\ g \in Frames(game) /\ g.at \in {"next", "finish"} /\ g.ply = Top.ply /\ g.pos = Top.pos /\ g.pv = Top.pv
             /\ g.root = Top.root /\ g.depth \in Int /\ g.depth >= 1 /\ g.left = Top.left
<1> DEFINE best == IF value + inc > Top.best THEN value ELSE Top.best
           g0 == [Top EXCEPT !.at = "next", !.best = best]
<1>1. RestOk /\ FramesOk /\ Top \in Frames(game) /\ FrameOk(game, Top)
  BY InvParts, TopFacts
<1>2. Top.best \in Int /\ Top.move \in Moves(game) \cup {NONE} /\ Top.depth \in Int /\ Top.depth >= 1
  BY <1>1, TopFields DEF FrameOk, NodeAt
<1>3. best \in Int
  BY <1>2
<1>4. [Top EXCEPT !.at = "next", !.best = IF value + inc > Top.best THEN value ELSE @] = g0
  <2>1. [Top EXCEPT !.at = "next"].best = Top.best
    BY <1>1 DEF Frames, FramesOf
  <2> QED
    BY <2>1
<1> HIDE DEF best
<1>5. "next" \in NodeAt \cup QuiescenceAt /\ "finish" \in NodeAt \cup QuiescenceAt
  BY DEF NodeAt
<1>6. g0 \in Frames(game)
  BY <1>1, <1>3, <1>5, FrameUpdates DEF Frames
<1>7. /\ g0.at = "next" /\ g0.ply = Top.ply /\ g0.pos = Top.pos /\ g0.pv = Top.pv /\ g0.root = Top.root
      /\ g0.depth = Top.depth /\ g0.left = Top.left
  BY <1>1 DEF Frames, FramesOf
<1> DEFINE raises == value + inc > Top.best /\ value + inc > Top.alpha
           g1 == [g0 EXCEPT !.at = "finish", !.bestMove = Top.move]
           depth == IF Top.depth > DeepEnough /\ ~is_decisive(value) THEN Larger(1, Top.depth - 3) ELSE Top.depth
           g2 == [g0 EXCEPT !.bestMove = Top.move, !.alpha = value, !.depth = depth]
<1>8. Improved(Top, value, inc) \in {g0, g1, g2}
  <2>1. [g0 EXCEPT !.bestMove = Top.move, !.alpha = value].depth = Top.depth
    BY <1>6, <1>7 DEF Frames, FramesOf
  <2>2. Improved(Top, value, inc) =
          IF ~raises THEN g0 ELSE IF value >= Top.beta THEN g1
          ELSE [g0 EXCEPT !.bestMove = Top.move, !.alpha = value,
                          !.depth = IF Top.depth > DeepEnough /\ ~is_decisive(value) THEN Larger(1, @ - 3) ELSE @]
    BY <1>4 DEF Improved
  <2> HIDE DEF g0
  <2> QED
    BY <2>1, <2>2
<1> HIDE DEF g0, raises
<1>9. /\ g1 \in Frames(game) /\ g1.at = "finish" /\ g1.ply = Top.ply /\ g1.pos = Top.pos /\ g1.pv = Top.pv
      /\ g1.root = Top.root /\ g1.depth = Top.depth /\ g1.left = Top.left
  <2>1. g1 \in Frames(game)
    BY <1>2, <1>5, <1>6, FrameUpdates DEF Frames
  <2> QED
    BY <1>6, <1>7, <2>1 DEF Frames, FramesOf
<1>10. depth \in Int /\ depth >= 1
  BY <1>2 DEF Larger
<1> HIDE DEF depth
<1>11. /\ g2 \in Frames(game) /\ g2.at = "next" /\ g2.ply = Top.ply /\ g2.pos = Top.pos /\ g2.pv = Top.pv
       /\ g2.root = Top.root /\ g2.depth = depth /\ g2.left = Top.left
  <2>1. g2 \in Frames(game)
    BY <1>2, <1>6, <1>10, FrameUpdates DEF Frames
  <2> QED
    BY <1>6, <1>7, <2>1 DEF Frames, FramesOf
<1> HIDE DEF g1, g2
<1> QED
  BY <1>2, <1>6, <1>7, <1>8, <1>9, <1>10, <1>11

\* A node of the principal variation prepends the move it has tried.
LEMMA OwnLineNow ==
  ASSUME Inv, stack # << >>, Top.at \in {"tried", "qtried"}, Top.pv, Ply < MAX_PLY,
         ss' = [ss EXCEPT ![Ply].pv = <<Top.move>> \o ss[Ply + 1].pv]
  PROVE  /\ ss' \in [Plies -> Scopes(game)] /\ PlayableIn(game, Top.pos, ss'[Ply].pv)
         /\ \A q \in Plies : ss'[q].excluded = ss[q].excluded /\ (q # Ply => ss'[q].pv = ss[q].pv)
<1>1. RestOk /\ FramesOk /\ game \in DOMAIN Games /\ FrameOk(game, Top) /\ Ply = Top.ply /\ Top.pos \in Positions(game)
  BY InvParts, TopFacts, TopFields
<1>2. Top.move \in Legal(game, Top.pos)
  BY <1>1 DEF FrameOk, InHandAt, MadeAt
<1>3. ss[Ply + 1].pv \in Seq(Moves(game))
  BY <1>1, PlyIn DEF RestOk, Scopes
<1>4. PlayableIn(game, Top.move.to, ss[Ply + 1].pv)
  BY <1>1, InvParts DEF LineBelow, QLineBelow
<1> DEFINE pv == <<Top.move>> \o ss[Ply + 1].pv
<1>5. pv \in Seq(Moves(game)) /\ PlayableIn(game, Top.pos, pv)
  BY <1>1, <1>2, <1>3, <1>4, LineBefore
<1>6. ss' = [ss EXCEPT ![Ply].pv = pv]
  OBVIOUS
<1> HIDE DEF pv
<1>7. /\ ss' \in [Plies -> Scopes(game)] /\ ss'[Ply].pv = pv
      /\ \A q \in Plies : ss'[q].excluded = ss[q].excluded /\ (q # Ply => ss'[q].pv = ss[q].pv)
  <2> DEFINE s == [ss EXCEPT ![Ply].pv = pv]
  <2>1. Ply \in Plies
    BY PlyIn
  <2>2. /\ s \in [Plies -> Scopes(game)] /\ s[Ply].pv = pv
        /\ \A q \in Plies : s[q].excluded = ss[q].excluded /\ (q # Ply => s[q].pv = ss[q].pv)
    BY <1>1, <1>5, <2>1, PvUpdate
  <2>3. ss' = s
    BY <1>6
  <2> HIDE DEF s
  <2> QED
    BY <2>2, <2>3
<1> QED
  BY <1>5, <1>7

LEMMA WeighStep ==
  ASSUME Inv, Weigh
  PROVE  FrameStep
<1> /\ stack # << >> /\ Top.at = "tried" /\ TakenBack
  BY DEF Weigh, Running
<1>1. FramesOk /\ StackInv /\ RestOk /\ FrameOk(game, Top) /\ Ply < MAX_PLY /\ Ply = Top.ply
  BY InvParts, TopFacts, DeepPly
<1>2. -ret.value \in Int
  <2>1. ret.value \in Int
    BY <1>1, TopFields
  <2> QED
    BY <2>1
<1>3. CASE Return(VALUE_ZERO)
  BY <1>3, ReturnStep DEF VALUE_ZERO, BelowAt, MadeAt
<1>4. ASSUME NEW inc \in {0, 1}, NEW g, g = Improved(Top, -ret.value, inc), Stay(g),
             UNCHANGED ss \/ (Top.pv /\ ss' = [ss EXCEPT ![Ply].pv = <<Top.move>> \o ss[Ply + 1].pv])
      PROVE  FrameStep
  <2>1. /\ g \in Frames(game) /\ g.at \in {"next", "finish"} /\ g.ply = Top.ply /\ g.pos = Top.pos /\ g.pv = Top.pv
        /\ g.root = Top.root /\ g.depth \in Int /\ g.depth >= 1 /\ g.left = Top.left
    BY <1>2, <1>4, ImprovedType
  <2>2. LinesOf(g)
    <3>1. CASE UNCHANGED ss
      BY <2>1, <3>1, KeptWhenSame, KeptHere, SameLines DEF InHandLineAt
    <3>2. CASE Top.pv /\ ss' = [ss EXCEPT ![Ply].pv = <<Top.move>> \o ss[Ply + 1].pv]
      <4>1. PlayableIn(game, Top.pos, ss'[Ply].pv)
        BY <1>1, <3>2, OwnLineNow
      <4> QED
        BY <1>1, <2>1, <4>1 DEF LinesOf, OwnLine, LineBelow, QLineBelow
    <3> QED
      BY <1>4, <3>1, <3>2
  <2>3. g.left \subseteq Legal(game, Top.pos)
    BY <1>1, <2>1 DEF FrameOk
  <2> QED
    BY <1>1, <1>4, <2>1, <2>2, <2>3, StayStep DEF NodeAt, BelowAt, MadeAt, InHandAt
<1> QED
  BY <1>3, <1>4 DEF Weigh

LEMMA FinishStep ==
  ASSUME Inv, Finish
  PROVE  FrameStep /\ FinalValue(Top) \in Int
<1> /\ stack # << >> /\ Top.at = "finish" /\ UNCHANGED line /\ Return(FinalValue(Top))
  BY DEF Finish, Running
<1>1. Top.best \in Int /\ Top.beta \in Int /\ Top.alpha \in Int /\ Top.depth \in Int /\ Top.depth >= 1 /\ Ply \in Int
  BY InvParts, TopFacts, TopFields DEF FrameOk, NodeAt
<1>2. FailHigh(Top) \in Int
  <2>1. Top.best * Top.depth + Top.beta \in Int /\ Top.depth + 1 \in Int /\ Top.depth + 1 > 0
    BY <1>1
  <2>2. Quotient(Top.best * Top.depth + Top.beta, Top.depth + 1) \in Int
    BY <2>1, QuotientType
  <2> QED
    BY <1>1, <2>2 DEF FailHigh
<1>3. mated_in(Ply) \in Int
  BY <1>1, MateTypes
<1>4. FinalValue(Top) \in Int
  BY <1>1, <1>2, <1>3 DEF FinalValue
<1> QED
  BY <1>4, ReturnStep DEF BelowAt, MadeAt

-----------------------------------------------------------------------------
\* The same for the actions of quiescence.

LEMMA QLines ==
  ASSUME Inv, Running("qjudge"), QJudge
  PROVE  /\ ss' \in [Plies -> Scopes(game)] /\ (Top.pv => ss'[Ply].pv = << >> /\ ss'[Ply + 1].pv = << >>)
         /\ \A q \in Plies : ss'[q].excluded = ss[q].excluded
         /\ \A q \in Plies : ss'[q].pv = ss[q].pv \/ (Top.pv /\ q \in {Ply, Ply + 1} /\ ss'[q].pv = << >>)
<1> stack # << >>
  BY DEF Running
<1>1. RestOk /\ << >> \in Seq(Moves(game)) /\ Ply \in Plies /\ Ply + 1 \in Plies /\ Ply # Ply + 1
  BY InvParts, PlyIn
<1>2. CASE ~Top.pv
  BY <1>1, <1>2 DEF QJudge, RestOk
<1>3. CASE Top.pv
  <2> DEFINE mid == [ss EXCEPT ![Ply].pv = << >>]
  <2>1. ss' = [mid EXCEPT ![Ply + 1].pv = << >>]
    BY <1>3 DEF QJudge
  <2>2. ss \in [Plies -> Scopes(game)] /\ \A e \in Scopes(game) : LET d == [e EXCEPT !.pv = << >>]
          IN  d \in Scopes(game) /\ d.pv = << >> /\ d.excluded = e.excluded
    BY <1>1 DEF RestOk, Scopes
  <2>3. mid \in [Plies -> Scopes(game)] /\ mid[Ply].pv = << >>
        /\ \A q \in Plies : mid[q].excluded = ss[q].excluded /\ (q # Ply => mid[q].pv = ss[q].pv)
    BY <1>1, <2>2
  <2> HIDE DEF mid
  <2>4. ss' \in [Plies -> Scopes(game)] /\ ss'[Ply + 1].pv = << >>
        /\ \A q \in Plies : ss'[q].excluded = mid[q].excluded /\ (q # Ply + 1 => ss'[q].pv = mid[q].pv)
    BY <1>1, <2>1, <2>2, <2>3
  <2> QED
    BY <1>1, <1>3, <2>3, <2>4
<1> QED
  BY <1>2, <1>3

LEMMA EnterQuiescenceStep ==
  ASSUME Inv, Running("qjudge"), QJudge, NEW f \in TwoFold(Top, 0) \cup {Top}, EnterQuiescence(f)
  PROVE  FrameStep
<1> stack # << >> /\ Top.at = "qjudge" /\ UNCHANGED line
  BY DEF Running, QJudge
<1>1. FramesOk /\ StackInv /\ RestOk /\ Ply \in Nat /\ Ply = Top.ply /\ Eval \in Int /\ FrameOk(game, Top) /\ Top \in Frames(game)
  BY InvParts, TopFacts, TopFields
<1>2. /\ f \in Frames(game) /\ f.ply = Top.ply /\ f.pos = Top.pos /\ f.pv = Top.pv /\ f.root = Top.root
      /\ f.depth = Top.depth /\ f.left = Top.left /\ f.alpha \in Int
  <2>1. 0 \in Int
    OBVIOUS
  <2> QED
    BY <2>1, WindowType
<1>3. ASSUME NEW v \in Int, Return(v)
      PROVE  FrameStep
  <2>1. Top.pv => ss'[Top.ply].pv = << >>
    BY <1>1, QLines
  <2> QED
    BY <1>3, <2>1, ReturnStep DEF BelowAt, MadeAt
<1>4. CASE Return(f.alpha)
  BY <1>2, <1>3, <1>4
<1>5. CASE Return(IF InCheck THEN VALUE_DRAW ELSE Eval)
  BY <1>1, <1>3, <1>5 DEF VALUE_DRAW
<1> DEFINE g == [f EXCEPT !.at = "qprobe"]
<1>6. CASE Ply < MAX_PLY /\ Stay(g)
  <2>1. g \in Frames(game)
    <3>1. "qprobe" \in NodeAt \cup QuiescenceAt
      BY DEF QuiescenceAt
    <3> QED
      BY <1>2, <3>1, FrameUpdates DEF Frames
  <2>2. /\ g.at = "qprobe" /\ g.ply = Top.ply /\ g.pos = Top.pos /\ g.pv = Top.pv /\ g.root = Top.root
        /\ g.left = Top.left
    BY <1>2 DEF Frames, FramesOf
  <2> HIDE DEF g
  <2>3. LinesOf(g)
    <3>1. Top.pv => ss'[Top.ply].pv = << >>
      BY <1>1, QLines
    <3> QED
      BY <2>2, <3>1 DEF LinesOf, OwnLine, LineBelow, QLineBelow, PlayableIn
  <2>4. g.left \subseteq Legal(game, Top.pos)
    BY <1>1, <2>2 DEF FrameOk
  <2> QED
    BY <1>6, <2>1, <2>2, <2>3, <2>4, StayStep DEF NodeAt, InHandAt, MadeAt, BelowAt
<1>7. Ply >= MAX_PLY \/ Ply < MAX_PLY
  BY <1>1, ConstantTypes
<1> QED
  BY <1>4, <1>5, <1>6, <1>7 DEF EnterQuiescence

LEMMA QJudgeStep ==
  ASSUME Inv, QJudge
  PROVE  FrameStep
<1> Running("qjudge") /\ stack # << >> /\ Top.at = "qjudge" /\ UNCHANGED line
  BY DEF QJudge, Running
<1>1. ASSUME NEW v \in Int, Return(v)
      PROVE  FrameStep
  <2>1. Top.pv => ss'[Top.ply].pv = << >>
    BY InvParts, TopFacts, QLines
  <2> QED
    BY <1>1, <2>1, ReturnStep DEF BelowAt, MadeAt
<1>2. VALUE_DRAW \in Int /\ mated_in(Ply) \in Int
  <2>1. Ply \in Int
    BY InvParts, TopFacts
  <2> QED
    BY <2>1, MateTypes DEF VALUE_DRAW
<1>3. CASE Judged(Top, {VALUE_DRAW})
  BY <1>1, <1>2, <1>3 DEF Judged
<1>4. CASE \E f \in TwoFold(Top, 0) \cup {Top} : EnterQuiescence(f)
  BY <1>4, EnterQuiescenceStep
<1>5. CASE Return(VALUE_DRAW)
  BY <1>1, <1>2, <1>5
<1> QED
  BY <1>3, <1>4, <1>5 DEF QJudge

LEMMA ProbeSlotType ==
  ASSUME RestOk, FramesOk, stack # << >>
  PROVE  ProbeSlot \in Int
<1>1. generation \in Int /\ Slots \subseteq Int /\ \A i \in Slots : table[i].depth8 \in Int /\ table[i].gen \in Int
  BY ConstantTypes DEF RestOk, Entries, Slots
<1>2. CASE Matching(table, Top.pos) # {}
  <2>1. ProbeSlot \in Matching(table, Top.pos)
    BY <1>1, <1>2, SlotIsThere DEF ProbeSlot
  <2> QED
    BY <1>1, <2>1 DEF Matching
<1>3. CASE Matching(table, Top.pos) = {}
  <2>1. \E i \in Slots : Least(table, generation, i)
    BY <1>1, LeastSlot
  <2> QED
    BY <1>1, <1>3, <2>1 DEF ProbeSlot, SlotFor
<1> QED
  BY <1>2, <1>3

LEMMA QProbeStep ==
  ASSUME Inv, QProbe
  PROVE  FrameStep
<1> /\ stack # << >> /\ Top.at = "qprobe" /\ UNCHANGED <<line, ss>> /\ LinesKept
  BY KeptWhenSame DEF QProbe, Running
<1>1. FramesOk /\ StackInv /\ RestOk /\ Top \in Frames(game) /\ FrameOk(game, Top) /\ Ply < MAX_PLY
  BY InvParts, TopFacts, DeepPly
<1>2. Top.beta \in Int /\ Top.alpha \in Int /\ Top.left \subseteq Legal(game, Top.pos) /\ Top.pos \in Positions(game)
  BY <1>1, TopFields
<1>3. PICK hint \in Hints(game) :
        LET best == Bettered(hint, ~is_decisive(hint.value))
            g == [Top EXCEPT !.at = "qnext", !.hint = hint, !.slot = ProbeSlot]
        IN  \/ Return(hint.value) \/ Stay([g EXCEPT !.left = QMoves(g)]) \/ Return(PatBlend(best, Top.beta))
            \/ Stay([g EXCEPT !.left = QMoves(g), !.best = best, !.alpha = Larger(@, best)])
  <2>1. ProbeHint \in Hints(game) /\ TornHints \subseteq Hints(game)
    BY <1>1, HintTypes
  <2>2. PICK hint \in {ProbeHint} \cup TornHints :
        LET best == Bettered(hint, ~is_decisive(hint.value))
            g == [Top EXCEPT !.at = "qnext", !.hint = hint, !.slot = ProbeSlot]
        IN  \/ Return(hint.value) \/ Stay([g EXCEPT !.left = QMoves(g)]) \/ Return(PatBlend(best, Top.beta))
            \/ Stay([g EXCEPT !.left = QMoves(g), !.best = best, !.alpha = Larger(@, best)])
    BY DEF QProbe
  <2> QED
    BY <2>1, <2>2
<1> DEFINE best == Bettered(hint, ~is_decisive(hint.value))
           g == [Top EXCEPT !.at = "qnext", !.hint = hint, !.slot = ProbeSlot]
           moves == QMoves(g)
<1>4. hint.value \in Int /\ best \in Int
  BY BetteredType DEF Hints
<1>5. CASE Return(hint.value)
  BY <1>4, <1>5, ReturnStep DEF BelowAt, MadeAt
<1>6. CASE Return(PatBlend(best, Top.beta))
  <2> HIDE DEF best
  <2>1. 464 * best + 560 * Top.beta \in Int
    BY <1>2, <1>4
  <2>2. Quotient(464 * best + 560 * Top.beta, 1024) \in Int
    BY <2>1, QuotientType
  <2>3. PatBlend(best, Top.beta) \in Int
    BY <1>4, <2>2 DEF PatBlend
  <2> QED
    BY <1>6, <2>3, ReturnStep DEF BelowAt, MadeAt
<1>7. g \in Frames(game)
  <2>1. "qnext" \in NodeAt \cup QuiescenceAt /\ ProbeSlot \in Int
    BY <1>1, ProbeSlotType DEF QuiescenceAt
  <2> QED
    BY <1>1, <2>1, FrameUpdates DEF Frames
<1>8. /\ g.at = "qnext" /\ g.ply = Top.ply /\ g.pos = Top.pos /\ g.pv = Top.pv /\ g.root = Top.root
      /\ g.alpha = Top.alpha
  BY <1>1 DEF Frames, FramesOf
<1> HIDE DEF g
<1>9. moves \subseteq Legal(game, Top.pos) /\ moves \in SUBSET Moves(game)
  BY <1>1, <1>2, <1>8, LegalFacts DEF QMoves, RestOk
<1> HIDE DEF moves
<1>10. ASSUME NEW h \in Frames(game), h.at = "qnext", h.ply = Top.ply, h.pos = Top.pos, h.pv = Top.pv, h.root = Top.root,
              h.left = moves, Stay(h)
       PROVE  FrameStep
  <2>1. LinesOf(h)
    BY <1>10, KeptHere, SameLines DEF InHandLineAt
  <2> QED
    BY <1>1, <1>9, <1>10, <2>1, StayStep DEF NodeAt, InHandAt, MadeAt, BelowAt
<1>11. CASE Stay([g EXCEPT !.left = moves])
  <2> DEFINE h == [g EXCEPT !.left = moves]
  <2>1. h \in Frames(game)
    BY <1>7, <1>9, FrameUpdates DEF Frames
  <2>2. /\ h.at = "qnext" /\ h.ply = Top.ply /\ h.pos = Top.pos /\ h.pv = Top.pv /\ h.root = Top.root /\ h.left = moves
    BY <1>7, <1>8 DEF Frames, FramesOf
  <2>3. Stay(h)
    BY <1>11
  <2> HIDE DEF h
  <2> QED
    BY <1>10, <2>1, <2>2, <2>3
<1>12. CASE Stay([g EXCEPT !.left = moves, !.best = best, !.alpha = Larger(@, best)])
  <2> HIDE DEF best
  <2> DEFINE alpha == Larger(Top.alpha, best)
             h == [g EXCEPT !.left = moves, !.best = best, !.alpha = alpha]
  <2>1. alpha \in Int
    BY <1>2, <1>4, ChoiceTypes
  <2>2. [g EXCEPT !.left = moves, !.best = best].alpha = Top.alpha
    BY <1>7, <1>8 DEF Frames, FramesOf
  <2>3. Stay(h)
    BY <1>12, <2>2
  <2> HIDE DEF alpha
  <2>4. h \in Frames(game)
    BY <1>4, <1>7, <1>9, <2>1, FrameUpdates DEF Frames
  <2>5. /\ h.at = "qnext" /\ h.ply = Top.ply /\ h.pos = Top.pos /\ h.pv = Top.pv /\ h.root = Top.root /\ h.left = moves
    BY <1>7, <1>8 DEF Frames, FramesOf
  <2> HIDE DEF h
  <2> QED
    BY <1>10, <2>3, <2>4, <2>5
<1> QED
  BY <1>3, <1>5, <1>6, <1>11, <1>12 DEF moves, g

LEMMA QNextStep ==
  ASSUME Inv, QNext
  PROVE  FrameStep
<1> /\ stack # << >> /\ Top.at = "qnext" /\ UNCHANGED ss /\ LinesKept
  BY KeptWhenSame DEF QNext, Running
<1> DEFINE m == NextOf(Top)
           rest == Top.left \ {m}
           tried == [Top EXCEPT !.left = rest, !.move = m, !.count = @ + 1]
<1>1. FramesOk /\ StackInv /\ RestOk /\ Top \in Frames(game) /\ FrameOk(game, Top) /\ Ply < MAX_PLY /\ Ply \in Nat /\ game \in DOMAIN Games
  BY InvParts, TopFacts, DeepPly
<1>2. /\ Top.beta \in Int /\ Top.alpha \in Int /\ Top.left \subseteq Legal(game, Top.pos) /\ Top.left \subseteq Moves(game)
      /\ Top.pos \in Positions(game) /\ Top.count \in Nat /\ Eval \in Int /\ Top.rule60 \in Int /\ Top.pv \in BOOLEAN
      /\ Top.best \in Int
  BY <1>1, TopFields
<1>3. CASE Goto("qfinish") /\ UNCHANGED line
  <2>1. "qfinish" \in NodeAt \cup QuiescenceAt
    BY DEF QuiescenceAt
  <2> QED
    BY <1>1, <1>3, <2>1, GotoStep DEF NodeAt, InHandAt, InHandLineAt, BelowAt, MadeAt
<1>4. CASE Top.left # {}
  <2>1. m \in Top.left
    BY <1>1, <1>4, NextIsLeft
  <2>2. /\ rest \in SUBSET Moves(game) /\ rest \subseteq Legal(game, Top.pos)
        /\ m \in Legal(game, Top.pos) /\ m \in Moves(game) /\ m.to \in Positions(game) /\ After(m, Top.rule60) \in Int
    BY <1>1, <1>2, <2>1, LegalFacts
  <2>3. /\ \/ CallAfter([tried EXCEPT !.at = "qtried"], qsearch(-Top.beta, -Top.alpha, Top.pv))
           \/ Stay(tried) /\ UNCHANGED line
           \/ \E v \in {Eval, Top.alpha} : Stay([tried EXCEPT !.best = Larger(@, v)]) /\ UNCHANGED line
    BY <1>4 DEF QNext
  <2> HIDE DEF m, rest
  <2>4. tried \in Frames(game)
    <3>1. m \in Moves(game) \cup {NONE} /\ Top.count + 1 \in Nat
      BY <1>2, <2>2
    <3>2. [Top EXCEPT !.left = rest, !.move = m].count = Top.count
      BY <1>1 DEF Frames, FramesOf
    <3> QED
      BY <1>1, <2>2, <3>1, <3>2, FrameUpdates DEF Frames
  <2>5. /\ tried.at = "qnext" /\ tried.left = rest /\ tried.move = m /\ tried.ply = Top.ply /\ tried.pos = Top.pos
        /\ tried.pv = Top.pv /\ tried.root = Top.root /\ tried.rule60 = Top.rule60 /\ tried.best = Top.best
    BY <1>1 DEF Frames, FramesOf
  <2> HIDE DEF tried
  <2>6. ASSUME NEW g \in Frames(game), g.at = "qnext", g.left = rest, g.ply = Top.ply, g.pos = Top.pos, g.pv = Top.pv,
               g.root = Top.root, Stay(g), UNCHANGED line
        PROVE  FrameStep
    <3>1. LinesOf(g)
      BY <2>6, KeptHere, SameLines DEF InHandLineAt
    <3> QED
      BY <1>1, <2>2, <2>6, <3>1, StayStep DEF NodeAt, InHandAt, MadeAt, BelowAt
  <2>7. ASSUME NEW v \in {Eval, Top.alpha}, Stay([tried EXCEPT !.best = Larger(@, v)]), UNCHANGED line
        PROVE  FrameStep
    <3> DEFINE best == Larger(Top.best, v)
               g == [tried EXCEPT !.best = best]
    <3>1. best \in Int
      BY <1>2, ChoiceTypes
    <3>2. Stay(g)
      BY <2>5, <2>7
    <3> HIDE DEF best
    <3>3. g \in Frames(game)
      BY <2>4, <3>1, FrameUpdates DEF Frames
    <3>4. /\ g.at = "qnext" /\ g.left = rest /\ g.ply = Top.ply /\ g.pos = Top.pos /\ g.pv = Top.pv /\ g.root = Top.root
      BY <2>4, <2>5 DEF Frames, FramesOf
    <3> HIDE DEF g
    <3> QED
      BY <2>6, <2>7, <3>2, <3>3, <3>4
  <2>8. ASSUME CallAfter([tried EXCEPT !.at = "qtried"], qsearch(-Top.beta, -Top.alpha, Top.pv))
        PROVE  FrameStep
    <3> DEFINE g == [tried EXCEPT !.at = "qtried"]
               c == qsearch(-Top.beta, -Top.alpha, Top.pv)
               r == After(m, Top.rule60)
               e == Placed(c, m.to, r, Ply + 1)
    <3>1. CalleeOk(game, e, m.to, Ply + 1, Top.pv) /\ e.at = "qjudge"
      <4>1. -Top.beta \in Int /\ -Top.alpha \in Int /\ Ply + 1 \in Nat /\ Ply + 1 <= MAX_PLY
        BY <1>2, Deeper
      <4>2. CalleeOk(game, e, m.to, Ply + 1, Top.pv)
        BY <1>2, <2>2, <4>1, QCallee
      <4>3. e.at = "qjudge"
        BY DEF Placed, qsearch, NewFrame
      <4> QED
        BY <4>2, <4>3
    <3>2. g \in Frames(game)
      <4>1. "qtried" \in NodeAt \cup QuiescenceAt
        BY DEF QuiescenceAt
      <4> QED
        BY <2>4, <4>1, FrameUpdates DEF Frames
    <3>3. /\ g.at = "qtried" /\ g.left = rest /\ g.move = m /\ g.ply = Top.ply /\ g.pos = Top.pos
          /\ g.pv = Top.pv /\ g.root = Top.root /\ g.rule60 = Top.rule60
      BY <2>4, <2>5 DEF Frames, FramesOf
    <3>4. Call(g, c, m.to, r, Ply + 1) /\ line' = Append(line, m.to) /\ UNCHANGED ret
      BY <2>8, <3>3 DEF CallAfter, Call
    <3> HIDE DEF g
    <3>5. SameNode(g)
      BY <1>1, <2>2, <3>2, <3>3 DEF SameNode, FrameOk, NodeAt
    <3> HIDE DEF c, r
    <3>6. CalleeOk(game, e, m.to, Ply + 1, e.pv) /\ e.pv = Top.pv
      BY <3>1 DEF CalleeOk
    <3>7. Calling(g, e)
      BY <1>1, <2>2, <3>3, <3>4, <3>5, <3>6, CallStep DEF BelowAt, MadeAt, PvWaitAt
    <3> HIDE DEF e
    <3>8. OwnLine(game, ss', g)
      BY <3>3, KeptHere, InvParts, TopFacts DEF OwnLine
    <3> QED
      BY <3>1, <3>3, <3>4, <3>6, <3>7, <3>8, InvParts DEF CallLines, FrameStep, OwnLine, LineBelow, QLineBelow, RestOk
  <2> QED
    BY <2>3, <2>4, <2>5, <2>6, <2>7, <2>8
<1> QED
  BY <1>3, <1>4 DEF QNext

LEMMA QWeighStep ==
  ASSUME Inv, QWeigh
  PROVE  FrameStep
<1> /\ stack # << >> /\ Top.at = "qtried" /\ TakenBack
  BY DEF QWeigh, Running
<1> DEFINE value == -ret.value
           best == Larger(Top.best, value)
           g == [Top EXCEPT !.at = "qnext", !.best = best]
           g1 == [g EXCEPT !.bestMove = Top.move, !.alpha = value]
           g2 == [g EXCEPT !.bestMove = Top.move, !.at = "qfinish"]
<1>1. FramesOk /\ StackInv /\ RestOk /\ Top \in Frames(game) /\ FrameOk(game, Top) /\ Ply < MAX_PLY /\ Ply = Top.ply
  BY InvParts, TopFacts, DeepPly
<1>2. value \in Int /\ Top.move \in Moves(game) \cup {NONE} /\ best \in Int
  <2>1. ret.value \in Int /\ Top.best \in Int /\ Top.move \in Moves(game) \cup {NONE}
    BY <1>1, TopFields
  <2>2. value \in Int
    BY <2>1
  <2> HIDE DEF value
  <2> QED
    BY <2>1, <2>2, ChoiceTypes
<1>3. \/ Stay(g) /\ UNCHANGED ss
      \/ /\ Stay(g1) \/ Stay(g2)
         /\ ss' = IF Top.pv THEN [ss EXCEPT ![Ply].pv = <<Top.move>> \o ss[Ply + 1].pv] ELSE ss
  <2>1. [Top EXCEPT !.at = "qnext"].best = Top.best
    BY <1>1 DEF Frames, FramesOf
  <2>2. [Top EXCEPT !.at = "qnext", !.best = Larger(@, value)] = g
    BY <2>1
  <2> QED
    BY <2>2 DEF QWeigh
<1> HIDE DEF value, best
<1>4. "qnext" \in NodeAt \cup QuiescenceAt /\ "qfinish" \in NodeAt \cup QuiescenceAt
  BY DEF QuiescenceAt
<1>5. g \in Frames(game)
  BY <1>1, <1>2, <1>4, FrameUpdates DEF Frames
<1>6. /\ g.at = "qnext" /\ g.ply = Top.ply /\ g.pos = Top.pos /\ g.pv = Top.pv /\ g.root = Top.root /\ g.left = Top.left
  BY <1>1 DEF Frames, FramesOf
<1> HIDE DEF g
<1>7. /\ g1 \in Frames(game) /\ g1.at = "qnext" /\ g1.ply = Top.ply /\ g1.pos = Top.pos /\ g1.pv = Top.pv /\ g1.root = Top.root
      /\ g1.left = Top.left
  <2>1. g1 \in Frames(game)
    BY <1>2, <1>5, FrameUpdates DEF Frames
  <2> QED
    BY <1>5, <1>6, <2>1 DEF Frames, FramesOf
<1>8. /\ g2 \in Frames(game) /\ g2.at = "qfinish" /\ g2.ply = Top.ply /\ g2.pos = Top.pos /\ g2.pv = Top.pv /\ g2.root = Top.root
      /\ g2.left = Top.left
  <2>1. g2 \in Frames(game)
    BY <1>2, <1>4, <1>5, FrameUpdates DEF Frames
  <2> QED
    BY <1>5, <1>6, <2>1 DEF Frames, FramesOf
<1> HIDE DEF g1, g2
<1>9. ASSUME NEW h \in Frames(game), h.at \in {"qnext", "qfinish"}, h.ply = Top.ply, h.pos = Top.pos, h.pv = Top.pv,
             h.root = Top.root, h.left = Top.left, Stay(h),
             UNCHANGED ss \/ (Top.pv /\ ss' = [ss EXCEPT ![Ply].pv = <<Top.move>> \o ss[Ply + 1].pv])
      PROVE  FrameStep
  <2>1. LinesOf(h)
    <3>1. CASE UNCHANGED ss
      BY <1>9, <3>1, KeptWhenSame, KeptHere, SameLines DEF InHandLineAt
    <3>2. CASE Top.pv /\ ss' = [ss EXCEPT ![Ply].pv = <<Top.move>> \o ss[Ply + 1].pv]
      <4>1. PlayableIn(game, Top.pos, ss'[Ply].pv)
        BY <1>1, <3>2, OwnLineNow
      <4> QED
        BY <1>1, <1>9, <4>1 DEF LinesOf, OwnLine, LineBelow, QLineBelow
    <3> QED
      BY <1>9, <3>1, <3>2
  <2>2. h.left \subseteq Legal(game, Top.pos)
    BY <1>1, <1>9 DEF FrameOk
  <2> QED
    BY <1>1, <1>9, <2>1, <2>2, StayStep DEF NodeAt, BelowAt, MadeAt, InHandAt
<1> QED
  BY <1>3, <1>5, <1>6, <1>7, <1>8, <1>9

LEMMA QFinishStep ==
  ASSUME Inv, QFinish
  PROVE  FrameStep /\ QBlend(Top) \in Int
<1> /\ stack # << >> /\ Top.at = "qfinish" /\ UNCHANGED line
  BY DEF QFinish, Running
<1>1. Top.best \in Int /\ Top.beta \in Int /\ Ply \in Int
  BY InvParts, TopFacts, TopFields
<1>2. QBlend(Top) \in Int
  <2>1. 477 * Top.best + 547 * Top.beta \in Int
    BY <1>1
  <2>2. Quotient(477 * Top.best + 547 * Top.beta, 1024) \in Int
    BY <2>1, QuotientType
  <2> QED
    BY <1>1, <2>2 DEF QBlend
<1>3. mated_in(Ply) \in Int
  BY <1>1, MateTypes
<1>4. Return(mated_in(Ply)) \/ Return(QBlend(Top))
  BY DEF QFinish
<1> QED
  BY <1>2, <1>3, <1>4, ReturnStep DEF BelowAt, MadeAt

-----------------------------------------------------------------------------
\* The first root move begins with a move of the root.
LEMMA FirstRootMove ==
  ASSUME Inv
  PROVE  1 \in DOMAIN iter.moves /\ iter.moves[1].pv[1] \in Moves(game) /\ RootOf(game, iter) \in Positions(game)
<1>1. game \in DOMAIN Games /\ iter \in Iterations(game) /\ RootLines
  BY DEF Inv, RestOk
<1>2. iter.search \in DOMAIN Games[game].searches /\ iter.moves \in Seq(RootMoveRecords(game))
  BY <1>1 DEF Iterations
<1>3. RootOf(game, iter) \in Positions(game) /\ Games[game].moves[RootOf(game, iter)] # << >>
      /\ Games[game].moves[RootOf(game, iter)] \in Seq(Moves(game)) /\ Legal(game, RootOf(game, iter)) \subseteq Moves(game)
  <2>1. RootOf(game, iter) \in Positions(game) /\ Games[game].moves[RootOf(game, iter)] # << >>
    BY <1>1, <1>2, GameFacts DEF RootOf
  <2> QED
    BY <1>1, <2>1, GameFacts
<1>4. Legal(game, RootOf(game, iter)) # {}
  <2>1. 1 \in DOMAIN Games[game].moves[RootOf(game, iter)]
    BY <1>3
  <2> QED
    BY <2>1 DEF Legal
<1>5. DOMAIN iter.moves # {}
  BY <1>1, <1>4 DEF RootLines, LinesKnown
<1>6. 1 \in DOMAIN iter.moves
  BY <1>2, <1>5
<1>7. iter.moves[1].pv[1] \in Legal(game, RootOf(game, iter))
  BY <1>1, <1>6 DEF RootLines, LinesKnown, PlayableIn
<1> QED
  BY <1>3, <1>6, <1>7

LEMMA ProbeLines ==
  ASSUME Inv, stack # << >>, NEW ttPv \in BOOLEAN,
         ss' = [ss EXCEPT ![Ply].ttPv = ttPv, ![Ply + 1].pv = IF Top.pv THEN << >> ELSE @]
  PROVE  /\ ss' \in [Plies -> Scopes(game)] /\ \A q \in Plies : ss'[q].excluded = ss[q].excluded
         /\ \A q \in Plies : ss'[q].pv = ss[q].pv \/ (Top.pv /\ q = Ply + 1 /\ ss'[q].pv = << >>)
<1> DEFINE mid == [ss EXCEPT ![Ply].ttPv = ttPv]
           v == IF Top.pv THEN << >> ELSE mid[Ply + 1].pv
<1>1. RestOk /\ << >> \in Seq(Moves(game)) /\ Ply \in Plies /\ Ply + 1 \in Plies
  BY InvParts, PlyIn
<1>2. mid \in [Plies -> Scopes(game)] /\ \A q \in Plies : mid[q].excluded = ss[q].excluded /\ mid[q].pv = ss[q].pv
  BY <1>1, TtPvUpdate
<1>3. ss' = [mid EXCEPT ![Ply + 1].pv = v]
  OBVIOUS
<1> HIDE DEF mid
<1>4. v \in Seq(Moves(game)) /\ (Top.pv => v = << >>) /\ (~Top.pv => v = mid[Ply + 1].pv)
  BY <1>1, <1>2 DEF Scopes
<1> HIDE DEF v
<1>5. \A e \in Scopes(game) : LET d == [e EXCEPT !.pv = v]
        IN  d \in Scopes(game) /\ d.pv = v /\ d.excluded = e.excluded
  BY <1>4 DEF Scopes
<1>6. /\ ss' \in [Plies -> Scopes(game)] /\ ss'[Ply + 1].pv = v
      /\ \A q \in Plies : ss'[q].excluded = mid[q].excluded /\ (q # Ply + 1 => ss'[q].pv = mid[q].pv)
  <2> DEFINE p == Ply + 1
             d == [mid[p] EXCEPT !.pv = v]
             s == [mid EXCEPT ![p] = d]
  <2>1. p \in Plies /\ p = Ply + 1
    BY <1>1
  <2>2. ss' = s
    BY <1>3
  <2> HIDE DEF p
  <2>3. d \in Scopes(game) /\ d.pv = v /\ d.excluded = mid[p].excluded
    BY <1>2, <1>5, <2>1
  <2> HIDE DEF d
  <2>4. s \in [Plies -> Scopes(game)] /\ s[p] = d /\ \A q \in Plies : q # p => s[q] = mid[q]
    BY <1>2, <2>1, <2>3
  <2> HIDE DEF s
  <2> QED
    BY <2>1, <2>2, <2>3, <2>4
<1> QED
  BY <1>2, <1>4, <1>6

LEMMA ProbeFacts ==
  ASSUME Inv, Probe
  PROVE  /\ stack # << >> /\ Top.at = "probe"
         /\ \E hint \in Hints(game), depth \in Int, move \in Moves(game) \cup {NONE}, ttPv \in BOOLEAN :
              /\ depth >= 1
              /\ Stay([Top EXCEPT !.at = "cutoff", !.depth = depth, !.slot = ProbeSlot, !.hint = [hint EXCEPT !.move = move]])
              /\ ss' = [ss EXCEPT ![Ply].ttPv = ttPv, ![Ply + 1].pv = IF Top.pv THEN << >> ELSE @]
              /\ table' = table \/ table' = Written(ProbeSlot, VALUE_NONE, ttPv, "none", DEPTH_UNSEARCHED, NONE)
<1>0. stack # << >> /\ Top.at = "probe"
  BY DEF Probe, Running
<1>1. RestOk /\ FramesOk /\ FrameOk(game, Top) /\ Top.depth \in Int /\ Top.pv \in BOOLEAN
  BY <1>0, InvParts, TopFacts, TopFields
<1>2. {ProbeHint} \cup TornHints \subseteq Hints(game)
  BY <1>0, <1>1, HintTypes
<1>3. \A depth \in {Top.depth} \cup Adjusted(Top) : depth \in Int /\ depth >= 1
  <2>1. Top.depth >= 1
    BY <1>0, <1>1 DEF FrameOk, NodeAt
  <2> QED
    BY <1>1, <2>1 DEF Adjusted
<1>4. PICK hint \in Hints(game), depth \in Int :
        LET move == IF Top.root THEN iter.moves[1].pv[1] ELSE hint.move
            ttPv == IF Excluded # NONE THEN ss[Ply].ttPv ELSE Top.pv \/ hint.pv
        IN  /\ depth >= 1
            /\ Stay([Top EXCEPT !.at = "cutoff", !.depth = depth, !.slot = ProbeSlot, !.hint = [hint EXCEPT !.move = move]])
            /\ ss' = [ss EXCEPT ![Ply].ttPv = ttPv, ![Ply + 1].pv = IF Top.pv THEN << >> ELSE @]
            /\ table' = table \/ table' = Written(ProbeSlot, VALUE_NONE, ttPv, "none", DEPTH_UNSEARCHED, NONE)
  <2>1. PICK hint \in {ProbeHint} \cup TornHints, depth \in {Top.depth} \cup Adjusted(Top) :
        LET move == IF Top.root THEN iter.moves[1].pv[1] ELSE hint.move
            ttPv == IF Excluded # NONE THEN ss[Ply].ttPv ELSE Top.pv \/ hint.pv
        IN  /\ Stay([Top EXCEPT !.at = "cutoff", !.depth = depth, !.slot = ProbeSlot, !.hint = [hint EXCEPT !.move = move]])
            /\ ss' = [ss EXCEPT ![Ply].ttPv = ttPv, ![Ply + 1].pv = IF Top.pv THEN << >> ELSE @]
            /\ table' = table \/ table' = Written(ProbeSlot, VALUE_NONE, ttPv, "none", DEPTH_UNSEARCHED, NONE)
    BY DEF Probe
  <2> QED
    BY <1>2, <1>3, <2>1
<1> DEFINE move == IF Top.root THEN iter.moves[1].pv[1] ELSE hint.move
           ttPv == IF Excluded # NONE THEN ss[Ply].ttPv ELSE Top.pv \/ hint.pv
<1>5. move \in Moves(game) \cup {NONE}
  BY <1>4, FirstRootMove DEF Hints
<1>6. ttPv \in BOOLEAN
  <2>1. ss[Ply].ttPv \in BOOLEAN
    BY <1>0, <1>1, PlyIn DEF RestOk, Scopes
  <2> QED
    BY <1>1, <1>4, <2>1 DEF Hints
<1>7. /\ depth >= 1
      /\ Stay([Top EXCEPT !.at = "cutoff", !.depth = depth, !.slot = ProbeSlot, !.hint = [hint EXCEPT !.move = move]])
      /\ ss' = [ss EXCEPT ![Ply].ttPv = ttPv, ![Ply + 1].pv = IF Top.pv THEN << >> ELSE @]
      /\ table' = table \/ table' = Written(ProbeSlot, VALUE_NONE, ttPv, "none", DEPTH_UNSEARCHED, NONE)
  BY <1>4
<1> HIDE DEF move, ttPv
<1> QED
  BY <1>0, <1>4, <1>5, <1>6, <1>7

LEMMA ProbeStep ==
  ASSUME Inv, Probe
  PROVE  FrameStep
<1> stack # << >> /\ Top.at = "probe" /\ UNCHANGED line
  BY ProbeFacts DEF Probe
<1>1. PICK hint \in Hints(game), depth \in Int, move \in Moves(game) \cup {NONE}, ttPv \in BOOLEAN :
         /\ depth >= 1
         /\ Stay([Top EXCEPT !.at = "cutoff", !.depth = depth, !.slot = ProbeSlot, !.hint = [hint EXCEPT !.move = move]])
         /\ ss' = [ss EXCEPT ![Ply].ttPv = ttPv, ![Ply + 1].pv = IF Top.pv THEN << >> ELSE @]
  BY ProbeFacts
<1> DEFINE h == [hint EXCEPT !.move = move]
           g == [Top EXCEPT !.at = "cutoff", !.depth = depth, !.slot = ProbeSlot, !.hint = h]
<1>2. FramesOk /\ RestOk /\ Top \in Frames(game) /\ FrameOk(game, Top) /\ Ply < MAX_PLY
  BY InvParts, TopFacts, DeepPly
<1>3. h \in Hints(game)
  BY <1>1 DEF Hints
<1>4. Stay(g)
  BY <1>1
<1> HIDE DEF h
<1>5. g \in Frames(game)
  <2>1. "cutoff" \in NodeAt \cup QuiescenceAt /\ ProbeSlot \in Int
    BY <1>2, ProbeSlotType DEF NodeAt
  <2> QED
    BY <1>1, <1>2, <1>3, <2>1, FrameUpdates DEF Frames
<1>6. /\ g.at = "cutoff" /\ g.ply = Top.ply /\ g.pos = Top.pos /\ g.pv = Top.pv /\ g.root = Top.root
      /\ g.depth = depth /\ g.left = Top.left
  BY <1>2 DEF Frames, FramesOf
<1> HIDE DEF g
<1>7. LinesOf(g)
  <2>1. ss'[Ply].pv = ss[Ply].pv
    <3>1. Ply \in Plies /\ Ply # Ply + 1
      BY PlyIn
    <3> QED
      BY <1>1, <3>1, ProbeLines
  <2> QED
    BY <1>6, <2>1, SameLines DEF InHandLineAt
<1>8. g.left \subseteq Legal(game, Top.pos)
  BY <1>2, <1>6 DEF FrameOk
<1> QED
  BY <1>1, <1>2, <1>4, <1>5, <1>6, <1>7, <1>8, StayStep DEF NodeAt, InHandAt, MadeAt, BelowAt

LEMMA NodeFrames ==
  ASSUME Inv, Node
  PROVE  stack # << >> /\ FrameStep
<1>1. stack # << >>
  BY DEF Node, Running, Judge, Probe, Cutoff, Prune, TryNull, NullSearched, NullVerified, ProbCut, ProbCutHolds, ProbCutDone,
    SmallProbCut, NextMove, Singular, Singled, Make, Reduced, Scouted, Weigh, Finish, QJudge, QProbe, QNext, QWeigh, QFinish
<1> QED
  BY <1>1, JudgeStep, ProbeStep, CutoffStep, PruneStep, TryNullStep, NullSearchedStep, NullVerifiedStep, ProbCutStep,
    ProbCutHoldsStep, ProbCutDoneStep, SmallProbCutStep, NextMoveStep, SingularStep, SingledStep, MakeStep, ReducedStep,
    ScoutedStep, WeighStep, FinishStep, QJudgeStep, QProbeStep, QNextStep, QWeighStep, QFinishStep DEF Node

-----------------------------------------------------------------------------
\* What a step of a node does to the rest of the state.

LineChange ==
  /\ Top.pv /\ Top.at = "qjudge" => ss'[Top.ply].pv = << >>
  /\ \A q \in Plies :
       \/ ss'[q].pv = ss[q].pv
       \/ Top.pv /\ q = Top.ply + 1 /\ ss'[q].pv = << >>
       \/ Top.pv /\ q = Top.ply /\ PlayableIn(game, Top.pos, ss'[q].pv)
NmpChange ==
  \/ nmp' = 0
  \/ nmp' = nmp /\ Top.at # "verified"
  \/ \E i \in 1 .. Len(stack') : stack'[i].at = "verified"
ExcludedChange ==
  \A q \in Plies :
    \/ ss'[q].excluded = NONE
    \/ ss'[q].excluded = ss[q].excluded /\ (Top.at = "singled" => q # Top.ply)
    \/ \E i \in 1 .. Len(stack') : stack'[i].at = "singled" /\ stack'[i].ply = q
RestStep ==
  /\ UNCHANGED <<game, generation>> /\ nmp' \in Int /\ table' \in [Slots -> Entries(game)]
  /\ ss' \in [Plies -> Scopes(game)] /\ LineChange /\ NmpChange /\ ExcludedChange

LEMMA QuietRest ==
  ASSUME Inv, stack # << >>, UNCHANGED <<game, generation, nmp, ss>>, Top.at \notin {"verified", "singled"},
         ~(Top.pv /\ Top.at = "qjudge"), table' \in [Slots -> Entries(game)]
  PROVE  RestStep
<1>1. RestOk
  BY InvParts
<1> QED
  BY <1>1 DEF RestStep, RestOk, LineChange, NmpChange, ExcludedChange

\* The same with another change of the search stack's lines.
LEMMA LinesRest ==
  ASSUME Inv, stack # << >>, UNCHANGED <<game, generation, nmp>>, Top.at \notin {"verified", "singled"},
         table' \in [Slots -> Entries(game)], ss' \in [Plies -> Scopes(game)], LineChange,
         \A q \in Plies : ss'[q].excluded = ss[q].excluded
  PROVE  RestStep
<1>1. RestOk
  BY InvParts
<1> QED
  BY <1>1 DEF RestStep, RestOk, NmpChange, ExcludedChange

LEMMA WrittenType ==
  ASSUME Inv, stack # << >>, NEW slot, NEW value \in Int, NEW pv \in BOOLEAN, NEW bound \in Bounds, NEW depth \in Int,
         NEW move \in Moves(game) \cup {NONE}
  PROVE  Written(slot, value, pv, bound, depth, move) \in [Slots -> Entries(game)]
<1>1. table \in [Slots -> Entries(game)] /\ generation \in Int /\ Top.pos \in Positions(game)
  BY InvParts, TopFields DEF RestOk
<1> DEFINE decisive == table[slot].value # VALUE_NONE /\ is_decisive(table[slot].value)
<1> HIDE DEF decisive
<1>2. write(table, slot, [key |-> Top.pos, value |-> value, pv |-> pv, bound |-> bound, depth |-> depth, move |-> move],
            generation, decisive) \in [Slots -> Entries(game)]
  BY <1>1, WriteType
<1> QED
  BY <1>2 DEF Written, decisive

LEMMA TableKept ==
  ASSUME Inv, stack # << >>, UNCHANGED <<game, table>>
  PROVE  table' \in [Slots -> Entries(game)]
BY InvParts DEF RestOk

LEMMA QuietActions ==
  ASSUME Inv, stack # << >>,
         Judge \/ Cutoff \/ Prune \/ TryNull \/ ProbCut \/ ProbCutHolds \/ SmallProbCut \/ Reduced \/ QNext
  PROVE  RestStep /\ UNCHANGED iter
<1>1. CASE Judge \/ Prune \/ TryNull \/ ProbCut \/ ProbCutHolds \/ SmallProbCut \/ Reduced \/ QNext
  <2>1. UNCHANGED <<game, generation, iter, nmp, ss, table>> /\ Top.at \notin {"verified", "singled", "qjudge"}
    BY <1>1 DEF Judge, Prune, TryNull, ProbCut, ProbCutHolds, SmallProbCut, Reduced, QNext, Running, rootVars
  <2> QED
    BY <2>1, TableKept, QuietRest
<1>2. CASE Cutoff
  <2>1. UNCHANGED <<game, generation, iter, nmp, ss>> /\ Top.at \notin {"verified", "singled", "qjudge"}
    BY <1>2 DEF Cutoff, Running, rootVars
  <2>2. table' \in [Slots -> Entries(game)]
    <3>1. table' = table \/ table' = [table EXCEPT ![Top.slot] = penalized(@)]
      BY <1>2 DEF Cutoff
    <3>2. table \in [Slots -> Entries(game)]
      BY InvParts DEF RestOk
    <3> QED
      BY <3>1, <3>2, PenaltyType
  <2> QED
    BY <2>1, <2>2, QuietRest
<1> QED
  BY <1>1, <1>2

LEMMA ProbeRest ==
  ASSUME Inv, Probe
  PROVE  RestStep /\ UNCHANGED iter
<1>1. stack # << >> /\ Top.at = "probe" /\ UNCHANGED <<game, generation, iter, nmp>>
  BY ProbeFacts DEF Probe, rootVars
<1>2. PICK ttPv \in BOOLEAN :
        /\ ss' = [ss EXCEPT ![Ply].ttPv = ttPv, ![Ply + 1].pv = IF Top.pv THEN << >> ELSE @]
        /\ table' = table \/ table' = Written(ProbeSlot, VALUE_NONE, ttPv, "none", DEPTH_UNSEARCHED, NONE)
  BY ProbeFacts
<1>3. table' \in [Slots -> Entries(game)]
  <2>1. VALUE_NONE \in Int /\ "none" \in Bounds /\ DEPTH_UNSEARCHED \in Int
    BY ConstantTypes DEF Bounds, DEPTH_UNSEARCHED
  <2>2. Written(ProbeSlot, VALUE_NONE, ttPv, "none", DEPTH_UNSEARCHED, NONE) \in [Slots -> Entries(game)]
    BY <1>1, <2>1, WrittenType
  <2>3. table \in [Slots -> Entries(game)]
    BY <1>1, InvParts DEF RestOk
  <2> QED
    BY <1>2, <2>2, <2>3
<1>4. /\ ss' \in [Plies -> Scopes(game)] /\ \A q \in Plies : ss'[q].excluded = ss[q].excluded
      /\ \A q \in Plies : ss'[q].pv = ss[q].pv \/ (Top.pv /\ q = Ply + 1 /\ ss'[q].pv = << >>)
  BY <1>1, <1>2, ProbeLines
<1>5. LineChange
  BY <1>1, <1>4 DEF LineChange, Ply
<1> QED
  BY <1>1, <1>3, <1>4, <1>5, LinesRest

\* A frame that calls stays below the one it has called.
LEMMA CallerStays ==
  ASSUME FramesOk, stack # << >>, NEW g, NEW c, stack' = Append(Under(g), c)
  PROVE  Len(stack) \in 1 .. Len(stack') /\ stack'[Len(stack)] = g
<1>1. Len(stack) \in Nat /\ Len(stack) >= 1 /\ DOMAIN stack = 1 .. Len(stack) /\ Len(stack) \in 1 .. Len(stack)
  BY DEF FramesOk
<1> DEFINE S == Frames(game) \cup {g, c}
<1>2. Under(g) \in Seq(S) /\ Len(Under(g)) = Len(stack) /\ Under(g)[Len(stack)] = g
  <2>1. stack \in Seq(S) /\ g \in S
    BY DEF FramesOk
  <2> HIDE DEF S
  <2> QED
    BY <1>1, <2>1 DEF Under
<1>3. c \in S
  OBVIOUS
<1> HIDE DEF S
<1> DEFINE u == Under(g)
<1>4. u \in Seq(S) /\ Len(u) = Len(stack) /\ u[Len(stack)] = g /\ stack' = Append(u, c)
  BY <1>2
<1> HIDE DEF u
<1>5. Len(stack') = Len(u) + 1 /\ \A i \in 1 .. Len(u) : stack'[i] = u[i]
  BY <1>3, <1>4
<1>6. stack'[Len(stack)] = g
  BY <1>1, <1>4, <1>5, Zenon
<1>7. Len(stack') = Len(stack) + 1
  BY <1>4, <1>5, Zenon
<1>8. \A n \in Nat : n >= 1 => n \in 1 .. n + 1
  OBVIOUS
<1> QED
  BY <1>1, <1>6, <1>7, <1>8, Zenon

LEMMA NullSearchedRest ==
  ASSUME Inv, NullSearched
  PROVE  RestStep /\ UNCHANGED iter
<1>1. stack # << >> /\ Top.at = "nulled" /\ UNCHANGED <<game, generation, iter, ss, table>>
  BY DEF NullSearched, Running, rootVars
<1>2. FramesOk /\ RestOk /\ Top \in Frames(game) /\ Top.depth \in Int /\ Ply \in Int
  BY <1>1, InvParts, TopFacts, TopFields
<1>3. CASE UNCHANGED nmp
  BY <1>1, <1>3, TableKept, QuietRest
<1> DEFINE depth == Top.depth - NullReduction
           g == [Top EXCEPT !.at = "verified", !.kept = -ret.value]
           c == ab_search(Top.beta - 1, Top.beta, depth, FALSE)
<1>4. CASE nmp' = Ply + Quotient(3 * depth, 4) /\ CallHere(g, c)
  <2>1. nmp' \in Int
    <3>1. 3 * depth \in Int
      BY <1>2, ConstantTypes
    <3>2. Quotient(3 * depth, 4) \in Int
      BY <3>1, QuotientType
    <3> HIDE DEF depth
    <3> QED
      BY <1>2, <1>4, <3>2
  <2>2. g.at = "verified"
    BY <1>2 DEF Frames, FramesOf
  <2> HIDE DEF g, c
  <2>3. \E i \in 1 .. Len(stack') : stack'[i].at = "verified"
    BY <1>1, <1>2, <1>4, <2>2, CallerStays DEF CallHere, Call
  <2> QED
    BY <1>1, <1>2, <2>1, <2>3, TableKept DEF RestStep, RestOk, LineChange, NmpChange, ExcludedChange
<1> QED
  BY <1>3, <1>4 DEF NullSearched

LEMMA NullVerifiedRest ==
  ASSUME Inv, NullVerified
  PROVE  RestStep /\ UNCHANGED iter
<1>1. stack # << >> /\ Top.at = "verified" /\ UNCHANGED <<game, generation, iter, ss, table>> /\ nmp' = 0
  BY DEF NullVerified, Running, rootVars
<1> QED
  BY <1>1, InvParts, TableKept DEF RestStep, RestOk, LineChange, NmpChange, ExcludedChange

LEMMA ProbCutDoneRest ==
  ASSUME Inv, ProbCutDone
  PROVE  RestStep /\ UNCHANGED iter
<1>1. stack # << >> /\ Top.at = "probedTwice" /\ UNCHANGED <<game, generation, iter, nmp, ss>>
  BY DEF ProbCutDone, Running, rootVars
<1>2. table' \in [Slots -> Entries(game)]
  <2>1. RestOk /\ ret.value \in Int /\ Top.depth \in Int /\ Top.move \in Moves(game) \cup {NONE} /\ Ply \in Int
    BY <1>1, InvParts, TopFacts, TopFields
  <2>2. ss[Ply].ttPv \in BOOLEAN
    BY <1>1, <2>1, PlyIn DEF RestOk, Scopes
  <2>3. -ret.value \in Int /\ prob_cut_depth(Top) + 1 \in Int /\ "lower" \in Bounds
    BY <2>1 DEF prob_cut_depth, Bounds
  <2>4. value_to_tt(-ret.value, Ply) \in Int
    <3>1. 0 \in Int
      OBVIOUS
    <3> QED
      BY <2>1, <2>3, <3>1, TableValueTypes
  <2>5. Written(Top.slot, value_to_tt(-ret.value, Ply), ss[Ply].ttPv, "lower", prob_cut_depth(Top) + 1, Top.move)
          \in [Slots -> Entries(game)]
    BY <1>1, <2>1, <2>2, <2>3, <2>4, WrittenType
  <2>6. table \in [Slots -> Entries(game)]
    BY <2>1 DEF RestOk
  <2> QED
    BY <2>5, <2>6 DEF ProbCutDone
<1> QED
  BY <1>1, <1>2, QuietRest

\* A node that clears the line below it.
LEMMA ClearedRest ==
  ASSUME Inv, stack # << >>, UNCHANGED <<game, generation, nmp, table>>, Top.at \notin {"verified", "singled", "qjudge"},
         UNCHANGED ss \/ ss' = ClearedBelow(Top)
  PROVE  RestStep
<1>1. CASE UNCHANGED ss
  BY <1>1, TableKept, QuietRest
<1>2. CASE ss' = ClearedBelow(Top)
  <2>1. LineChange
    BY <1>2, ClearedFacts DEF LineChange, Ply
  <2> QED
    BY <1>2, <2>1, ClearedFacts, TableKept, LinesRest
<1> QED
  BY <1>1, <1>2

LEMMA ClearingActions ==
  ASSUME Inv, stack # << >>, NextMove \/ Make \/ Scouted
  PROVE  RestStep /\ UNCHANGED iter
<1>1. UNCHANGED <<game, generation, iter, nmp, table>> /\ Top.at \notin {"verified", "singled", "qjudge"}
  BY DEF NextMove, Make, Scouted, Running, rootVars
<1>2. UNCHANGED ss \/ ss' = ClearedBelow(Top)
  BY DEF NextMove, Make, Scouted
<1> QED
  BY <1>1, <1>2, ClearedRest

LEMMA ExcludedIn ==
  ASSUME Inv, stack # << >>, NEW v \in Moves(game) \cup {NONE}, ss' = [ss EXCEPT ![Ply].excluded = v]
  PROVE  /\ ss' \in [Plies -> Scopes(game)] /\ ss'[Ply].excluded = v
         /\ \A q \in Plies : ss'[q].pv = ss[q].pv /\ (q # Ply => ss'[q].excluded = ss[q].excluded)
<1> DEFINE s == [ss EXCEPT ![Ply].excluded = v]
<1>1. /\ s \in [Plies -> Scopes(game)] /\ s[Ply].excluded = v
      /\ \A q \in Plies : s[q].pv = ss[q].pv /\ (q # Ply => s[q].excluded = ss[q].excluded)
  <2>1. RestOk /\ Ply \in Plies
    BY InvParts, PlyIn
  <2> QED
    BY <2>1, ExcludedUpdate
<1>2. ss' = s
  OBVIOUS
<1> HIDE DEF s
<1> QED
  BY <1>1, <1>2

LEMMA SingularRest ==
  ASSUME Inv, Singular
  PROVE  RestStep /\ UNCHANGED iter
<1>1. stack # << >> /\ Top.at = "singular" /\ UNCHANGED <<game, generation, iter, nmp, table>>
  BY DEF Singular, Running, rootVars
<1>2. FramesOk /\ RestOk /\ Top \in Frames(game) /\ Top.move \in Moves(game) \cup {NONE} /\ Ply = Top.ply
  BY <1>1, InvParts, TopFacts, TopFields
<1>3. CASE UNCHANGED ss
  BY <1>1, <1>3, TableKept, QuietRest
<1> DEFINE g == [Top EXCEPT !.at = "singled", !.kept = SingularBeta(Top)]
           c == ab_search(SingularBeta(Top) - 1, SingularBeta(Top), Half(Top.newDepth), Top.cut)
<1>4. CASE CallHere(g, c) /\ ss' = [ss EXCEPT ![Ply].excluded = Top.move]
  <2>1. g.at = "singled" /\ g.ply = Ply
    BY <1>2 DEF Frames, FramesOf
  <2> HIDE DEF g, c
  <2>2. \E i \in 1 .. Len(stack') : stack'[i].at = "singled" /\ stack'[i].ply = Ply
    BY <1>1, <1>2, <1>4, <2>1, CallerStays DEF CallHere, Call
  <2>3. ExcludedChange
    BY <1>1, <1>2, <1>4, <2>2, ExcludedIn DEF ExcludedChange
  <2>4. ss' \in [Plies -> Scopes(game)] /\ LineChange
    BY <1>1, <1>2, <1>4, ExcludedIn DEF LineChange
  <2> QED
    BY <1>1, <1>2, <2>3, <2>4, TableKept DEF RestStep, RestOk, NmpChange
<1> QED
  BY <1>3, <1>4 DEF Singular

LEMMA SingledRest ==
  ASSUME Inv, Singled
  PROVE  RestStep /\ UNCHANGED iter
<1>1. /\ stack # << >> /\ Top.at = "singled" /\ UNCHANGED <<game, generation, iter, nmp, table>>
      /\ ss' = [ss EXCEPT ![Ply].excluded = NONE]
  BY DEF Singled, Running, rootVars
<1>2. RestOk /\ Ply = Top.ply /\ NONE \in Moves(game) \cup {NONE}
  BY <1>1, InvParts, TopFacts
<1>3. /\ ss' \in [Plies -> Scopes(game)] /\ ss'[Ply].excluded = NONE
      /\ \A q \in Plies : ss'[q].pv = ss[q].pv /\ (q # Ply => ss'[q].excluded = ss[q].excluded)
  BY <1>1, <1>2, ExcludedIn
<1>4. ExcludedChange /\ LineChange
  BY <1>1, <1>2, <1>3 DEF ExcludedChange, LineChange
<1> QED
  BY <1>1, <1>2, <1>3, <1>4, TableKept DEF RestStep, RestOk, NmpChange

\* What the root keeps when one of its moves has been searched.
IterStep ==
  UNCHANGED iter \/ (Top.root /\ Top.at = "tried" /\ \E value \in Int : iter' = RootUpdated(Top, value))

\* A move's value is weighed: a node of the principal variation may take its line.
LEMMA TakenRest ==
  ASSUME Inv, stack # << >>, UNCHANGED <<game, generation, nmp, table>>, Top.at \in {"tried", "qtried"},
         UNCHANGED ss \/ (Top.pv /\ ss' = [ss EXCEPT ![Ply].pv = <<Top.move>> \o ss[Ply + 1].pv])
  PROVE  RestStep
<1>1. CASE UNCHANGED ss
  BY <1>1, TableKept, QuietRest
<1>2. CASE Top.pv /\ ss' = [ss EXCEPT ![Ply].pv = <<Top.move>> \o ss[Ply + 1].pv]
  <2>1. Ply < MAX_PLY
    BY DeepPly
  <2>2. /\ ss' \in [Plies -> Scopes(game)] /\ PlayableIn(game, Top.pos, ss'[Ply].pv)
        /\ \A q \in Plies : ss'[q].excluded = ss[q].excluded /\ (q # Ply => ss'[q].pv = ss[q].pv)
    BY <1>2, <2>1, OwnLineNow
  <2>3. LineChange
    BY <1>2, <2>2 DEF LineChange, Ply
  <2> QED
    BY <2>2, <2>3, TableKept, LinesRest
<1> QED
  BY <1>1, <1>2

LEMMA WeighRest ==
  ASSUME Inv, Weigh
  PROVE  RestStep /\ IterStep
<1>1. stack # << >> /\ Top.at = "tried" /\ UNCHANGED <<game, generation, nmp, table>>
  BY DEF Weigh, Running
<1>2. UNCHANGED ss \/ (Top.pv /\ ss' = [ss EXCEPT ![Ply].pv = <<Top.move>> \o ss[Ply + 1].pv])
  BY DEF Weigh
<1>3. -ret.value \in Int
  <2>1. ret.value \in Int
    BY <1>1, InvParts DEF RestOk
  <2> QED
    BY <2>1
<1>4. UNCHANGED iter \/ (Top.root /\ iter' = RootUpdated(Top, -ret.value))
  BY DEF Weigh
<1> QED
  BY <1>1, <1>2, <1>3, <1>4, TakenRest DEF IterStep

LEMMA QWeighRest ==
  ASSUME Inv, QWeigh
  PROVE  RestStep /\ UNCHANGED iter
<1>1. stack # << >> /\ Top.at = "qtried" /\ UNCHANGED <<game, generation, iter, nmp, table>>
  BY DEF QWeigh, Running, rootVars
<1>2. UNCHANGED ss \/ (Top.pv /\ ss' = [ss EXCEPT ![Ply].pv = <<Top.move>> \o ss[Ply + 1].pv])
  BY DEF QWeigh
<1> QED
  BY <1>1, <1>2, TakenRest

LEMMA FinishRest ==
  ASSUME Inv, Finish
  PROVE  RestStep /\ UNCHANGED iter
<1> DEFINE value == FinalValue(Top)
           ttPv == ss[Ply].ttPv \/ (value <= Top.alpha /\ ss[Ply - 1].ttPv)
           depth == IF Top.count > 0 THEN Top.depth ELSE Smaller(Top.depth + 6, MAX_PLY - 1)
           bound == BoundOf(Top, value, Top.pv)
<1>1. /\ stack # << >> /\ Top.at = "finish" /\ UNCHANGED <<game, generation, iter, nmp>>
      /\ ss' = [ss EXCEPT ![Ply].ttPv = ttPv]
      /\ table' = table \/ table' = Written(Top.slot, value_to_tt(value, Ply), ttPv, bound, depth, Top.bestMove)
  BY DEF Finish, Running, rootVars
<1>2. RestOk /\ Ply \in Int /\ Top.depth \in Int /\ Top.bestMove \in Moves(game) \cup {NONE}
  BY <1>1, InvParts, TopFacts, TopFields
<1>3. value \in Int
  BY FinishStep
<1>4. ttPv \in BOOLEAN /\ bound \in Bounds /\ depth \in Int
  <2>1. ss[Ply].ttPv \in BOOLEAN /\ ss[Ply - 1].ttPv \in BOOLEAN
    BY <1>1, <1>2, PlyIn DEF RestOk, Scopes
  <2>2. bound \in Bounds
    BY DEF BoundOf, Bounds
  <2>3. depth \in Int
    <3>1. Top.depth + 6 \in Int /\ MAX_PLY - 1 \in Int
      BY <1>2, ConstantTypes
    <3> QED
      BY <1>2, <3>1, ChoiceTypes
  <2> QED
    BY <2>1, <2>2, <2>3
<1>5. value_to_tt(value, Ply) \in Int
  <2>1. 0 \in Int
    OBVIOUS
  <2> HIDE DEF value
  <2> QED
    BY <1>2, <1>3, <2>1, TableValueTypes
<1> HIDE DEF value, ttPv, bound, depth
<1>6. table' \in [Slots -> Entries(game)]
  <2>1. Written(Top.slot, value_to_tt(value, Ply), ttPv, bound, depth, Top.bestMove) \in [Slots -> Entries(game)]
    BY <1>1, <1>2, <1>4, <1>5, WrittenType
  <2>2. table \in [Slots -> Entries(game)]
    BY <1>2 DEF RestOk
  <2> QED
    BY <1>1, <2>1, <2>2
<1>7. ss' \in [Plies -> Scopes(game)] /\ \A q \in Plies : ss'[q].excluded = ss[q].excluded /\ ss'[q].pv = ss[q].pv
  <2> DEFINE s == [ss EXCEPT ![Ply].ttPv = ttPv]
  <2>1. s \in [Plies -> Scopes(game)] /\ \A q \in Plies : s[q].excluded = ss[q].excluded /\ s[q].pv = ss[q].pv
    BY <1>1, <1>2, <1>4, PlyIn, TtPvUpdate
  <2>2. ss' = s
    BY <1>1
  <2> HIDE DEF s
  <2> QED
    BY <2>1, <2>2
<1>8. LineChange
  BY <1>1, <1>7 DEF LineChange
<1> QED
  BY <1>1, <1>6, <1>7, <1>8, LinesRest

LEMMA QJudgeRest ==
  ASSUME Inv, QJudge
  PROVE  RestStep /\ UNCHANGED iter
<1>1. Running("qjudge") /\ stack # << >> /\ Top.at = "qjudge" /\ UNCHANGED <<game, generation, iter, nmp, table>>
  BY DEF QJudge, Running, rootVars
<1>2. LineChange
  <2>1. Ply = Top.ply /\ Ply \in Plies /\ \A pos : PlayableIn(game, pos, << >>)
    BY <1>1, InvParts, TopFacts, PlyIn DEF PlayableIn
  <2> QED
    BY <1>1, <2>1, QLines DEF LineChange
<1> QED
  BY <1>1, <1>2, QLines, TableKept, LinesRest

LEMMA QProbeRest ==
  ASSUME Inv, QProbe
  PROVE  RestStep /\ UNCHANGED iter
<1>1. /\ stack # << >> /\ Top.at = "qprobe" /\ UNCHANGED <<game, generation, iter, nmp, ss>>
      /\ table' = table \/ table' = Written(ProbeSlot, VALUE_NONE, FALSE, "lower", DEPTH_UNSEARCHED, NONE)
  BY DEF QProbe, Running, rootVars
<1>2. table' \in [Slots -> Entries(game)]
  <2>1. VALUE_NONE \in Int /\ "lower" \in Bounds /\ DEPTH_UNSEARCHED \in Int /\ FALSE \in BOOLEAN
    BY ConstantTypes DEF Bounds, DEPTH_UNSEARCHED
  <2>2. \A pv \in BOOLEAN : Written(ProbeSlot, VALUE_NONE, pv, "lower", DEPTH_UNSEARCHED, NONE) \in [Slots -> Entries(game)]
    BY <1>1, <2>1, WrittenType
  <2>3. table \in [Slots -> Entries(game)]
    BY <1>1, InvParts DEF RestOk
  <2> QED
    BY <1>1, <2>2, <2>3
<1> QED
  BY <1>1, <1>2, QuietRest

LEMMA QFinishRest ==
  ASSUME Inv, QFinish
  PROVE  RestStep /\ UNCHANGED iter
<1> DEFINE value == QBlend(Top)
           bound == BoundOf(Top, value, FALSE)
<1>1. /\ stack # << >> /\ Top.at = "qfinish" /\ UNCHANGED <<game, generation, iter, nmp, ss>>
      /\ table' = table \/ table' = Written(Top.slot, value_to_tt(value, Ply), Top.hint.pv, bound, DEPTH_QS, Top.bestMove)
  BY DEF QFinish, Running, rootVars
<1>2. RestOk /\ Ply \in Int /\ Top.hint.pv \in BOOLEAN /\ Top.bestMove \in Moves(game) \cup {NONE} /\ value \in Int
  BY <1>1, InvParts, TopFacts, TopFields, QFinishStep
<1>3. value_to_tt(value, Ply) \in Int
  <2>1. 0 \in Int
    OBVIOUS
  <2> HIDE DEF value
  <2> QED
    BY <1>2, <2>1, TableValueTypes
<1>4. bound \in Bounds /\ DEPTH_QS \in Int
  BY DEF BoundOf, Bounds, DEPTH_QS
<1> HIDE DEF value, bound
<1>5. Written(Top.slot, value_to_tt(value, Ply), Top.hint.pv, bound, DEPTH_QS, Top.bestMove) \in [Slots -> Entries(game)]
  BY <1>1, <1>2, <1>3, <1>4, WrittenType
<1>6. table' \in [Slots -> Entries(game)]
  BY <1>1, <1>2, <1>5 DEF RestOk
<1> QED
  BY <1>1, <1>6, QuietRest

LEMMA NodeRest ==
  ASSUME Inv, Node
  PROVE  RestStep /\ IterStep
<1>1. stack # << >>
  BY NodeFrames
<1> QED
  BY <1>1, QuietActions, ProbeRest, NullSearchedRest, NullVerifiedRest, ProbCutDoneRest, ClearingActions, SingularRest, SingledRest,
    WeighRest, FinishRest, QJudgeRest, QProbeRest, QWeighRest, QFinishRest DEF Node, IterStep

-----------------------------------------------------------------------------
\* The stack after a step of a node, frame by frame.

StackShape(n) ==
  /\ stack' \in Seq(Frames(game)) /\ n = Len(stack) /\ n \in Nat /\ n >= 1
  /\ \A i \in 1 .. Len(stack') : i < n => stack'[i] = stack[i]
Stayed(n) == Len(stack') = n /\ GoesOn(stack'[n]) /\ LinesOf(stack'[n])
HasCalled(n) ==
  /\ Len(stack') = n + 1 /\ GoesOn(stack'[n]) /\ Called(stack'[n], stack'[n + 1])
  /\ CallLines(stack'[n], stack'[n + 1])
HasReturned(n) == Len(stack') = n - 1 /\ Settled(Top.ply + 1)

LEMMA Shapes ==
  ASSUME Inv, stack # << >>, FrameStep
  PROVE  StackShape(Len(stack)) /\ (Stayed(Len(stack)) \/ HasCalled(Len(stack)) \/ HasReturned(Len(stack)))
<1> DEFINE n == Len(stack)
<1>1. FramesOk /\ stack \in Seq(Frames(game)) /\ n \in Nat /\ n >= 1
  BY InvParts DEF FramesOk
<1>2. n = Len(stack)
  OBVIOUS
<1> HIDE DEF n
<1>3. ASSUME NEW g, FrameOk(game, g)
      PROVE  Under(g) \in Seq(Frames(game)) /\ Len(Under(g)) = n /\ Under(g)[n] = g /\ \A i \in 1 .. n : i < n => Under(g)[i] = stack[i]
  <2>1. g \in Frames(game)
    BY <1>3 DEF FrameOk
  <2> QED
    BY <1>1, <1>2, <2>1 DEF Under
<1>4. ASSUME NEW g, Staying(g), LinesOf(g)
      PROVE  StackShape(n) /\ Stayed(n)
  <2>1. FrameOk(game, g) /\ GoesOn(g) /\ stack' = Under(g)
    BY <1>4 DEF Staying, GoesOn, SameNode
  <2>2. Len(stack') = n /\ stack'[n] = g /\ stack' \in Seq(Frames(game)) /\ \A i \in 1 .. n : i < n => stack'[i] = stack[i]
    BY <1>3, <2>1
  <2>3. Stayed(n)
    BY <1>4, <2>1, <2>2, Zenon DEF Stayed
  <2>4. StackShape(n)
    BY <1>1, <1>2, <2>2, Zenon DEF StackShape
  <2> QED
    BY <2>3, <2>4
<1>5. ASSUME NEW g, NEW c, Calling(g, c), CallLines(g, c)
      PROVE  StackShape(n) /\ HasCalled(n)
  <2>1. FrameOk(game, g) /\ FrameOk(game, c) /\ GoesOn(g) /\ Called(g, c) /\ stack' = Append(Under(g), c)
    BY <1>5 DEF Calling, GoesOn, SameNode, Called
  <2> DEFINE u == Under(g)
  <2>2. u \in Seq(Frames(game)) /\ Len(u) = n /\ u[n] = g /\ (\A i \in 1 .. n : i < n => u[i] = stack[i]) /\ stack' = Append(u, c)
    BY <1>3, <2>1
  <2>3. c \in Frames(game)
    BY <2>1 DEF FrameOk
  <2> HIDE DEF u
  <2>4. stack' \in Seq(Frames(game)) /\ Len(stack') = Len(u) + 1 /\ stack'[Len(u) + 1] = c /\ \A i \in 1 .. Len(u) : stack'[i] = u[i]
    BY <2>2, <2>3
  <2>5. Len(stack') = n + 1 /\ stack'[n + 1] = c /\ \A i \in 1 .. n : stack'[i] = u[i]
    BY <2>2, <2>4, Zenon
  <2>6. n \in 1 .. n /\ \A i \in 1 .. n + 1 : i < n => i \in 1 .. n
    BY <1>1
  <2>7. stack'[n] = g /\ \A i \in 1 .. Len(stack') : i < n => stack'[i] = stack[i]
    BY <2>2, <2>5, <2>6, Zenon
  <2>8. HasCalled(n)
    BY <1>5, <2>1, <2>5, <2>7, Zenon DEF HasCalled
  <2>9. StackShape(n)
    BY <1>1, <1>2, <2>4, <2>7, Zenon DEF StackShape
  <2> QED
    BY <2>8, <2>9
<1>6. CASE Returning
  <2>1. stack' \in Seq(Frames(game)) /\ Len(stack') = n - 1 /\ \A i \in 1 .. n - 1 : stack'[i] = stack[i]
    BY <1>1, <1>2, <1>6 DEF Returning
  <2>2. HasReturned(n)
    BY <1>6, <2>1, Zenon DEF HasReturned, Returning
  <2>3. StackShape(n)
    BY <1>1, <1>2, <2>1, Zenon DEF StackShape
  <2> QED
    BY <1>2, <2>2, <2>3
<1> QED
  BY <1>2, <1>4, <1>5, <1>6 DEF FrameStep

LEMMA FramesStep ==
  ASSUME Inv, stack # << >>, FrameStep, UNCHANGED game
  PROVE  FramesOk'
<1> DEFINE n == Len(stack)
<1>1. StackShape(n) /\ (Stayed(n) \/ HasCalled(n) \/ HasReturned(n)) /\ n = Len(stack)
  BY Shapes
<1> HIDE DEF n
<1>2. \A i \in 1 .. n : FrameOk(game, stack[i])
  BY <1>1, InvParts DEF FramesOk
<1>3. stack' \in Seq(Frames(game)) /\ Len(stack') \in Nat /\ n \in Nat
  BY <1>1 DEF StackShape
<1>4. \A i \in 1 .. Len(stack') : i < n => FrameOk(game, stack'[i])
  BY <1>1, <1>2, <1>3 DEF StackShape
<1>5. \A i \in 1 .. Len(stack') : i < n \/ i = n \/ (i = n + 1 /\ HasCalled(n))
  BY <1>1, <1>3 DEF Stayed, HasCalled, HasReturned
<1>6. n \in 1 .. Len(stack') => FrameOk(game, stack'[n])
  <2>1. CASE HasReturned(n)
    BY <1>3, <2>1 DEF HasReturned
  <2> QED
    BY <1>1, <2>1, Zenon DEF Stayed, HasCalled, GoesOn, SameNode
<1>7. HasCalled(n) => FrameOk(game, stack'[n + 1])
  BY Zenon DEF HasCalled, Called
<1>8. \A i \in 1 .. Len(stack') : FrameOk(game, stack'[i])
  BY <1>4, <1>5, <1>6, <1>7, Zenon
<1> QED
  BY <1>3, <1>8 DEF FramesOk
\* The frames below the current one.
LEMMA Callers ==
  ASSUME Inv, stack # << >>, NEW i \in 1 .. Len(stack), i < Len(stack)
  PROVE  /\ FrameOk(game, stack[i]) /\ stack[i].ply \in Nat /\ stack[i].ply <= Top.ply /\ i + 1 \in 1 .. Len(stack)
         /\ Level(stack[i]) = stack[i + 1].ply + 1 /\ Level(stack[i]) <= Top.ply + 1
         /\ stack[i].at \in BelowAt => stack[i].ply + 1 <= Top.ply
         /\ stack[i].at \in MadeAt => stack[i].ply + 1 <= Top.ply
<1>1. FramesOk /\ StackInv /\ Len(stack) \in Nat /\ Len(stack) >= 1 /\ Top = stack[Len(stack)] /\ Top.ply \in Nat
  BY InvParts, TopFacts
<1>2. i + 1 \in 1 .. Len(stack) /\ Len(stack) \in 1 .. Len(stack) /\ i \in 1 .. Len(stack) - 1 /\ i <= Len(stack) /\ i + 1 <= Len(stack)
  BY <1>1
<1>3. FrameOk(game, stack[i]) /\ FrameOk(game, stack[i + 1])
  BY <1>1, <1>2 DEF FramesOk
<1>4. stack[i].ply \in Nat /\ stack[i + 1].ply \in Nat
  BY <1>3 DEF FrameOk, Frames, FramesOf
<1>5. stack[i].ply <= Top.ply /\ stack[i + 1].ply <= Top.ply
  BY <1>1, <1>2, Zenon DEF StackInv
<1>6. Level(stack[i]) = stack[i + 1].ply + 1
  BY <1>1, <1>2, Zenon DEF StackInv
<1>7. Level(stack[i]) <= Top.ply + 1
  <2>1. stack[i + 1].ply + 1 <= Top.ply + 1
    BY <1>1, <1>4, <1>5
  <2> QED
    BY <1>6, <2>1, Zenon
<1>8. stack[i].at \in BelowAt => stack[i].ply + 1 <= Top.ply
  <2>1. stack[i].at \in BelowAt => stack[i].ply + 2 <= Top.ply + 1
    BY <1>7, Zenon DEF Level
  <2> QED
    BY <1>1, <1>4, <2>1
<1> QED
  BY <1>2, <1>3, <1>4, <1>5, <1>6, <1>7, <1>8 DEF BelowAt

LEMMA StackStep ==
  ASSUME Inv, stack # << >>, FrameStep, UNCHANGED game
  PROVE  StackInv'
<1> DEFINE n == Len(stack)
<1>1. StackShape(n) /\ (Stayed(n) \/ HasCalled(n) \/ HasReturned(n)) /\ n = Len(stack) /\ n \in Nat /\ n >= 1 /\ n \in 1 .. n
  <2>1. n \in Nat /\ n >= 1
    BY InvParts, TopFacts
  <2> QED
    BY <2>1, Shapes
<1>2. FramesOk /\ StackInv /\ FramesOk' /\ Top = stack[n] /\ Top.ply \in Nat
  BY InvParts, TopFacts, FramesStep
<1> HIDE DEF n
<1>3. stack' \in Seq(Frames(game)) /\ Len(stack') \in Nat /\ \A i \in 1 .. Len(stack') : i < n => stack'[i] = stack[i] /\ i \in 1 .. n
  <2>1. stack' \in Seq(Frames(game)) /\ Len(stack') \in Nat /\ \A i \in 1 .. Len(stack') : i < n => stack'[i] = stack[i]
    BY <1>1 DEF StackShape
  <2> QED
    BY <1>1, <2>1
<1>4. \A i \in 1 .. Len(stack') : stack'[i].ply \in Nat
  BY <1>2, <1>3 DEF FramesOk, FrameOk, Frames, FramesOf
<1>5. line' \in Seq(Positions(game)) /\ Len(line') \in Nat /\ \A k \in 1 .. Top.ply + 1 : line'[k] = line[k]
  BY <1>1 DEF Stayed, HasCalled, HasReturned, GoesOn, Settled
<1>6. \A i \in 1 .. Len(stack') : i < n \/ (i = n /\ (Stayed(n) \/ HasCalled(n))) \/ (i = n + 1 /\ HasCalled(n))
  BY <1>1, <1>3 DEF Stayed, HasCalled, HasReturned
<1>7. \A i \in 1 .. Len(stack') : i < n =>
        /\ stack[i].ply \in Nat /\ stack[i].ply <= Top.ply /\ stack[i].ply + 1 \in 1 .. Top.ply + 1
        /\ stack[i].at \in MadeAt => stack[i].ply + 2 \in 1 .. Top.ply + 1
        /\ line[stack[i].ply + 1] = stack[i].pos /\ (stack[i].at \in MadeAt => line[stack[i].ply + 2] = stack[i].move.to)
  <2> SUFFICES ASSUME NEW i \in 1 .. Len(stack'), i < n
               PROVE  /\ stack[i].ply \in Nat /\ stack[i].ply <= Top.ply /\ stack[i].ply + 1 \in 1 .. Top.ply + 1
                      /\ stack[i].at \in MadeAt => stack[i].ply + 2 \in 1 .. Top.ply + 1
                      /\ line[stack[i].ply + 1] = stack[i].pos /\ (stack[i].at \in MadeAt => line[stack[i].ply + 2] = stack[i].move.to)
    OBVIOUS
  <2>1. i \in 1 .. Len(stack) /\ i < Len(stack)
    BY <1>1, <1>3
  <2>2. stack[i].ply \in Nat /\ stack[i].ply <= Top.ply /\ (stack[i].at \in MadeAt => stack[i].ply + 1 <= Top.ply)
    BY <2>1, Callers
  <2>3. line[stack[i].ply + 1] = stack[i].pos /\ (stack[i].at \in MadeAt => line[stack[i].ply + 2] = stack[i].move.to)
    BY <1>2, <2>1 DEF StackInv
  <2> QED
    BY <1>2, <2>2, <2>3
<1>8. Stayed(n) \/ HasCalled(n) => /\ stack'[n].ply = Top.ply /\ stack'[n].pos = Top.pos /\ stack[n].ply = Top.ply
                                   /\ (stack'[n].at \in MadeAt => line'[stack'[n].ply + 2] = stack'[n].move.to)
  BY <1>2, Zenon DEF Stayed, HasCalled, GoesOn, SameNode
<1>9. HasCalled(n) => /\ Len(stack') = n + 1 /\ Level(stack'[n]) = stack'[n + 1].ply + 1
                      /\ line'[stack'[n + 1].ply + 1] = stack'[n + 1].pos /\ stack'[n + 1].at \notin BelowAt
                      /\ Level(stack'[n + 1]) = stack'[n + 1].ply + 1
  BY DEF HasCalled, Called, Level, BelowAt, MadeAt
<1>10. line[Top.ply + 1] = Top.pos /\ Top.ply + 1 \in 1 .. Top.ply + 1
  BY <1>2, LineFacts, TopFacts
<1>11. \A i \in 1 .. Len(stack') : line'[stack'[i].ply + 1] = stack'[i].pos
  BY <1>3, <1>5, <1>6, <1>7, <1>8, <1>9, <1>10, Zenon
<1>12. \A i \in 1 .. Len(stack') : stack'[i].at \in MadeAt => line'[stack'[i].ply + 2] = stack'[i].move.to
  <2>1. HasCalled(n) => stack'[n + 1].at \notin MadeAt
    BY <1>9 DEF BelowAt
  <2> QED
    BY <1>3, <1>5, <1>6, <1>7, <1>8, <2>1, Zenon
<1>13. \A i \in 1 .. Len(stack') : i < n => stack'[i].ply <= Top.ply
  BY <1>3, <1>7
<1>14. HasCalled(n) => Top.ply <= stack'[n + 1].ply
  <2>1. HasCalled(n) => Level(stack'[n]) >= stack'[n].ply + 1 /\ n \in 1 .. Len(stack') /\ n + 1 \in 1 .. Len(stack')
    <3>1. HasCalled(n) => n \in 1 .. Len(stack') /\ n + 1 \in 1 .. Len(stack')
      BY <1>1, <1>9
    <3>2. HasCalled(n) => stack'[n].ply \in Nat
      BY <1>4, <3>1
    <3> QED
      BY <3>1, <3>2 DEF Level
  <2> QED
    BY <1>2, <1>4, <1>8, <1>9, <2>1
<1>15. \A i, j \in 1 .. Len(stack') : i <= j => stack'[i].ply <= stack'[j].ply
  <2> SUFFICES ASSUME NEW i \in 1 .. Len(stack'), NEW j \in 1 .. Len(stack'), i <= j
               PROVE  stack'[i].ply <= stack'[j].ply
    OBVIOUS
  <2>1. CASE j < n
    <3>1. i < n /\ i \in 1 .. n /\ j \in 1 .. n
      BY <1>1, <1>3, <2>1
    <3>2. stack[i].ply <= stack[j].ply
      BY <1>1, <1>2, <3>1, Zenon DEF StackInv
    <3> QED
      BY <1>3, <2>1, <3>1, <3>2
  <2>2. CASE i < n /\ j = n
    BY <1>6, <1>8, <1>13, <2>2, <1>1
  <2>3. CASE i < n /\ j = n + 1 /\ HasCalled(n)
    <3>1. stack'[i].ply <= Top.ply /\ Top.ply <= stack'[j].ply /\ stack'[i].ply \in Nat /\ stack'[j].ply \in Nat
      BY <1>4, <1>13, <1>14, <2>3
    <3> QED
      BY <1>2, <3>1
  <2>4. CASE i = n /\ j = n + 1 /\ HasCalled(n)
    BY <1>8, <1>14, <2>4
  <2>5. CASE i = j
    BY <1>4, <2>5
  <2> QED
    BY <1>1, <1>6, <2>1, <2>2, <2>3, <2>4, <2>5
<1>16. \A i \in 1 .. Len(stack') - 1 : Level(stack'[i]) = stack'[i + 1].ply + 1
  <2> SUFFICES ASSUME NEW i \in 1 .. Len(stack') - 1
               PROVE  Level(stack'[i]) = stack'[i + 1].ply + 1
    OBVIOUS
  <2>1. i \in 1 .. Len(stack') /\ i + 1 \in 1 .. Len(stack')
    BY <1>3
  <2>2. CASE i < n
    <3>1. i \in 1 .. Len(stack) /\ i < Len(stack) /\ stack'[i] = stack[i] /\ i + 1 <= n
      BY <1>1, <1>3, <2>1, <2>2
    <3>2. Level(stack[i]) = stack[i + 1].ply + 1
      BY <3>1, Callers
    <3>3. stack'[i + 1].ply = stack[i + 1].ply
      <4>1. CASE i + 1 < n
        BY <1>3, <2>1, <4>1
      <4>2. CASE i + 1 = n
        BY <1>1, <1>6, <1>8, <2>1, <4>2
      <4> QED
        BY <1>1, <3>1, <4>1, <4>2
    <3> QED
      BY <3>1, <3>2, <3>3
  <2>3. CASE i = n
    <3>1. HasCalled(n)
      BY <1>1, <1>6, <2>1, <2>3
    <3> QED
      BY <1>9, <2>3, <3>1
  <2> QED
    BY <1>1, <1>6, <2>1, <2>2, <2>3
<1>17. stack[1].ply = 0
  BY <1>2 DEF StackInv
<1>18. stack' = << >> => Len(line') = 1
  <2> SUFFICES ASSUME stack' = << >>
               PROVE  Len(line') = 1
    OBVIOUS
  <2>1. Len(stack') = 0
    OBVIOUS
  <2>2. HasReturned(n) /\ n = 1
    BY <1>1, <2>1 DEF Stayed, HasCalled, HasReturned
  <2>3. Len(line') = Top.ply + 1 /\ Top.ply = 0
    BY <1>2, <1>17, <2>2 DEF HasReturned, Settled
  <2> QED
    BY <2>3
<1>19. stack' # << >> => stack'[1].ply = 0 /\ Len(line') = Level(stack'[Len(stack')])
  <2> SUFFICES ASSUME stack' # << >>
               PROVE  stack'[1].ply = 0 /\ Len(line') = Level(stack'[Len(stack')])
    OBVIOUS
  <2>1. Len(stack') >= 1 /\ 1 \in 1 .. Len(stack')
    BY <1>3
  <2>2. stack'[1].ply = 0
    BY <1>1, <1>2, <1>3, <1>6, <1>8, <1>17, <2>1
  <2>3. CASE Stayed(n)
    <3>1. Len(stack') = n /\ Len(line') = Level(stack'[n])
      BY <2>3, Zenon DEF Stayed, GoesOn, Settled
    <3> QED
      BY <2>2, <3>1, Zenon
  <2>4. CASE HasCalled(n)
    <3>1. Len(stack') = n + 1 /\ Len(line') = Level(stack'[n])
      BY <2>4, Zenon DEF HasCalled, GoesOn, Settled
    <3>2. Level(stack'[n]) = Level(stack'[n + 1])
      BY <1>9, <2>4, Zenon
    <3> QED
      BY <2>2, <3>1, <3>2, Zenon
  <2>5. CASE HasReturned(n)
    <3> DEFINE k == n - 1
    <3>1. Len(stack') = k /\ k \in 1 .. n /\ k < n /\ k \in 1 .. Len(stack') /\ k + 1 = n
      BY <1>1, <2>1, <2>5 DEF HasReturned
    <3> HIDE DEF k
    <3>2. Level(stack[k]) = stack[k + 1].ply + 1 /\ stack'[k] = stack[k]
      BY <1>1, <1>3, <3>1, Callers
    <3>3. Len(line') = Top.ply + 1
      BY <2>5 DEF HasReturned, Settled
    <3> QED
      BY <1>2, <2>2, <3>1, <3>2, <3>3
  <2> QED
    BY <1>1, <2>2, <2>3, <2>4, <2>5
<1>20. line' \in Seq(Positions(game'))
  BY <1>5
<1> QED
  BY <1>11, <1>12, <1>15, <1>16, <1>18, <1>19, <1>20, Zenon DEF StackInv, Level

LEMMA MarkStep ==
  ASSUME Inv, stack # << >>, FrameStep, RestStep
  PROVE  MarkInv'
<1> DEFINE n == Len(stack)
<1>1. /\ Len(stack') \in Nat /\ n \in Nat /\ Len(stack') >= n - 1 /\ Top = stack[n]
      /\ \A i \in 1 .. Len(stack') : i < n => stack'[i] = stack[i]
  <2>1. StackShape(n) /\ (Stayed(n) \/ HasCalled(n) \/ HasReturned(n))
    BY Shapes
  <2>2. Len(stack') \in Nat /\ n \in Nat /\ \A i \in 1 .. Len(stack') : i < n => stack'[i] = stack[i]
    BY <2>1 DEF StackShape
  <2> QED
    BY <2>1, <2>2, InvParts, TopFacts DEF Stayed, HasCalled, HasReturned
<1>2. MarkInv /\ n = Len(stack)
  BY DEF Inv
<1> HIDE DEF n
<1>3. nmp' # 0 => \E i \in 1 .. Len(stack') : stack'[i].at = "verified"
  <2>1. CASE nmp' = nmp /\ Top.at # "verified" /\ nmp # 0
    <3>1. PICK i \in 1 .. n : stack[i].at = "verified"
      BY <1>2, <2>1 DEF MarkInv
    <3>2. i < n /\ i \in 1 .. Len(stack')
      BY <1>1, <2>1, <3>1
    <3> QED
      BY <1>1, <3>1, <3>2
  <2> QED
    BY <2>1 DEF RestStep, NmpChange
<1>4. ASSUME NEW q \in Plies, ss'[q].excluded # NONE
      PROVE  \E i \in 1 .. Len(stack') : stack'[i].at = "singled" /\ stack'[i].ply = q
  <2>1. CASE ss'[q].excluded = ss[q].excluded /\ (Top.at = "singled" => q # Top.ply)
    <3>1. PICK i \in 1 .. n : stack[i].at = "singled" /\ stack[i].ply = q
      BY <1>2, <1>4, <2>1 DEF MarkInv
    <3>2. i < n /\ i \in 1 .. Len(stack')
      BY <1>1, <2>1, <3>1
    <3> QED
      BY <1>1, <3>1, <3>2
  <2> QED
    BY <1>4, <2>1 DEF RestStep, ExcludedChange
<1> QED
  BY <1>3, <1>4 DEF MarkInv

LEMMA ChainStep ==
  ASSUME Inv, stack # << >>, FrameStep
  PROVE  PvChain'
<1> DEFINE n == Len(stack)
<1>1. /\ Len(stack') \in Nat /\ n \in Nat /\ n >= 1 /\ Top = stack[n] /\ n = Len(stack)
      /\ \A i \in 1 .. Len(stack') : i < n => stack'[i] = stack[i]
      /\ Stayed(n) \/ HasCalled(n) \/ HasReturned(n)
  <2>1. StackShape(n) /\ (Stayed(n) \/ HasCalled(n) \/ HasReturned(n))
    BY Shapes
  <2>2. Len(stack') \in Nat /\ n \in Nat /\ n >= 1 /\ \A i \in 1 .. Len(stack') : i < n => stack'[i] = stack[i]
    BY <2>1 DEF StackShape
  <2> QED
    BY <2>1, <2>2, InvParts, TopFacts
<1>2. PvChain
  BY DEF Inv
<1> HIDE DEF n
<1>3. \A j \in 1 .. Len(stack') : j < n \/ (j = n /\ (Stayed(n) \/ HasCalled(n))) \/ (j = n + 1 /\ HasCalled(n))
  BY <1>1 DEF Stayed, HasCalled, HasReturned
<1>4. Stayed(n) \/ HasCalled(n) => stack'[n].pv = Top.pv
  BY Zenon DEF Stayed, HasCalled, GoesOn, SameNode
<1>5. HasCalled(n) => (stack'[n + 1].pv => stack'[n].pv /\ stack'[n].at \in PvWaitAt)
  BY Zenon DEF HasCalled, Called
<1> SUFFICES ASSUME NEW i \in 1 .. Len(stack'), NEW j \in 1 .. Len(stack'), i < j, stack'[j].pv
             PROVE  stack'[i].pv /\ stack'[i].at \in PvWaitAt
  BY DEF PvChain
<1>6. ASSUME i < n, Top.pv
      PROVE  stack'[i].pv /\ stack'[i].at \in PvWaitAt
  <2>1. stack[i].pv /\ stack[i].at \in PvWaitAt
    BY <1>1, <1>2, <1>6 DEF PvChain
  <2> QED
    BY <1>1, <1>6, <2>1
<1>7. CASE j < n
  <2>1. i < n /\ i \in 1 .. n /\ j \in 1 .. n
    BY <1>1, <1>7
  <2>2. stack[i].pv /\ stack[i].at \in PvWaitAt
    BY <1>1, <1>2, <1>7, <2>1 DEF PvChain
  <2> QED
    BY <1>1, <2>1, <2>2
<1>8. CASE j = n /\ (Stayed(n) \/ HasCalled(n))
  BY <1>4, <1>6, <1>8
<1>9. CASE j = n + 1 /\ HasCalled(n)
  <2>1. CASE i = n
    BY <1>5, <1>9, <2>1
  <2>2. CASE i < n
    BY <1>4, <1>5, <1>6, <1>9, <2>2
  <2> QED
    BY <1>1, <1>9, <2>1, <2>2
<1> QED
  BY <1>3, <1>7, <1>8, <1>9

\* The lines of the frames below the current one are not touched, but for the
\* one below the caller of a node of the principal variation.
LEMMA CallerLines ==
  ASSUME Inv, stack # << >>, LineChange, NEW i \in 1 .. Len(stack), i < Len(stack)
  PROVE  /\ OwnLine(game, ss', stack[i])
         /\ LineBelow(game, ss', stack[i]) /\ QLineBelow(game, ss', stack[i])
<1> DEFINE p == stack[i].ply
<1>1. /\ FrameOk(game, stack[i]) /\ p \in Nat /\ p <= Top.ply /\ (stack[i].at \in MadeAt => p + 1 <= Top.ply)
      /\ Top.ply \in Nat /\ Top.ply <= MAX_PLY /\ Len(stack) \in 1 .. Len(stack) /\ Top = stack[Len(stack)]
  BY Callers, InvParts, TopFacts DEF FrameOk
<1>2. FramesOk /\ StackInv /\ StackLines /\ PvChain /\ MAX_PLY \in Nat
  BY InvParts, ConstantTypes DEF Inv
<1>3. OwnLine(game, ss, stack[i]) /\ LineBelow(game, ss, stack[i]) /\ (Entered(i) \/ QLineBelow(game, ss, stack[i]))
  BY <1>2 DEF StackLines
<1>4. p \in Plies /\ p + 1 \in Plies
  BY <1>1, <1>2 DEF Plies
<1>5. Top.pv => stack[i].pv /\ stack[i].at \in PvWaitAt /\ stack[i].at \in MadeAt
  BY <1>1, <1>2 DEF PvChain, PvWaitAt, MadeAt
<1>6. Top.pv => p + 1 <= Top.ply
  BY <1>1, <1>5
<1>7. p = stack[i].ply
  OBVIOUS
<1> HIDE DEF p
<1>8. ss'[p].pv = ss[p].pv
  <2>1. \/ ss'[p].pv = ss[p].pv
        \/ Top.pv /\ p = Top.ply + 1
        \/ Top.pv /\ p = Top.ply
    BY <1>4 DEF LineChange
  <2> QED
    BY <1>1, <1>6, <2>1
<1>9. OwnLine(game, ss', stack[i])
  BY <1>3, <1>7, <1>8 DEF OwnLine
<1>10. \/ ss'[p + 1].pv = ss[p + 1].pv
       \/ Top.pv /\ p + 1 = Top.ply + 1 /\ ss'[p + 1].pv = << >>
       \/ Top.pv /\ p + 1 = Top.ply /\ PlayableIn(game, Top.pos, ss'[p + 1].pv)
  BY <1>4 DEF LineChange
<1>11. Top.pv /\ p + 1 = Top.ply => Top.pos = stack[i].move.to
  <2> SUFFICES ASSUME Top.pv, p + 1 = Top.ply
               PROVE  Top.pos = stack[i].move.to
    OBVIOUS
  <2>1. line[p + 2] = stack[i].move.to
    BY <1>2, <1>5, <1>7 DEF StackInv
  <2>2. line[Top.ply + 1] = Top.pos
    BY <1>1, <1>2 DEF StackInv
  <2>3. p + 2 = Top.ply + 1
    BY <1>1
  <2> QED
    BY <2>1, <2>2, <2>3, Zenon
<1>12. ASSUME stack[i].pv, stack[i].at \in InHandLineAt \cup {"qtried"}
       PROVE  PlayableIn(game, stack[i].move.to, ss'[p + 1].pv)
  <2>1. PlayableIn(game, stack[i].move.to, << >>)
    BY DEF PlayableIn
  <2>2. CASE ss'[p + 1].pv = ss[p + 1].pv
    <3>1. CASE stack[i].at \in InHandLineAt
      BY <1>3, <1>7, <1>12, <2>2, <3>1 DEF LineBelow, InHandLineAt
    <3>2. CASE stack[i].at = "qtried" /\ ~Entered(i)
      BY <1>3, <1>7, <1>12, <2>2, <3>2 DEF QLineBelow
    <3>3. CASE stack[i].at = "qtried" /\ Entered(i)
      <4>1. i = Len(stack) - 1 /\ stack[i + 1].pv /\ i + 1 = Len(stack)
        BY <1>1, <3>3 DEF Entered
      <4>2. Level(stack[i]) = stack[i + 1].ply + 1 /\ Top = stack[i + 1]
        BY <1>1, <4>1, Callers
      <4>3. p + 2 = Top.ply + 1
        BY <1>7, <3>3, <4>2 DEF Level, BelowAt, MadeAt
      <4>4. Top.pv /\ p + 1 = Top.ply /\ p + 1 # Top.ply + 1
        BY <1>1, <4>1, <4>2, <4>3
      <4>5. Top.at = "qjudge"
        BY <4>1, <4>2, <3>3 DEF Entered
      <4>6. ss'[p + 1].pv = << >>
        BY <4>4, <4>5 DEF LineChange
      <4> QED
        BY <2>1, <4>6
    <3> QED
      BY <1>12, <3>1, <3>2, <3>3
  <2> QED
    BY <1>10, <1>11, <2>1, <2>2
<1> QED
  BY <1>7, <1>9, <1>12 DEF LineBelow, QLineBelow, InHandLineAt

LEMMA LinesStep ==
  ASSUME Inv, stack # << >>, FrameStep, RestStep
  PROVE  StackLines'
<1> DEFINE n == Len(stack)
<1>1. /\ Len(stack') \in Nat /\ n \in Nat /\ n >= 1 /\ Top = stack[n] /\ n = Len(stack) /\ n \in 1 .. n
      /\ \A i \in 1 .. Len(stack') : i < n => stack'[i] = stack[i] /\ i \in 1 .. n
      /\ Stayed(n) \/ HasCalled(n) \/ HasReturned(n)
  <2>1. StackShape(n) /\ (Stayed(n) \/ HasCalled(n) \/ HasReturned(n))
    BY Shapes
  <2>2. Len(stack') \in Nat /\ n \in Nat /\ n >= 1 /\ \A i \in 1 .. Len(stack') : i < n => stack'[i] = stack[i]
    BY <2>1 DEF StackShape
  <2> QED
    BY <2>1, <2>2, InvParts, TopFacts
<1>2. StackLines /\ LineChange /\ game' = game
  BY DEF Inv, RestStep
<1>3. \A i \in 1 .. n : i < n => OwnLine(game, ss', stack[i]) /\ LineBelow(game, ss', stack[i]) /\ QLineBelow(game, ss', stack[i])
  BY <1>2, CallerLines
<1> HIDE DEF n
<1>4. \A i \in 1 .. n : stack[i].root <=> i = 1
  BY <1>1, <1>2 DEF StackLines
<1>5. \A j \in 1 .. Len(stack') : j < n \/ (j = n /\ Stayed(n)) \/ (j = n /\ HasCalled(n)) \/ (j = n + 1 /\ HasCalled(n))
  BY <1>1 DEF Stayed, HasCalled, HasReturned
<1>6. Stayed(n) \/ HasCalled(n) => stack'[n].root = Top.root
  BY Zenon DEF Stayed, HasCalled, GoesOn, SameNode
<1> SUFFICES ASSUME NEW i \in 1 .. Len(stack')
             PROVE  /\ OwnLine(game, ss', stack'[i]) /\ LineBelow(game, ss', stack'[i])
                    /\ Entered(i)' \/ QLineBelow(game, ss', stack'[i])
                    /\ stack'[i].root <=> i = 1
  BY <1>2 DEF StackLines
<1>7. CASE i < n
  BY <1>1, <1>3, <1>4, <1>7
<1>8. CASE i = n /\ Stayed(n)
  BY <1>1, <1>4, <1>6, <1>8 DEF Stayed, LinesOf
<1>9. CASE i = n /\ HasCalled(n)
  <2>1. /\ OwnLine(game, ss', stack'[n]) /\ LineBelow(game, ss', stack'[n])
        /\ (stack'[n + 1].at = "qjudge" /\ stack'[n + 1].pv) \/ QLineBelow(game, ss', stack'[n])
    BY <1>9 DEF HasCalled, CallLines
  <2>2. i = Len(stack') - 1
    BY <1>1, <1>9 DEF HasCalled
  <2>3. (stack'[i + 1].at = "qjudge" /\ stack'[i + 1].pv) => Entered(i)'
    BY <2>2, Zenon DEF Entered
  <2>4. Entered(i)' \/ QLineBelow(game, ss', stack'[i])
    BY <1>9, <2>1, <2>3, Zenon
  <2>5. stack'[i].root <=> i = 1
    BY <1>1, <1>4, <1>6, <1>9, Zenon
  <2> QED
    BY <1>9, <2>1, <2>4, <2>5, Zenon
<1>10. CASE i = n + 1 /\ HasCalled(n)
  <2>1. OwnLine(game, ss', stack'[i]) /\ stack'[i].at \in {"judge", "qjudge"} /\ ~stack'[i].root
    BY <1>10 DEF HasCalled, CallLines, Called
  <2>2. LineBelow(game, ss', stack'[i]) /\ QLineBelow(game, ss', stack'[i])
    BY <2>1 DEF LineBelow, QLineBelow
  <2> QED
    BY <1>1, <1>10, <2>1, <2>2
<1> QED
  BY <1>5, <1>7, <1>8, <1>9, <1>10

-----------------------------------------------------------------------------
\* The root moves, when one of them has been searched.

LEMMA ScoredType ==
  ASSUME RestOk, FramesOk, stack # << >>, NEW rm \in RootMoveRecords(game), NEW value \in Int, NEW child \in Seq(Moves(game)),
         Top.move \in Moves(game)
  PROVE  LET r == Scored(rm, Top, value, child)
         IN  r \in RootMoveRecords(game) /\ (r.pv = rm.pv \/ r.pv = <<Top.move>> \o child)
<1> DEFINE average == update_average(rm.avg, value)
           pv == <<Top.move>> \o child
           r == [rm EXCEPT !.avg = average]
           lower == value >= Top.beta
           upper == value <= Top.alpha
<1>1. /\ average \in Int /\ pv \in Seq(Moves(game)) /\ -VALUE_INFINITE \in Int /\ lower \in BOOLEAN /\ upper \in BOOLEAN
  <2>1. rm.avg \in Int /\ VALUE_INFINITE \in Int
    BY ConstantTypes DEF RootMoveRecords
  <2>2. weighted_score(value, rm.avg, 16) \in Int
    BY <2>1 DEF weighted_score
  <2>3. average \in Int
    BY <2>1, <2>2 DEF update_average
  <2>4. -VALUE_INFINITE \in Int
    BY <2>1
  <2>5. pv \in Seq(Moves(game))
    OBVIOUS
  <2> QED
    BY <2>3, <2>4, <2>5
<1>2. Scored(rm, Top, value, child) =
        IF Top.count = 1 \/ value > Top.alpha
        THEN [r EXCEPT !.score = value, !.lower = lower, !.upper = upper, !.pv = pv]
        ELSE [r EXCEPT !.score = -VALUE_INFINITE]
  BY DEF Scored
<1> HIDE DEF average, pv, lower, upper
<1>3. r \in RootMoveRecords(game) /\ r.pv = rm.pv
  BY <1>1 DEF RootMoveRecords
<1> HIDE DEF r
<1>4. \A q \in RootMoveRecords(game) :
        LET a == [q EXCEPT !.score = value, !.lower = lower, !.upper = upper, !.pv = pv]
            b == [q EXCEPT !.score = -VALUE_INFINITE]
        IN  a \in RootMoveRecords(game) /\ b \in RootMoveRecords(game) /\ a.pv = pv /\ b.pv = q.pv
  BY <1>1 DEF RootMoveRecords
<1> QED
  BY <1>2, <1>3, <1>4 DEF pv

LEMMA IterMoves ==
  ASSUME NEW n, NEW it \in Iterations(n), NEW moves \in Seq(RootMoveRecords(n))
  PROVE  LET s == [it EXCEPT !.moves = moves]
         IN  s \in Iterations(n) /\ s.moves = moves /\ s.phase = it.phase /\ s.search = it.search /\ s.last = it.last
BY DEF Iterations

\* Moves with the same first moves, each followed by a line, are known as before.
LEMMA SameFirstMoves ==
  ASSUME NEW n, NEW root, NEW moves, NEW later, NEW last, LinesKnown(n, root, moves, last), DOMAIN later = DOMAIN moves,
         \A i \in DOMAIN moves : later[i].pv # << >> /\ PlayableIn(n, root, later[i].pv) /\ later[i].pv[1] = moves[i].pv[1]
  PROVE  LinesKnown(n, root, later, last)
BY DEF LinesKnown

LEMMA IterKept ==
  ASSUME Inv, stack # << >>, IterStep
  PROVE  /\ iter' \in Iterations(game) /\ iter'.phase = iter.phase /\ iter'.search = iter.search
         /\ LinesKnown(game, RootOf(game, iter), iter'.moves, iter'.last)
<1>1. /\ RestOk /\ FramesOk /\ StackInv /\ RootInv /\ game \in DOMAIN Games /\ iter \in Iterations(game)
      /\ LinesKnown(game, RootOf(game, iter), iter.moves, iter.last)
  BY InvParts DEF RestOk, Inv, RootLines
<1>2. iter.moves \in Seq(RootMoveRecords(game))
  BY <1>1 DEF Iterations
<1>3. ASSUME Top.root, Top.at = "tried", NEW value \in Int, iter' = RootUpdated(Top, value)
      PROVE  /\ iter' \in Iterations(game) /\ iter'.phase = iter.phase /\ iter'.search = iter.search
             /\ LinesKnown(game, RootOf(game, iter), iter'.moves, iter'.last)
  <2> DEFINE child == ss[1].pv
             scored(i) == IF iter.moves[i].pv[1] = Top.move THEN Scored(iter.moves[i], Top, value, child) ELSE iter.moves[i]
             moves == [i \in DOMAIN iter.moves |-> scored(i)]
  <2>1. Ply = 0 /\ Ply = Top.ply /\ Top.pos = RootOf(game, iter) /\ Top.pos \in Positions(game)
    <3>1. Ply = 0 /\ Ply = Top.ply
      BY <1>1, <1>3, RootPly, TopFacts
    <3>2. line[Ply + 1] = Top.pos /\ line[1] = RootOf(game, iter) /\ Top.pos \in Positions(game)
      BY <1>1, LineFacts DEF RootInv
    <3>3. Ply + 1 = 1
      BY <3>1
    <3> QED
      BY <3>1, <3>2, <3>3, Zenon
  <2>2. Top.pv /\ Top.move \in Legal(game, Top.pos) /\ Top.move \in Moves(game)
    <3>1. FrameOk(game, Top)
      BY <1>1, TopFacts
    <3>2. Top.pv /\ Top.move \in Legal(game, Top.pos)
      BY <1>3, <3>1 DEF FrameOk, InHandAt, MadeAt
    <3> QED
      BY <1>1, <2>1, <3>2, GameFacts
  <2>3. child \in Seq(Moves(game)) /\ PlayableIn(game, Top.move.to, child)
    <3>1. LineBelow(game, ss, Top) /\ 1 \in Plies /\ ss \in [Plies -> Scopes(game)]
      BY <1>1, InvParts, ConstantTypes DEF Plies, RestOk
    <3>2. Top.ply + 1 = 1
      BY <2>1
    <3> QED
      BY <1>3, <2>2, <3>1, <3>2 DEF LineBelow, Scopes
  <2>4. /\ <<Top.move>> \o child # << >> /\ PlayableIn(game, Top.pos, <<Top.move>> \o child)
        /\ (<<Top.move>> \o child)[1] = Top.move
    BY <1>1, <2>1, <2>2, <2>3, LineBefore
  <2>5. iter' = [iter EXCEPT !.moves = moves]
    BY <1>3 DEF RootUpdated
  <2> HIDE DEF child
  <2>6. ASSUME NEW i \in DOMAIN iter.moves
        PROVE  /\ scored(i) \in RootMoveRecords(game) /\ scored(i).pv # << >> /\ PlayableIn(game, Top.pos, scored(i).pv)
               /\ scored(i).pv[1] = iter.moves[i].pv[1]
    <3>1. iter.moves[i] \in RootMoveRecords(game)
      BY <1>2, <2>6
    <3>2. iter.moves[i].pv # << >> /\ PlayableIn(game, Top.pos, iter.moves[i].pv)
      BY <1>1, <2>1, <2>6 DEF LinesKnown
    <3> DEFINE r == Scored(iter.moves[i], Top, value, child)
    <3>3. r \in RootMoveRecords(game) /\ (r.pv = iter.moves[i].pv \/ r.pv = <<Top.move>> \o child)
      BY <1>1, <1>3, <2>2, <2>3, <3>1, ScoredType
    <3> HIDE DEF r
    <3>4. CASE iter.moves[i].pv[1] = Top.move
      <4>1. scored(i) = r
        BY <3>4 DEF r
      <4> QED
        BY <2>4, <3>2, <3>3, <3>4, <4>1
    <3>5. CASE iter.moves[i].pv[1] # Top.move
      BY <3>1, <3>2, <3>5
    <3> QED
      BY <3>4, <3>5
  <2> HIDE DEF scored
  <2>7. DOMAIN moves = DOMAIN iter.moves /\ moves \in Seq(RootMoveRecords(game)) /\ \A i \in DOMAIN iter.moves : moves[i] = scored(i)
    BY <1>2, <2>6
  <2> HIDE DEF moves
  <2>8. LinesKnown(game, RootOf(game, iter), moves, iter.last)
    BY <1>1, <2>1, <2>6, <2>7, SameFirstMoves
  <2> QED
    BY <1>1, <2>5, <2>7, <2>8, IterMoves
<1>4. CASE UNCHANGED iter
  BY <1>1, <1>4
<1> QED
  BY <1>3, <1>4 DEF IterStep

LEMMA NodeInv ==
  ASSUME Inv, Node
  PROVE  Inv'
<1>1. stack # << >> /\ FrameStep /\ RestStep /\ IterStep /\ UNCHANGED game
  BY NodeFrames, NodeRest DEF RestStep
<1>2. /\ iter' \in Iterations(game) /\ iter'.phase = iter.phase /\ iter'.search = iter.search
      /\ LinesKnown(game, RootOf(game, iter), iter'.moves, iter'.last)
  BY <1>1, IterKept
<1>3. RestOk'
  <2>1. RestOk /\ ret'.value \in Int
    BY <1>1, InvParts DEF FrameStep
  <2> QED
    BY <1>1, <1>2, <2>1 DEF RestOk, RestStep
<1>4. FramesOk' /\ StackInv' /\ MarkInv' /\ PvChain' /\ StackLines'
  BY <1>1, FramesStep, StackStep, MarkStep, ChainStep, LinesStep
<1>5. RootOf(game, iter)' = RootOf(game, iter)
  BY <1>1, <1>2 DEF RootOf
<1>6. RootLines'
  BY <1>1, <1>2, <1>5 DEF RootLines
<1>7. RootInv'
  <2>1. RootInv /\ FramesOk /\ stack # << >> /\ Top.ply \in Nat
    BY <1>1, InvParts, TopFacts
  <2>2. line'[1] = line[1]
    <3>1. \A k \in 1 .. Top.ply + 1 : line'[k] = line[k]
      BY <1>1, Shapes DEF Stayed, HasCalled, HasReturned, GoesOn, Settled
    <3>2. 1 \in 1 .. Top.ply + 1
      BY <2>1
    <3> QED
      BY <3>1, <3>2
  <2> QED
    BY <1>2, <1>5, <2>1, <2>2 DEF RootInv
<1> QED
  BY <1>3, <1>4, <1>6, <1>7 DEF Inv

-----------------------------------------------------------------------------
\* Between the searches of the root: the stack is empty.

LEMMA RootStep ==
  ASSUME Inv, stack = << >>, UNCHANGED <<game, generation, nodeVars>>, iter' \in Iterations(game),
         iter'.search = iter.search, LinesKnown(game, RootOf(game, iter), iter'.moves, iter'.last)
  PROVE  Inv'
<1>1. RestOk' /\ FramesOk' /\ StackInv' /\ MarkInv' /\ PvChain'
  BY DEF Inv, nodeVars, RestOk, FramesOk, StackInv, MarkInv, PvChain
<1>2. RootOf(game, iter)' = RootOf(game, iter)
  BY DEF RootOf
<1>3. RootInv' /\ RootLines'
  BY <1>2 DEF Inv, nodeVars, RootInv, RootLines
<1>4. StackLines'
  <2>1. Len(stack) = 0 /\ stack' = stack
    BY DEF nodeVars
  <2> QED
    BY <2>1 DEF StackLines
<1> QED
  BY <1>1, <1>3, <1>4 DEF Inv

LEMMA IterFacts ==
  ASSUME Inv
  PROVE  /\ iter \in Iterations(game) /\ iter.moves \in Seq(RootMoveRecords(game)) /\ game \in DOMAIN Games
         /\ 1 \in DOMAIN iter.moves /\ iter.moves[1] \in RootMoveRecords(game)
         /\ iter.moves[1].avg \in Int /\ iter.moves[1].score \in Int /\ iter.moves[1].pv \in Seq(Moves(game))
         /\ iter.depth \in Int /\ iter.alpha \in Int /\ iter.beta \in Int /\ iter.delta \in Int /\ iter.failedHigh \in Int
         /\ iter.recovery \in Int /\ iter.search \in DOMAIN Games[game].searches
         /\ iter.last \in [pv : Seq(Moves(game)), score : Int] /\ ret.value \in Int
         /\ LinesKnown(game, RootOf(game, iter), iter.moves, iter.last)
         /\ iter.phase # "searching" => stack = << >>
<1>1. iter \in Iterations(game) /\ game \in DOMAIN Games /\ RootLines /\ ret.value \in Int /\ (iter.phase # "searching" => stack = << >>)
  BY DEF Inv, RestOk, RootInv
<1>2. iter.moves \in Seq(RootMoveRecords(game)) /\ 1 \in DOMAIN iter.moves
  BY <1>1, FirstRootMove DEF Iterations
<1>3. iter.moves[1] \in RootMoveRecords(game)
  BY <1>2
<1>4. iter.moves[1].avg \in Int /\ iter.moves[1].score \in Int /\ iter.moves[1].pv \in Seq(Moves(game))
  BY <1>3 DEF RootMoveRecords
<1> QED
  BY <1>1, <1>2, <1>3, <1>4 DEF Iterations, RootLines

\* The fields of an iteration one by one.
LEMMA IterUpdates ==
  ASSUME NEW n, NEW it \in Iterations(n)
  PROVE  /\ \A v \in {"iterate", "pass", "searching", "record", "restore", "done"} : [it EXCEPT !.phase = v] \in Iterations(n)
         /\ \A v \in Int : [it EXCEPT !.depth = v] \in Iterations(n) /\ [it EXCEPT !.alpha = v] \in Iterations(n)
         /\ \A v \in Int : [it EXCEPT !.beta = v] \in Iterations(n) /\ [it EXCEPT !.delta = v] \in Iterations(n)
         /\ \A v \in Int : [it EXCEPT !.failedHigh = v] \in Iterations(n) /\ [it EXCEPT !.recovery = v] \in Iterations(n)
         /\ \A v \in BOOLEAN : [it EXCEPT !.forgotten = v] \in Iterations(n)
         /\ \A v \in [pv : Seq(Moves(n)), score : Int] : [it EXCEPT !.last = v] \in Iterations(n)
         /\ \A v \in Seq(RootMoveRecords(n)) : [it EXCEPT !.moves = v] \in Iterations(n)
<1> USE DEF Iterations
<1>1. \A v \in {"iterate", "pass", "searching", "record", "restore", "done"} : [it EXCEPT !.phase = v] \in Iterations(n)
  OBVIOUS
<1>2. \A v \in Int : [it EXCEPT !.depth = v] \in Iterations(n) /\ [it EXCEPT !.alpha = v] \in Iterations(n)
  OBVIOUS
<1>3. \A v \in Int : [it EXCEPT !.beta = v] \in Iterations(n) /\ [it EXCEPT !.delta = v] \in Iterations(n)
  OBVIOUS
<1>4. \A v \in Int : [it EXCEPT !.failedHigh = v] \in Iterations(n) /\ [it EXCEPT !.recovery = v] \in Iterations(n)
  OBVIOUS
<1>5. \A v \in BOOLEAN : [it EXCEPT !.forgotten = v] \in Iterations(n)
  OBVIOUS
<1>6. \A v \in [pv : Seq(Moves(n)), score : Int] : [it EXCEPT !.last = v] \in Iterations(n)
  OBVIOUS
<1>7. \A v \in Seq(RootMoveRecords(n)) : [it EXCEPT !.moves = v] \in Iterations(n)
  OBVIOUS
<1> QED
  BY <1>1, <1>2, <1>3, <1>4, <1>5, <1>6, <1>7

LEMMA StartIterationInv ==
  ASSUME Inv, StartIteration
  PROVE  Inv'
<1> DEFINE avg == iter.moves[1].avg
           alpha == Larger(avg - Delta, -VALUE_INFINITE)
           beta == Smaller(avg + Delta, VALUE_INFINITE)
           recovery == Larger(iter.recovery - 2, 0)
           moves == [i \in DOMAIN iter.moves |-> [iter.moves[i] EXCEPT !.prev = iter.moves[i].score]]
           a == [iter EXCEPT !.phase = "done"]
           b == [iter EXCEPT !.phase = "pass", !.depth = iter.depth + 1, !.delta = Delta, !.failedHigh = 0,
                   !.alpha = alpha, !.beta = beta, !.recovery = recovery, !.moves = moves]
<1>1. /\ iter \in Iterations(game) /\ stack = << >> /\ UNCHANGED <<game, generation, nodeVars>>
      /\ LinesKnown(game, RootOf(game, iter), iter.moves, iter.last)
  BY IterFacts DEF StartIteration
<1>2. alpha \in Int /\ beta \in Int /\ recovery \in Int /\ Delta \in Int /\ iter.depth + 1 \in Int
  <2>1. avg - Delta \in Int /\ avg + Delta \in Int /\ -VALUE_INFINITE \in Int /\ VALUE_INFINITE \in Int /\ iter.recovery - 2 \in Int
    BY IterFacts, ConstantTypes
  <2>2. iter.depth + 1 \in Int /\ Delta \in Int
    BY IterFacts, ConstantTypes
  <2> HIDE DEF avg
  <2>3. alpha \in Int /\ beta \in Int
    BY <2>1, ChoiceTypes
  <2>4. recovery \in Int
    BY <2>1 DEF Larger
  <2> QED
    BY <2>2, <2>3, <2>4
<1>3. moves \in Seq(RootMoveRecords(game)) /\ DOMAIN moves = DOMAIN iter.moves /\ \A i \in DOMAIN iter.moves : moves[i].pv = iter.moves[i].pv
  <2>1. \A rm \in RootMoveRecords(game) :
          LET r == [rm EXCEPT !.prev = rm.score] IN r \in RootMoveRecords(game) /\ r.pv = rm.pv
    BY DEF RootMoveRecords
  <2>2. iter.moves \in Seq(RootMoveRecords(game))
    BY IterFacts
  <2>3. \A i \in DOMAIN iter.moves : iter.moves[i] \in RootMoveRecords(game)
    BY <2>2
  <2> QED
    BY <2>1, <2>2, <2>3
<1>4. iter' = a \/ iter' = b
  BY <1>1 DEF StartIteration, Iterations
<1> HIDE DEF alpha, beta, recovery, moves
<1>5. a \in Iterations(game) /\ a.search = iter.search /\ a.moves = iter.moves /\ a.last = iter.last
  BY <1>1 DEF Iterations
<1>6. b \in Iterations(game) /\ b.search = iter.search /\ b.moves = moves /\ b.last = iter.last
  <2> DEFINE c == [iter EXCEPT !.phase = "pass", !.depth = iter.depth + 1, !.delta = Delta, !.failedHigh = 0]
             d == [c EXCEPT !.alpha = alpha, !.beta = beta, !.recovery = recovery]
             depth == iter.depth + 1
  <2>1. c \in Iterations(game)
    <3> DEFINE e == [iter EXCEPT !.phase = "pass"]
               zero == 0
    <3>1. depth \in Int /\ Delta \in Int /\ zero \in Int
      BY <1>2
    <3>2. e \in Iterations(game)
      BY <1>1, IterUpdates
    <3> HIDE DEF depth, zero, e
    <3>3. [e EXCEPT !.depth = depth, !.delta = Delta, !.failedHigh = zero] \in Iterations(game)
      BY <3>1, <3>2, IterUpdates
    <3> QED
      BY <3>3 DEF depth, zero, e
  <2>2. c.search = iter.search /\ c.last = iter.last
    BY <1>1 DEF Iterations
  <2> HIDE DEF c
  <2>3. d \in Iterations(game)
    BY <1>2, <2>1, IterUpdates
  <2>4. d.search = c.search /\ d.last = c.last
    BY <2>1 DEF Iterations
  <2> HIDE DEF d
  <2>5. [d EXCEPT !.moves = moves] \in Iterations(game) /\ LET e == [d EXCEPT !.moves = moves] IN
          e.search = d.search /\ e.last = d.last /\ e.moves = moves
    BY <1>3, <2>3, IterMoves
  <2>6. b = [d EXCEPT !.moves = moves]
    BY DEF c, d
  <2> QED
    BY <2>2, <2>4, <2>5, <2>6
<1>7. LinesKnown(game, RootOf(game, iter), moves, iter.last)
  <2>1. \A i \in DOMAIN iter.moves :
           moves[i].pv # << >> /\ PlayableIn(game, RootOf(game, iter), moves[i].pv) /\ moves[i].pv[1] = iter.moves[i].pv[1]
    BY <1>1, <1>3 DEF LinesKnown
  <2> QED
    BY <1>1, <1>3, <2>1, SameFirstMoves
<1> HIDE DEF a, b
<1> QED
  BY <1>1, <1>4, <1>5, <1>6, <1>7, RootStep

LEMMA StartPassInv ==
  ASSUME Inv, StartPass
  PROVE  Inv'
<1> DEFINE depth == Larger(1, iter.depth - iter.failedHigh - iter.recovery)
           rule60 == G.searches[iter.search].rule60
           c == search_node(iter.alpha, iter.beta, depth, FALSE, TRUE)
           f == Placed(c, Pos, rule60, 0)
           g == [f EXCEPT !.root = TRUE]
<1>1. iter.phase = "pass" /\ stack = << >> /\ stack' = <<g>> /\ UNCHANGED <<game, generation, line, ret, ss, nmp, table>>
      /\ iter' = [iter EXCEPT !.phase = "searching"]
  BY IterFacts DEF StartPass
<1>2. /\ RestOk /\ FramesOk /\ StackInv /\ RootInv /\ MarkInv /\ RootLines /\ game \in DOMAIN Games
      /\ iter \in Iterations(game) /\ Len(line) = 1 /\ line \in Seq(Positions(game)) /\ line[1] = RootOf(game, iter)
  BY <1>1 DEF Inv, RestOk, StackInv, RootInv
<1>3. Pos = line[1] /\ Pos \in Positions(game)
  BY <1>2 DEF Pos
<1>4. depth \in Int /\ depth >= 1
  <2>1. iter.depth - iter.failedHigh - iter.recovery \in Int /\ 1 \in Int
    BY IterFacts
  <2> QED
    BY <2>1, ChoiceTypes
<1>5. rule60 \in Int
  <2>1. Games[game].searches[iter.search] \in [root : Positions(game), rule60 : Nat]
    <3>1. iter.search \in DOMAIN Games[game].searches /\ Games[game].searches \in Seq([root : Positions(game), rule60 : Nat])
      BY <1>2, IterFacts, GameFacts
    <3> QED
      BY <3>1, LenProperties, ElementOfSeq, Zenon
  <2> QED
    BY <2>1 DEF G
<1> HIDE DEF depth, rule60
<1>6. CalleeOk(game, f, Pos, 0, TRUE) /\ f.at = "judge"
  <2> DEFINE d == Smaller(depth, MAX_PLY - 1)
             h == NewFrame("judge", iter.alpha, iter.beta, d, FALSE, TRUE)
  <2>1. d \in Int /\ d >= 1
    BY <1>4, ConstantTypes DEF Smaller
  <2>2. c = h
    <3>1. ~(depth <= 0)
      BY <1>4
    <3> QED
      BY <3>1, Zenon DEF search_node
  <2>3. iter.alpha \in Int /\ iter.beta \in Int /\ 0 \in Nat /\ 0 <= MAX_PLY
    BY IterFacts, ConstantTypes
  <2> HIDE DEF d
  <2>4. \A pv \in BOOLEAN, cut \in BOOLEAN :
          CalleeOk(game, Placed(NewFrame("judge", iter.alpha, iter.beta, d, cut, pv), Pos, rule60, 0), Pos, 0, pv)
    BY <1>3, <1>5, <2>1, <2>3, NewFrameOk
  <2>5. CalleeOk(game, Placed(h, Pos, rule60, 0), Pos, 0, TRUE)
    BY <2>4
  <2>6. Placed(h, Pos, rule60, 0).at = "judge"
    BY DEF NewFrame, Placed
  <2> QED
    BY <2>2, <2>5, <2>6
<1> HIDE DEF f
<1>7. f \in Frames(game) /\ FrameOk(game, f) /\ f.pv = TRUE /\ f.ply = 0 /\ f.pos = Pos
  BY <1>6 DEF CalleeOk, FrameOk
<1>8. g \in Frames(game)
  <2>1. TRUE \in BOOLEAN
    OBVIOUS
  <2>2. \A v \in BOOLEAN : [f EXCEPT !.root = v] \in Frames(game)
    BY <1>7, FrameUpdates DEF Frames
  <2> QED
    BY <2>2
<1>9. /\ g.at = "judge" /\ g.ply = 0 /\ g.pos = Pos /\ g.pv = TRUE /\ g.root = TRUE
      /\ g.depth = f.depth /\ g.left = f.left
  BY <1>6, <1>7 DEF Frames, FramesOf
<1> HIDE DEF g
<1>10. FrameOk(game, g)
  BY <1>6, <1>7, <1>8, <1>9, ConstantTypes DEF FrameOk, NodeAt, InHandAt, MadeAt
<1>11. Len(stack') = 1 /\ stack'[1] = g /\ stack' # << >> /\ stack' \in Seq(Frames(game))
  BY <1>1, <1>8
<1>12. \A i \in 1 .. Len(stack') : i = 1
  BY <1>11
<1>13. FramesOk'
  BY <1>1, <1>10, <1>11, <1>12 DEF FramesOk
<1>14. StackInv'
  <2>1. Level(g) = 1 /\ g.at \notin MadeAt
    BY <1>9 DEF Level, BelowAt, MadeAt
  <2>2. \A i \in 1 .. Len(stack') - 1 : FALSE
    BY <1>11
  <2>3. line[g.ply + 1] = g.pos
    BY <1>3, <1>9
  <2>4. g.ply <= g.ply
    BY <1>9
  <2>5. Len(line') = Level(stack'[Len(stack')]) /\ stack'[1].ply = 0
    BY <1>1, <1>2, <1>9, <1>11, <2>1
  <2>6. \A i \in 1 .. Len(stack') : /\ line'[stack'[i].ply + 1] = stack'[i].pos /\ stack'[i].at \notin MadeAt
                                   /\ \A j \in 1 .. Len(stack') : stack'[i].ply <= stack'[j].ply
    BY <1>1, <1>11, <1>12, <2>1, <2>3, <2>4, Zenon
  <2>7. line' \in Seq(Positions(game'))
    BY <1>1, <1>2
  <2> QED
    BY <1>11, <2>2, <2>5, <2>6, <2>7, Zenon DEF StackInv, Level
<1>15. iter' \in Iterations(game) /\ iter'.phase = "searching" /\ iter'.search = iter.search /\ iter'.moves = iter.moves /\ iter'.last = iter.last
  BY <1>1, <1>2 DEF Iterations
<1>16. RootOf(game, iter)' = RootOf(game, iter)
  BY <1>1, <1>15 DEF RootOf
<1>17. RestOk' /\ RootInv' /\ RootLines'
  BY <1>1, <1>2, <1>15, <1>16 DEF RestOk, RootInv, RootLines
<1>18. MarkInv'
  <2>1. nmp = 0 /\ \A q \in Plies : ss[q].excluded = NONE
    BY <1>1, <1>2 DEF MarkInv
  <2> QED
    BY <1>1, <2>1 DEF MarkInv
<1>19. PvChain'
  <2>1. \A i, j \in 1 .. Len(stack') : ~(i < j)
    BY <1>11
  <2> QED
    BY <2>1 DEF PvChain
<1>20. StackLines'
  <2>1. OwnLine(game, ss, g) /\ LineBelow(game, ss, g) /\ QLineBelow(game, ss, g)
    BY <1>9 DEF OwnLine, LineBelow, QLineBelow
  <2> QED
    BY <1>1, <1>9, <1>11, <1>12, <2>1 DEF StackLines
<1> QED
  BY <1>13, <1>14, <1>17, <1>18, <1>19, <1>20 DEF Inv

\* The root moves in another order are known as before.
LEMMA SameMoves ==
  ASSUME NEW n, NEW root, NEW moves, NEW later, NEW last, LinesKnown(n, root, moves, last),
         \A r \in DOMAIN later : \E i \in DOMAIN moves : later[r] = moves[i],
         \A i \in DOMAIN moves : \E r \in DOMAIN later : later[r] = moves[i]
  PROVE  LinesKnown(n, root, later, last)
BY DEF LinesKnown

\* Sorting the root moves puts each of them somewhere.
LEMMA SortedMoves ==
  ASSUME NEW S, NEW moves \in Seq(S), \A i \in DOMAIN moves : moves[i].score \in Int /\ moves[i].prev \in Int
  PROVE  /\ Sorted(moves) \in Seq(S) /\ DOMAIN Sorted(moves) = DOMAIN moves
         /\ \A r \in DOMAIN moves : \E i \in DOMAIN moves : Sorted(moves)[r] = moves[i]
         /\ \A i \in DOMAIN moves : \E r \in DOMAIN moves : Sorted(moves)[r] = moves[i]
<1> DEFINE n == Len(moves)
           D == DOMAIN moves
           Le(j, i) == Before(moves[j], moves[i]) \/ (~Before(moves[i], moves[j]) /\ j <= i)
           Upto(i) == {j \in D : Le(j, i)}
           Rank(i) == Cardinality(Upto(i))
           rank == [i \in D |-> Rank(i)]
<1>1. n \in Nat /\ D = 1 .. n /\ IsFiniteSet(D) /\ Cardinality(D) = n
  <2>1. n \in Nat /\ D = 1 .. n
    OBVIOUS
  <2>2. 1 \in Int /\ n \in Int
    BY <2>1
  <2>3. IsFiniteSet(1 .. n) /\ Cardinality(1 .. n) = IF 1 > n THEN 0 ELSE n - 1 + 1
    BY <2>2, FS_Interval
  <2> QED
    BY <2>1, <2>3
<1>2. /\ \A i \in D : Le(i, i)
      /\ \A i, j \in D : Le(i, j) \/ Le(j, i)
      /\ \A i, j \in D : Le(i, j) /\ Le(j, i) => i = j
      /\ \A i, j, k \in D : Le(i, j) /\ Le(j, k) => Le(i, k)
  <2>1. D \subseteq Int
    BY <1>1
  <2>2. \A i \in D : Le(i, i)
    BY <2>1 DEF Before
  <2>3. \A i, j \in D : Le(i, j) \/ Le(j, i)
    BY <2>1 DEF Before
  <2>4. \A i, j \in D : Le(i, j) /\ Le(j, i) => i = j
    BY <2>1 DEF Before
  <2>5. \A i, j, k \in D : Le(i, j) /\ Le(j, k) => Le(i, k)
    BY <2>1 DEF Before
  <2> QED
    BY <2>2, <2>3, <2>4, <2>5
<1>3. Sorted(moves) = [r \in D |-> moves[CHOOSE i \in D : Rank(i) = r]]
  BY DEF Sorted
<1> HIDE DEF Le, n
<1>4. \A i \in D : Upto(i) \in SUBSET D /\ IsFiniteSet(Upto(i)) /\ Rank(i) \in Nat /\ Rank(i) <= n /\ Rank(i) >= 1
  <2> SUFFICES ASSUME NEW i \in D
               PROVE  Upto(i) \in SUBSET D /\ IsFiniteSet(Upto(i)) /\ Rank(i) \in Nat /\ Rank(i) <= n /\ Rank(i) >= 1
    OBVIOUS
  <2>1. Upto(i) \in SUBSET D /\ i \in Upto(i)
    BY <1>2
  <2> HIDE DEF Upto
  <2>2. IsFiniteSet(Upto(i)) /\ Rank(i) <= n
    BY <1>1, <2>1, FS_Subset
  <2>3. Rank(i) \in Nat
    BY <2>2, FS_CardinalityType
  <2>4. Rank(i) # 0
    BY <2>1, <2>2, FS_EmptySet
  <2> QED
    BY <2>1, <2>2, <2>3, <2>4
<1>5. \A i, j \in D : Rank(i) = Rank(j) => i = j
  <2>1. ASSUME NEW i \in D, NEW j \in D, Le(i, j), Rank(i) = Rank(j)
        PROVE  i = j
    <3>1. Upto(i) \subseteq Upto(j) /\ j \in Upto(j)
      BY <1>2, <2>1
    <3>2. IsFiniteSet(Upto(j)) /\ (j \in Upto(i) => Le(j, i))
      BY <1>4, <2>1
    <3> HIDE DEF Upto
    <3>3. Upto(i) = Upto(j)
      BY <2>1, <3>1, <3>2, FS_Subset
    <3> QED
      BY <1>2, <2>1, <3>1, <3>2, <3>3
  <2> QED
    BY <1>2, <2>1
<1> HIDE DEF Upto
<1>6. rank \in [D -> D] /\ \A i \in D : rank[i] = Rank(i) /\ Rank(i) \in D
  <2>1. \A i \in D : Rank(i) \in D
    BY <1>1, <1>4
  <2> HIDE DEF Rank
  <2> QED
    BY <2>1
<1> HIDE DEF Rank, rank
<1>7. \A r \in D : \E i \in D : Rank(i) = r
  <2>1. rank \in Injection(D, D)
    BY <1>5, <1>6 DEF Injection, IsInjective
  <2>2. rank \in Surjection(D, D)
    BY <1>1, <2>1, FS_Injection
  <2>3. \A r \in D : \E i \in D : rank[i] = r
    BY <2>2 DEF Surjection
  <2> QED
    BY <1>6, <2>3
<1>8. \A r \in D : (CHOOSE i \in D : Rank(i) = r) \in D
  BY <1>7
<1>9. \A i \in D : (CHOOSE k \in D : Rank(k) = Rank(i)) = i
  BY <1>5
<1>10. DOMAIN Sorted(moves) = D /\ \A r \in D : Sorted(moves)[r] = moves[CHOOSE i \in D : Rank(i) = r]
  BY <1>3
<1>11. \A r \in D : \E i \in D : Sorted(moves)[r] = moves[i]
  BY <1>8, <1>10
<1>12. \A i \in D : \E r \in D : Sorted(moves)[r] = moves[i]
  <2> SUFFICES ASSUME NEW i \in D
               PROVE  \E r \in D : Sorted(moves)[r] = moves[i]
    OBVIOUS
  <2>1. Rank(i) \in D
    BY <1>6
  <2>2. Sorted(moves)[Rank(i)] = moves[CHOOSE k \in D : Rank(k) = Rank(i)]
    BY <1>10, <2>1
  <2>3. Sorted(moves)[Rank(i)] = moves[i]
    BY <1>9, <2>2
  <2> QED
    BY <2>1, <2>3
<1>13. Sorted(moves) \in Seq(S)
  <2>1. \A i \in D : moves[i] \in S
    OBVIOUS
  <2>2. \A r \in D : Sorted(moves)[r] \in S
    BY <1>11, <2>1
  <2>3. Sorted(moves) \in [D -> S]
    BY <1>3, <1>10, <2>2
  <2> QED
    BY <1>1, <2>3
<1> QED
  BY <1>10, <1>11, <1>12, <1>13

LEMMA WidenedType ==
  ASSUME NEW n, NEW it \in Iterations(n), NEW value \in Int
  PROVE  LET w == Widened(it, value)
         IN  w \in Iterations(n) /\ w.moves = it.moves /\ w.search = it.search /\ w.last = it.last
<1> DEFINE delta == it.delta + (44 * it.delta) \div 128
           alpha == IF value <= it.alpha THEN Larger(value - it.delta, -VALUE_INFINITE) ELSE Larger(it.beta - it.delta, it.alpha)
           beta == IF value <= it.alpha THEN it.alpha ELSE Smaller(value + it.delta, VALUE_INFINITE)
           high == IF value <= it.alpha THEN 0 ELSE it.failedHigh + 1
           a == [it EXCEPT !.phase = "pass"]
           b == [a EXCEPT !.delta = delta, !.alpha = alpha, !.beta = beta, !.failedHigh = high]
<1>1. Widened(it, value) = b
  BY DEF Widened, Iterations
<1>2. it.delta \in Int /\ it.alpha \in Int /\ it.beta \in Int /\ it.failedHigh \in Int /\ VALUE_INFINITE \in Int
  BY ConstantTypes DEF Iterations
<1>3. delta \in Int /\ alpha \in Int /\ beta \in Int /\ high \in Int
  BY <1>2 DEF Larger, Smaller
<1> HIDE DEF delta, alpha, beta, high
<1>4. a \in Iterations(n) /\ a.moves = it.moves /\ a.search = it.search /\ a.last = it.last
  BY DEF Iterations
<1> HIDE DEF a
<1>5. b \in Iterations(n)
  BY <1>3, <1>4, IterUpdates
<1>6. b.moves = a.moves /\ b.search = a.search /\ b.last = a.last
  BY <1>4 DEF Iterations
<1> QED
  BY <1>1, <1>4, <1>5, <1>6

LEMMA PassDoneInv ==
  ASSUME Inv, PassDone
  PROVE  Inv'
<1> DEFINE moves == Sorted(iter.moves)
           it == [iter EXCEPT !.moves = moves]
           forgotten == forgotten_mate(moves, it.last)
           recovery == IF it.failedHigh > 0 THEN (it.failedHigh + 1) \div 2 + 2 ELSE it.recovery
           done == [it EXCEPT !.phase = "record", !.forgotten = forgotten, !.recovery = recovery]
<1>1. /\ iter \in Iterations(game) /\ stack = << >> /\ UNCHANGED <<game, generation, nodeVars>> /\ ret.value \in Int
      /\ LinesKnown(game, RootOf(game, iter), iter.moves, iter.last) /\ iter.moves \in Seq(RootMoveRecords(game))
  BY IterFacts DEF PassDone
<1>2. \A i \in DOMAIN iter.moves : iter.moves[i].score \in Int /\ iter.moves[i].prev \in Int
  <2>1. \A i \in DOMAIN iter.moves : iter.moves[i] \in RootMoveRecords(game)
    BY <1>1
  <2> QED
    BY <2>1 DEF RootMoveRecords
<1>3. /\ moves \in Seq(RootMoveRecords(game))
      /\ \A r \in DOMAIN moves : \E i \in DOMAIN iter.moves : moves[r] = iter.moves[i]
      /\ \A i \in DOMAIN iter.moves : \E r \in DOMAIN moves : moves[r] = iter.moves[i]
  <2> DEFINE before == iter.moves
  <2>1. before \in Seq(RootMoveRecords(game)) /\ \A i \in DOMAIN before : before[i].score \in Int /\ before[i].prev \in Int
    BY <1>1, <1>2
  <2> HIDE DEF before
  <2>2. /\ Sorted(before) \in Seq(RootMoveRecords(game)) /\ DOMAIN Sorted(before) = DOMAIN before
        /\ \A r \in DOMAIN before : \E i \in DOMAIN before : Sorted(before)[r] = before[i]
        /\ \A i \in DOMAIN before : \E r \in DOMAIN before : Sorted(before)[r] = before[i]
    BY <2>1, SortedMoves
  <2>3. moves = Sorted(before)
    BY DEF before
  <2> HIDE DEF moves
  <2> QED
    BY <2>2, <2>3 DEF before
<1>4. it.moves = moves
  BY <1>1 DEF Iterations
<1>5. iter' = done \/ iter' = Widened(it, ret.value)
  <2>1. [it EXCEPT !.phase = "record", !.forgotten = forgotten].recovery = it.recovery
    BY <1>1 DEF Iterations
  <2> QED
    BY <1>4, <2>1 DEF PassDone
<1> HIDE DEF moves
<1>6. LinesKnown(game, RootOf(game, iter), moves, iter.last)
  BY <1>1, <1>3, SameMoves
<1>7. it \in Iterations(game) /\ it.moves = moves /\ it.search = iter.search /\ it.last = iter.last
  BY <1>1, <1>3, IterMoves
<1> HIDE DEF it
<1>8. done \in Iterations(game) /\ done.moves = moves /\ done.search = iter.search /\ done.last = iter.last
  <2>1. forgotten \in BOOLEAN
    BY DEF forgotten_mate
  <2>2. recovery \in Int
    BY <1>7 DEF Iterations
  <2> HIDE DEF forgotten, recovery
  <2> QED
    BY <1>7, <2>1, <2>2 DEF Iterations
<1>9. LET w == Widened(it, ret.value)
      IN  w \in Iterations(game) /\ w.moves = it.moves /\ w.search = it.search /\ w.last = it.last
  BY <1>1, <1>7, WidenedType
<1> HIDE DEF done
<1> QED
  BY <1>1, <1>5, <1>6, <1>7, <1>8, <1>9, RootStep

LEMMA RecordInv ==
  ASSUME Inv, Record
  PROVE  Inv'
<1> DEFINE new == [pv |-> iter.moves[1].pv, score |-> iter.moves[1].score]
           last == IF stop \/ iter.forgotten THEN iter.last ELSE new
           it == [iter EXCEPT !.phase = "restore", !.last = last]
<1>1. /\ iter \in Iterations(game) /\ stack = << >> /\ UNCHANGED <<game, generation, nodeVars>> /\ 1 \in DOMAIN iter.moves
      /\ LinesKnown(game, RootOf(game, iter), iter.moves, iter.last)
  BY IterFacts DEF Record
<1>2. iter' = it
  BY <1>1 DEF Record, Iterations
<1>3. last \in [pv : Seq(Moves(game)), score : Int]
  BY IterFacts
<1>4. LinesKnown(game, RootOf(game, iter), iter.moves, last)
  BY <1>1 DEF LinesKnown
<1> HIDE DEF last
<1>5. it \in Iterations(game) /\ it.search = iter.search /\ it.moves = iter.moves /\ it.last = last
  BY <1>1, <1>3 DEF Iterations
<1> HIDE DEF it
<1> QED
  BY <1>1, <1>2, <1>4, <1>5, RootStep

\* Taking a root move to the front leaves each of them somewhere.
Rearranged(moves, later) ==
  /\ \A r \in DOMAIN later : \E k \in DOMAIN moves : later[r] = moves[k]
  /\ \A k \in DOMAIN moves : \E r \in DOMAIN later : later[r] = moves[k]
Begins(moves, m) == \E i \in DOMAIN moves : moves[i].pv[1] = m
LEMMA FrontedMoves ==
  ASSUME NEW S, NEW moves \in Seq(S), NEW m, Begins(moves, m),
         NEW front, front = Fronted(moves, m)
  PROVE  front \in Seq(S) /\ 1 \in DOMAIN front /\ front[1].pv[1] = m /\ Rearranged(moves, front)
<1> DEFINE i == CHOOSE i \in DOMAIN moves : moves[i].pv[1] = m
           n == Len(moves)
           a == SubSeq(moves, 1, i - 1)
           b == SubSeq(moves, i + 1, n)
           later == <<moves[i]>> \o a \o b
<1>1. i \in DOMAIN moves /\ moves[i].pv[1] = m /\ n \in Nat /\ DOMAIN moves = 1 .. n
  BY DEF Begins
<1>2. Fronted(moves, m) = later
  BY DEF Fronted
<1> HIDE DEF i, n
<1>3. /\ a \in Seq(S) /\ Len(a) = i - 1 /\ \A k \in 1 .. i - 1 : a[k] = moves[k]
      /\ b \in Seq(S) /\ Len(b) = n - i /\ \A k \in 1 .. n - i : b[k] = moves[i + k]
  <2>1. n = Len(moves) /\ i \in Int /\ n \in Int /\ 1 <= i /\ i <= n
    BY <1>1 DEF n
  <2>2. a \in Seq(S) /\ Len(a) = i - 1 /\ \A k \in 1 .. i - 1 : a[k] = moves[k]
    BY <2>1
  <2>3. b \in Seq(S) /\ Len(b) = n - i /\ \A k \in 1 .. n - i : b[k] = moves[i + k]
    BY <2>1
  <2> QED
    BY <2>2, <2>3
<1> HIDE DEF a, b
<1>4. /\ later \in Seq(S) /\ Len(later) = n /\ later[1] = moves[i]
      /\ \A k \in 1 .. i - 1 : later[k + 1] = moves[k]
      /\ \A k \in i + 1 .. n : later[k] = moves[k]
  <2>1. moves[i] \in S /\ i \in 1 .. n /\ n \in Nat
    BY <1>1
  <2> DEFINE e == moves[i]
             c == <<e>> \o a
  <2>2. e \in S
    BY <2>1
  <2> HIDE DEF e
  <2>3. c \in Seq(S) /\ Len(c) = i /\ c[1] = e /\ \A k \in 1 .. i - 1 : c[k + 1] = a[k]
    BY <1>3, <2>1, <2>2
  <2> HIDE DEF c
  <2>4. /\ c \o b \in Seq(S) /\ Len(c \o b) = n /\ \A k \in 1 .. i : (c \o b)[k] = c[k]
        /\ \A k \in i + 1 .. n : (c \o b)[k] = b[k - i]
    <3>1. b \in Seq(S) /\ Len(b) = n - i /\ i + (n - i) = n
      BY <1>3, <2>1
    <3>2. c \o b \in Seq(S) /\ Len(c \o b) = Len(c) + Len(b)
      BY <2>3, <3>1, ConcatProperties, Zenon
    <3>3. Len(c) + Len(b) = n
      BY <2>1, <2>3, <3>1
    <3>4. \A k \in 1 .. Len(c) + Len(b) : (c \o b)[k] = IF k <= Len(c) THEN c[k] ELSE b[k - Len(c)]
      BY <2>3, <3>1, ConcatProperties, Zenon
    <3>5. \A k \in 1 .. i : k \in 1 .. n /\ k <= i
      BY <2>1
    <3>6. \A k \in i + 1 .. n : k \in 1 .. n /\ ~(k <= i)
      BY <2>1
    <3>7. \A k \in 1 .. n : (c \o b)[k] = IF k <= i THEN c[k] ELSE b[k - i]
      BY <2>3, <3>3, <3>4, Zenon
    <3> QED
      BY <3>2, <3>3, <3>5, <3>6, <3>7, Zenon
  <2>5. later = c \o b
    BY DEF c, e
  <2> HIDE DEF later
  <2>6. \A k \in 1 .. i - 1 : k + 1 \in 1 .. i
    BY <2>1
  <2>7. \A k \in i + 1 .. n : k - i \in 1 .. n - i /\ i + (k - i) = k
    BY <2>1
  <2>8. 1 \in 1 .. i
    BY <2>1
  <2> QED
    BY <1>3, <2>3, <2>4, <2>5, <2>6, <2>7, <2>8 DEF e
<1> HIDE DEF later
<1>5. DOMAIN later = 1 .. n /\ 1 \in 1 .. n /\ i \in 1 .. n
  BY <1>1, <1>4
<1>6. \A r \in 1 .. n : \E k \in 1 .. n : later[r] = moves[k]
  <2> SUFFICES ASSUME NEW r \in 1 .. n
               PROVE  \E k \in 1 .. n : later[r] = moves[k]
    OBVIOUS
  <2>1. CASE r = 1
    BY <1>4, <1>5, <2>1
  <2>2. CASE r # 1 /\ r <= i
    <3>1. r - 1 \in 1 .. i - 1 /\ (r - 1) + 1 = r /\ r - 1 \in 1 .. n
      BY <1>1, <1>5, <2>2
    <3> QED
      BY <1>4, <3>1
  <2>3. CASE r > i
    BY <1>1, <1>4, <1>5, <2>3
  <2> QED
    BY <1>1, <1>5, <2>1, <2>2, <2>3
<1>7. \A k \in 1 .. n : \E r \in 1 .. n : later[r] = moves[k]
  <2> SUFFICES ASSUME NEW k \in 1 .. n
               PROVE  \E r \in 1 .. n : later[r] = moves[k]
    OBVIOUS
  <2>1. CASE k = i
    BY <1>4, <1>5, <2>1
  <2>2. CASE k < i
    <3>1. k \in 1 .. i - 1 /\ k + 1 \in 1 .. n
      BY <1>1, <1>5, <2>2
    <3> QED
      BY <1>4, <3>1
  <2>3. CASE k > i
    BY <1>1, <1>4, <1>5, <2>3
  <2> QED
    BY <1>1, <1>5, <2>1, <2>2, <2>3
<1>8. /\ later \in Seq(S) /\ DOMAIN later = DOMAIN moves /\ 1 \in DOMAIN later /\ later[1].pv[1] = m
      /\ \A r \in DOMAIN later : \E k \in DOMAIN moves : later[r] = moves[k]
      /\ \A k \in DOMAIN moves : \E r \in DOMAIN later : later[r] = moves[k]
  <2>1. DOMAIN later = DOMAIN moves /\ DOMAIN moves = 1 .. n /\ later[1].pv[1] = m
    BY <1>1, <1>4, <1>5, Zenon
  <2> QED
    BY <1>4, <1>5, <1>6, <1>7, <2>1 DEF n
<1>9. Rearranged(moves, later)
  BY <1>8 DEF Rearranged
<1> QED
  BY <1>2, <1>8, <1>9

\* The first root move, scored again or given the line remembered for it.
LEMMA FirstMoveSet ==
  ASSUME NEW n, NEW root, NEW moves \in Seq(RootMoveRecords(n)), NEW last, LinesKnown(n, root, moves, last), 1 \in DOMAIN moves,
         NEW rm \in RootMoveRecords(n), rm.pv # << >>, PlayableIn(n, root, rm.pv), rm.pv[1] = moves[1].pv[1]
  PROVE  LET later == [moves EXCEPT ![1] = rm]
         IN  later \in Seq(RootMoveRecords(n)) /\ LinesKnown(n, root, later, last)
<1> DEFINE later == [moves EXCEPT ![1] = rm]
<1>1. later \in Seq(RootMoveRecords(n)) /\ DOMAIN later = DOMAIN moves /\ later[1] = rm
  OBVIOUS
<1>2. \A i \in DOMAIN moves : i # 1 => later[i] = moves[i]
  OBVIOUS
<1> HIDE DEF later
<1>3. \A i \in DOMAIN moves : later[i].pv # << >> /\ PlayableIn(n, root, later[i].pv) /\ later[i].pv[1] = moves[i].pv[1]
  BY <1>1, <1>2 DEF LinesKnown
<1>4. LinesKnown(n, root, later, last)
  BY <1>1, <1>3, SameFirstMoves
<1> QED
  BY <1>1, <1>4 DEF later

LEMMA RestoreInv ==
  ASSUME Inv, Restore
  PROVE  Inv'
<1> DEFINE moves == iter.moves
           last == iter.last
           front == Fronted(moves, last.pv[1])
           restored == Restored(moves, last)
           flagged == [moves EXCEPT ![1].lower = TRUE]
           n == game
           root == RootOf(game, iter)
<1>1. /\ iter \in Iterations(n) /\ stack = << >> /\ UNCHANGED <<game, generation, nodeVars>> /\ 1 \in DOMAIN moves
      /\ LinesKnown(n, root, moves, last) /\ moves \in Seq(RootMoveRecords(n)) /\ moves[1] \in RootMoveRecords(n)
      /\ last \in [pv : Seq(Moves(n)), score : Int]
  BY IterFacts DEF Restore
<1>2. \/ iter' = [[iter EXCEPT !.phase = "iterate"] EXCEPT !.moves = moves]
      \/ last.pv # << >> /\ iter' = [[iter EXCEPT !.phase = "iterate"] EXCEPT !.moves = restored]
      \/ iter' = [[iter EXCEPT !.phase = "iterate"] EXCEPT !.moves = flagged]
  BY <1>1 DEF Restore, Iterations
<1> HIDE DEF n, root, moves, last
<1>3. flagged \in Seq(RootMoveRecords(n)) /\ LinesKnown(n, root, flagged, last)
  <2> DEFINE first == moves[1]
             rm == [first EXCEPT !.lower = TRUE]
  <2>1. flagged = [moves EXCEPT ![1] = rm]
    BY <1>1
  <2>2. first \in RootMoveRecords(n) /\ first.pv # << >> /\ PlayableIn(n, root, first.pv)
    BY <1>1 DEF LinesKnown
  <2> HIDE DEF first
  <2>3. rm \in RootMoveRecords(n) /\ rm.pv = first.pv
    BY <2>2 DEF RootMoveRecords
  <2>4. rm.pv[1] = moves[1].pv[1]
    BY <2>3 DEF first
  <2> HIDE DEF rm, flagged
  <2> QED
    BY <1>1, <2>1, <2>2, <2>3, <2>4, FirstMoveSet
<1>4. ASSUME last.pv # << >>
      PROVE  restored \in Seq(RootMoveRecords(n)) /\ LinesKnown(n, root, restored, last)
  <2>1. last.pv[1] \in Legal(n, root) /\ PlayableIn(n, root, last.pv)
    BY <1>1, <1>4 DEF LinesKnown, PlayableIn
  <2> DEFINE m == last.pv[1]
  <2>2. Begins(moves, m)
    BY <1>1, <2>1 DEF LinesKnown, Begins
  <2>11. front = Fronted(moves, m)
    OBVIOUS
  <2> HIDE DEF m, front
  <2>3. /\ front \in Seq(RootMoveRecords(n)) /\ 1 \in DOMAIN front /\ front[1].pv[1] = m
        /\ \A r \in DOMAIN front : \E k \in DOMAIN moves : front[r] = moves[k]
        /\ \A k \in DOMAIN moves : \E r \in DOMAIN front : front[r] = moves[k]
    <3>1. moves \in Seq(RootMoveRecords(n))
      BY <1>1
    <3> DEFINE S == RootMoveRecords(n)
    <3>2. moves \in Seq(S)
      BY <3>1
    <3> HIDE DEF S
    <3>3. front \in Seq(S) /\ 1 \in DOMAIN front /\ front[1].pv[1] = m /\ Rearranged(moves, front)
      BY <2>2, <2>11, <3>2, FrontedMoves
    <3> QED
      BY <3>3 DEF S, Rearranged
  <2>4. restored = [front EXCEPT ![1].pv = last.pv, ![1].score = last.score, ![1].lower = FALSE, ![1].upper = FALSE]
    BY DEF Restored, front
  <2>5. LinesKnown(n, root, front, last)
    BY <1>1, <2>3, SameMoves
  <2> DEFINE first == front[1]
             rm == [first EXCEPT !.pv = last.pv, !.score = last.score, !.lower = FALSE, !.upper = FALSE]
  <2>6. restored = [front EXCEPT ![1] = rm]
    BY <2>3, <2>4
  <2>7. first \in RootMoveRecords(n)
    BY <2>3
  <2>8. last.pv \in Seq(Moves(n)) /\ last.score \in Int
    BY <1>1
  <2> HIDE DEF first
  <2>9. rm \in RootMoveRecords(n) /\ rm.pv = last.pv
    BY <2>7, <2>8 DEF RootMoveRecords
  <2>10. rm.pv # << >> /\ PlayableIn(n, root, rm.pv) /\ rm.pv[1] = front[1].pv[1]
    BY <1>4, <2>1, <2>3, <2>9 DEF m
  <2> HIDE DEF rm, restored
  <2> QED
    BY <2>3, <2>5, <2>6, <2>9, <2>10, FirstMoveSet
<1> HIDE DEF restored, flagged
<1>5. \E later : /\ iter' = [[iter EXCEPT !.phase = "iterate"] EXCEPT !.moves = later]
                 /\ later \in Seq(RootMoveRecords(n)) /\ LinesKnown(n, root, later, last)
  BY <1>1, <1>2, <1>3, <1>4
<1>6. PICK later : /\ iter' = [[iter EXCEPT !.phase = "iterate"] EXCEPT !.moves = later]
                   /\ later \in Seq(RootMoveRecords(n)) /\ LinesKnown(n, root, later, last)
  BY <1>5
<1> DEFINE it == [iter EXCEPT !.phase = "iterate"]
<1>7. it \in Iterations(n) /\ it.search = iter.search /\ it.last = iter.last
  BY <1>1 DEF Iterations
<1> HIDE DEF it
<1>8. iter' = [it EXCEPT !.moves = later]
  BY <1>6 DEF it
<1> DEFINE s == [it EXCEPT !.moves = later]
<1>9. s \in Iterations(n) /\ s.moves = later /\ s.search = it.search /\ s.last = it.last
  BY <1>6, <1>7 DEF Iterations
<1> HIDE DEF s
<1>10. iter' = s
  BY <1>8 DEF s
<1> QED
  BY <1>1, <1>6, <1>7, <1>9, <1>10, RootStep DEF n, root, last

-----------------------------------------------------------------------------
\* A new search: its root moves are those of its root, nothing is marked and
\* nothing waits.

LEMMA NewIterFacts ==
  ASSUME game \in DOMAIN Games, NEW search \in DOMAIN G.searches
  PROVE  LET root == G.searches[search].root
             it == NewIter(search, root)
         IN  /\ root \in Positions(game)
             /\ it \in Iterations(game) /\ it.phase = "iterate" /\ it.search = search
             /\ LinesKnown(game, root, it.moves, it.last)
<1> DEFINE root == G.searches[search].root
           moves == Games[game].moves[root]
           first == RootMoves(root)
           last == [pv |-> << >>, score |-> -VALUE_INFINITE]
           it == NewIter(search, root)
           none == -VALUE_INFINITE
           zero == 0
<1>1. search \in DOMAIN Games[game].searches /\ root \in Positions(game)
  BY GameFacts DEF G
<1> HIDE DEF root
<1>2. moves \in Seq(Moves(game)) /\ Legal(game, root) = {moves[i] : i \in DOMAIN moves}
  BY <1>1, GameFacts DEF Legal
<1>3. none \in Int /\ zero \in Int
  BY ConstantTypes
<1>4. first = [i \in DOMAIN moves |-> RootMove(moves[i])]
  BY DEF RootMoves, MovesOf, G
<1> HIDE DEF moves, first, none
<1>5. \A m \in Moves(game) : RootMove(m) \in RootMoveRecords(game) /\ RootMove(m).pv = <<m>>
  BY <1>3 DEF RootMove, RootMoveRecords, none
<1>6. DOMAIN first = DOMAIN moves /\ \A i \in DOMAIN moves : first[i] \in RootMoveRecords(game) /\ first[i].pv = <<moves[i]>>
  BY <1>2, <1>4, <1>5
<1>7. first \in Seq(RootMoveRecords(game))
  BY <1>2, <1>4, <1>6
<1>8. last \in [pv : Seq(Moves(game)), score : Int]
  BY <1>3 DEF none
<1>9. LinesKnown(game, root, first, last)
  <2>1. \A i \in DOMAIN first : first[i].pv # << >> /\ PlayableIn(game, root, first[i].pv) /\ first[i].pv[1] = moves[i]
    <3> TAKE i \in DOMAIN first
    <3>1. first[i].pv = <<moves[i]>> /\ moves[i] \in Legal(game, root)
      BY <1>2, <1>6
    <3>2. first[i].pv # << >> /\ first[i].pv[1] = moves[i] /\ Len(first[i].pv) = 1
      BY <3>1
    <3> QED
      BY <3>1, <3>2 DEF PlayableIn
  <2>2. PlayableIn(game, root, last.pv)
    BY DEF PlayableIn
  <2>3. \A m \in Legal(game, root) : \E i \in DOMAIN first : first[i].pv[1] = m
    BY <1>2, <1>6, <2>1
  <2> QED
    BY <2>1, <2>2, <2>3 DEF LinesKnown
<1> HIDE DEF last, zero
<1>10. it = [phase |-> "iterate", search |-> search, depth |-> zero, alpha |-> zero, beta |-> zero, delta |-> zero,
             failedHigh |-> zero, recovery |-> zero, moves |-> first, forgotten |-> FALSE, last |-> last]
  BY DEF NewIter, zero, first, last
<1> HIDE DEF it
<1>11. it \in Iterations(game) /\ it.phase = "iterate" /\ it.search = search /\ it.moves = first /\ it.last = last
  BY <1>1, <1>3, <1>7, <1>8, <1>10 DEF Iterations
<1> QED
  BY <1>1, <1>9, <1>11 DEF it, root

\* The state in which a search begins.
Idle ==
  /\ game \in DOMAIN Games /\ generation \in Int /\ ret.value \in Int /\ table \in [Slots -> Entries(game)]
  /\ stack = << >> /\ nmp = 0 /\ ss = reset_ss
  /\ iter \in Iterations(game) /\ LinesKnown(game, RootOf(game, iter), iter.moves, iter.last)
  /\ RootOf(game, iter) \in Positions(game) /\ line = <<RootOf(game, iter)>>
LEMMA IdleInv == Idle => Inv
<1> SUFFICES ASSUME Idle PROVE Inv
  OBVIOUS
<1>1. Len(stack) = 0 /\ stack \in Seq(Frames(game)) /\ \A i \in 1 .. Len(stack) : FALSE
  BY DEF Idle
<1>2. FramesOk /\ PvChain /\ StackLines
  BY <1>1 DEF FramesOk, PvChain, StackLines
<1>3. line \in Seq(Positions(game)) /\ Len(line) = 1 /\ line[1] = RootOf(game, iter)
  BY DEF Idle
<1>4. StackInv
  <2>1. \A i \in 1 .. Len(stack) - 1 : FALSE
    BY <1>1
  <2> QED
    BY <1>1, <1>3, <2>1 DEF StackInv, Idle
<1>5. RootInv /\ RootLines
  BY <1>3 DEF RootInv, RootLines, Idle
<1>6. ss \in [Plies -> Scopes(game)] /\ \A ply \in Plies : ss[ply].excluded = NONE
  <2>1. [excluded |-> NONE, pv |-> << >>, ttPv |-> FALSE] \in Scopes(game)
    BY DEF Scopes
  <2> QED
    BY <2>1 DEF Idle, reset_ss, Plies
<1>7. MarkInv
  BY <1>6 DEF MarkInv, Idle
<1>8. RestOk
  BY <1>6 DEF RestOk, Idle
<1> QED
  BY <1>2, <1>4, <1>5, <1>7, <1>8 DEF Inv

LEMMA InitInv ==
  ASSUME Init
  PROVE  Inv
<1>1. game \in DOMAIN Games /\ 1 \in DOMAIN G.searches
  <2>1. game \in DOMAIN Games
    BY DEF Init
  <2>2. Games[game].searches \in Seq([root : Positions(game), rule60 : Nat]) /\ Games[game].searches # << >>
    BY <2>1, GameFacts
  <2> QED
    BY <2>1, <2>2 DEF G
<1> DEFINE root == G.searches[1].root
           it == NewIter(1, root)
<1>2. /\ root \in Positions(game) /\ it \in Iterations(game) /\ it.search = 1
      /\ LinesKnown(game, root, it.moves, it.last)
  BY <1>1, NewIterFacts
<1>3. iter = it /\ line = <<root>>
  BY DEF Init
<1> HIDE DEF it
<1>4. RootOf(game, iter) = root
  BY <1>2, <1>3 DEF RootOf, G
<1> HIDE DEF root
<1>5. EmptyEntry(VALUE_ZERO) \in Entries(game)
  BY DEF EmptyEntry, Entries, VALUE_ZERO, Bounds
<1>6. table \in [Slots -> Entries(game)] /\ generation \in Int /\ ret.value \in Int
  <2>1. generation = 1 % Generations /\ 1 % Generations \in Int
    BY ConstantTypes DEF Init
  <2> QED
    BY <1>5, <2>1 DEF Init, VALUE_ZERO
<1>7. stack = << >> /\ nmp = 0 /\ ss = reset_ss
  BY DEF Init
<1>8. Idle
  BY <1>1, <1>2, <1>3, <1>4, <1>6, <1>7 DEF Idle
<1> QED
  BY <1>8, IdleInv

LEMMA NextSearchInv ==
  ASSUME Inv, NextSearch
  PROVE  Inv'
<1> DEFINE next == iter.search + 1
           root == G.searches[next].root
           it == NewIter(next, root)
<1>1. next \in DOMAIN G.searches /\ game \in DOMAIN Games /\ stack = << >> /\ nmp = 0
  <2>1. stack = << >> /\ game \in DOMAIN Games
    BY IterFacts DEF NextSearch
  <2>2. nmp = 0
    BY <2>1 DEF Inv, MarkInv
  <2> QED
    BY <2>1, <2>2 DEF NextSearch
<1>2. /\ root \in Positions(game) /\ it \in Iterations(game) /\ it.search = next
      /\ LinesKnown(game, root, it.moves, it.last)
  BY <1>1, NewIterFacts
<1>3. /\ iter' = it /\ line' = <<root>> /\ ss' = reset_ss /\ UNCHANGED <<game, stack, ret, nmp, table>>
      /\ generation' = (generation + 1) % Generations
  BY DEF NextSearch
<1> HIDE DEF it
<1>4. RootOf(game, iter)' = root
  BY <1>2, <1>3 DEF RootOf, G
<1> HIDE DEF root, next
<1>5. generation' \in Int /\ ret'.value \in Int /\ table' \in [Slots -> Entries(game)]
  <2>1. generation \in Int /\ (generation + 1) % Generations \in Int
    BY ConstantTypes DEF Inv, RestOk
  <2> QED
    BY <1>3, <2>1 DEF Inv, RestOk
<1>6. Idle'
  BY <1>1, <1>2, <1>3, <1>4, <1>5 DEF Idle, reset_ss
<1>7. Idle' => Inv'
  BY IdleInv, PTL
<1> QED
  BY <1>6, <1>7

\* Another thread's stop changes nothing the invariant is about.
LEMMA StopInv ==
  ASSUME Inv, Stop \/ Done \/ UNCHANGED vars
  PROVE  Inv'
<1>1. UNCHANGED <<game, line, stack, ret, ss, nmp, table, generation, iter>>
  BY DEF Stop, Done, vars, nodeVars
<1>2. RestOk' /\ FramesOk' /\ StackInv' /\ RootInv'
  BY <1>1 DEF Inv, RestOk, FramesOk, StackInv, RootInv, RootOf
<1>3. MarkInv' /\ PvChain' /\ StackLines' /\ RootLines'
  BY <1>1 DEF Inv, MarkInv, PvChain, StackLines, Entered, RootLines, RootOf
<1> QED
  BY <1>2, <1>3 DEF Inv

LEMMA NextInv ==
  ASSUME Inv, [Next]_vars
  PROVE  Inv'
BY NodeInv, StartIterationInv, StartPassInv, PassDoneInv, RecordInv, RestoreInv, NextSearchInv, StopInv DEF Next

LEMMA Invariance == Spec => []Inv
BY InitInv, NextInv, PTL DEF Spec

LEMMA ClosedScopes == Inv => ScopesAreClosed
<1> SUFFICES ASSUME Inv PROVE ScopesAreClosed
  OBVIOUS
<1>1. MarkInv /\ StackInv /\ RootInv /\ FramesOk /\ DOMAIN stack = 1 .. Len(stack) /\ DOMAIN ss = Plies
  BY DEF Inv, FramesOk, RestOk
<1>2. nmp # 0 => Waiting("verified") # {}
  BY <1>1 DEF MarkInv, Waiting
<1>3. \A ply \in DOMAIN ss : ss[ply].excluded # NONE => \E i \in Waiting("singled") : stack[i].ply = ply
  BY <1>1 DEF MarkInv, Waiting
<1>4. stack = << >> => line = <<G.searches[iter.search].root>>
  BY <1>1 DEF StackInv, RootInv, RootOf, G
<1>5. ASSUME stack # << >>, Top.at \in {"judge", "probe", "null", "next", "make", "finish", "qjudge", "qnext", "qfinish"}
      PROVE  Pos = Top.pos /\ Len(line) = Ply + 1
  <2>1. Len(stack) \in 1 .. Len(stack) /\ Top = stack[Len(stack)] /\ Ply = Top.ply /\ Ply \in Nat
    BY <1>1, <1>5, TopFacts
  <2>2. Level(Top) = Ply + 1
    BY <1>5, <2>1 DEF Level, BelowAt, MadeAt
  <2>3. Len(line) = Ply + 1 /\ line[Ply + 1] = Top.pos
    BY <1>1, <1>5, <2>1, <2>2, Zenon DEF StackInv
  <2> QED
    BY <2>3 DEF Pos
<1> QED
  BY <1>2, <1>3, <1>4, <1>5 DEF ScopesAreClosed

LEMMA PlayableLines == Inv => LinesArePlayable
<1> SUFFICES ASSUME Inv PROVE LinesArePlayable
  OBVIOUS
<1>1. LinesKnown(game, RootOf(game, iter), iter.moves, iter.last)
  BY DEF Inv, RootLines
<1>2. \A pos, pv : PlayableIn(game, pos, pv) => Playable(pos, pv)
  BY DEF PlayableIn, Playable, IsMove, LegalMoves, MovesOf, G, Legal
<1>3. G.searches[iter.search].root = RootOf(game, iter)
  BY DEF RootOf, G
<1> QED
  BY <1>1, <1>2, <1>3 DEF LinesArePlayable, LinesKnown

\* What a node sets for the searches it calls is taken back however they and
\* the node end: the null moves allowed again, no move excluded, the board
\* where the node is.
THEOREM ScopesClosed == Spec => []ScopesAreClosed
BY Invariance, ClosedScopes, PTL

\* Every line kept for a root move can be played from the root, even after a
\* torn probe or an aborted search.
THEOREM LinesPlayable == Spec => []LinesArePlayable
BY Invariance, PlayableLines, PTL
=============================================================================
