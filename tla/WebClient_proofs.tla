-------------------------- MODULE WebClient_proofs --------------------------
(***************************************************************************)
(* Proofs about WebClient, for any FEN records, any length of a game, any   *)
(* room in the pipes, and any number of acts and faults.                    *)
(***************************************************************************)
EXTENDS WebClient, FiniteSetTheorems, SequenceTheorems, TLAPS

-----------------------------------------------------------------------------
\* Types.
Sides == {"w", "b"}
Places == [fen : Fens, made : Seq(Nat)]
Moves == [at : Places, choice : Nat]
States ==
  [fen : Fens, moves : Seq(Moves), side : Sides, player : Sides, phase : {"idle", "playing", "ended"},
   status : {"idle", "syncing", "ready", "thinking", "error", "disconnected"}, revision : Nat,
   legal : SUBSET Moves, verdict : {"ongoing", "loss"}]
Seen ==
  [connected : BOOLEAN, fen : Fens, moves : Seq(Moves), side : Sides, player : Sides,
   phase : {"idle", "playing", "ended"}, revision : Nat, settings : {1, 2}]
Operations ==
  [kind : {"inspect", "search"}, at : Places, newGame : BOOLEAN, cancelled : BOOLEAN, failed : BOOLEAN,
   barrierSent : BOOLEAN, seen : SUBSET Places, best : Moves]
Names == {"uci", "setoption", "isready", "ucinewgame", "position", "look", "go", "stop"}
Lines == [name : Names, at : Places]
Clients ==
  [phase : {"disconnected", "uci", "ready", "connected"}, active : Operations \cup {NoOperation},
   queue : Seq(Operations), sent : Seq(Lines)]
Messages == [msg : {"uciok", "readyok", "error"}] \cup [msg : {"seen"}, at : Places]
              \cup [msg : {"bestmove"}, move : Moves]
TypeInv ==
  /\ shown \in Seen /\ settings \in {1, 2} /\ ready \in BOOLEAN
  /\ turn = NoTurn \/ turn = Turn(shown)
  /\ client \in Clients
  /\ stdin \in Seq(Lines) /\ stdout \in Seq(Messages)
  /\ engine \in [at : Places, search : Places]

-----------------------------------------------------------------------------
\* A game of the reducer: TurnOfThePosition said of any game, and what waits
\* for the engine is a game that is played.
Legit(g) ==
  /\ g.status \in {"ready", "thinking"} =>
       /\ g.legal = LegalAt(Place(g.fen, g.moves))
       /\ (g.side = g.player) <=> (g.status = "ready")
  /\ \A i \in 1 .. Len(g.moves) : g.moves[i] \in LegalAt(Place(g.fen, SubSeq(g.moves, 1, i - 1)))
  /\ g.side = MoverOf(g, Len(g.moves) + 1)
Sound(g) ==
  /\ g \in States /\ Legit(g)
  /\ g.status \in {"syncing", "ready", "thinking"} => g.phase = "playing"

\* The game that is shown is the one that is played, or an earlier one.
Behind(s, g) ==
  /\ s.revision <= g.revision
  /\ s.revision = g.revision =>
       /\ s.fen = g.fen /\ s.moves = g.moves /\ s.side = g.side
       /\ s.phase = "playing" => s.player = g.player /\ g.phase # "idle"
ShownInv ==
  /\ Behind(shown, game)
  /\ turn.current <=> shown.connected /\ shown.phase = "playing"
GameInv == Sound(game)

\* The client serves the run of the effect that is current, if there is one:
\* what it does for an earlier one is cancelled.
Inspection(at) == {Operation("inspect", at, newGame) : newGame \in BOOLEAN}
Serves(c, t) ==
  /\ c.phase # "connected" => c.active = NoOperation
  /\ c.active # NoOperation /\ ~c.active.cancelled =>
       t.current /\ c.queue = << >> /\ c.active.at = Place(t.fen, t.moves)
  /\ c.queue # << >> =>
       /\ c.active # NoOperation /\ t.current
       /\ \E op \in Inspection(Place(t.fen, t.moves)) : c.queue = <<op>>
ClientInv ==
  /\ ready <=> client.phase = "connected"
  /\ client.phase = "disconnected" <=> link # "open"
  /\ ~ready /\ link \in {"connecting", "open"} => ~shown.connected
  /\ Serves(client, turn)

\* And what the run waits for is under way.
UnderWay(g, c) ==
  /\ g.status = "syncing" => c.queue # << >> \/ (c.active.kind = "inspect" /\ ~c.active.cancelled)
  /\ g.status = "thinking" => c.active.kind = "search" /\ ~c.active.cancelled
ServingInv == ready /\ turn.current /\ shown.revision = game.revision => UnderWay(game, client)

-----------------------------------------------------------------------------
\* What is between the client and the engine: the lines on their way to it,
\* and the messages on their way back.
Rest == stdin \o client.sent
Only(out, msgs) == \A i \in 1 .. Len(out) : out[i].msg \in msgs
OnlyThenReady(out, msgs) ==
  /\ out # << >> /\ out[Len(out)].msg = "readyok"
  /\ \A i \in 1 .. Len(out) - 1 : out[i].msg \in msgs
Moving == {"error", "bestmove"}
Chat(out) == Only(out, Moving)
ChatThenReady(out) == OnlyThenReady(out, Moving)
Position(op) == Command("position", op.at)
Saw(op) == [msg |-> "seen", at |-> op.at]

\* After its position was refused, an inspection is told so before it is told
\* anything else, and what it sees is not asked about.
Telling == {"error", "seen"}
RefusedFlow(op, rest, out) ==
  /\ op.failed \/ (out # << >> /\ out[1].msg = "error")
  /\ \/ rest \in {<<Plain("look"), Plain("isready")>>, <<Plain("isready")>>} /\ Only(out, Telling)
     \/ rest = << >> /\ OnlyThenReady(out, Telling)
InspectFlow(op, rest, out, at) ==
  \/ RefusedFlow(op, rest, out)
  \/ /\ rest \in {<<Plain("ucinewgame"), Position(op), Plain("look"), Plain("isready")>>,
                  <<Position(op), Plain("look"), Plain("isready")>>}
     /\ out = << >> /\ op.seen = {}
  \/ rest = <<Plain("look"), Plain("isready")>> /\ at = op.at /\ out = << >> /\ op.seen = {}
  \/ rest = <<Plain("isready")>> /\ out = <<Saw(op)>> /\ op.seen = {}
  \/ rest = <<Plain("isready")>> /\ out = << >> /\ op.seen = {op.at}
  \/ rest = << >> /\ out = <<Saw(op), Says("readyok")>> /\ op.seen = {}
  \/ rest = << >> /\ out = <<Says("readyok")>> /\ op.seen = {op.at}
\* Until its barrier is sent, at most one search has run.
SearchFlow(op, rest, out, search) ==
  \/ rest = <<Position(op), Plain("go")>> /\ out = << >> /\ search = NoPlace
  \/ /\ rest = <<Plain("go")>> /\ Chat(out) /\ search = NoPlace
     /\ out # << >> => out[1].msg = "error"
  \/ /\ rest = << >> /\ Chat(out)
     /\ out # << >> /\ out[1].msg = "bestmove" => Len(out) = 1 /\ search = NoPlace
DrainFlow(op, rest, out, search) ==
  \/ /\ rest \in {<<Position(op), Plain("go"), Plain("stop"), Plain("isready")>>,
                  <<Plain("go"), Plain("stop"), Plain("isready")>>, <<Plain("stop"), Plain("isready")>>}
     /\ Chat(out)
  \/ rest = <<Plain("isready")>> /\ Chat(out) /\ search = NoPlace
  \/ rest = << >> /\ ChatThenReady(out) /\ search = NoPlace
OperationFlow(op, rest, out, at, search) ==
  IF op = NoOperation THEN rest = << >> /\ out = << >> /\ search = NoPlace
  ELSE IF op.kind = "inspect" THEN op.barrierSent /\ search = NoPlace /\ InspectFlow(op, rest, out, at)
  ELSE IF op.barrierSent THEN DrainFlow(op, rest, out, search) ELSE SearchFlow(op, rest, out, search)
UciFlow(rest, out) ==
  \/ rest = <<Plain("uci")>> /\ out = << >>
  \/ rest = << >> /\ out = <<Says("uciok")>>
ReadyFlow(rest, out) ==
  \/ rest \in {<<Plain("setoption"), Plain("isready")>>, <<Plain("isready")>>} /\ out = << >>
  \/ rest = << >> /\ out = <<Says("readyok")>>
Flow(c, rest, out, at, search) ==
  /\ c.phase = "uci" => UciFlow(rest, out) /\ search = NoPlace
  /\ c.phase = "ready" => ReadyFlow(rest, out) /\ search = NoPlace
  /\ c.phase = "connected" => OperationFlow(c.active, rest, out, at, search)
FlowInv == Flow(client, Rest, stdout, engine.at, engine.search)

Inv == TypeInv /\ GameInv /\ ShownInv /\ ClientInv /\ ServingInv /\ FlowInv

-----------------------------------------------------------------------------
(* Positions and the reducer.                                               *)

LEMMA StartTypes == StartFen \in Fens /\ StartFen.first = "w" /\ (\A f \in Fens : f.first \in Sides) /\ MaxPlies \in Nat
  BY WebAssumption DEF Sides

LEMMA PlaceType ==
  ASSUME NEW fen \in Fens, NEW moves \in Seq(Moves)
  PROVE  Place(fen, moves) \in Places
<1> DEFINE made == [i \in 1 .. Len(moves) |-> moves[i].choice]
<1>1. \A i \in 1 .. Len(moves) : moves[i].choice \in Nat
  <2>1. \A i \in 1 .. Len(moves) : moves[i] \in Moves
    OBVIOUS
  <2> QED
    BY <2>1 DEF Moves
<1>2. made \in Seq(Nat)
  BY <1>1
<1> QED
  BY <1>2 DEF Place, Places

LEMMA NoPlaceType == NoPlace \in Places /\ NoMove \in Moves
<1>1. <<0>> \in Seq(Nat)
  OBVIOUS
<1> QED
  BY <1>1, StartTypes DEF NoPlace, NoMove, Places, Moves

LEMMA StartPlaceType == StartPlace \in Places
<1>1. << >> \in Seq(Moves)
  OBVIOUS
<1> QED
  BY <1>1, StartTypes, PlaceType DEF StartPlace

LEMMA LegalType ==
  ASSUME NEW at \in Places
  PROVE  LegalAt(at) \subseteq Moves
BY DEF LegalAt, Moves

LEMMA Parity ==
  ASSUME NEW k \in Nat
  PROVE  k % 2 \in {0, 1} /\ ((k + 1) % 2 = 1 <=> k % 2 = 0)
OBVIOUS

\* A move that is legal on the board leaves the turn to the other side.
LEMMA MovedSound ==
  ASSUME NEW g, Sound(g), g.phase = "playing", NEW m \in LegalAt(Place(g.fen, g.moves))
  PROVE  Sound(moved(g, m)) /\ moved(g, m).revision = g.revision + 1 /\ moved(g, m).player = g.player
<1> DEFINE h == moved(g, m)
           n == Len(g.moves)
<1>1. g \in States /\ g.fen \in Fens /\ g.moves \in Seq(Moves) /\ m \in Moves /\ n \in Nat
  BY PlaceType, LegalType DEF Sound, States
<1>2. /\ h.fen = g.fen /\ h.moves = Append(g.moves, m) /\ h.side = flipSide(g.side) /\ h.status = "syncing"
      /\ h.phase = g.phase /\ h.player = g.player /\ h.revision = g.revision + 1 /\ h \in States
  <2>1. flipSide(g.side) \in Sides /\ Append(g.moves, m) \in Seq(Moves) /\ g.revision + 1 \in Nat
    BY <1>1 DEF flipSide, Sides, States
  <2> QED
    BY <1>1, <2>1 DEF moved, Anew, States
<1> HIDE DEF h
<1>3. Len(h.moves) = n + 1 /\ (\A i \in 1 .. n : h.moves[i] = g.moves[i]) /\ h.moves[n + 1] = m
  BY <1>1, <1>2, AppendProperties
<1>4. h.side = MoverOf(h, n + 2)
  <2>1. g.side = MoverOf(g, n + 1) /\ g.fen.first \in Sides
    BY <1>1, StartTypes DEF Sound, Legit
  <2>2. (n + 2) % 2 = 1 <=> (n + 1) % 2 # 1
    <3> DEFINE k == n + 1
    <3>1. k \in Nat /\ k + 1 = n + 2
      BY <1>1
    <3> HIDE DEF k
    <3>2. (k + 1) % 2 = 1 <=> k % 2 # 1
      BY <3>1, Parity
    <3> QED
      BY <3>1, <3>2 DEF k
  <2> QED
    BY <1>2, <2>1, <2>2 DEF MoverOf, flipSide, Sides
<1>5. ASSUME NEW i \in 1 .. n + 1
      PROVE  h.moves[i] \in LegalAt(Place(h.fen, SubSeq(h.moves, 1, i - 1)))
  <2>1. SubSeq(h.moves, 1, i - 1) = SubSeq(g.moves, 1, i - 1)
    BY <1>1, <1>2, <1>3
  <2>2. CASE i = n + 1
    <3>1. i - 1 = n /\ SubSeq(g.moves, 1, n) = g.moves
      BY <1>1, <2>2
    <3>2. SubSeq(h.moves, 1, i - 1) = g.moves /\ h.moves[i] = m
      BY <1>3, <2>1, <2>2, <3>1
    <3> QED
      BY <1>2, <3>2
  <2>3. CASE i # n + 1
    <3>1. i \in 1 .. n /\ h.moves[i] = g.moves[i]
      BY <1>1, <1>3, <2>3
    <3>2. g.moves[i] \in LegalAt(Place(g.fen, SubSeq(g.moves, 1, i - 1)))
      BY <3>1 DEF Sound, Legit
    <3> QED
      BY <1>2, <2>1, <3>1, <3>2
  <2> QED
    BY <2>2, <2>3
<1>6. Sound(h)
  <2>1. h.side = MoverOf(h, Len(h.moves) + 1)
    BY <1>1, <1>3, <1>4
  <2> QED
    BY <1>2, <1>3, <1>5, <2>1 DEF Sound, Legit
<1> QED
  BY <1>2, <1>6 DEF h

\* The board as it was, and nobody to move yet.
LEMMA SameBoard ==
  ASSUME NEW g, Sound(g), NEW h \in States, h.fen = g.fen, h.moves = g.moves, h.side = g.side,
         h.status \notin {"ready", "thinking"}, h.status = "syncing" => h.phase = "playing"
  PROVE  Sound(h)
<1>1. MoverOf(h, Len(h.moves) + 1) = MoverOf(g, Len(g.moves) + 1)
  BY DEF MoverOf
<1> QED
  BY <1>1 DEF Sound, Legit

\* A board with no move on it.
LEMMA FreshBoard ==
  ASSUME NEW h \in States, h.moves = << >>, h.side = h.fen.first, h.status = "idle"
  PROVE  Sound(h)
<1>1. Len(h.moves) = 0 /\ MoverOf(h, 1) = h.fen.first
  BY DEF MoverOf
<1> QED
  BY <1>1 DEF Sound, Legit

\* What a dispatch that does not carry a revision makes of a game: nothing, or
\* a game of a later revision.
Bumps(g, h) == h = g \/ h.revision = g.revision + 1

LEMMA BumpsBehind ==
  ASSUME NEW s \in Seen, NEW g \in States, NEW h \in States, Bumps(g, h), Behind(s, g)
  PROVE  Behind(s, h) /\ (s.revision = h.revision => h = g)
BY DEF Bumps, Behind, Seen, States

LEMMA PlayerMoves ==
  ASSUME NEW g, Sound(g), NEW m
  PROVE  Sound(PLAYER_MOVE(g, m)) /\ Bumps(g, PLAYER_MOVE(g, m))
<1>1. CASE g.phase = "playing" /\ g.status = "ready" /\ g.side = g.player /\ m \in g.legal
  <2>1. m \in LegalAt(Place(g.fen, g.moves))
    BY <1>1 DEF Sound, Legit
  <2> QED
    BY <1>1, <2>1, MovedSound DEF PLAYER_MOVE, Bumps
<1> QED
  BY <1>1 DEF PLAYER_MOVE, Bumps

LEMMA StartsGame ==
  ASSUME NEW g, Sound(g)
  PROVE  Sound(START_GAME(g)) /\ Bumps(g, START_GAME(g))
<1> DEFINE h == START_GAME(g)
<1>1. CASE g.phase = "idle"
  <2>1. h = [g EXCEPT !.phase = "playing", !.status = "syncing", !.revision = g.revision + 1]
    BY <1>1 DEF START_GAME
  <2>2. g \in States /\ g.revision + 1 \in Nat
    BY DEF Sound, States
  <2> HIDE DEF h
  <2>3. /\ h \in States /\ h.fen = g.fen /\ h.moves = g.moves /\ h.side = g.side /\ h.status = "syncing"
        /\ h.phase = "playing" /\ h.revision = g.revision + 1
    BY <2>1, <2>2 DEF States
  <2> QED
    BY <2>3, SameBoard DEF Bumps, h
<1> QED
  BY <1>1 DEF START_GAME, Bumps

LEMMA NewGames ==
  ASSUME NEW g, Sound(g)
  PROVE  Sound(NEW_GAME(g)) /\ Bumps(g, NEW_GAME(g))
<1> DEFINE h == NEW_GAME(g)
<1>1. /\ h = [createGameState EXCEPT !.player = g.player, !.revision = g.revision + 1]
      /\ g.player \in Sides /\ g.revision + 1 \in Nat
  BY DEF NEW_GAME, Sound, States
<1>2. << >> \in Seq(Moves) /\ {} \in SUBSET Moves
  OBVIOUS
<1>3. /\ h \in States /\ h.moves = << >> /\ h.fen = StartFen /\ h.side = "w" /\ h.status = "idle"
      /\ h.revision = g.revision + 1
  BY <1>1, <1>2, StartTypes DEF createGameState, States, Sides
<1> QED
  BY <1>3, StartTypes, FreshBoard DEF Bumps

LEMMA SetsPosition ==
  ASSUME NEW g, Sound(g), NEW fen \in Fens
  PROVE  Sound(SET_POSITION(g, fen)) /\ Bumps(g, SET_POSITION(g, fen))
<1> DEFINE h == SET_POSITION(g, fen)
<1>1. fen.first \in Sides /\ g.revision + 1 \in Nat /\ << >> \in Seq(Moves) /\ {} \in SUBSET Moves
  BY StartTypes DEF Sound, States
<1>2. /\ h \in States /\ h.moves = << >> /\ h.fen = fen /\ h.side = fen.first /\ h.status = "idle"
      /\ h.revision = g.revision + 1
  BY <1>1 DEF SET_POSITION, Anew, States, Sound
<1> QED
  BY <1>2, FreshBoard DEF Bumps

LEMMA Retries ==
  ASSUME NEW g, Sound(g)
  PROVE  Sound(RETRY(g)) /\ Bumps(g, RETRY(g))
<1> DEFINE h == RETRY(g)
<1>1. CASE g.phase = "playing"
  <2>1. h = [g EXCEPT !.revision = g.revision + 1, !.status = "syncing"]
    BY <1>1 DEF RETRY
  <2>2. g \in States /\ g.revision + 1 \in Nat
    BY DEF Sound, States
  <2> HIDE DEF h
  <2>3. /\ h \in States /\ h.fen = g.fen /\ h.moves = g.moves /\ h.side = g.side /\ h.status = "syncing"
        /\ h.phase = "playing" /\ h.revision = g.revision + 1
    BY <1>1, <2>1, <2>2 DEF States
  <2> QED
    BY <2>3, SameBoard DEF Bumps, h
<1> QED
  BY <1>1 DEF RETRY, Bumps

LEMMA SetsPlayerSide ==
  ASSUME NEW g, Sound(g), NEW side \in Sides, NEW s \in Seen, Behind(s, g)
  PROVE  LET h == SET_PLAYER_SIDE(g, side)
         IN  /\ Sound(h) /\ Behind(s, h) /\ h.status = g.status /\ h.revision = g.revision
             /\ h # g => g.status \notin {"syncing", "ready", "thinking"}
<1> DEFINE h == SET_PLAYER_SIDE(g, side)
<1>1. CASE g.phase = "idle"
  <2>1. /\ h \in States /\ h.fen = g.fen /\ h.moves = g.moves /\ h.side = g.side /\ h.status = g.status
        /\ h.phase = "idle" /\ h.revision = g.revision /\ g.status \notin {"syncing", "ready", "thinking"}
    BY <1>1 DEF SET_PLAYER_SIDE, Sound, States
  <2> QED
    BY <1>1, <2>1, SameBoard DEF Behind
<1> QED
  BY <1>1 DEF SET_PLAYER_SIDE

\* The last human decision is found when there is one, and it is his turn
\* again once it is taken back.
LEMMA UndoTarget ==
  ASSUME NEW g, Sound(g), HumanMoves(g) # {}
  PROVE  /\ undoTarget(g) \in Nat /\ undoTarget(g) < Len(g.moves)
         /\ MoverOf(g, undoTarget(g) + 1) = g.player
<1> DEFINE n == Len(g.moves)
           IsLast(i) == i \in HumanMoves(g) /\ \A j \in HumanMoves(g) : j <= i
<1>1. n \in Nat /\ g.player \in Sides /\ g.fen.first \in Sides
  BY StartTypes DEF Sound, States
<1>2. \A i \in HumanMoves(g) : i \in 1 .. n /\ MoverOf(g, i) = g.player
  BY DEF HumanMoves
<1> HIDE DEF n
<1>3. n # 0
  BY <1>1, <1>2
<1>4. CASE MoverOf(g, n) = g.player
  <2>1. IsLast(n)
    BY <1>1, <1>2, <1>3, <1>4 DEF HumanMoves, n
  <2> QED
    <3>1. \E i \in HumanMoves(g) : \A j \in HumanMoves(g) : j <= i
      BY <2>1
    <3> QED
      BY <1>1, <1>2, <3>1 DEF undoTarget, n
<1>5. CASE MoverOf(g, n) # g.player
  <2>1. n - 1 \in HumanMoves(g)
    <3> DEFINE k == n - 1
    <3>1. k \in Nat /\ k + 1 = n
      BY <1>1, <1>3
    <3>2. n # 1
      <4>1. PICK i \in HumanMoves(g) : TRUE
        OBVIOUS
      <4>2. i # n /\ i \in 1 .. n
        BY <1>2, <1>5
      <4> QED
        BY <1>1, <4>2
    <3> HIDE DEF k
    <3>3. (k + 1) % 2 = 1 <=> k % 2 # 1
      BY <3>1, Parity
    <3>4. MoverOf(g, k) = g.player
      BY <1>1, <1>5, <3>1, <3>3 DEF MoverOf, flipSide, Sides
    <3>5. k \in 1 .. n
      <4>1. n \in Nat /\ n # 0 /\ n # 1
        BY <1>1, <1>3, <3>2
      <4> QED
        BY <4>1 DEF k
    <3>6. k \in HumanMoves(g)
      BY <3>4, <3>5 DEF HumanMoves, n
    <3> QED
      BY <3>6 DEF k
  <2>2. \A j \in HumanMoves(g) : j <= n - 1
    BY <1>1, <1>2, <1>5
  <2> QED
    <3>1. \E i \in HumanMoves(g) : \A j \in HumanMoves(g) : j <= i
      BY <2>1, <2>2
    <3> QED
      BY <1>1, <1>2, <3>1 DEF undoTarget, n
<1> QED
  BY <1>4, <1>5

LEMMA Undoes ==
  ASSUME NEW g, Sound(g)
  PROVE  /\ Sound(UNDO(g)) /\ Bumps(g, UNDO(g))
         /\ HumanMoves(g) # {} => UNDO(g).revision = g.revision + 1
<1> DEFINE h == UNDO(g)
           t == undoTarget(g)
<1>1. CASE HumanMoves(g) # {}
  <2>1. t \in Nat /\ t < Len(g.moves) /\ MoverOf(g, t + 1) = g.player /\ g \in States /\ Len(g.moves) \in Nat
    BY <1>1, UndoTarget DEF Sound, States
  <2> HIDE DEF t
  <2>2. SubSeq(g.moves, 1, t) \in Seq(Moves) /\ Len(SubSeq(g.moves, 1, t)) = t
        /\ \A i \in 1 .. t : SubSeq(g.moves, 1, t)[i] = g.moves[i]
    BY <2>1 DEF States
  <2>3. /\ h.fen = g.fen /\ h.moves = SubSeq(g.moves, 1, t) /\ h.side = g.player /\ h.status = "syncing"
        /\ h.phase = "playing" /\ h.revision = g.revision + 1 /\ h \in States
    <3>1. h = [Anew(g) EXCEPT !.moves = SubSeq(@, 1, t), !.side = g.player,
                             !.phase = "playing", !.status = "syncing"]
      BY <1>1 DEF UNDO, t
    <3>2. /\ Anew(g) \in States /\ Anew(g).moves = g.moves /\ Anew(g).revision = g.revision + 1
          /\ Anew(g).fen = g.fen
      <4>1. g.revision + 1 \in Nat /\ {} \in SUBSET Moves
        BY <2>1 DEF States
      <4> QED
        BY <2>1, <4>1 DEF Anew, States
    <3>3. g.player \in Sides
      BY <2>1 DEF States
    <3> HIDE DEF h
    <3> QED
      BY <2>2, <3>1, <3>2, <3>3 DEF States
  <2> HIDE DEF h
  <2>4. h.side = MoverOf(h, Len(h.moves) + 1)
    BY <2>1, <2>2, <2>3 DEF MoverOf
  <2>5. ASSUME NEW i \in 1 .. t
        PROVE  h.moves[i] \in LegalAt(Place(h.fen, SubSeq(h.moves, 1, i - 1)))
    <3>1. SubSeq(h.moves, 1, i - 1) = SubSeq(g.moves, 1, i - 1)
      BY <2>1, <2>2, <2>3 DEF States
    <3>2. i \in 1 .. Len(g.moves) /\ h.moves[i] = g.moves[i]
      BY <2>1, <2>2, <2>3
    <3> QED
      BY <2>3, <3>1, <3>2 DEF Sound, Legit
  <2>6. Sound(h)
    BY <2>2, <2>3, <2>4, <2>5 DEF Sound, Legit
  <2> QED
    BY <2>3, <2>6 DEF Bumps, h
<1>2. CASE HumanMoves(g) = {}
  BY <1>2 DEF UNDO, Bumps
<1> QED
  BY <1>1, <1>2

\* A dispatch that carries a revision keeps the revision of the game, or makes
\* a move.
Stays(g, h) ==
  /\ h \in States /\ h.fen = g.fen /\ h.moves = g.moves /\ h.side = g.side /\ h.player = g.player
  /\ h.revision = g.revision /\ (g.phase # "idle" => h.phase # "idle")

LEMMA StaysBehind ==
  ASSUME NEW s \in Seen, NEW g, NEW h, Stays(g, h), Behind(s, g)
  PROVE  Behind(s, h)
BY DEF Stays, Behind

LEMMA Inspects ==
  ASSUME NEW g, Sound(g), NEW revision, NEW at \in Places,
         revision = g.revision => at = Place(g.fen, g.moves)
  PROVE  LET h == INSPECTED(g, revision, at)
         IN  /\ Sound(h) /\ Stays(g, h)
             /\ revision = g.revision =>
                  /\ h.status # "syncing"
                  /\ h.status = "thinking" => StatusAt(at) = "ongoing" /\ g.side # g.player
<1> DEFINE h == INSPECTED(g, revision, at)
<1>1. g \in States
  BY DEF Sound
<1>2. CASE revision = g.revision /\ g.phase = "playing"
  <2> DEFINE phase == IF StatusAt(at) = "ongoing" THEN "playing" ELSE "ended"
             status == IF StatusAt(at) # "ongoing" THEN "idle"
                       ELSE IF g.side = g.player THEN "ready" ELSE "thinking"
  <2>1. h = [g EXCEPT !.legal = LegalAt(at), !.verdict = StatusAt(at), !.phase = phase, !.status = status]
    BY <1>2 DEF INSPECTED
  <2>2. /\ LegalAt(at) \in SUBSET Moves /\ StatusAt(at) \in {"ongoing", "loss"} /\ phase \in {"playing", "ended"}
        /\ status \in {"idle", "ready", "thinking"} /\ (status # "idle" => phase = "playing")
        /\ (status = "ready" => g.side = g.player)
        /\ (status = "thinking" => g.side # g.player /\ StatusAt(at) = "ongoing")
    BY LegalType DEF StatusAt
  <2> HIDE DEF h, phase, status
  <2>3. /\ h \in States /\ h.fen = g.fen /\ h.moves = g.moves /\ h.side = g.side /\ h.player = g.player
        /\ h.revision = g.revision /\ h.phase = phase /\ h.status = status /\ h.legal = LegalAt(at)
    BY <1>1, <2>1, <2>2 DEF States
  <2>4. Sound(h)
    <3>1. MoverOf(h, Len(h.moves) + 1) = MoverOf(g, Len(g.moves) + 1)
      BY <2>3 DEF MoverOf
    <3>2. h.legal = LegalAt(Place(h.fen, h.moves))
      BY <1>2, <2>3
    <3> QED
      BY <2>2, <2>3, <3>1, <3>2 DEF Sound, Legit
  <2> QED
    BY <2>2, <2>3, <2>4 DEF Stays, h
<1>3. CASE ~(revision = g.revision /\ g.phase = "playing")
  BY <1>1, <1>3 DEF INSPECTED, Stays, Sound
<1> QED
  BY <1>2, <1>3

LEMMA Syncs ==
  ASSUME NEW g, Sound(g), NEW revision
  PROVE  LET h == SYNC(g, revision)
         IN  /\ Sound(h) /\ Stays(g, h)
             /\ revision = g.revision /\ g.phase = "playing" => h.status = "syncing"
<1> DEFINE h == SYNC(g, revision)
<1>1. g \in States
  BY DEF Sound
<1>2. CASE revision = g.revision /\ g.phase = "playing"
  <2>1. h = [g EXCEPT !.status = "syncing", !.legal = {}]
    BY <1>2 DEF SYNC
  <2> HIDE DEF h
  <2>2. Stays(g, h) /\ h.phase = "playing" /\ h.status = "syncing"
    BY <1>1, <1>2, <2>1 DEF States, Stays
  <2>3. Sound(h)
    BY <2>2, SameBoard DEF Stays
  <2> QED
    BY <2>2, <2>3 DEF h
<1>3. CASE ~(revision = g.revision /\ g.phase = "playing")
  BY <1>1, <1>3 DEF SYNC, Stays
<1> QED
  BY <1>2, <1>3

LEMMA Fails ==
  ASSUME NEW g, Sound(g), NEW revision
  PROVE  LET h == ERROR(g, revision)
         IN  /\ Sound(h) /\ Stays(g, h)
             /\ revision = g.revision => h.status \notin {"syncing", "thinking"}
<1> DEFINE h == ERROR(g, revision)
<1>1. g \in States
  BY DEF Sound
<1>2. CASE revision = g.revision /\ g.phase = "playing"
  <2>1. h = [g EXCEPT !.status = "error", !.legal = {}]
    BY <1>2 DEF ERROR
  <2> HIDE DEF h
  <2>2. Stays(g, h) /\ h.status = "error"
    BY <1>1, <2>1, <1>2 DEF States, Stays
  <2>3. Sound(h)
    BY <2>2, SameBoard DEF Stays
  <2> QED
    BY <2>2, <2>3 DEF h
<1>3. CASE ~(revision = g.revision /\ g.phase = "playing")
  BY <1>1, <1>3 DEF ERROR, Stays, Sound
<1> QED
  BY <1>2, <1>3

LEMMA Disconnects ==
  ASSUME NEW g, Sound(g)
  PROVE  Sound(DISCONNECTED(g)) /\ Stays(g, DISCONNECTED(g))
<1> DEFINE h == DISCONNECTED(g)
           status == IF g.phase = "playing" THEN "disconnected" ELSE "idle"
<1>1. g \in States
  BY DEF Sound
<1>2. h = [g EXCEPT !.status = status, !.legal = {}] /\ status \in {"disconnected", "idle"}
  BY DEF DISCONNECTED
<1> HIDE DEF h, status
<1>3. Stays(g, h) /\ h.status = status
  BY <1>1, <1>2 DEF States, Stays
<1>4. Sound(h)
  BY <1>2, <1>3, SameBoard DEF Stays
<1> QED
  BY <1>3, <1>4 DEF h

\* A move of the engine is made where it is legal; a game that is served by a
\* search waits for nothing else.
LEMMA EngineMoves ==
  ASSUME NEW g, Sound(g), NEW s \in Seen, Behind(s, g), NEW revision, NEW m
  PROVE  LET h == ENGINE_MOVE(g, revision, m)
         IN  /\ Sound(h) /\ Behind(s, h)
             /\ revision = g.revision /\ s.revision = h.revision /\ g.status # "syncing" =>
                  h.status \notin {"syncing", "thinking"}
<1> DEFINE h == ENGINE_MOVE(g, revision, m)
<1>1. g \in States
  BY DEF Sound
<1>2. CASE revision # g.revision \/ g.phase # "playing" \/ g.status # "thinking" \/ g.side = g.player
  <2>1. h = g
    BY <1>2 DEF ENGINE_MOVE
  <2>2. revision = g.revision /\ g.status # "syncing" => g.status \notin {"syncing", "thinking"}
    BY <1>2 DEF Sound, Legit
  <2> QED
    BY <2>1, <2>2
<1>3. CASE ~(revision # g.revision \/ g.phase # "playing" \/ g.status # "thinking" \/ g.side = g.player)
  <2>1. CASE m \notin g.legal
    <3>1. h = [g EXCEPT !.status = "error"]
      BY <1>3, <2>1 DEF ENGINE_MOVE
    <3> HIDE DEF h
    <3>2. Stays(g, h) /\ h.status = "error"
      BY <1>1, <3>1 DEF States, Stays
    <3>3. Sound(h) /\ Behind(s, h)
      BY <3>2, SameBoard, StaysBehind DEF Stays
    <3> QED
      BY <3>2, <3>3 DEF h
  <2>2. CASE m \in g.legal
    <3>1. h = moved(g, m) /\ m \in LegalAt(Place(g.fen, g.moves)) /\ g.phase = "playing"
      BY <1>3, <2>2 DEF ENGINE_MOVE, Sound, Legit
    <3>2. Sound(h) /\ h.revision = g.revision + 1
      BY <3>1, MovedSound
    <3> HIDE DEF h
    <3>3. h \in States
      BY <3>2 DEF Sound
    <3>4. Behind(s, h) /\ (s.revision = h.revision => h = g)
      BY <1>1, <3>2, <3>3, BumpsBehind DEF Bumps
    <3>5. h.revision # g.revision
      BY <1>1, <3>2 DEF States
    <3> QED
      BY <3>2, <3>4, <3>5 DEF h
  <2> QED
    BY <2>1, <2>2
<1> QED
  BY <1>2, <1>3

-----------------------------------------------------------------------------
(* The client.                                                              *)

LEMMA OperationParts ==
  ASSUME NEW op
  PROVE  /\ op \in Operations => op # NoOperation /\ op.kind \in {"inspect", "search"}
         /\ op = NoOperation => op.kind = "none"
BY DEF Operations, NoOperation

LEMMA Pair ==
  ASSUME NEW S, NEW a \in S, NEW b \in S
  PROVE  <<a>> \o <<b>> = <<a, b>>
<1>1. <<a>> \in Seq(S) /\ <<b>> \in Seq(S) /\ <<a, b>> \in Seq(S)
  OBVIOUS
<1>2. Len(<<a>> \o <<b>>) = 2 /\ <<a>> \o <<b>> \in Seq(S)
  BY <1>1, ConcatProperties
<1>3. \A i \in 1 .. 2 : (<<a>> \o <<b>>)[i] = <<a, b>>[i]
  BY <1>1, ConcatProperties
<1> QED
  BY <1>1, <1>2, <1>3, SeqEqual

LEMMA Triple ==
  ASSUME NEW S, NEW a \in S, NEW b \in S, NEW c \in S
  PROVE  <<a>> \o <<b, c>> = <<a, b, c>>
<1>1. <<a>> \in Seq(S) /\ <<b, c>> \in Seq(S) /\ <<a, b, c>> \in Seq(S)
  OBVIOUS
<1>2. Len(<<a>> \o <<b, c>>) = 3 /\ <<a>> \o <<b, c>> \in Seq(S)
  BY <1>1, ConcatProperties
<1>3. \A i \in 1 .. 3 : (<<a>> \o <<b, c>>)[i] = <<a, b, c>>[i]
  BY <1>1, ConcatProperties
<1> QED
  BY <1>1, <1>2, <1>3, SeqEqual

LEMMA Quadruple ==
  ASSUME NEW S, NEW a \in S, NEW b \in S, NEW c \in S, NEW d \in S
  PROVE  <<a, b>> \o <<c, d>> = <<a, b, c, d>>
<1>1. <<a, b>> \in Seq(S) /\ <<c, d>> \in Seq(S) /\ <<a, b, c, d>> \in Seq(S)
  OBVIOUS
<1>2. Len(<<a, b>> \o <<c, d>>) = 4 /\ <<a, b>> \o <<c, d>> \in Seq(S)
  BY <1>1, ConcatProperties
<1>3. \A i \in 1 .. 4 : (<<a, b>> \o <<c, d>>)[i] = <<a, b, c, d>>[i]
  BY <1>1, ConcatProperties
<1> QED
  BY <1>1, <1>2, <1>3, SeqEqual

LEMMA PlainType == \A name \in Names : Plain(name) \in Lines
  BY NoPlaceType DEF Plain, Command, Lines

LEMMA NewOperation ==
  ASSUME NEW kind \in {"inspect", "search"}, NEW at \in Places, NEW newGame \in BOOLEAN
  PROVE  LET op == Operation(kind, at, newGame)
         IN  /\ op \in Operations /\ op # NoOperation /\ op.kind = kind /\ op.at = at /\ ~op.cancelled
             /\ op.newGame = newGame /\ op.seen = {} /\ (op.barrierSent <=> kind = "inspect")
<1> {} \in SUBSET Places /\ (kind = "inspect") \in BOOLEAN
  OBVIOUS
<1>1. Operation(kind, at, newGame) \in Operations
  BY NoPlaceType DEF Operation, Operations
<1> QED
  BY <1>1, OperationParts DEF Operation

LEMMA CommandsOf ==
  ASSUME NEW op \in Operations
  PROVE  /\ Commands(op) \in Seq(Lines)
         /\ op.kind = "inspect" =>
              Commands(op) \in {<<Plain("ucinewgame"), Position(op), Plain("look"), Plain("isready")>>,
                                <<Position(op), Plain("look"), Plain("isready")>>}
         /\ op.kind = "search" /\ ~op.newGame => Commands(op) = <<Position(op), Plain("go")>>
<1>1. Position(op) \in Lines
  BY DEF Operations, Position, Command, Lines, Names
<1>2. Plain("ucinewgame") \in Lines /\ Plain("look") \in Lines /\ Plain("isready") \in Lines /\ Plain("go") \in Lines
  BY PlainType DEF Names
<1> DEFINE first == IF op.newGame THEN <<Plain("ucinewgame")>> ELSE << >>
           last == IF op.kind = "inspect" THEN <<Plain("look"), Plain("isready")>> ELSE <<Plain("go")>>
<1>3. first \in Seq(Lines) /\ last \in Seq(Lines) /\ <<Position(op)>> \in Seq(Lines)
  BY <1>1, <1>2
<1>4. Commands(op) = first \o <<Position(op)>> \o last
  BY DEF Commands, Position
<1>5. first \o <<Position(op)>> = IF op.newGame THEN <<Plain("ucinewgame"), Position(op)>> ELSE <<Position(op)>>
  BY <1>1, <1>2, <1>3, Pair, ConcatEmptySeq
<1>6. /\ <<Plain("ucinewgame"), Position(op)>> \o <<Plain("look"), Plain("isready")>>
           = <<Plain("ucinewgame"), Position(op), Plain("look"), Plain("isready")>>
      /\ <<Position(op)>> \o <<Plain("look"), Plain("isready")>> = <<Position(op), Plain("look"), Plain("isready")>>
      /\ <<Position(op)>> \o <<Plain("go")>> = <<Position(op), Plain("go")>>
  <2> DEFINE n == Plain("ucinewgame")
             l == Plain("look")
             r == Plain("isready")
             g == Plain("go")
             p == Position(op)
  <2>1. n \in Lines /\ l \in Lines /\ r \in Lines /\ g \in Lines /\ p \in Lines
    BY <1>1, <1>2
  <2> HIDE DEF n, l, r, g, p
  <2>2. <<n, p>> \o <<l, r>> = <<n, p, l, r>> /\ <<p>> \o <<l, r>> = <<p, l, r>> /\ <<p>> \o <<g>> = <<p, g>>
    <3>1. <<n, p>> \o <<l, r>> = <<n, p, l, r>>
      BY <2>1, Quadruple
    <3>2. <<p>> \o <<l, r>> = <<p, l, r>>
      BY <2>1, Triple
    <3>3. <<p>> \o <<g>> = <<p, g>>
      BY <2>1, Pair
    <3> QED
      BY <3>1, <3>2, <3>3
  <2> QED
    BY <2>2 DEF n, l, r, g, p
<1> HIDE DEF first, last
<1>7. Commands(op) \in Seq(Lines)
  BY <1>3, <1>4
<1> QED
  BY <1>4, <1>5, <1>6, <1>7, OperationParts DEF last

LEMMA Sends ==
  ASSUME NEW c \in Clients, NEW commands \in Seq(Lines)
  PROVE  LET d == Sending(c, commands)
         IN  /\ d \in Clients /\ d.phase = c.phase /\ d.active = c.active /\ d.queue = c.queue
             /\ d.sent = c.sent \o commands
<1>1. c.sent \o commands \in Seq(Lines)
  BY DEF Clients
<1> QED
  BY <1>1 DEF Sending, Clients

\* An operation after it was stopped or cancelled: what it asks and has been
\* told is the same, and a search that had no barrier may have one.
Alike(op, other) ==
  /\ op # NoOperation /\ other \in Operations /\ other.kind = op.kind /\ other.at = op.at /\ other.seen = op.seen
  /\ other.failed = op.failed
Stops(c, d) ==
  /\ d \in Clients /\ d.phase = c.phase /\ Alike(c.active, d.active)
  /\ \/ d.active.barrierSent = c.active.barrierSent /\ d.sent = c.sent
     \/ /\ c.active.kind = "search" /\ ~c.active.barrierSent /\ d.active.barrierSent
        /\ d.sent = c.sent \o <<Plain("stop"), Plain("isready")>>

LEMMA StopsActive ==
  ASSUME NEW c \in Clients, c.active # NoOperation
  PROVE  LET d == StopActive(c)
         IN  /\ Stops(c, d) /\ d.queue = c.queue /\ d.active.cancelled = c.active.cancelled
             /\ c.active.kind = "search" /\ ~c.active.barrierSent =>
                  d.active.barrierSent /\ d.sent = c.sent \o <<Plain("stop"), Plain("isready")>>
             /\ ~(c.active.kind = "search" /\ ~c.active.barrierSent) => d = c
<1> DEFINE op == c.active
<1>1. op \in Operations
  BY DEF Clients
<1>2. CASE op.kind = "search" /\ ~op.barrierSent
  <2> DEFINE b == [c EXCEPT !.active.barrierSent = TRUE]
             d == StopActive(c)
  <2>1. b.active = [op EXCEPT !.barrierSent = TRUE] /\ b.active \in Operations
    BY <1>1 DEF Clients, Operations
  <2>2. b \in Clients /\ b.phase = c.phase /\ b.queue = c.queue /\ b.sent = c.sent
    BY <1>1, <2>1 DEF Clients
  <2>3. d = Sending(b, <<Plain("stop"), Plain("isready")>>)
    BY <1>2 DEF StopActive, Barrier
  <2>4. <<Plain("stop"), Plain("isready")>> \in Seq(Lines)
    <3>1. Plain("stop") \in Lines /\ Plain("isready") \in Lines
      BY PlainType DEF Names
    <3> QED
      BY <3>1
  <2>5. /\ b.active.kind = op.kind /\ b.active.at = op.at /\ b.active.seen = op.seen /\ b.active.barrierSent
        /\ b.active.cancelled = op.cancelled /\ b.active.failed = op.failed
    BY <1>1, <2>1 DEF Operations
  <2> HIDE DEF b, d
  <2>6. /\ d \in Clients /\ d.phase = c.phase /\ d.active = b.active /\ d.queue = c.queue
        /\ d.sent = c.sent \o <<Plain("stop"), Plain("isready")>>
    <3> DEFINE commands == <<Plain("stop"), Plain("isready")>>
    <3>1. commands \in Seq(Lines) /\ d = Sending(b, commands)
      BY <2>3, <2>4
    <3> HIDE DEF commands
    <3>2. d \in Clients /\ d.phase = b.phase /\ d.active = b.active /\ d.queue = b.queue /\ d.sent = b.sent \o commands
      BY <2>2, <3>1, Sends
    <3> QED
      BY <2>2, <3>2 DEF commands
  <2> QED
    BY <1>2, <2>1, <2>5, <2>6 DEF Stops, Alike, d
<1>3. CASE ~(op.kind = "search" /\ ~op.barrierSent)
  BY <1>1, <1>3 DEF StopActive, Stops, Alike
<1> QED
  BY <1>2, <1>3

\* cancel: nothing waits, and what is answered to is drained.
LEMMA Cancels ==
  ASSUME NEW c \in Clients
  PROVE  LET d == cancel(c)
         IN  /\ d \in Clients /\ d.phase = c.phase /\ d.queue = << >>
             /\ c.active = NoOperation => d.active = NoOperation /\ d.sent = c.sent
             /\ c.active # NoOperation => Stops(c, d) /\ d.active # NoOperation /\ d.active.cancelled
<1> DEFINE op == c.active
           d == cancel(c)
<1>1. << >> \in Seq(Operations)
  OBVIOUS
<1>2. CASE op = NoOperation
  <2>1. d = [c EXCEPT !.queue = << >>]
    BY <1>2 DEF cancel
  <2> HIDE DEF d
  <2> QED
    BY <1>1, <1>2, <2>1 DEF Clients, d
<1>3. CASE op # NoOperation /\ op.cancelled
  <2>1. d = [c EXCEPT !.queue = << >>] /\ op \in Operations
    BY <1>3 DEF cancel, Clients
  <2> HIDE DEF d
  <2> QED
    BY <1>1, <1>3, <2>1 DEF Clients, d, Stops, Alike
<1>4. CASE op # NoOperation /\ ~op.cancelled
  <2> DEFINE b == [c EXCEPT !.queue = << >>, !.active.cancelled = TRUE]
  <2>1. op \in Operations /\ b.active = [op EXCEPT !.cancelled = TRUE]
    BY <1>4 DEF Clients
  <2>2. b.active \in Operations /\ b.phase = c.phase /\ b.queue = << >> /\ b.sent = c.sent
    BY <2>1 DEF Clients, Operations
  <2>3. b \in Clients
    BY <1>1, <2>1, <2>2 DEF Clients
  <2>4. d = StopActive(b)
    BY <1>4 DEF cancel
  <2>5. /\ b.active.kind = op.kind /\ b.active.at = op.at /\ b.active.seen = op.seen /\ b.active.cancelled
        /\ b.active.barrierSent = op.barrierSent /\ b.active.failed = op.failed
    BY <2>1 DEF Operations
  <2>6. b.active # NoOperation
    BY <2>2, OperationParts
  <2> HIDE DEF b, d
  <2>7. Stops(b, d) /\ d.queue = << >> /\ d.active.cancelled = b.active.cancelled
    BY <2>2, <2>3, <2>4, <2>6, StopsActive
  <2>8. Stops(c, d)
    BY <1>4, <2>2, <2>5, <2>7 DEF Stops, Alike
  <2>9. d \in Clients /\ d.phase = c.phase /\ d.active \in Operations
    BY <2>8 DEF Stops, Alike
  <2> QED
    BY <1>4, <2>5, <2>7, <2>8, <2>9, OperationParts DEF d
<1> QED
  BY <1>2, <1>3, <1>4

LEMMA Pumps ==
  ASSUME NEW c \in Clients, c.active = NoOperation, c.phase = "connected"
  PROVE  LET d == pump(c)
         IN  /\ c.queue = << >> => d = c
             /\ \A op \in Operations : c.queue = <<op>> =>
                  /\ d \in Clients /\ d.phase = c.phase /\ d.active = op /\ d.queue = << >>
                  /\ d.sent = c.sent \o Commands(op)
<1>1. c.queue = << >> => pump(c) = c
  BY DEF pump
<1>2. ASSUME NEW op \in Operations, c.queue = <<op>>
      PROVE  LET d == pump(c)
             IN  /\ d \in Clients /\ d.phase = c.phase /\ d.active = op /\ d.queue = << >>
                 /\ d.sent = c.sent \o Commands(op)
  <2> DEFINE b == [c EXCEPT !.active = op, !.queue = << >>]
             d == pump(c)
             commands == Commands(op)
  <2>1. Head(c.queue) = op /\ Tail(c.queue) = << >> /\ c.queue # << >>
    BY <1>2
  <2>2. d = Sending(b, commands)
    BY <2>1 DEF pump
  <2>3. b \in Clients /\ b.phase = c.phase /\ b.active = op /\ b.queue = << >> /\ b.sent = c.sent
    <3>1. << >> \in Seq(Operations) /\ op \in Operations \cup {NoOperation}
      OBVIOUS
    <3> QED
      BY <3>1 DEF Clients
  <2>4. commands \in Seq(Lines)
    BY CommandsOf
  <2> HIDE DEF b, d, commands
  <2>5. d \in Clients /\ d.phase = b.phase /\ d.active = b.active /\ d.queue = b.queue /\ d.sent = b.sent \o commands
    BY <2>2, <2>3, <2>4, Sends
  <2> QED
    BY <2>3, <2>5 DEF d, commands
<1> QED
  BY <1>1, <1>2

\* A request begins at once, or waits while another is drained.
LEMMA Enqueues ==
  ASSUME NEW c \in Clients, c.phase = "connected", c.queue = << >>, NEW op \in Operations
  PROVE  LET d == enqueue(c, op)
         IN  /\ d \in Clients /\ d.phase = c.phase
             /\ c.active # NoOperation => d.active = c.active /\ d.queue = <<op>> /\ d.sent = c.sent
             /\ c.active = NoOperation => d.active = op /\ d.queue = << >> /\ d.sent = c.sent \o Commands(op)
<1> DEFINE b == [c EXCEPT !.queue = Append(@, op)]
           d == enqueue(c, op)
<1>1. Append(c.queue, op) = <<op>> /\ <<op>> \in Seq(Operations)
  OBVIOUS
<1>2. b \in Clients /\ b.phase = c.phase /\ b.active = c.active /\ b.queue = <<op>> /\ b.sent = c.sent
  BY <1>1 DEF Clients
<1>3. d = pump(b)
  BY DEF enqueue
<1> HIDE DEF b, d
<1>4. c.active # NoOperation => d = b
  BY <1>2, <1>3 DEF pump
<1>5. c.active = NoOperation =>
        d \in Clients /\ d.phase = b.phase /\ d.active = op /\ d.queue = << >> /\ d.sent = b.sent \o Commands(op)
  BY <1>2, <1>3, Pumps
<1> QED
  BY <1>2, <1>4, <1>5 DEF d

\* The operation that ends makes room for the one that waits.
LEMMA Completes ==
  ASSUME NEW c \in Clients, c.phase = "connected"
  PROVE  LET d == complete(c)
         IN  /\ c.queue = << >> =>
                  d \in Clients /\ d.phase = c.phase /\ d.active = NoOperation /\ d.queue = << >> /\ d.sent = c.sent
             /\ \A op \in Operations : c.queue = <<op>> =>
                  /\ d \in Clients /\ d.phase = c.phase /\ d.active = op /\ d.queue = << >>
                  /\ d.sent = c.sent \o Commands(op)
<1> DEFINE b == [c EXCEPT !.active = NoOperation]
           d == complete(c)
<1>1. b \in Clients /\ b.phase = "connected" /\ b.active = NoOperation /\ b.queue = c.queue /\ b.sent = c.sent
  BY DEF Clients
<1>2. d = pump(b)
  BY DEF complete
<1> HIDE DEF b, d
<1>3. c.queue = << >> => d = b
  BY <1>1, <1>2, Pumps
<1>4. ASSUME NEW op \in Operations, c.queue = <<op>>
      PROVE  d \in Clients /\ d.phase = b.phase /\ d.active = op /\ d.queue = << >> /\ d.sent = b.sent \o Commands(op)
  BY <1>1, <1>2, <1>4, Pumps
<1> QED
  BY <1>1, <1>3, <1>4 DEF d

LEMMA Drops ==
  ASSUME NEW c \in Clients
  PROVE  LET d == Disconnected(c)
         IN  d \in Clients /\ d.phase = "disconnected" /\ d.active = NoOperation /\ d.queue = << >> /\ d.sent = << >>
<1>1. << >> \in Seq(Operations) /\ << >> \in Seq(Lines)
  OBVIOUS
<1> QED
  BY <1>1 DEF Disconnected, Clients

-----------------------------------------------------------------------------
(* What is on its way.                                                      *)

LEMMA Ends ==
  ASSUME NEW S, NEW s \in Seq(S), NEW t \in Seq(S), s # << >>
  PROVE  s \o t # << >> /\ Head(s \o t) = Head(s) /\ Tail(s \o t) = Tail(s) \o t
<1>1. Head(s) \in S /\ Tail(s) \in Seq(S) /\ s = <<Head(s)>> \o Tail(s)
  OBVIOUS
<1>2. s \o t \in Seq(S) /\ Len(s \o t) = Len(s) + Len(t) /\ Len(s) # 0
      /\ \A i \in 1 .. Len(s) + Len(t) : (s \o t)[i] = IF i <= Len(s) THEN s[i] ELSE t[i - Len(s)]
  BY ConcatProperties
<1>3. s \o t # << >> /\ Head(s \o t) = Head(s)
  BY <1>2
<1>4. /\ Tail(s) \o t \in Seq(S) /\ Len(Tail(s) \o t) = Len(Tail(s)) + Len(t) /\ Len(Tail(s)) = Len(s) - 1
      /\ \A i \in 1 .. Len(Tail(s)) + Len(t) :
           (Tail(s) \o t)[i] = IF i <= Len(Tail(s)) THEN Tail(s)[i] ELSE t[i - Len(Tail(s))]
      /\ \A i \in 1 .. Len(s) - 1 : Tail(s)[i] = s[i + 1]
  BY <1>1, ConcatProperties, HeadTailProperties
<1>5. /\ Tail(s \o t) \in Seq(S) /\ Len(Tail(s \o t)) = Len(s) + Len(t) - 1
      /\ \A i \in 1 .. Len(s) + Len(t) - 1 : Tail(s \o t)[i] = (s \o t)[i + 1]
  BY <1>2, <1>3, HeadTailProperties
<1>6. \A i \in 1 .. Len(s) + Len(t) - 1 : Tail(s \o t)[i] = (Tail(s) \o t)[i]
  BY <1>2, <1>4, <1>5
<1> QED
  BY <1>2, <1>3, <1>4, <1>5, <1>6, SeqEqual

LEMMA Passes ==
  ASSUME NEW S, NEW s \in Seq(S), NEW t \in Seq(S), t # << >>
  PROVE  Append(s, Head(t)) \o Tail(t) = s \o t
<1>1. Head(t) \in S /\ Tail(t) \in Seq(S) /\ <<Head(t)>> \in Seq(S) /\ t = <<Head(t)>> \o Tail(t)
  OBVIOUS
<1>2. Append(s, Head(t)) = s \o <<Head(t)>>
  BY <1>1, AppendIsConcat
<1>3. (s \o <<Head(t)>>) \o Tail(t) = s \o (<<Head(t)>> \o Tail(t))
  BY <1>1, ConcatAssociative
<1> QED
  BY <1>1, <1>2, <1>3

LEMMA TailOf ==
  ASSUME NEW a, NEW b, NEW c, NEW d
  PROVE  /\ Head(<<a>>) = a /\ Tail(<<a>>) = << >> /\ Head(<<a, b>>) = a /\ Tail(<<a, b>>) = <<b>>
         /\ Head(<<a, b, c>>) = a /\ Tail(<<a, b, c>>) = <<b, c>>
         /\ Head(<<a, b, c, d>>) = a /\ Tail(<<a, b, c, d>>) = <<b, c, d>>
OBVIOUS

LEMMA OnlyJoins ==
  ASSUME NEW msgs, NEW s \in Seq(Messages), NEW t \in Seq(Messages), Only(s, msgs), Only(t, msgs)
  PROVE  Only(s \o t, msgs)
BY ConcatProperties DEF Only

LEMMA OnlyEnds ==
  ASSUME NEW msgs, NEW s \in Seq(Messages), Only(s, msgs), NEW m \in Messages, m.msg = "readyok"
  PROVE  OnlyThenReady(s \o <<m>>, msgs)
<1>1. <<m>> \in Seq(Messages) /\ Len(<<m>>) = 1 /\ <<m>>[1] = m
  OBVIOUS
<1>2. /\ Len(s \o <<m>>) = Len(s) + 1 /\ s \o <<m>> \in Seq(Messages) /\ Len(s) \in Nat
      /\ \A i \in 1 .. Len(s) + 1 : (s \o <<m>>)[i] = IF i <= Len(s) THEN s[i] ELSE <<m>>[i - Len(s)]
  BY <1>1, ConcatProperties
<1>3. (s \o <<m>>)[Len(s) + 1] = m
  BY <1>1, <1>2
<1>4. \A i \in 1 .. Len(s) : (s \o <<m>>)[i].msg \in msgs
  BY <1>2 DEF Only
<1> QED
  BY <1>2, <1>3, <1>4 DEF OnlyThenReady

LEMMA OnlyShortens ==
  ASSUME NEW msgs, "readyok" \notin msgs, NEW s \in Seq(Messages), s # << >>
  PROVE  /\ Head(s) = s[1] /\ Head(s) \in Messages /\ Tail(s) \in Seq(Messages)
         /\ Only(s, msgs) => Only(Tail(s), msgs) /\ Head(s).msg \in msgs
         /\ OnlyThenReady(s, msgs) => IF Head(s).msg = "readyok" THEN Tail(s) = << >>
                                      ELSE OnlyThenReady(Tail(s), msgs) /\ Head(s).msg \in msgs
<1>1. /\ Head(s) = s[1] /\ Head(s) \in Messages /\ Tail(s) \in Seq(Messages) /\ Len(Tail(s)) = Len(s) - 1
      /\ \A i \in 1 .. Len(s) - 1 : Tail(s)[i] = s[i + 1]
  BY HeadTailProperties
<1>2. Len(s) \in Nat \ {0}
  OBVIOUS
<1>3. Only(s, msgs) => Only(Tail(s), msgs) /\ Head(s).msg \in msgs
  BY <1>1, <1>2 DEF Only
<1>4. ASSUME OnlyThenReady(s, msgs)
      PROVE  IF Head(s).msg = "readyok" THEN Tail(s) = << >>
             ELSE OnlyThenReady(Tail(s), msgs) /\ Head(s).msg \in msgs
  <2> DEFINE n == Len(s)
             t == Tail(s)
  <2>0. /\ n \in Nat \ {0} /\ t \in Seq(Messages) /\ Len(t) = n - 1 /\ s[n].msg = "readyok"
        /\ \A i \in 1 .. n - 1 : t[i] = s[i + 1] /\ s[i].msg \in msgs
        /\ Head(s) = s[1]
    BY <1>1, <1>2, <1>4 DEF OnlyThenReady
  <2>1. CASE n = 1
    <3> HIDE DEF n, t
    <3>1. Len(t) = 0 /\ Head(s).msg = "readyok"
      BY <2>0, <2>1
    <3>2. t = << >>
      BY <2>0, <3>1
    <3> QED
      BY <3>1, <3>2 DEF t
  <2>2. CASE n # 1
    <3> HIDE DEF n, t
    <3>1. Head(s).msg \in msgs
      BY <2>0, <2>2
    <3>2. t # << >> /\ n - 1 \in 1 .. n - 1 /\ (n - 1) + 1 = n
      BY <2>0, <2>2
    <3>3. t[n - 1] = s[n]
      BY <2>0, <3>2
    <3>4. ASSUME NEW i \in 1 .. (n - 1) - 1
          PROVE  t[i].msg \in msgs
      <4>1. i \in 1 .. n - 1 /\ i + 1 \in 1 .. n - 1
        BY <2>0, <2>2
      <4> QED
        BY <2>0, <4>1
    <3>5. OnlyThenReady(t, msgs)
      BY <2>0, <3>2, <3>3, <3>4 DEF OnlyThenReady
    <3> QED
      BY <3>1, <3>5 DEF t
  <2> QED
    BY <2>1, <2>2
<1> QED
  BY <1>1, <1>3, <1>4

LEMMA ChatJoins ==
  ASSUME NEW s \in Seq(Messages), NEW t \in Seq(Messages), Chat(s), Chat(t)
  PROVE  Chat(s \o t)
BY OnlyJoins DEF Chat

LEMMA ChatEnds ==
  ASSUME NEW s \in Seq(Messages), Chat(s), NEW m \in Messages, m.msg = "readyok"
  PROVE  ChatThenReady(s \o <<m>>)
BY OnlyEnds DEF Chat, ChatThenReady

LEMMA ChatShortens ==
  ASSUME NEW s \in Seq(Messages), s # << >>
  PROVE  /\ Head(s) = s[1] /\ Head(s) \in Messages /\ Tail(s) \in Seq(Messages)
         /\ Chat(s) => Chat(Tail(s)) /\ Head(s).msg \in Moving
         /\ ChatThenReady(s) => IF Head(s).msg = "readyok" THEN Tail(s) = << >>
                                ELSE ChatThenReady(Tail(s)) /\ Head(s).msg \in Moving
<1>1. "readyok" \notin Moving
  BY DEF Moving
<1> QED
  BY <1>1, OnlyShortens DEF Chat, ChatThenReady

\* What is printed after something leaves it the first.
LEMMA FirstStays ==
  ASSUME NEW s \in Seq(Messages), NEW t \in Seq(Messages), s # << >>
  PROVE  s \o t # << >> /\ (s \o t)[1] = s[1]
<1>1. 1 \in 1 .. Len(s) /\ Len(s) \in Nat /\ Len(t) \in Nat
  OBVIOUS
<1>2. Len(s \o t) = Len(s) + Len(t) /\ (s \o t)[1] = s[1]
  BY <1>1, ConcatProperties
<1> QED
  BY <1>1, <1>2

LEMMA PlainTypes ==
  /\ Plain("uci") \in Lines /\ Plain("setoption") \in Lines /\ Plain("isready") \in Lines
  /\ Plain("ucinewgame") \in Lines /\ Plain("look") \in Lines /\ Plain("go") \in Lines /\ Plain("stop") \in Lines
BY PlainType DEF Names

LEMMA PositionType ==
  ASSUME NEW op \in Operations
  PROVE  Position(op) \in Lines /\ op.at \in Places
BY DEF Operations, Position, Command, Lines, Names

LEMMA AlikeFlow ==
  ASSUME NEW op \in Operations, NEW other, Alike(op, other), other.barrierSent = op.barrierSent,
         NEW rest, NEW out, NEW at, NEW search, OperationFlow(op, rest, out, at, search)
  PROVE  OperationFlow(other, rest, out, at, search)
<1>1. op # NoOperation /\ other # NoOperation
  BY OperationParts DEF Alike
<1>2. Position(other) = Position(op) /\ Saw(other) = Saw(op) /\ other.kind = op.kind /\ other.at = op.at
      /\ other.seen = op.seen /\ other.failed = op.failed
  BY DEF Alike, Position, Saw
<1>3. CASE op.kind = "inspect"
  BY <1>1, <1>2, <1>3 DEF OperationFlow, InspectFlow, RefusedFlow
<1>4. CASE op.kind # "inspect"
  BY <1>1, <1>2, <1>4 DEF OperationFlow, SearchFlow, DrainFlow
<1> QED
  BY <1>3, <1>4

\* The barrier follows what was on its way to the engine.
LEMMA BarrierFlow ==
  ASSUME NEW op \in Operations, NEW other \in Operations, other.kind = op.kind, other.at = op.at,
         op.kind = "search", ~op.barrierSent, other.barrierSent,
         NEW rest \in Seq(Lines), NEW out, NEW at, NEW search, OperationFlow(op, rest, out, at, search)
  PROVE  OperationFlow(other, rest \o <<Plain("stop"), Plain("isready")>>, out, at, search)
<1> DEFINE p == Position(op)
           g == Plain("go")
           s == Plain("stop")
           r == Plain("isready")
           all == rest \o <<s, r>>
<1>1. op # NoOperation /\ other # NoOperation /\ other.kind = "search" /\ Position(other) = p
  BY OperationParts DEF Position
<1>2. p \in Lines /\ g \in Lines /\ s \in Lines /\ r \in Lines
  BY PlainTypes, PositionType
<1>3. rest \in {<<p, g>>, <<g>>, << >>} /\ Chat(out)
  <2>1. Chat(<< >>)
    BY DEF Chat, Only, Moving
  <2> QED
    BY <1>1, <2>1 DEF OperationFlow, SearchFlow
<1> HIDE DEF p, g, s, r
<1>4. all \in {<<p, g, s, r>>, <<g, s, r>>, <<s, r>>}
  <2>1. <<p, g>> \o <<s, r>> = <<p, g, s, r>>
    BY <1>2, Quadruple
  <2>2. <<g>> \o <<s, r>> = <<g, s, r>>
    BY <1>2, Triple
  <2>3. << >> \o <<s, r>> = <<s, r>>
    <3>1. <<s, r>> \in Seq(Lines)
      BY <1>2
    <3> QED
      BY <3>1, ConcatEmptySeq
  <2> QED
    BY <1>3, <2>1, <2>2, <2>3
<1> HIDE DEF all
<1>5. DrainFlow(other, all, out, search)
  BY <1>1, <1>3, <1>4 DEF DrainFlow, g, s, r
<1>6. OperationFlow(other, all, out, at, search)
  BY <1>1, <1>5 DEF OperationFlow
<1> QED
  BY <1>6 DEF all, s, r

\* A client that stops what it does.
LEMMA StopsFlow ==
  ASSUME NEW c \in Clients, NEW d, Stops(c, d), c.phase = "connected",
         NEW s \in Seq(Lines), NEW out, NEW at, NEW search, Flow(c, s \o c.sent, out, at, search)
  PROVE  Flow(d, s \o d.sent, out, at, search)
<1> DEFINE op == c.active
           more == <<Plain("stop"), Plain("isready")>>
<1>1. /\ op \in Operations /\ c.sent \in Seq(Lines) /\ d.phase = "connected" /\ Alike(op, d.active)
      /\ OperationFlow(op, s \o c.sent, out, at, search)
  BY DEF Stops, Alike, Clients, Flow
<1>2. CASE d.active.barrierSent = op.barrierSent /\ d.sent = c.sent
  <2>1. OperationFlow(d.active, s \o c.sent, out, at, search)
    BY <1>1, <1>2, AlikeFlow
  <2> QED
    BY <1>1, <1>2, <2>1 DEF Flow
<1>3. CASE op.kind = "search" /\ ~op.barrierSent /\ d.active.barrierSent /\ d.sent = c.sent \o more
  <2>1. more \in Seq(Lines) /\ s \o c.sent \in Seq(Lines)
    BY <1>1, PlainTypes
  <2>2. OperationFlow(d.active, (s \o c.sent) \o more, out, at, search)
    BY <1>1, <1>3, <2>1, BarrierFlow DEF Alike
  <2> HIDE DEF more
  <2>3. (s \o c.sent) \o more = s \o (c.sent \o more)
    <3> DEFINE t == c.sent
    <3>1. t \in Seq(Lines) /\ more \in Seq(Lines) /\ s \in Seq(Lines)
      BY <1>1, <2>1
    <3> HIDE DEF t
    <3>2. (s \o t) \o more = s \o (t \o more)
      BY ONLY <3>1, ConcatAssociative
    <3> QED
      BY <3>2 DEF t
  <2> QED
    BY <1>1, <1>3, <2>2, <2>3 DEF Flow
<1> QED
  BY <1>2, <1>3 DEF Stops

\* A request that begins when nothing is on its way.
LEMMA BeginsFlow ==
  ASSUME NEW op \in Operations, ~op.cancelled, NEW at, op.seen = {},
         \/ op.kind = "inspect" /\ op.barrierSent
         \/ op.kind = "search" /\ ~op.barrierSent /\ ~op.newGame
  PROVE  OperationFlow(op, Commands(op), << >>, at, NoPlace)
<1>1. op # NoOperation
  BY OperationParts
<1>2. CASE op.kind = "inspect"
  BY <1>1, <1>2, CommandsOf DEF OperationFlow, InspectFlow
<1>3. CASE op.kind = "search"
  BY <1>1, <1>3, CommandsOf DEF OperationFlow, SearchFlow
<1> QED
  BY <1>2, <1>3

LEMMA QuietFlow ==
  ASSUME NEW rest, NEW out, NEW at, NEW search, NEW op, OperationFlow(op, rest, out, at, search), op = NoOperation
  PROVE  rest = << >> /\ out = << >> /\ search = NoPlace
BY DEF OperationFlow

-----------------------------------------------------------------------------
(* What the user does.                                                      *)

LEMMA InvParts ==
  ASSUME Inv
  PROVE  /\ shown \in Seen /\ game \in States /\ client \in Clients /\ stdin \in Seq(Lines) /\ stdout \in Seq(Messages)
         /\ Sound(game) /\ Behind(shown, game) /\ Serves(client, turn) /\ client.sent \in Seq(Lines)
         /\ Rest \in Seq(Lines) /\ engine \in [at : Places, search : Places]
         /\ Flow(client, Rest, stdout, engine.at, engine.search)
<1>1. client.sent \in Seq(Lines)
  BY DEF Inv, TypeInv, Clients
<1> QED
  BY <1>1 DEF Inv, TypeInv, GameInv, ShownInv, ClientInv, FlowInv, Sound, Rest

LEMMA CancelKeeps ==
  ASSUME Inv, NEW t
  PROVE  LET d == cancel(client)
         IN  /\ d \in Clients /\ d.phase = client.phase /\ d.queue = << >> /\ Serves(d, t)
             /\ d.active # NoOperation => d.active.cancelled
             /\ Flow(d, stdin \o d.sent, stdout, engine.at, engine.search)
<1> DEFINE d == cancel(client)
<1>1. CASE client.active = NoOperation
  <2>1. d \in Clients /\ d.phase = client.phase /\ d.queue = << >> /\ d.active = client.active /\ d.sent = client.sent
    BY <1>1, InvParts, Cancels
  <2> HIDE DEF d
  <2> QED
    BY <1>1, <2>1, InvParts DEF Serves, Flow, Rest, d
<1>2. CASE client.active # NoOperation
  <2>1. Stops(client, d) /\ d.queue = << >> /\ d.active # NoOperation /\ d.active.cancelled /\ d \in Clients
        /\ d.phase = client.phase /\ client.phase = "connected"
    BY <1>2, InvParts, Cancels DEF Serves
  <2> HIDE DEF d
  <2>2. Flow(d, stdin \o d.sent, stdout, engine.at, engine.search)
    BY <2>1, InvParts, StopsFlow DEF Rest
  <2> QED
    BY <2>1, <2>2 DEF Serves, d
<1> QED
  BY <1>1, <1>2

\* What is dispatched changes nothing but the game and, where the callback
\* cancels first, the client.
LEMMA Dispatches ==
  ASSUME Inv, Sound(game'), Behind(shown, game'), UNCHANGED <<settings, ready, shown, turn, linkVars>>,
         client' = client \/ client' = cancel(client), ServingInv'
  PROVE  Inv'
<1>0. game' \in States
  BY DEF Sound
<1>1. client' \in Clients /\ client'.phase = client.phase /\ Serves(client', turn)
      /\ Flow(client', stdin \o client'.sent, stdout, engine.at, engine.search)
  <2>1. CASE client' = client
    BY <2>1, InvParts DEF Rest
  <2>2. CASE client' = cancel(client)
    BY <2>2, CancelKeeps
  <2> QED
    BY <2>1, <2>2
<1>2. TypeInv'
  BY <1>0, <1>1 DEF Inv, TypeInv, linkVars
<1>3. ShownInv'
  BY DEF Inv, ShownInv
<1>4. ClientInv'
  BY <1>1 DEF Inv, ClientInv, linkVars
<1>5. FlowInv'
  BY <1>1 DEF FlowInv, Rest, linkVars
<1> QED
  BY <1>2, <1>3, <1>4, <1>5 DEF Inv, GameInv

LEMMA BumpStep ==
  ASSUME Inv, Sound(game'), Bumps(game, game'), UNCHANGED <<settings, ready, shown, turn, linkVars>>,
         \/ client' = client
         \/ client' = cancel(client) /\ (game' = game => shown.revision # game.revision \/ ~turn.current)
  PROVE  Inv'
<1>1. game' \in States
  BY DEF Sound
<1>2. Behind(shown, game') /\ (shown.revision = game'.revision => game' = game)
  BY <1>1, InvParts, BumpsBehind
<1>3. ServingInv'
  <2>1. CASE client' = client
    BY <1>2, <2>1 DEF Inv, ServingInv
  <2>2. CASE client' = cancel(client) /\ (game' = game => shown.revision # game.revision \/ ~turn.current)
    BY <1>2, <2>2 DEF ServingInv
  <2> QED
    BY <2>1, <2>2
<1> QED
  BY <1>2, <1>3, Dispatches

LEMMA UserStep ==
  ASSUME Inv, User
  PROVE  Inv'
<1>1. CASE MakeMove
  <2>1. PICK m : game' = PLAYER_MOVE(game, m) /\ UNCHANGED <<settings, ready, shown, turn, linkVars, client>>
    BY <1>1 DEF MakeMove, Dispatch
  <2> QED
    BY <2>1, InvParts, PlayerMoves, BumpStep
<1>2. CASE StartGame
  BY <1>2, InvParts, StartsGame, BumpStep DEF StartGame, Dispatch
<1>3. CASE NewGame
  <2>1. game' = NEW_GAME(game) /\ client' = cancel(client) /\ UNCHANGED <<settings, ready, shown, turn, linkVars>>
    BY <1>3 DEF NewGame, Dispatch
  <2>2. game' # game
    <3>1. game'.revision = game.revision + 1
      BY <2>1 DEF NEW_GAME, createGameState
    <3> QED
      BY <3>1, InvParts DEF States
  <2> QED
    BY <2>1, <2>2, InvParts, NewGames, BumpStep
<1>4. CASE Undo
  <2>1. game' = UNDO(game) /\ client' = cancel(client) /\ UNCHANGED <<settings, ready, shown, turn, linkVars>>
        /\ HumanMoves(shown) # {}
    BY <1>4 DEF Undo, Dispatch
  <2>2. ASSUME game' = game, shown.revision = game.revision, turn.current
        PROVE  FALSE
    <3>1. shown.fen = game.fen /\ shown.moves = game.moves /\ shown.player = game.player
      BY <2>2 DEF Inv, ShownInv, Behind
    <3>2. HumanMoves(game) = HumanMoves(shown)
      BY <3>1 DEF HumanMoves, MoverOf
    <3>3. game'.revision = game.revision + 1
      BY <2>1, <3>2, InvParts, Undoes
    <3> QED
      BY <2>2, <3>3, InvParts DEF States
  <2> QED
    BY <2>1, <2>2, InvParts, Undoes, BumpStep
<1>5. CASE SetPosition
  <2>1. PICK fen \in Fens : game' = SET_POSITION(game, fen) /\ client' = cancel(client)
                            /\ UNCHANGED <<settings, ready, shown, turn, linkVars>>
    BY <1>5 DEF SetPosition, Dispatch
  <2>2. game' # game
    <3>1. game'.revision = game.revision + 1
      BY <2>1, InvParts DEF SET_POSITION, Anew, States
    <3> QED
      BY <3>1, InvParts DEF States
  <2> QED
    BY <2>1, <2>2, InvParts, SetsPosition, BumpStep
<1>6. CASE SetPlayerSide
  <2>1. PICK side \in Sides : game' = SET_PLAYER_SIDE(game, side)
                              /\ UNCHANGED <<settings, ready, shown, turn, linkVars, client>>
    BY <1>6 DEF SetPlayerSide, Dispatch, Sides
  <2>2. Sound(game') /\ Behind(shown, game') /\ game'.status = game.status /\ game'.revision = game.revision
    BY <2>1, InvParts, SetsPlayerSide
  <2>3. ServingInv'
    BY <2>1, <2>2 DEF Inv, ServingInv, UnderWay
  <2> QED
    BY <2>1, <2>2, <2>3, Dispatches
<1>7. CASE Retry
  BY <1>7, InvParts, Retries, BumpStep DEF Retry, Dispatch
<1>8. CASE ChangeSettings
  <2>1. UNCHANGED <<game, ready, shown, turn, client, linkVars>> /\ settings' = 3 - settings
    BY <1>8 DEF ChangeSettings
  <2>2. TypeInv'
    BY <2>1 DEF Inv, TypeInv, linkVars
  <2>3. GameInv' /\ ShownInv' /\ ClientInv' /\ ServingInv'
    BY <2>1 DEF Inv, GameInv, ShownInv, ClientInv, ServingInv, linkVars
  <2>4. FlowInv'
    BY <2>1 DEF Inv, FlowInv, Rest, linkVars
  <2> QED
    BY <2>2, <2>3, <2>4 DEF Inv
<1> QED
  BY <1>1, <1>2, <1>3, <1>4, <1>5, <1>6, <1>7, <1>8 DEF User

-----------------------------------------------------------------------------
(* The effect.                                                              *)

LEMMA Cleans ==
  ASSUME Inv, NEW t
  PROVE  LET d == IF turn.current THEN cancel(client) ELSE client
         IN  /\ d \in Clients /\ d.phase = client.phase /\ d.queue = << >> /\ Serves(d, t)
             /\ d.active # NoOperation => d.active.cancelled
             /\ Flow(d, stdin \o d.sent, stdout, engine.at, engine.search)
<1>1. CASE turn.current
  BY <1>1, CancelKeeps
<1>2. CASE ~turn.current
  BY <1>2, InvParts DEF Serves, Rest
<1> QED
  BY <1>1, <1>2

\* A request that is new.
Fresh(op) ==
  /\ op \in Operations /\ ~op.cancelled /\ op.seen = {}
  /\ \/ op.kind = "inspect" /\ op.barrierSent
     \/ op.kind = "search" /\ ~op.barrierSent /\ ~op.newGame

LEMMA FreshFlow ==
  ASSUME NEW c \in Clients, NEW d \in Clients, c.phase = "connected", d.phase = "connected", c.active = NoOperation,
         NEW s \in Seq(Lines), NEW out, NEW at, NEW search, Flow(c, s \o c.sent, out, at, search),
         NEW op, Fresh(op), d.active = op, d.sent = c.sent \o Commands(op)
  PROVE  Flow(d, s \o d.sent, out, at, search)
<1>1. c.sent \in Seq(Lines) /\ Commands(op) \in Seq(Lines) /\ op \in Operations
  BY CommandsOf DEF Clients, Fresh
<1>2. s \o c.sent = << >> /\ out = << >> /\ search = NoPlace
  BY QuietFlow DEF Flow
<1>3. s = << >> /\ c.sent = << >>
  BY <1>1, <1>2, ConcatEqualIffEmpty
<1>4. s \o d.sent = Commands(op)
  BY <1>1, <1>3, ConcatEmptySeq
<1>5. OperationFlow(op, Commands(op), << >>, at, NoPlace)
  BY <1>1, BeginsFlow DEF Fresh
<1> QED
  BY <1>2, <1>4, <1>5 DEF Flow

\* Nothing waits, and what is answered to is cancelled.
Cleared(c) == c.phase = "connected" /\ c.queue = << >> /\ (c.active # NoOperation => c.active.cancelled)

LEMMA EnqueueKeeps ==
  ASSUME NEW c \in Clients, Cleared(c),
         NEW s \in Seq(Lines), NEW out, NEW at, NEW search, Flow(c, s \o c.sent, out, at, search),
         NEW op, Fresh(op)
  PROVE  LET d == enqueue(c, op)
         IN  /\ d \in Clients /\ d.phase = "connected" /\ Flow(d, s \o d.sent, out, at, search)
             /\ c.active # NoOperation => d.active = c.active /\ d.queue = <<op>>
             /\ c.active = NoOperation => d.active = op /\ d.queue = << >>
<1> DEFINE d == enqueue(c, op)
<1>1. /\ op \in Operations /\ d \in Clients /\ d.phase = c.phase /\ c.phase = "connected"
      /\ c.active # NoOperation => d.active = c.active /\ d.queue = <<op>> /\ d.sent = c.sent
      /\ c.active = NoOperation => d.active = op /\ d.queue = << >> /\ d.sent = c.sent \o Commands(op)
  BY Enqueues DEF Fresh, Cleared
<1> HIDE DEF d
<1>2. Flow(d, s \o d.sent, out, at, search)
  <2>1. CASE c.active = NoOperation
    BY <1>1, <2>1, FreshFlow
  <2>2. CASE c.active # NoOperation
    BY <1>1, <2>2 DEF Flow
  <2> QED
    BY <2>1, <2>2
<1> QED
  BY <1>1, <1>2 DEF d

LEMMA RenderStep ==
  ASSUME Inv, Render
  PROVE  Inv'
<1> DEFINE deps == Dependencies
           d == IF turn.current THEN cancel(client) ELSE client
           at == Place(deps.fen, deps.moves)
           inspect == Operation("inspect", at, deps.moves = << >>)
<1>1. /\ deps \in Seen /\ deps.connected = ready /\ deps.fen = game.fen /\ deps.moves = game.moves
      /\ deps.side = game.side /\ deps.player = game.player /\ deps.phase = game.phase
      /\ deps.revision = game.revision
  BY InvParts DEF Inv, TypeInv, Dependencies, Seen, States
<1>2. shown' = deps /\ UNCHANGED <<settings, ready, link, writing, stdin, stdout, engine>>
  BY DEF Render, linkVars
<1>3. ASSUME NEW t
      PROVE  /\ d \in Clients /\ d.phase = client.phase /\ d.queue = << >> /\ Serves(d, t)
             /\ d.active # NoOperation => d.active.cancelled
             /\ Flow(d, stdin \o d.sent, stdout, engine.at, engine.search)
  BY Cleans
<1>4. ready <=> client.phase = "connected"
  BY DEF Inv, ClientInv
<1>5. ASSUME Sound(game'), Stays(game, game'), client' \in Clients, client'.phase = client.phase,
             Serves(client', turn'), turn' = NoTurn \/ turn' = Turn(shown'),
             turn'.current <=> deps.connected /\ deps.phase = "playing",
             Flow(client', stdin \o client'.sent, stdout, engine.at, engine.search), ServingInv'
      PROVE  Inv'
  <2>1. TypeInv'
    BY <1>1, <1>2, <1>5 DEF Inv, TypeInv
  <2>2. ShownInv'
    <3>1. Behind(deps, game')
      BY <1>1, <1>5, InvParts DEF Behind, Stays, States
    <3> QED
      BY <1>2, <1>5, <3>1 DEF ShownInv
  <2>3. ClientInv'
    BY <1>1, <1>2, <1>5 DEF Inv, ClientInv
  <2>4. FlowInv'
    BY <1>2, <1>5 DEF FlowInv, Rest
  <2> QED
    BY <1>5, <2>1, <2>2, <2>3, <2>4 DEF Inv, GameInv
<1>6. CASE ~deps.connected
  <2>1. game' = DISCONNECTED(game) /\ turn' = NoTurn /\ client' = d
    BY <1>6 DEF Render
  <2>2. Sound(game') /\ Stays(game, game')
    BY <2>1, InvParts, Disconnects
  <2>3. ~turn'.current
    BY <2>1 DEF NoTurn
  <2>4. ServingInv'
    BY <2>3 DEF ServingInv
  <2> HIDE DEF d
  <2> QED
    BY <1>3, <1>5, <1>6, <2>1, <2>2, <2>3, <2>4
<1>7. CASE deps.connected /\ deps.phase # "playing"
  <2>1. game' = game /\ turn' = NoTurn /\ client' = d
    BY <1>7 DEF Render
  <2>2. Sound(game') /\ Stays(game, game')
    BY <2>1, InvParts DEF Stays
  <2>3. ~turn'.current
    BY <2>1 DEF NoTurn
  <2>4. ServingInv'
    BY <2>3 DEF ServingInv
  <2> HIDE DEF d
  <2> QED
    BY <1>3, <1>5, <1>7, <2>1, <2>2, <2>3, <2>4
<1>8. CASE deps.connected /\ deps.phase = "playing"
  <2>1. turn' = Turn(deps) /\ game' = SYNC(game, deps.revision) /\ client' = enqueue(d, inspect)
    BY <1>1, <1>3, <1>4, <1>8 DEF Render
  <2>2. Sound(game') /\ Stays(game, game') /\ game'.status = "syncing"
    BY <1>1, <1>8, <2>1, InvParts, Syncs
  <2>3. turn'.current /\ turn'.fen = deps.fen /\ turn'.moves = deps.moves
    BY <2>1 DEF Turn
  <2>4. /\ Fresh(inspect) /\ inspect.at = at /\ inspect.kind = "inspect" /\ ~inspect.cancelled
        /\ inspect \in Inspection(at) /\ inspect # NoOperation
    <3>1. at \in Places /\ (deps.moves = << >>) \in BOOLEAN
      BY <1>1, PlaceType DEF Seen
    <3>2. /\ inspect \in Operations /\ inspect # NoOperation /\ inspect.kind = "inspect" /\ inspect.at = at
          /\ ~inspect.cancelled /\ inspect.seen = {} /\ inspect.barrierSent
      BY <3>1, NewOperation
    <3>3. inspect \in Inspection(at)
      BY <3>1 DEF Inspection
    <3> HIDE DEF inspect
    <3> QED
      BY <3>2, <3>3 DEF Fresh
  <2>5. d.phase = "connected"
    BY <1>1, <1>3, <1>4, <1>8
  <2> HIDE DEF d, inspect
  <2>6. /\ client' \in Clients /\ client'.phase = "connected"
        /\ Flow(client', stdin \o client'.sent, stdout, engine.at, engine.search)
        /\ d.active # NoOperation => client'.active = d.active /\ client'.queue = <<inspect>>
        /\ d.active = NoOperation => client'.active = inspect /\ client'.queue = << >>
    <3>1. /\ d \in Clients /\ Cleared(d)
          /\ Flow(d, stdin \o d.sent, stdout, engine.at, engine.search)
      BY <1>3, <2>5 DEF Cleared
    <3>2. stdin \in Seq(Lines) /\ Fresh(inspect)
      BY <2>4, InvParts
    <3>3. /\ enqueue(d, inspect) \in Clients /\ enqueue(d, inspect).phase = "connected"
          /\ Flow(enqueue(d, inspect), stdin \o enqueue(d, inspect).sent, stdout, engine.at, engine.search)
          /\ d.active # NoOperation =>
               enqueue(d, inspect).active = d.active /\ enqueue(d, inspect).queue = <<inspect>>
          /\ d.active = NoOperation => enqueue(d, inspect).active = inspect /\ enqueue(d, inspect).queue = << >>
      <4> DEFINE a == engine.at
                 z == engine.search
                 e == enqueue(d, inspect)
      <4>1. Flow(d, stdin \o d.sent, stdout, a, z)
        BY <3>1
      <4> HIDE DEF a, z
      <4>2. /\ e \in Clients /\ e.phase = "connected" /\ Flow(e, stdin \o e.sent, stdout, a, z)
            /\ d.active # NoOperation => e.active = d.active /\ e.queue = <<inspect>>
            /\ d.active = NoOperation => e.active = inspect /\ e.queue = << >>
        BY <3>1, <3>2, <4>1, EnqueueKeeps
      <4> QED
        BY <4>2 DEF a, z
    <3> QED
      BY <2>1, <3>3
  <2>7. Serves(client', turn')
    BY <1>3, <2>3, <2>4, <2>6 DEF Serves
  <2>8. ServingInv'
    <3>1. client'.queue # << >> \/ (client'.active.kind = "inspect" /\ ~client'.active.cancelled)
      <4>1. <<inspect>> # << >>
        OBVIOUS
      <4> QED
        BY <2>4, <2>6, <4>1
    <3> QED
      BY <2>2, <3>1 DEF ServingInv, UnderWay
  <2> QED
    BY <1>1, <1>2, <1>4, <1>5, <1>8, <2>1, <2>2, <2>3, <2>6, <2>7, <2>8
<1> QED
  BY <1>6, <1>7, <1>8

-----------------------------------------------------------------------------
(* The connection.                                                          *)

\* A client that is not connected has nothing to do.
LEMMA ApartStep ==
  ASSUME Inv, Sound(game'), Stays(game, game'), UNCHANGED <<settings, shown, turn>>, ready' = FALSE,
         link' # "open" => NoPipes /\ client'.phase = "disconnected",
         link' = "open" => client'.phase = "uci",
         link' = "connecting" => ~shown.connected, link' = "open" => ~shown.connected,
         client' \in Clients, client'.active = NoOperation, client'.queue = << >>,
         stdin' \in Seq(Lines), stdout' \in Seq(Messages), engine' \in [at : Places, search : Places],
         link' = "open" =>
           stdin' = <<Plain("uci")>> /\ client'.sent = << >> /\ stdout' = << >> /\ engine'.search = NoPlace
  PROVE  Inv'
<1>1. client'.phase # "connected" /\ client'.phase # "ready"
  <2>1. CASE link' = "open"
    BY <2>1
  <2>2. CASE link' # "open"
    BY <2>2
  <2> QED
    BY <2>1, <2>2
<1>2. TypeInv'
  BY DEF Inv, TypeInv
<1>3. ShownInv'
  BY InvParts, StaysBehind DEF Inv, ShownInv
<1>4. ClientInv'
  BY <1>1 DEF Inv, ClientInv, Serves
<1>5. ServingInv'
  BY DEF ServingInv
<1>6. FlowInv'
  <2>1. CASE link' = "open"
    <3>1. stdin' \o client'.sent = <<Plain("uci")>>
      BY <2>1, PlainTypes, ConcatEmptySeq
    <3> QED
      BY <1>1, <2>1, <3>1 DEF FlowInv, Rest, Flow, UciFlow
  <2>2. CASE link' # "open"
    BY <2>2 DEF FlowInv, Flow
  <2> QED
    BY <2>1, <2>2
<1> QED
  BY <1>2, <1>3, <1>4, <1>5, <1>6 DEF Inv, GameInv

LEMMA SameGame ==
  ASSUME Inv, game' = game
  PROVE  Sound(game') /\ Stays(game, game')
BY InvParts DEF Stays

LEMMA ConnectionStep ==
  ASSUME Inv, Open \/ Close \/ Reconnect \/ Timeout
  PROVE  Inv'
<1>1. CASE Open
  <2> DEFINE b == Disconnected(client)
  <2>1. /\ client' = [b EXCEPT !.phase = "uci"] /\ link = "connecting" /\ link' = "open" /\ ready' = FALSE
        /\ stdin' = <<Plain("uci")>> /\ stdout' = << >> /\ engine' = [at |-> StartPlace, search |-> NoPlace]
        /\ UNCHANGED <<game, settings, shown, turn>>
    BY <1>1 DEF Open
  <2>2. b \in Clients /\ b.active = NoOperation /\ b.queue = << >> /\ b.sent = << >>
    BY InvParts, Drops
  <2> HIDE DEF b
  <2>3. /\ client' \in Clients /\ client'.phase = "uci" /\ client'.active = NoOperation /\ client'.queue = << >>
        /\ client'.sent = << >>
    BY <2>1, <2>2 DEF Clients
  <2>4. ~shown.connected
    BY <2>1 DEF Inv, ClientInv
  <2>5. /\ stdin' \in Seq(Lines) /\ stdout' \in Seq(Messages) /\ engine' \in [at : Places, search : Places]
        /\ engine'.search = NoPlace
    BY <2>1, NoPlaceType, StartPlaceType, PlainTypes
  <2> QED
    BY <2>1, <2>3, <2>4, <2>5, SameGame, ApartStep
<1>2. CASE Close
  <2>1. /\ link' = "waiting" /\ client' = Disconnected(client) /\ ready' = FALSE /\ NoPipes
        /\ UNCHANGED <<game, settings, shown, turn>>
    BY <1>2 DEF Close
  <2>2. client' \in Clients /\ client'.phase = "disconnected" /\ client'.active = NoOperation /\ client'.queue = << >>
    BY <2>1, InvParts, Drops
  <2>3. stdin' \in Seq(Lines) /\ stdout' \in Seq(Messages) /\ engine' \in [at : Places, search : Places]
    BY <2>1, InvParts DEF NoPipes
  <2> QED
    BY <2>1, <2>2, <2>3, SameGame, ApartStep
<1>3. CASE Timeout
  <2>1. /\ link' = "closing" /\ client' = Disconnected(client) /\ ready' = FALSE /\ NoPipes
        /\ UNCHANGED <<settings, shown, turn>> /\ (game' = game \/ game' = ERROR(game, turn.revision))
    BY <1>3 DEF Timeout
  <2>2. client' \in Clients /\ client'.phase = "disconnected" /\ client'.active = NoOperation /\ client'.queue = << >>
    BY <2>1, InvParts, Drops
  <2>3. stdin' \in Seq(Lines) /\ stdout' \in Seq(Messages) /\ engine' \in [at : Places, search : Places]
    BY <2>1, InvParts DEF NoPipes
  <2>4. Sound(game') /\ Stays(game, game')
    BY <2>1, InvParts, SameGame, Fails
  <2> QED
    BY <2>1, <2>2, <2>3, <2>4, ApartStep
<1>4. CASE Reconnect
  <2>1. /\ link = "waiting" /\ link' = "connecting" /\ shown = Dependencies
        /\ UNCHANGED <<game, settings, ready, shown, turn, client, writing, stdin, stdout, engine>>
    BY <1>4 DEF Reconnect, Rendered
  <2>2. client.phase = "disconnected" /\ ~ready
    BY <2>1 DEF Inv, ClientInv
  <2>3. ~shown.connected
    BY <2>1, <2>2 DEF Dependencies
  <2>4. TypeInv' /\ GameInv' /\ ShownInv' /\ ServingInv' /\ FlowInv'
    BY <2>1 DEF Inv, TypeInv, GameInv, ShownInv, ServingInv, FlowInv, Rest
  <2>5. ClientInv'
    BY <2>1, <2>2, <2>3 DEF Inv, ClientInv
  <2> QED
    BY <2>4, <2>5 DEF Inv
<1> QED
  BY <1>1, <1>2, <1>3, <1>4

-----------------------------------------------------------------------------
(* The bridge and the engine.                                               *)

\* A step that only moves what is on its way.
LEMMA PipeStep ==
  ASSUME Inv, UNCHANGED <<game, settings, ready, shown, turn, link>>,
         client' \in Clients, client'.phase = client.phase, client'.active = client.active,
         client'.queue = client.queue,
         stdin' \in Seq(Lines), stdout' \in Seq(Messages), engine' \in [at : Places, search : Places], FlowInv'
  PROVE  Inv'
<1>1. TypeInv'
  BY DEF Inv, TypeInv
<1>2. GameInv' /\ ShownInv' /\ ClientInv' /\ ServingInv'
  BY DEF Inv, GameInv, ShownInv, ClientInv, Serves, ServingInv, UnderWay
<1> QED
  BY <1>1, <1>2 DEF Inv

LEMMA BridgeWritesStep ==
  ASSUME Inv, BridgeWrites
  PROVE  Inv'
<1>1. /\ client.sent # << >> /\ UNCHANGED <<game, settings, ready, shown, turn, link, stdout, engine>>
      /\ \/ stdin' = Append(stdin, Head(client.sent)) /\ client' = [client EXCEPT !.sent = Tail(@)]
         \/ UNCHANGED <<stdin, client>>
  BY DEF BridgeWrites
<1>2. CASE stdin' = Append(stdin, Head(client.sent)) /\ client' = [client EXCEPT !.sent = Tail(@)]
  <2>1. Head(client.sent) \in Lines /\ Tail(client.sent) \in Seq(Lines)
    BY <1>1, InvParts, HeadTailProperties
  <2>2. /\ client' \in Clients /\ client'.phase = client.phase /\ client'.active = client.active
        /\ client'.queue = client.queue /\ client'.sent = Tail(client.sent)
    BY <1>2, <2>1, InvParts DEF Clients
  <2>3. stdin' \in Seq(Lines)
    BY <1>2, <2>1, InvParts
  <2>4. stdin' \o client'.sent = stdin \o client.sent
    <3> DEFINE t == client.sent
    <3>1. t \in Seq(Lines) /\ t # << >> /\ stdin \in Seq(Lines)
      BY <1>1, InvParts
    <3> HIDE DEF t
    <3>2. Append(stdin, Head(t)) \o Tail(t) = stdin \o t
      BY ONLY <3>1, Passes
    <3> QED
      BY <1>2, <2>2, <3>2 DEF t
  <2>5. FlowInv'
    BY <1>1, <2>2, <2>4, InvParts DEF FlowInv, Flow, Rest
  <2> QED
    BY <1>1, <2>2, <2>3, <2>5, InvParts, PipeStep
<1>3. CASE UNCHANGED <<stdin, client>>
  <2>1. FlowInv'
    BY <1>1, <1>3 DEF Inv, FlowInv, Rest
  <2> QED
    BY <1>1, <1>3, <2>1, InvParts, PipeStep
<1> QED
  BY <1>1, <1>2, <1>3

LEMMA AnswerType ==
  ASSUME Inv, NEW command \in Lines, NEW stopped \in Stopped(command)
  PROVE  /\ Answer(command) \in Seq(Messages) /\ stopped \in Seq(Messages) /\ Chat(stopped)
         /\ engine.search = NoPlace \/ command.name = "isready" => stopped = << >>
         /\ command.name \in {"go", "stop", "ucinewgame", "setoption"} => Answer(command) = << >>
         /\ command.name = "position" => Answer(command) = IF Refuses(command) THEN <<Says("error")>> ELSE << >>
         /\ Answer(command) = <<Says("error")>> => Chat(Answer(command))
         /\ command.name = "uci" => Answer(command) = <<Says("uciok")>>
         /\ command.name = "isready" => Answer(command) = <<Says("readyok")>>
         /\ command.name = "look" => Answer(command) = <<[msg |-> "seen", at |-> engine.at]>>
<1>1. engine.at \in Places /\ engine.search \in Places
  BY InvParts
<1>2. /\ Says("uciok") \in Messages /\ Says("readyok") \in Messages /\ Says("error") \in Messages
      /\ [msg |-> "seen", at |-> engine.at] \in Messages
  BY <1>1 DEF Says, Messages
<1>3. Answer(command) \in {<<Says("uciok")>>, <<Says("readyok")>>, <<[msg |-> "seen", at |-> engine.at]>>,
                          <<Says("error")>>, << >>}
  BY DEF Answer
<1>4. Answer(command) \in Seq(Messages)
  <2>1. \A m \in Messages : <<m>> \in Seq(Messages)
    OBVIOUS
  <2>2. << >> \in Seq(Messages)
    OBVIOUS
  <2> QED
    BY <1>2, <1>3, <2>1, <2>2
<1>5. stopped \in Seq(Messages) /\ Chat(stopped)
  <2>1. CASE stopped = << >>
    BY <2>1 DEF Chat, Only, Moving
  <2>2. CASE stopped # << >>
    <3>1. PICK best \in BestMoves(engine.search) : stopped = <<best>>
      BY <2>2 DEF Stopped
    <3>2. best \in Messages /\ best.msg = "bestmove"
      BY <1>1, <3>1, LegalType DEF BestMoves, Messages
    <3>3. <<best>> \in Seq(Messages) /\ Len(<<best>>) = 1 /\ <<best>>[1] = best
      BY <3>2
    <3> QED
      BY <3>1, <3>2, <3>3 DEF Chat, Only, Moving
  <2> QED
    BY <2>1, <2>2
<1>6. engine.search = NoPlace \/ command.name = "isready" => stopped = << >>
  BY DEF Stopped
<1>7. /\ command.name \in {"go", "stop", "ucinewgame", "setoption"} => Answer(command) = << >>
      /\ command.name = "position" => Answer(command) = IF Refuses(command) THEN <<Says("error")>> ELSE << >>
      /\ command.name = "uci" => Answer(command) = <<Says("uciok")>>
      /\ command.name = "isready" => Answer(command) = <<Says("readyok")>>
      /\ command.name = "look" => Answer(command) = <<[msg |-> "seen", at |-> engine.at]>>
  BY DEF Answer, Refuses
<1>8. Answer(command) = <<Says("error")>> => Chat(Answer(command))
  <2> DEFINE e == Says("error")
  <2>1. e \in Messages /\ e.msg = "error"
    BY <1>2 DEF Says
  <2> HIDE DEF e
  <2>2. Len(<<e>>) = 1 /\ <<e>>[1] = e
    BY <2>1
  <2>3. Chat(<<e>>)
    BY <2>1, <2>2 DEF Chat, Only, Moving
  <2> QED
    BY <2>3 DEF e
<1> QED
  BY <1>4, <1>5, <1>6, <1>7, <1>8

LEMMA PlainName ==
  /\ Plain("uci").name = "uci" /\ Plain("setoption").name = "setoption" /\ Plain("isready").name = "isready"
  /\ Plain("ucinewgame").name = "ucinewgame" /\ Plain("look").name = "look" /\ Plain("go").name = "go"
  /\ Plain("stop").name = "stop" /\ \A op : Position(op).name = "position" /\ Position(op).at = op.at
BY DEF Plain, Position, Command

\* What the engine does of a line, whoever it was for.
LEMMA Read ==
  ASSUME Inv, EngineReads
  PROVE  /\ Rest # << >> /\ Rest' = Tail(Rest) /\ Head(Rest) \in Lines
         /\ UNCHANGED <<game, settings, ready, shown, turn, link, client>>
         /\ stdin' \in Seq(Lines) /\ stdout' \in Seq(Messages) /\ engine' \in [at : Places, search : Places]
         /\ \E stopped \in Stopped(Head(Rest)) : stdout' = stdout \o (stopped \o Answer(Head(Rest)))
         /\ Head(Rest).name = "position" /\ ~Refuses(Head(Rest)) => engine'.at = Head(Rest).at
         /\ Head(Rest).name = "isready" => engine'.search = engine.search
         /\ Head(Rest).name \notin {"go", "isready"} => engine'.search = NoPlace
<1>1. stdin # << >> /\ stdin' = Tail(stdin) /\ UNCHANGED <<game, settings, ready, shown, turn, link, client>>
  BY DEF EngineReads, engineUnchanged
<1>2. Rest # << >> /\ Head(Rest) = Head(stdin) /\ Rest' = Tail(Rest) /\ Head(stdin) \in Lines /\ stdin' \in Seq(Lines)
  <2> DEFINE t == client.sent
  <2>1. stdin \in Seq(Lines) /\ t \in Seq(Lines) /\ stdin # << >> /\ Head(stdin) \in Lines /\ Tail(stdin) \in Seq(Lines)
    BY <1>1, InvParts, HeadTailProperties
  <2> HIDE DEF t
  <2>2. stdin \o t # << >> /\ Head(stdin \o t) = Head(stdin) /\ Tail(stdin \o t) = Tail(stdin) \o t
    BY ONLY <2>1, Ends
  <2> QED
    BY <1>1, <2>1, <2>2 DEF Rest, t
<1> DEFINE command == Head(stdin)
<1>3. PICK stopped \in Stopped(command) : Prints(stopped \o Answer(command))
  BY DEF EngineReads
<1>4. stdout' = stdout \o (stopped \o Answer(command)) /\ stdout' \in Seq(Messages)
  <2>1. stopped \in Seq(Messages) /\ Answer(command) \in Seq(Messages)
    BY <1>2, AnswerType
  <2> QED
    BY <1>3, <2>1, InvParts DEF Prints
<1>5. engine' = [at |-> PlaceAfter(command), search |-> SearchAfter(command)]
  BY DEF EngineReads
<1>6. engine.at \in Places /\ engine.search \in Places /\ command.at \in Places /\ NoPlace \in Places
  BY <1>2, InvParts, NoPlaceType DEF Lines
<1>7. engine' \in [at : Places, search : Places]
  BY <1>5, <1>6, StartPlaceType DEF PlaceAfter, SearchAfter
<1>8. /\ command.name = "position" /\ ~Refuses(command) => engine'.at = command.at
      /\ command.name = "isready" => engine'.search = engine.search
      /\ command.name \notin {"go", "isready"} => engine'.search = NoPlace
  BY <1>5 DEF PlaceAfter, SearchAfter
<1> QED
  BY <1>1, <1>2, <1>3, <1>4, <1>7, <1>8

\* While the engine does not search, and for isready in any case, it prints the
\* answer alone.
LEMMA ReadQuietly ==
  ASSUME Inv, EngineReads, engine.search = NoPlace \/ Head(Rest).name = "isready"
  PROVE  /\ stdout' = stdout \o Answer(Head(Rest)) /\ Answer(Head(Rest)) \in Seq(Messages)
         /\ stdout = << >> => stdout' = Answer(Head(Rest))
         /\ Answer(Head(Rest)) = << >> => stdout' = stdout
<1> DEFINE answer == Answer(Head(Rest))
<1>1. PICK stopped \in Stopped(Head(Rest)) : stdout' = stdout \o (stopped \o answer)
  BY Read
<1>2. stopped = << >> /\ answer \in Seq(Messages) /\ stdout \in Seq(Messages)
  BY <1>1, Read, AnswerType, InvParts
<1> HIDE DEF answer
<1>3. << >> \o answer = answer
  BY <1>2, ConcatEmptySeq
<1>4. stdout \o << >> = stdout
  BY <1>2, ConcatEmptySeq
<1> QED
  BY <1>1, <1>2, <1>3, <1>4 DEF answer

\* In any case, it prints no more than the moves of searches before it, and that
\* the position is refused.
LEMMA ReadChats ==
  ASSUME Inv, EngineReads, Chat(stdout), Head(Rest).name \in {"position", "go", "stop"}
  PROVE  Chat(stdout')
<1> DEFINE answer == Answer(Head(Rest))
<1>1. PICK stopped \in Stopped(Head(Rest)) : stdout' = stdout \o (stopped \o answer)
  BY Read
<1>2. /\ stopped \in Seq(Messages) /\ Chat(stopped) /\ stdout \in Seq(Messages)
      /\ answer \in Seq(Messages) /\ answer \in {<< >>, <<Says("error")>>}
      /\ answer = <<Says("error")>> => Chat(answer)
  BY <1>1, Read, AnswerType, InvParts
<1> HIDE DEF answer
<1>3. Chat(answer)
  BY <1>2 DEF Chat, Only, Moving
<1>4. stopped \o answer \in Seq(Messages) /\ Chat(stopped \o answer)
  BY <1>2, <1>3, ChatJoins
<1> QED
  BY <1>1, <1>2, <1>4, ChatJoins

LEMMA EngineReadsStep ==
  ASSUME Inv, EngineReads
  PROVE  Inv'
<1> DEFINE op == client.active
<1>1. /\ Rest # << >> /\ Rest' = Tail(Rest) /\ client' = client
      /\ Head(Rest).name = "position" /\ ~Refuses(Head(Rest)) => engine'.at = Head(Rest).at
      /\ Head(Rest).name = "isready" => engine'.search = engine.search
      /\ Head(Rest).name \notin {"go", "isready"} => engine'.search = NoPlace
  BY Read
<1>2. Flow(client, Rest, stdout, engine.at, engine.search)
  BY InvParts
<1>3. ASSUME engine.search = NoPlace \/ Head(Rest).name = "isready"
      PROVE  /\ stdout' = stdout \o Answer(Head(Rest))
             /\ stdout = << >> => stdout' = Answer(Head(Rest))
             /\ Answer(Head(Rest)) = << >> => stdout' = stdout
  BY <1>3, ReadQuietly
<1>4. /\ Head(Rest).name = "uci" => Answer(Head(Rest)) = <<Says("uciok")>>
      /\ Head(Rest).name = "isready" => Answer(Head(Rest)) = <<Says("readyok")>>
      /\ Head(Rest).name = "look" => Answer(Head(Rest)) = <<[msg |-> "seen", at |-> engine.at]>>
      /\ Head(Rest).name \in {"go", "stop", "ucinewgame", "setoption"} => Answer(Head(Rest)) = << >>
      /\ Head(Rest).name = "position" =>
           Answer(Head(Rest)) = IF Refuses(Head(Rest)) THEN <<Says("error")>> ELSE << >>
  BY DEF Answer, Refuses
<1>5. CASE client.phase = "uci"
  <2>1. Rest = <<Plain("uci")>> /\ stdout = << >> /\ engine.search = NoPlace
    BY <1>1, <1>2, <1>5 DEF Flow, UciFlow
  <2>2. Head(Rest).name = "uci" /\ Rest' = << >>
    BY <1>1, <2>1, PlainName, TailOf
  <2>3. stdout' = <<Says("uciok")>> /\ engine'.search = NoPlace
    BY <1>1, <1>3, <1>4, <2>1, <2>2
  <2>4. FlowInv'
    BY <1>1, <1>5, <2>2, <2>3 DEF FlowInv, Flow, UciFlow
  <2> QED
    BY <2>4, <1>1, Read, InvParts, PipeStep
<1>6. CASE client.phase = "ready"
  <2>1. /\ Rest \in {<<Plain("setoption"), Plain("isready")>>, <<Plain("isready")>>} /\ stdout = << >>
        /\ engine.search = NoPlace
    BY <1>1, <1>2, <1>6 DEF Flow, ReadyFlow
  <2>2. ReadyFlow(Rest', stdout') /\ engine'.search = NoPlace
    <3>1. CASE Rest = <<Plain("setoption"), Plain("isready")>>
      <4>1. Head(Rest).name = "setoption" /\ Rest' = <<Plain("isready")>>
        BY <1>1, <3>1, PlainName, TailOf
      <4> QED
        BY <1>1, <1>3, <1>4, <2>1, <4>1 DEF ReadyFlow
    <3>2. CASE Rest = <<Plain("isready")>>
      <4>1. Head(Rest).name = "isready" /\ Rest' = << >>
        BY <1>1, <3>2, PlainName, TailOf
      <4> QED
        BY <1>1, <1>3, <1>4, <2>1, <4>1 DEF ReadyFlow
    <3> QED
      BY <2>1, <3>1, <3>2
  <2>3. FlowInv'
    BY <1>1, <1>6, <2>2 DEF FlowInv, Flow
  <2> QED
    BY <2>3, <1>1, Read, InvParts, PipeStep
<1>7. CASE client.phase = "connected"
  <2>0. OperationFlow(op, Rest, stdout, engine.at, engine.search) /\ op # NoOperation
    BY <1>1, <1>2, <1>7, QuietFlow DEF Flow
  <2>1. CASE op.kind = "inspect"
    <3>1. op.barrierSent /\ engine.search = NoPlace /\ InspectFlow(op, Rest, stdout, engine.at)
      BY <2>0, <2>1 DEF OperationFlow
    <3>2. InspectFlow(op, Rest', stdout', engine'.at) /\ engine'.search = NoPlace
      <4>1. CASE /\ Rest = <<Plain("ucinewgame"), Position(op), Plain("look"), Plain("isready")>>
                 /\ stdout = << >> /\ op.seen = {}
        <5>1. Head(Rest).name = "ucinewgame" /\ Rest' = <<Position(op), Plain("look"), Plain("isready")>>
          BY <1>1, <4>1, PlainName, TailOf
        <5> QED
          BY <1>1, <1>3, <1>4, <3>1, <4>1, <5>1 DEF InspectFlow
      <4>2. CASE Rest = <<Position(op), Plain("look"), Plain("isready")>> /\ stdout = << >> /\ op.seen = {}
        <5>1. Head(Rest).name = "position" /\ Head(Rest).at = op.at /\ Rest' = <<Plain("look"), Plain("isready")>>
          BY <1>1, <4>2, PlainName, TailOf
        <5>2. CASE ~Refuses(Head(Rest))
          BY <1>1, <1>3, <1>4, <3>1, <4>2, <5>1, <5>2 DEF InspectFlow
        <5>3. CASE Refuses(Head(Rest))
          <6> DEFINE e == Says("error")
          <6>1. stdout' = <<e>>
            BY <1>3, <1>4, <3>1, <4>2, <5>1, <5>3
          <6>2. e \in Messages /\ e.msg = "error"
            BY DEF Says, Messages
          <6> HIDE DEF e
          <6>3. Len(<<e>>) = 1 /\ <<e>>[1] = e /\ <<e>> # << >>
            BY <6>2
          <6>4. RefusedFlow(op, Rest', stdout')
            BY <5>1, <6>1, <6>2, <6>3 DEF RefusedFlow, Only, Telling
          <6> QED
            BY <1>1, <3>1, <5>1, <6>4 DEF InspectFlow
        <5> QED
          BY <5>2, <5>3
      <4>3. CASE Rest = <<Plain("look"), Plain("isready")>> /\ engine.at = op.at /\ stdout = << >> /\ op.seen = {}
        <5>1. Head(Rest).name = "look" /\ Rest' = <<Plain("isready")>>
          BY <1>1, <4>3, PlainName, TailOf
        <5>2. stdout' = <<Saw(op)>>
          BY <1>3, <1>4, <3>1, <4>3, <5>1 DEF Saw
        <5> QED
          BY <1>1, <3>1, <4>3, <5>1, <5>2 DEF InspectFlow
      <4>4. CASE Rest = <<Plain("isready")>> /\ stdout = <<Saw(op)>> /\ op.seen = {}
        <5>1. Head(Rest).name = "isready" /\ Rest' = << >>
          BY <1>1, <4>4, PlainName, TailOf
        <5>2. stdout' = <<Saw(op), Says("readyok")>>
          <6>1. op \in Operations
            BY <2>0, InvParts DEF Clients
          <6>2. Saw(op) \in Messages /\ Says("readyok") \in Messages
            BY <6>1, PositionType DEF Saw, Says, Messages
          <6>3. <<Saw(op)>> \o <<Says("readyok")>> = <<Saw(op), Says("readyok")>>
            BY <6>2, Pair
          <6> QED
            BY <1>3, <1>4, <3>1, <4>4, <5>1, <6>3
        <5> QED
          BY <1>1, <3>1, <4>4, <5>1, <5>2 DEF InspectFlow
      <4>5. CASE Rest = <<Plain("isready")>> /\ stdout = << >> /\ op.seen = {op.at}
        <5>1. Head(Rest).name = "isready" /\ Rest' = << >>
          BY <1>1, <4>5, PlainName, TailOf
        <5> QED
          BY <1>1, <1>3, <1>4, <3>1, <4>5, <5>1 DEF InspectFlow
      <4>6. CASE RefusedFlow(op, Rest, stdout)
        <5>0. Rest \in {<<Plain("look"), Plain("isready")>>, <<Plain("isready")>>} /\ Only(stdout, Telling)
          BY <1>1, <4>6 DEF RefusedFlow
        <5>1. /\ Only(stdout, Telling)
              /\ \/ Head(Rest).name = "look" /\ Rest' = <<Plain("isready")>>
                 \/ Head(Rest).name = "isready" /\ Rest' = << >>
          <6>1. CASE Rest = <<Plain("look"), Plain("isready")>>
            BY <1>1, <5>0, <6>1, PlainName, TailOf
          <6>2. CASE Rest = <<Plain("isready")>>
            BY <1>1, <5>0, <6>2, PlainName, TailOf
          <6> QED
            BY <5>0, <6>1, <6>2
        <5> DEFINE m == IF Head(Rest).name = "look" THEN [msg |-> "seen", at |-> engine.at] ELSE Says("readyok")
        <5>2. /\ m \in Messages /\ m.msg = (IF Head(Rest).name = "look" THEN "seen" ELSE "readyok")
              /\ stdout' = stdout \o <<m>> /\ stdout \in Seq(Messages) /\ engine'.search = NoPlace
          BY <1>1, <1>3, <1>4, <3>1, <5>1, InvParts DEF Says, Messages
        <5> HIDE DEF m
        <5>3. <<m>> \in Seq(Messages) /\ Len(<<m>>) = 1 /\ <<m>>[1] = m
          BY <5>2
        <5>4. op.failed \/ (stdout' # << >> /\ stdout'[1].msg = "error")
          BY <4>6, <5>2, <5>3, FirstStays DEF RefusedFlow
        <5>5. CASE Head(Rest).name = "look"
          <6>1. Only(<<m>>, Telling)
            BY <5>2, <5>3, <5>5 DEF Only, Telling
          <6>2. Only(stdout', Telling)
            BY <5>1, <5>2, <5>3, <6>1, OnlyJoins
          <6>3. RefusedFlow(op, Rest', stdout')
            BY <5>1, <5>4, <5>5, <6>2 DEF RefusedFlow
          <6> QED
            BY <5>2, <6>3 DEF InspectFlow
        <5>6. CASE Head(Rest).name # "look"
          <6>1. OnlyThenReady(stdout', Telling)
            BY <5>1, <5>2, <5>6, OnlyEnds
          <6>2. RefusedFlow(op, Rest', stdout')
            BY <5>1, <5>4, <5>6, <6>1 DEF RefusedFlow
          <6> QED
            BY <5>2, <6>2 DEF InspectFlow
        <5> QED
          BY <5>5, <5>6
      <4> QED
        BY <1>1, <3>1, <4>1, <4>2, <4>3, <4>4, <4>5, <4>6 DEF InspectFlow
    <3>3. FlowInv'
      BY <1>1, <1>7, <2>0, <2>1, <3>1, <3>2 DEF FlowInv, Flow, OperationFlow
    <3> QED
      BY <3>3, <1>1, Read, InvParts, PipeStep
  <2>2. CASE op.kind # "inspect" /\ ~op.barrierSent
    <3>1. /\ engine.search = NoPlace
          /\ \/ Rest = <<Position(op), Plain("go")>> /\ stdout = << >>
             \/ Rest = <<Plain("go")>> /\ Chat(stdout) /\ (stdout # << >> => stdout[1].msg = "error")
      BY <1>1, <2>0, <2>2 DEF OperationFlow, SearchFlow
    <3>2. SearchFlow(op, Rest', stdout', engine'.search)
      <4>1. CASE Rest = <<Position(op), Plain("go")>> /\ stdout = << >>
        <5>1. Head(Rest).name = "position" /\ Rest' = <<Plain("go")>>
          BY <1>1, <4>1, PlainName, TailOf
        <5>2. engine'.search = NoPlace /\ stdout' \in {<< >>, <<Says("error")>>}
          BY <1>1, <1>3, <1>4, <3>1, <4>1, <5>1
        <5>3. Chat(stdout')
          BY <4>1, <5>1, ReadChats DEF Chat, Only, Moving
        <5>4. stdout' # << >> => stdout'[1].msg = "error"
          BY <5>2 DEF Says
        <5> QED
          BY <5>1, <5>2, <5>3, <5>4 DEF SearchFlow
      <4>2. CASE Rest = <<Plain("go")>> /\ Chat(stdout) /\ (stdout # << >> => stdout[1].msg = "error")
        <5>1. Head(Rest).name = "go" /\ Rest' = << >>
          BY <1>1, <4>2, PlainName, TailOf
        <5>2. stdout' = stdout
          BY <1>3, <1>4, <3>1, <5>1
        <5> QED
          BY <4>2, <5>1, <5>2 DEF SearchFlow
      <4> QED
        BY <3>1, <4>1, <4>2
    <3>3. FlowInv'
      BY <1>1, <1>7, <2>0, <2>2, <3>2 DEF FlowInv, Flow, OperationFlow
    <3> QED
      BY <3>3, <1>1, Read, InvParts, PipeStep
  <2>3. CASE op.kind # "inspect" /\ op.barrierSent
    <3>1. DrainFlow(op, Rest, stdout, engine.search)
      BY <2>0, <2>3 DEF OperationFlow
    <3>2. DrainFlow(op, Rest', stdout', engine'.search)
      <4>1. CASE Rest = <<Position(op), Plain("go"), Plain("stop"), Plain("isready")>> /\ Chat(stdout)
        <5>1. Head(Rest).name = "position" /\ Rest' = <<Plain("go"), Plain("stop"), Plain("isready")>>
          BY <1>1, <4>1, PlainName, TailOf
        <5> QED
          BY <4>1, <5>1, ReadChats DEF DrainFlow
      <4>2. CASE Rest = <<Plain("go"), Plain("stop"), Plain("isready")>> /\ Chat(stdout)
        <5>1. Head(Rest).name = "go" /\ Rest' = <<Plain("stop"), Plain("isready")>>
          BY <1>1, <4>2, PlainName, TailOf
        <5> QED
          BY <4>2, <5>1, ReadChats DEF DrainFlow
      <4>3. CASE Rest = <<Plain("stop"), Plain("isready")>> /\ Chat(stdout)
        <5>1. Head(Rest).name = "stop" /\ Rest' = <<Plain("isready")>>
          BY <1>1, <4>3, PlainName, TailOf
        <5> QED
          BY <1>1, <4>3, <5>1, ReadChats DEF DrainFlow
      <4>4. CASE Rest = <<Plain("isready")>> /\ Chat(stdout) /\ engine.search = NoPlace
        <5>1. Head(Rest).name = "isready" /\ Rest' = << >>
          BY <1>1, <4>4, PlainName, TailOf
        <5>2. ChatThenReady(stdout')
          <6>1. stdout' = stdout \o <<Says("readyok")>>
            BY <1>3, <1>4, <5>1
          <6>2. Says("readyok") \in Messages /\ Says("readyok").msg = "readyok"
            BY DEF Says, Messages
          <6> QED
            BY <4>4, <6>1, <6>2, InvParts, ChatEnds
        <5> QED
          BY <1>1, <4>4, <5>1, <5>2 DEF DrainFlow
      <4> QED
        BY <1>1, <3>1, <4>1, <4>2, <4>3, <4>4 DEF DrainFlow
    <3>3. FlowInv'
      BY <1>1, <1>7, <2>0, <2>3, <3>2 DEF FlowInv, Flow, OperationFlow
    <3> QED
      BY <3>3, <1>1, Read, InvParts, PipeStep
  <2> QED
    BY <2>1, <2>2, <2>3
<1>8. CASE client.phase \notin {"uci", "ready", "connected"}
  <2>1. FlowInv'
    BY <1>1, <1>8 DEF FlowInv, Flow
  <2> QED
    BY <2>1, <1>1, Read, InvParts, PipeStep
<1> QED
  BY <1>5, <1>6, <1>7, <1>8

\* The engine searches only for a search whose end is awaited.
LEMMA WhileSearching ==
  ASSUME Inv, engine.search # NoPlace
  PROVE  /\ client.phase \in {"uci", "ready", "connected"} =>
              client.phase = "connected" /\ client.active # NoOperation /\ client.active.kind # "inspect"
         /\ client.phase = "connected" =>
              IF client.active.barrierSent
              THEN /\ Chat(stdout)
                   /\ Rest \in {<<Position(client.active), Plain("go"), Plain("stop"), Plain("isready")>>,
                                <<Plain("go"), Plain("stop"), Plain("isready")>>, <<Plain("stop"), Plain("isready")>>}
              ELSE Rest = << >> /\ Chat(stdout) /\ (stdout # << >> => stdout[1].msg = "error")
<1>1. Flow(client, Rest, stdout, engine.at, engine.search)
  BY InvParts
<1>2. client.phase \notin {"uci", "ready"}
  BY <1>1 DEF Flow
<1>3. ASSUME client.phase = "connected"
      PROVE  client.active # NoOperation /\ client.active.kind # "inspect"
  BY <1>1, <1>3 DEF Flow, OperationFlow
<1>4. ASSUME client.phase = "connected"
      PROVE  IF client.active.barrierSent
              THEN /\ Chat(stdout)
                   /\ Rest \in {<<Position(client.active), Plain("go"), Plain("stop"), Plain("isready")>>,
                                <<Plain("go"), Plain("stop"), Plain("isready")>>, <<Plain("stop"), Plain("isready")>>}
              ELSE Rest = << >> /\ Chat(stdout) /\ (stdout # << >> => stdout[1].msg = "error")
  <2>1. CASE client.active.barrierSent
    <3>1. DrainFlow(client.active, Rest, stdout, engine.search)
      BY <1>1, <1>3, <1>4, <2>1 DEF Flow, OperationFlow
    <3> QED
      BY <2>1, <3>1 DEF DrainFlow
  <2>2. CASE ~client.active.barrierSent
    <3>1. SearchFlow(client.active, Rest, stdout, engine.search)
      BY <1>1, <1>3, <1>4, <2>2 DEF Flow, OperationFlow
    <3>2. Rest = << >> /\ Chat(stdout) /\ (stdout # << >> => stdout[1].msg # "bestmove")
      BY <3>1 DEF SearchFlow
    <3>3. stdout # << >> => stdout[1].msg \in Moving
      BY <3>2, InvParts, ChatShortens
    <3> QED
      BY <2>2, <3>2, <3>3 DEF Moving
  <2> QED
    BY <2>1, <2>2
<1> QED
  BY <1>2, <1>3, <1>4

\* Its end is printed where it is awaited.
LEMMA SearchEndsFlow ==
  ASSUME Inv, engine.search # NoPlace, UNCHANGED <<client, stdin>>, engine'.search = NoPlace,
         NEW more \in Seq(Messages), Chat(more), more # << >>, more[1].msg = "bestmove" => Len(more) = 1,
         stdout' = stdout \o more
  PROVE  FlowInv'
<1> DEFINE op == client.active
<1>1. Rest' = Rest
  BY DEF Rest
<1>2. CASE client.phase = "connected"
  <2>1. op # NoOperation /\ op.kind # "inspect"
    BY <1>2, WhileSearching
  <2>2. CASE op.barrierSent
    <3>1. /\ Chat(stdout)
          /\ Rest \in {<<Position(op), Plain("go"), Plain("stop"), Plain("isready")>>,
                       <<Plain("go"), Plain("stop"), Plain("isready")>>, <<Plain("stop"), Plain("isready")>>}
      BY <1>2, <2>2, WhileSearching
    <3>2. Chat(stdout')
      BY <3>1, InvParts, ChatJoins
    <3>3. DrainFlow(op, Rest', stdout', engine'.search)
      BY <1>1, <3>1, <3>2 DEF DrainFlow
    <3> QED
      BY <1>2, <2>1, <2>2, <3>3 DEF FlowInv, Flow, OperationFlow
  <2>3. CASE ~op.barrierSent
    <3>1. Rest = << >> /\ Chat(stdout) /\ (stdout # << >> => stdout[1].msg = "error")
      BY <1>2, <2>3, WhileSearching
    <3>2. Chat(stdout') /\ (stdout = << >> => stdout' = more)
      BY <3>1, InvParts, ChatJoins, ConcatEmptySeq
    <3>3. stdout # << >> => stdout'[1].msg = "error"
      BY <3>1, InvParts, FirstStays
    <3>4. SearchFlow(op, Rest', stdout', engine'.search)
      BY <1>1, <3>1, <3>2, <3>3 DEF SearchFlow
    <3> QED
      BY <1>2, <2>1, <2>3, <3>4 DEF FlowInv, Flow, OperationFlow
  <2> QED
    BY <2>2, <2>3
<1>3. CASE client.phase # "connected"
  <2>1. client.phase \notin {"uci", "ready", "connected"}
    BY <1>3, WhileSearching
  <2> QED
    BY <2>1 DEF FlowInv, Flow
<1> QED
  BY <1>2, <1>3

LEMMA SearchEndsStep ==
  ASSUME Inv, SearchEnds \/ SearchFails
  PROVE  Inv'
<1>1. /\ engine.search # NoPlace /\ engine' = [engine EXCEPT !.search = NoPlace]
      /\ UNCHANGED <<game, settings, ready, shown, turn, link, client, stdin>>
  BY DEF SearchEnds, SearchFails, engineUnchanged
<1>2. engine' \in [at : Places, search : Places] /\ engine'.search = NoPlace
  BY <1>1, InvParts, NoPlaceType
<1>3. PICK more \in Seq(Messages) : /\ Chat(more) /\ more # << >> /\ (more[1].msg = "bestmove" => Len(more) = 1)
                                    /\ stdout' = stdout \o more
  <2>1. CASE SearchEnds
    <3>1. PICK best \in BestMoves(engine.search) : stdout' = stdout \o <<best>>
      BY <2>1 DEF SearchEnds, Prints
    <3>2. best \in Messages /\ best.msg = "bestmove"
      BY <3>1, InvParts, LegalType DEF BestMoves, Messages
    <3>3. <<best>> \in Seq(Messages) /\ Len(<<best>>) = 1 /\ <<best>>[1] = best /\ <<best>> # << >>
      BY <3>2
    <3>4. Chat(<<best>>)
      BY <3>2, <3>3 DEF Chat, Only, Moving
    <3> QED
      BY <3>1, <3>3, <3>4
  <2>2. CASE SearchFails
    <3> DEFINE e == Says("error")
               b == [msg |-> "bestmove", move |-> [NoMove EXCEPT !.choice = 9]]
    <3>1. stdout' = stdout \o <<e, b>>
      BY <2>2 DEF SearchFails, Prints
    <3>2. [NoMove EXCEPT !.choice = 9] \in Moves
      BY NoPlaceType DEF Moves
    <3>3. e \in Messages /\ b \in Messages /\ e.msg = "error" /\ b.msg = "bestmove"
      BY <3>2 DEF Says, Messages
    <3> HIDE DEF e, b
    <3>4. /\ <<e, b>> \in Seq(Messages) /\ Len(<<e, b>>) = 2 /\ <<e, b>>[1] = e /\ <<e, b>>[2] = b
          /\ <<e, b>> # << >>
      BY <3>3
    <3>5. Chat(<<e, b>>)
      BY <3>3, <3>4 DEF Chat, Only, Moving
    <3> QED
      BY <3>1, <3>3, <3>4, <3>5
  <2> QED
    BY <2>1, <2>2
<1>4. FlowInv'
  BY <1>1, <1>2, <1>3, SearchEndsFlow
<1>5. stdout' \in Seq(Messages)
  BY <1>3, InvParts
<1> QED
  BY <1>1, <1>2, <1>4, <1>5, InvParts, PipeStep

LEMMA GoRefusedStep ==
  ASSUME Inv, GoRefused
  PROVE  Inv'
<1> DEFINE op == client.active
           e == Says("error")
<1>1. /\ stdin # << >> /\ Head(stdin).name = "go" /\ stdin' = Tail(stdin) /\ stdout' = stdout \o <<e>>
      /\ UNCHANGED <<game, settings, ready, shown, turn, link, client, engine>>
  BY DEF GoRefused, engineUnchanged, Prints
<1>2. e \in Messages /\ e.msg = "error"
  BY DEF Says, Messages
<1> HIDE DEF e
<1>3. <<e>> \in Seq(Messages) /\ Len(<<e>>) = 1 /\ <<e>>[1] = e /\ <<e>> # << >>
  BY <1>2
<1>4. Chat(<<e>>)
  BY <1>2, <1>3 DEF Chat, Only, Moving
<1>5. Rest # << >> /\ Head(Rest).name = "go" /\ Rest' = Tail(Rest) /\ stdin' \in Seq(Lines)
  <2> DEFINE t == client.sent
  <2>1. stdin \in Seq(Lines) /\ t \in Seq(Lines) /\ stdin # << >> /\ Tail(stdin) \in Seq(Lines)
    BY <1>1, InvParts, HeadTailProperties
  <2> HIDE DEF t
  <2>2. stdin \o t # << >> /\ Head(stdin \o t) = Head(stdin) /\ Tail(stdin \o t) = Tail(stdin) \o t
    BY ONLY <2>1, Ends
  <2> QED
    BY <1>1, <2>1, <2>2 DEF Rest, t
<1>6. stdout' \in Seq(Messages)
  BY <1>1, <1>3, InvParts
<1>7. Flow(client, Rest, stdout, engine.at, engine.search)
  BY InvParts
<1>8. FlowInv'
  <2>1. client.phase \notin {"uci", "ready"}
    BY <1>5, <1>7, PlainName, TailOf DEF Flow, UciFlow, ReadyFlow
  <2>2. CASE client.phase = "connected"
    <3>1. OperationFlow(op, Rest, stdout, engine.at, engine.search) /\ op # NoOperation
      BY <1>5, <1>7, <2>2, QuietFlow DEF Flow
    <3>2. op.kind # "inspect"
      <4>1. ASSUME op.kind = "inspect"
            PROVE  InspectFlow(op, Rest, stdout, engine.at)
        BY <3>1, <4>1 DEF OperationFlow
      <4> QED
        BY <1>5, <4>1, PlainName, TailOf DEF InspectFlow, RefusedFlow
    <3>3. CASE op.barrierSent
      <4>1. DrainFlow(op, Rest, stdout, engine.search)
        BY <3>1, <3>2, <3>3 DEF OperationFlow
      <4>2. Rest = <<Plain("go"), Plain("stop"), Plain("isready")>> /\ Chat(stdout)
        BY <1>5, <4>1, PlainName, TailOf DEF DrainFlow
      <4>3. Rest' = <<Plain("stop"), Plain("isready")>>
        BY <1>5, <4>2, TailOf
      <4>4. Chat(stdout')
        BY <1>1, <1>3, <1>4, <4>2, InvParts, ChatJoins
      <4>5. DrainFlow(op, Rest', stdout', engine'.search)
        BY <4>3, <4>4 DEF DrainFlow
      <4> QED
        BY <1>1, <2>2, <3>1, <3>2, <3>3, <4>5 DEF FlowInv, Flow, OperationFlow
    <3>4. CASE ~op.barrierSent
      <4>1. SearchFlow(op, Rest, stdout, engine.search)
        BY <3>1, <3>2, <3>4 DEF OperationFlow
      <4>2. Rest = <<Plain("go")>> /\ Chat(stdout) /\ (stdout # << >> => stdout[1].msg = "error")
        BY <1>5, <4>1, PlainName, TailOf DEF SearchFlow
      <4>3. Rest' = << >> /\ Chat(stdout') /\ (stdout = << >> => stdout' = <<e>>)
        BY <1>1, <1>3, <1>4, <1>5, <4>2, TailOf, InvParts, ChatJoins, ConcatEmptySeq
      <4>4. stdout # << >> => stdout'[1].msg = "error"
        BY <1>1, <1>3, <4>2, InvParts, FirstStays
      <4>5. stdout' # << >> => stdout'[1].msg # "bestmove"
        BY <1>2, <1>3, <4>3, <4>4
      <4>6. SearchFlow(op, Rest', stdout', engine'.search)
        BY <4>3, <4>5 DEF SearchFlow
      <4> QED
        BY <1>1, <2>2, <3>1, <3>2, <3>4, <4>6 DEF FlowInv, Flow, OperationFlow
    <3> QED
      BY <3>3, <3>4
  <2>3. CASE client.phase \notin {"uci", "ready", "connected"}
    BY <1>1, <2>3 DEF FlowInv, Flow
  <2> QED
    BY <2>1, <2>2, <2>3
<1> QED
  BY <1>1, <1>5, <1>6, <1>8, InvParts, PipeStep

-----------------------------------------------------------------------------
(* What the client receives.                                                *)

LEMMA Received ==
  ASSUME Inv, NEW msg, Receives(msg)
  PROVE  /\ link = "open" /\ stdout # << >> /\ Head(stdout).msg = msg /\ stdout' = Tail(stdout)
         /\ Head(stdout) \in Messages /\ stdout' \in Seq(Messages)
         /\ client.phase \in {"uci", "ready", "connected"}
         /\ UNCHANGED <<settings, shown, link, stdin, engine>>
<1>1. link = "open" /\ stdout # << >> /\ Head(stdout).msg = msg /\ stdout' = Tail(stdout)
      /\ UNCHANGED <<settings, shown, link, stdin, engine>>
  BY DEF Receives
<1>2. Head(stdout) \in Messages /\ Tail(stdout) \in Seq(Messages)
  BY <1>1, InvParts, HeadTailProperties
<1>3. client.phase \in {"uci", "ready", "connected"}
  BY <1>1, InvParts DEF Inv, ClientInv, Clients
<1> QED
  BY <1>1, <1>2, <1>3

\* The rest of what an inspection whose position was refused is told.
LEMMA TellsOn ==
  ASSUME NEW op, NEW rest, NEW out \in Seq(Messages), out # << >>, RefusedFlow(op, rest, out)
  PROVE  /\ Head(out).msg \in Telling \cup {"readyok"}
         /\ Head(out).msg # "error" => op.failed
         /\ Head(out).msg = "readyok" => rest = << >> /\ Tail(out) = << >>
         /\ \A other : other.failed /\ Head(out).msg # "readyok" => RefusedFlow(other, rest, Tail(out))
<1>1. "readyok" \notin Telling
  BY DEF Telling
<1>2. /\ Head(out) = out[1]
      /\ Only(out, Telling) => Only(Tail(out), Telling) /\ Head(out).msg \in Telling
      /\ OnlyThenReady(out, Telling) => IF Head(out).msg = "readyok" THEN Tail(out) = << >>
                                        ELSE OnlyThenReady(Tail(out), Telling) /\ Head(out).msg \in Telling
  BY <1>1, OnlyShortens
<1>3. Head(out).msg # "error" => op.failed
  BY <1>2 DEF RefusedFlow
<1>4. Head(out).msg \in Telling \cup {"readyok"}
  BY <1>2 DEF RefusedFlow
<1>5. CASE Head(out).msg = "readyok"
  <2>1. ~Only(out, Telling)
    BY <1>1, <1>2, <1>5
  <2>2. rest = << >> /\ Tail(out) = << >>
    BY <1>2, <1>5, <2>1 DEF RefusedFlow
  <2> QED
    BY <1>3, <1>4, <1>5, <2>2
<1>6. CASE Head(out).msg # "readyok"
  <2>1. ASSUME NEW other, other.failed
        PROVE  RefusedFlow(other, rest, Tail(out))
    BY <1>2, <1>6, <2>1 DEF RefusedFlow
  <2> QED
    BY <1>3, <1>4, <1>6, <2>1
<1> QED
  BY <1>5, <1>6

\* Who receives it.
LEMMA Receivers ==
  ASSUME Inv, NEW msg, Receives(msg), msg \in {"uciok", "readyok", "error", "seen", "bestmove"}
  PROVE  /\ client.phase = "uci" => msg = "uciok" /\ Rest = << >> /\ stdout' = << >> /\ engine.search = NoPlace
         /\ client.phase = "ready" => msg = "readyok" /\ Rest = << >> /\ stdout' = << >> /\ engine.search = NoPlace
         /\ client.phase = "connected" =>
              /\ client.active \in Operations /\ client.active # NoOperation /\ msg # "uciok"
              /\ OperationFlow(client.active, Rest, stdout, engine.at, engine.search)
<1>1. stdout # << >> /\ Head(stdout).msg = msg /\ stdout' = Tail(stdout)
  BY Received
<1>2. Flow(client, Rest, stdout, engine.at, engine.search)
  BY InvParts
<1>3. ASSUME client.phase = "uci"
      PROVE  msg = "uciok" /\ Rest = << >> /\ stdout' = << >> /\ engine.search = NoPlace
  <2>1. Rest = << >> /\ stdout = <<Says("uciok")>> /\ engine.search = NoPlace
    BY <1>1, <1>2, <1>3 DEF Flow, UciFlow
  <2>2. Head(stdout) = Says("uciok") /\ Tail(stdout) = << >> /\ Says("uciok").msg = "uciok"
    BY <2>1, TailOf DEF Says
  <2> QED
    BY <1>1, <2>1, <2>2
<1>4. ASSUME client.phase = "ready"
      PROVE  msg = "readyok" /\ Rest = << >> /\ stdout' = << >> /\ engine.search = NoPlace
  BY <1>1, <1>2, <1>4, TailOf DEF Flow, ReadyFlow, Says
<1>5. ASSUME client.phase = "connected"
      PROVE  /\ client.active \in Operations /\ client.active # NoOperation /\ msg # "uciok"
             /\ OperationFlow(client.active, Rest, stdout, engine.at, engine.search)
  <2>1. OperationFlow(client.active, Rest, stdout, engine.at, engine.search)
    BY <1>2, <1>5 DEF Flow
  <2>2. client.active # NoOperation /\ client.active \in Operations
    BY <1>1, <2>1, InvParts, QuietFlow DEF Clients
  <2>3. CASE client.active.kind = "inspect"
    <3>1. InspectFlow(client.active, Rest, stdout, engine.at)
      BY <2>1, <2>2, <2>3 DEF OperationFlow
    <3>2. ASSUME RefusedFlow(client.active, Rest, stdout)
          PROVE  msg # "uciok"
      BY <1>1, <3>2, InvParts, TellsOn DEF Telling
    <3>3. ASSUME ~RefusedFlow(client.active, Rest, stdout)
          PROVE  msg # "uciok"
      BY <1>1, <3>1, <3>3, TailOf DEF InspectFlow, Saw, Says
    <3> QED
      BY <2>1, <2>2, <3>2, <3>3
  <2>4. CASE client.active.kind # "inspect" /\ client.active.barrierSent
    <3>1. DrainFlow(client.active, Rest, stdout, engine.search)
      BY <2>1, <2>2, <2>4 DEF OperationFlow
    <3>2. Chat(stdout) \/ ChatThenReady(stdout)
      BY <3>1 DEF DrainFlow
    <3>3. msg # "uciok"
      BY <1>1, <3>2, InvParts, ChatShortens DEF Moving
    <3> QED
      BY <2>1, <2>2, <3>3
  <2>5. CASE client.active.kind # "inspect" /\ ~client.active.barrierSent
    <3>1. SearchFlow(client.active, Rest, stdout, engine.search)
      BY <2>1, <2>2, <2>5 DEF OperationFlow
    <3>2. Chat(stdout)
      BY <1>1, <3>1 DEF SearchFlow
    <3>3. msg # "uciok"
      BY <1>1, <3>2, InvParts, ChatShortens DEF Moving
    <3> QED
      BY <2>1, <2>2, <3>3
  <2> QED
    BY <2>3, <2>4, <2>5
<1> QED
  BY <1>3, <1>4, <1>5

\* The rest of a line that is drained.
LEMMA DrainsOn ==
  ASSUME NEW op, NEW rest, NEW out \in Seq(Messages), out # << >>, NEW search, DrainFlow(op, rest, out, search)
  PROVE  /\ Head(out).msg \in {"error", "bestmove", "readyok"}
         /\ Head(out).msg # "readyok" => DrainFlow(op, rest, Tail(out), search)
         /\ Head(out).msg = "readyok" => rest = << >> /\ Tail(out) = << >> /\ search = NoPlace
<1>1. /\ Chat(out) => Chat(Tail(out)) /\ Head(out).msg \in {"error", "bestmove"}
      /\ ChatThenReady(out) => IF Head(out).msg = "readyok" THEN Tail(out) = << >>
                               ELSE ChatThenReady(Tail(out)) /\ Head(out).msg \in {"error", "bestmove"}
  BY ChatShortens DEF Moving
<1>2. Chat(out) \/ ChatThenReady(out)
  BY DEF DrainFlow
<1>3. Head(out).msg \in {"error", "bestmove", "readyok"}
  BY <1>1, <1>2
<1>4. CASE Head(out).msg = "readyok"
  <2>1. ~Chat(out)
    BY <1>1, <1>4
  <2> QED
    BY <1>1, <1>4, <2>1 DEF DrainFlow
<1>5. CASE Head(out).msg # "readyok"
  BY <1>1, <1>3, <1>5 DEF DrainFlow
<1> QED
  BY <1>3, <1>4, <1>5

\* What is received about an operation that goes on.
LEMMA OperationStep ==
  ASSUME Inv, NEW msg, Receives(msg), UNCHANGED <<game, ready, turn>>, client.phase = "connected",
         client' \in Clients, client'.phase = client.phase, client'.queue = client.queue,
         client.active # NoOperation, client'.active # NoOperation, client'.active.kind = client.active.kind,
         client'.active.at = client.active.at, client'.active.cancelled = client.active.cancelled,
         OperationFlow(client'.active, stdin \o client'.sent, stdout', engine.at, engine.search)
  PROVE  Inv'
<1>1. /\ UNCHANGED <<settings, shown, link, stdin, engine>> /\ stdout' \in Seq(Messages)
  BY Received
<1>2. TypeInv'
  BY <1>1 DEF Inv, TypeInv
<1>3. GameInv' /\ ShownInv'
  BY <1>1 DEF Inv, GameInv, ShownInv
<1>4. ClientInv'
  BY <1>1 DEF Inv, ClientInv, Serves
<1>5. ServingInv'
  BY <1>1 DEF Inv, ServingInv, UnderWay
<1>6. FlowInv'
  BY <1>1 DEF FlowInv, Rest, Flow
<1> QED
  BY <1>2, <1>3, <1>4, <1>5, <1>6 DEF Inv

LEMMA HandshakeStep ==
  ASSUME Inv, AcceptUciOk \/ AcceptConnected
  PROVE  Inv'
<1>1. CASE AcceptUciOk
  <2> DEFINE b == [client EXCEPT !.phase = "ready"]
             more == <<Plain("setoption"), Plain("isready")>>
  <2>1. Receives("uciok") /\ client.phase = "uci" /\ client' = Sending(b, more) /\ UNCHANGED <<game, ready, turn>>
    BY <1>1 DEF AcceptUciOk
  <2>2. Rest = << >> /\ stdout' = << >> /\ engine.search = NoPlace
        /\ UNCHANGED <<settings, shown, link, stdin, engine>>
    BY <2>1, Received, Receivers
  <2>3. more \in Seq(Lines)
    BY PlainTypes
  <2>4. /\ b \in Clients /\ b.phase = "ready" /\ b.active = client.active /\ b.queue = client.queue
        /\ b.sent = client.sent
    BY InvParts DEF Clients
  <2> HIDE DEF b, more
  <2>5. /\ client' \in Clients /\ client'.phase = "ready" /\ client'.active = client.active
        /\ client'.queue = client.queue /\ client'.sent = client.sent \o more
    BY <2>1, <2>3, <2>4, Sends
  <2>6. stdin' \o client'.sent = more
    <3>1. client.sent = << >> /\ stdin = << >>
      BY <2>2, InvParts, ConcatEqualIffEmpty DEF Rest
    <3> QED
      BY <2>2, <2>3, <2>5, <3>1, ConcatEmptySeq
  <2>7. client.active = NoOperation /\ client.queue = << >>
    BY <2>1, InvParts DEF Serves
  <2>8. ~ready
    BY <2>1 DEF Inv, ClientInv
  <2>9. TypeInv'
    BY <2>1, <2>2, <2>5 DEF Inv, TypeInv
  <2>10. GameInv' /\ ShownInv' /\ ServingInv'
    BY <2>1, <2>2, <2>8 DEF Inv, GameInv, ShownInv, ServingInv
  <2>11. ClientInv'
    BY <2>1, <2>2, <2>5, <2>7, <2>8 DEF Inv, ClientInv, Serves
  <2>12. FlowInv'
    BY <2>2, <2>5, <2>6 DEF FlowInv, Rest, Flow, ReadyFlow, more
  <2> QED
    BY <2>9, <2>10, <2>11, <2>12 DEF Inv
<1>2. CASE AcceptConnected
  <2> DEFINE b == [client EXCEPT !.phase = "connected"]
  <2>1. /\ Receives("readyok") /\ client.phase = "ready" /\ client' = pump(b) /\ ready' = TRUE
        /\ UNCHANGED <<game, turn>>
    BY <1>2 DEF AcceptConnected
  <2>2. Rest = << >> /\ stdout' = << >> /\ engine.search = NoPlace /\ link = "open"
        /\ UNCHANGED <<settings, shown, link, stdin, engine>>
    BY <2>1, Received, Receivers
  <2>3. client.active = NoOperation /\ client.queue = << >>
    BY <2>1, InvParts DEF Serves
  <2>4. /\ b \in Clients /\ b.phase = "connected" /\ b.active = NoOperation /\ b.queue = << >> /\ b.sent = client.sent
    BY <2>3, InvParts DEF Clients
  <2> HIDE DEF b
  <2>5. client' = b
    BY <2>1, <2>4, Pumps
  <2>6. ~turn.current
    BY <2>1, <2>2 DEF Inv, ClientInv, ShownInv
  <2>7. TypeInv'
    BY <2>1, <2>2, <2>4, <2>5 DEF Inv, TypeInv
  <2>8. GameInv' /\ ShownInv' /\ ServingInv'
    BY <2>1, <2>2, <2>6 DEF Inv, GameInv, ShownInv, ServingInv
  <2>9. ClientInv'
    BY <2>1, <2>2, <2>4, <2>5 DEF Inv, ClientInv, Serves
  <2>10. FlowInv'
    BY <2>2, <2>4, <2>5 DEF FlowInv, Rest, Flow, OperationFlow
  <2> QED
    BY <2>7, <2>8, <2>9, <2>10 DEF Inv
<1> QED
  BY <1>1, <1>2

\* What is noted of an operation leaves what it asks as it was.
LEMMA FailedMark ==
  ASSUME NEW op \in Operations, NEW x, x = [op EXCEPT !.failed = TRUE]
  PROVE  /\ x \in Operations /\ x.cancelled = op.cancelled /\ x.at = op.at /\ x.kind = op.kind /\ x.seen = op.seen
         /\ x.barrierSent = op.barrierSent /\ x.failed
BY DEF Operations

LEMMA BarrierMark ==
  ASSUME NEW op \in Operations, NEW x, x = [op EXCEPT !.barrierSent = TRUE]
  PROVE  /\ x \in Operations /\ x.cancelled = op.cancelled /\ x.at = op.at /\ x.kind = op.kind /\ x.seen = op.seen
         /\ x.barrierSent
BY DEF Operations

LEMMA ErrorStep ==
  ASSUME Inv, AcceptError
  PROVE  Inv'
<1> DEFINE op == client.active
           b == [client EXCEPT !.active.failed = TRUE]
<1>1. Receives("error") /\ UNCHANGED <<game, ready, turn>>
  BY DEF AcceptError
<1>2. client.phase = "connected"
  BY <1>1, Received, Receivers
<1>3. op \in Operations /\ op # NoOperation /\ OperationFlow(op, Rest, stdout, engine.at, engine.search)
  BY <1>1, <1>2, Receivers
<1>4. client' = StopActive(b)
  BY <1>3 DEF AcceptError, Answering
<1>5. stdout # << >> /\ Head(stdout).msg = "error" /\ stdout' = Tail(stdout)
  BY <1>1, Received
<1>6. op.kind \in {"inspect", "search"}
  BY <1>3, OperationParts
<1>7. /\ b \in Clients /\ b.phase = client.phase /\ b.queue = client.queue /\ b.sent = client.sent
      /\ b.active \in Operations /\ b.active # NoOperation /\ b.active.cancelled = op.cancelled
      /\ b.active.barrierSent = op.barrierSent /\ b.active.kind = op.kind /\ b.active.at = op.at
      /\ b.active.seen = op.seen /\ b.active.failed
  <2>1. b.active = [op EXCEPT !.failed = TRUE]
    BY InvParts DEF Clients
  <2>2. /\ b.active \in Operations /\ b.active.cancelled = op.cancelled /\ b.active.at = op.at
        /\ b.active.barrierSent = op.barrierSent /\ b.active.kind = op.kind /\ b.active.seen = op.seen
        /\ b.active.failed
    BY <1>3, <2>1, FailedMark
  <2>3. b \in Clients /\ b.phase = client.phase /\ b.queue = client.queue /\ b.sent = client.sent
    BY <2>1, <2>2, InvParts DEF Clients
  <2> QED
    BY <2>2, <2>3, OperationParts
<1> HIDE DEF b
<1>8. /\ Stops(b, client') /\ client'.queue = b.queue /\ client'.active.cancelled = b.active.cancelled
      /\ op.kind = "inspect" \/ op.barrierSent => client' = b
      /\ op.kind = "search" /\ ~op.barrierSent =>
           client'.active.barrierSent /\ client'.sent = b.sent \o <<Plain("stop"), Plain("isready")>>
  BY <1>4, <1>6, <1>7, StopsActive
<1>9. /\ client' \in Clients /\ client'.phase = client.phase /\ client'.active.kind = op.kind
      /\ client'.active.at = op.at /\ client'.active \in Operations /\ client'.active # NoOperation
  BY <1>7, <1>8, OperationParts DEF Stops, Alike
<1>10. OperationFlow(client'.active, stdin \o client'.sent, stdout', engine.at, engine.search)
  <2>0. CASE op.kind = "inspect"
    <3>1. op.barrierSent /\ engine.search = NoPlace /\ InspectFlow(op, Rest, stdout, engine.at)
      BY <1>3, <2>0 DEF OperationFlow
    <3>2. RefusedFlow(op, Rest, stdout)
      BY <1>5, <3>1, TailOf DEF InspectFlow, Saw, Says
    <3>3. RefusedFlow(b.active, Rest, stdout')
      BY <1>5, <1>7, <3>2, InvParts, TellsOn
    <3> QED
      BY <1>7, <1>8, <2>0, <3>1, <3>3 DEF OperationFlow, InspectFlow, Rest
  <2>1. CASE op.kind = "search" /\ op.barrierSent
    <3>1. DrainFlow(op, Rest, stdout, engine.search)
      BY <1>3, <1>6, <2>1 DEF OperationFlow
    <3>2. DrainFlow(op, Rest, stdout', engine.search)
      BY <1>5, <3>1, InvParts, DrainsOn
    <3>3. Position(client'.active) = Position(op)
      BY <1>9 DEF Position
    <3>4. DrainFlow(client'.active, Rest, stdout', engine.search)
      BY <3>2, <3>3 DEF DrainFlow
    <3> QED
      BY <1>6, <1>7, <1>8, <1>9, <2>1, <3>4 DEF OperationFlow, Rest
  <2>2. CASE op.kind = "search" /\ ~op.barrierSent
    <3> DEFINE x == client'.active
               more == <<Plain("stop"), Plain("isready")>>
    <3>2. /\ x \in Operations /\ x.kind = "search" /\ x.at = op.at /\ x.barrierSent /\ x # NoOperation
          /\ client'.sent = client.sent \o more
      BY <1>7, <1>8, <1>9, <2>2
    <3>3. Rest \in Seq(Lines) /\ more \in Seq(Lines) /\ stdin \in Seq(Lines) /\ client.sent \in Seq(Lines)
      BY InvParts, PlainTypes
    <3> HIDE DEF x
    <3>4. OperationFlow(x, Rest \o more, stdout, engine.at, engine.search)
      BY <1>3, <2>2, <3>2, <3>3, BarrierFlow
    <3>5. DrainFlow(x, Rest \o more, stdout', engine.search)
      BY <1>5, <3>2, <3>4, InvParts, DrainsOn DEF OperationFlow
    <3> HIDE DEF more
    <3>6. stdin \o client'.sent = Rest \o more
      <4> DEFINE t == client.sent
      <4>1. t \in Seq(Lines) /\ more \in Seq(Lines) /\ stdin \in Seq(Lines)
        BY <3>3
      <4> HIDE DEF t
      <4>2. (stdin \o t) \o more = stdin \o (t \o more)
        BY ONLY <4>1, ConcatAssociative
      <4> QED
        BY <3>2, <4>2 DEF t, Rest
    <3>7. OperationFlow(x, stdin \o client'.sent, stdout', engine.at, engine.search)
      BY <3>2, <3>5, <3>6 DEF OperationFlow
    <3> QED
      BY <3>7 DEF x
  <2> QED
    BY <1>6, <2>0, <2>1, <2>2
<1> QED
  BY <1>1, <1>2, <1>3, <1>7, <1>8, <1>9, <1>10, OperationStep

LEMMA SeenStep ==
  ASSUME Inv, AcceptSeen
  PROVE  Inv'
<1> DEFINE op == client.active
<1>1. Receives("seen") /\ UNCHANGED <<game, ready, turn>>
  BY DEF AcceptSeen
<1>2. client.phase = "connected"
  BY <1>1, Received, Receivers
<1>3. op \in Operations /\ op # NoOperation /\ OperationFlow(op, Rest, stdout, engine.at, engine.search)
  BY <1>1, <1>2, Receivers
<1>4. stdout # << >> /\ Head(stdout).msg = "seen" /\ stdout' = Tail(stdout) /\ stdout \in Seq(Messages)
  BY <1>1, Received, InvParts
<1>5. op.kind = "inspect"
  <2>1. ASSUME op.kind # "inspect"
        PROVE  FALSE
    <3>1. CASE op.barrierSent
      BY <1>3, <1>4, <2>1, <3>1, DrainsOn DEF OperationFlow
    <3>2. CASE ~op.barrierSent
      <4>1. SearchFlow(op, Rest, stdout, engine.search)
        BY <1>3, <2>1, <3>2 DEF OperationFlow
      <4>2. Chat(stdout)
        BY <1>4, <4>1 DEF SearchFlow
      <4> QED
        BY <1>4, <4>2, ChatShortens DEF Moving
    <3> QED
      BY <3>1, <3>2
  <2> QED
    BY <2>1
<1>6. op.barrierSent /\ engine.search = NoPlace /\ InspectFlow(op, Rest, stdout, engine.at)
  BY <1>3, <1>5 DEF OperationFlow
<1> DEFINE seen == op.seen \cup {Head(stdout).at}
<1>7. client' = [client EXCEPT !.active.seen = seen]
  BY <1>5 DEF AcceptSeen
<1>8. Head(stdout).at \in Places /\ seen \in SUBSET Places
  BY <1>1, <1>3, <1>4, Received DEF Messages, Operations
<1> HIDE DEF seen
<1>9. client'.active = [op EXCEPT !.seen = seen]
  BY <1>7, InvParts DEF Clients
<1>10. /\ client'.active \in Operations /\ client'.active.kind = op.kind /\ client'.active.at = op.at
       /\ client'.active.cancelled = op.cancelled /\ client'.active.barrierSent = op.barrierSent
       /\ client'.active.seen = seen /\ client'.active.failed = op.failed
  BY <1>3, <1>8, <1>9 DEF Operations
<1>11. client' \in Clients /\ client'.phase = client.phase /\ client'.queue = client.queue /\ client'.sent = client.sent
  BY <1>7, <1>9, <1>10, InvParts DEF Clients
<1>12. InspectFlow(client'.active, Rest, stdout', engine.at)
  <2>1. CASE RefusedFlow(op, Rest, stdout)
    <3>1. RefusedFlow(client'.active, Rest, stdout')
      BY <1>4, <1>10, <2>1, TellsOn
    <3> QED
      BY <3>1 DEF InspectFlow
  <2>2. CASE ~RefusedFlow(op, Rest, stdout)
    <3>1. \/ Rest = <<Plain("isready")>> /\ stdout = <<Saw(op)>> /\ op.seen = {}
          \/ Rest = << >> /\ stdout = <<Saw(op), Says("readyok")>> /\ op.seen = {}
      BY <1>4, <1>6, <2>2, TailOf DEF InspectFlow, Says
    <3>2. Head(stdout) = Saw(op) /\ (stdout' = << >> \/ (Rest = << >> /\ stdout' = <<Says("readyok")>>))
          /\ (stdout' = << >> => Rest = <<Plain("isready")>>)
      <4>1. CASE Rest = <<Plain("isready")>> /\ stdout = <<Saw(op)>>
        <5>1. Head(stdout) = Saw(op) /\ Tail(stdout) = << >>
          BY <4>1, TailOf
        <5> QED
          BY <1>4, <4>1, <5>1
      <4>2. CASE Rest = << >> /\ stdout = <<Saw(op), Says("readyok")>>
        <5>1. Head(stdout) = Saw(op) /\ Tail(stdout) = <<Says("readyok")>> /\ <<Says("readyok")>> # << >>
          BY <4>2, TailOf
        <5> QED
          BY <1>4, <4>2, <5>1
      <4> QED
        BY <3>1, <4>1, <4>2
    <3>3. seen = {op.at}
      BY <3>1, <3>2 DEF Saw, seen
    <3> QED
      BY <1>10, <3>2, <3>3 DEF InspectFlow
  <2> QED
    BY <2>1, <2>2
<1>13. OperationFlow(client'.active, stdin \o client'.sent, stdout', engine.at, engine.search)
  BY <1>5, <1>6, <1>10, <1>11, <1>12, OperationParts DEF OperationFlow, Rest
<1> QED
  BY <1>1, <1>2, <1>3, <1>10, <1>11, <1>13, OperationParts, OperationStep

LEMMA BestmoveStep ==
  ASSUME Inv, AcceptBestmove
  PROVE  Inv'
<1> DEFINE op == client.active
           noted == [client EXCEPT !.active.best = Head(stdout).move]
<1>1. Receives("bestmove") /\ UNCHANGED <<game, ready, turn>>
  BY DEF AcceptBestmove
<1>2. client.phase = "connected"
  BY <1>1, Received, Receivers
<1>3. op \in Operations /\ op # NoOperation /\ OperationFlow(op, Rest, stdout, engine.at, engine.search)
  BY <1>1, <1>2, Receivers
<1>4. stdout # << >> /\ Head(stdout).msg = "bestmove" /\ stdout' = Tail(stdout) /\ stdout \in Seq(Messages)
      /\ Head(stdout) \in Messages
  BY <1>1, Received, InvParts
<1>5. op.kind = "search"
  <2>1. ASSUME op.kind = "inspect"
        PROVE  FALSE
    <3>1. InspectFlow(op, Rest, stdout, engine.at)
      BY <1>3, <2>1 DEF OperationFlow
    <3>2. CASE RefusedFlow(op, Rest, stdout)
      BY <1>4, <3>2, TellsOn DEF Telling
    <3>3. CASE ~RefusedFlow(op, Rest, stdout)
      BY <1>4, <3>1, <3>3, TailOf DEF InspectFlow, Saw, Says
    <3> QED
      BY <3>2, <3>3
  <2> QED
    BY <1>3, <2>1, OperationParts
<1>6. Head(stdout).move \in Moves
  BY <1>4 DEF Messages
<1>7. /\ noted \in Clients /\ noted.phase = client.phase /\ noted.queue = client.queue /\ noted.sent = client.sent
      /\ noted.active \in Operations /\ noted.active.cancelled = op.cancelled
      /\ noted.active.barrierSent = op.barrierSent /\ noted.active.kind = op.kind /\ noted.active.at = op.at
  <2>1. noted.active = [op EXCEPT !.best = Head(stdout).move]
    BY InvParts DEF Clients
  <2>2. /\ noted.active \in Operations /\ noted.active.cancelled = op.cancelled /\ noted.active.at = op.at
        /\ noted.active.barrierSent = op.barrierSent /\ noted.active.kind = op.kind
    BY <1>3, <1>6, <2>1 DEF Operations
  <2>3. noted \in Clients /\ noted.phase = client.phase /\ noted.queue = client.queue /\ noted.sent = client.sent
    BY <2>1, <2>2, InvParts DEF Clients
  <2> QED
    BY <2>2, <2>3
<1>8. CASE op.barrierSent
  <2>1. client' = noted
    BY <1>5, <1>8 DEF AcceptBestmove
  <2> HIDE DEF noted
  <2>2. DrainFlow(op, Rest, stdout, engine.search)
    BY <1>3, <1>5, <1>8 DEF OperationFlow
  <2>3. DrainFlow(op, Rest, stdout', engine.search)
    BY <1>4, <2>2, DrainsOn
  <2>4. Position(noted.active) = Position(op)
    BY <1>7 DEF Position
  <2>5. DrainFlow(noted.active, Rest, stdout', engine.search)
    BY <2>3, <2>4 DEF DrainFlow
  <2>6. OperationFlow(client'.active, stdin \o client'.sent, stdout', engine.at, engine.search)
    BY <1>5, <1>7, <1>8, <2>1, <2>5, OperationParts DEF OperationFlow, Rest
  <2> QED
    BY <1>1, <1>2, <1>3, <1>7, <2>1, <2>6, OperationParts, OperationStep
<1>9. CASE ~op.barrierSent
  <2> DEFINE b == [noted EXCEPT !.active.barrierSent = TRUE]
             more == <<Plain("isready")>>
  <2>1. client' = Sending(b, more)
    BY <1>5, <1>9 DEF AcceptBestmove
  <2> HIDE DEF noted
  <2>2. b.active = [noted.active EXCEPT !.barrierSent = TRUE]
    BY <1>7 DEF Clients
  <2>3. /\ b.active \in Operations /\ b.active.cancelled = op.cancelled /\ b.active.barrierSent
        /\ b.active.kind = op.kind /\ b.active.at = op.at
    BY <1>7, <2>2, BarrierMark
  <2>4. b \in Clients /\ b.phase = client.phase /\ b.queue = client.queue /\ b.sent = client.sent
    BY <1>7, <2>2, <2>3 DEF Clients
  <2>5. more \in Seq(Lines)
    BY PlainTypes
  <2> HIDE DEF b, more
  <2>6. /\ client' \in Clients /\ client'.phase = client.phase /\ client'.active = b.active
        /\ client'.queue = client.queue /\ client'.sent = client.sent \o more
    BY <2>1, <2>4, <2>5, Sends
  <2>7. Rest = << >> /\ stdout' = << >> /\ engine.search = NoPlace
    <3>1. SearchFlow(op, Rest, stdout, engine.search)
      BY <1>3, <1>5, <1>9 DEF OperationFlow
    <3>2. stdout[1] = Head(stdout) /\ Len(Tail(stdout)) = Len(stdout) - 1 /\ Tail(stdout) \in Seq(Messages)
      BY <1>4, HeadTailProperties
    <3>3. Rest = << >> /\ engine.search = NoPlace /\ Len(stdout) = 1
      BY <1>4, <3>1, <3>2 DEF SearchFlow
    <3>4. Tail(stdout) = << >>
      <4> DEFINE t == Tail(stdout)
      <4>1. t \in Seq(Messages) /\ Len(t) = 0
        BY <3>2, <3>3
      <4> HIDE DEF t
      <4>2. t = << >>
        BY <4>1
      <4> QED
        BY <4>2 DEF t
    <3> QED
      BY <1>4, <3>3, <3>4
  <2>8. stdin \o client'.sent = more
    <3>1. client.sent = << >> /\ stdin = << >>
      BY <2>7, InvParts, ConcatEqualIffEmpty DEF Rest
    <3> QED
      BY <2>5, <2>6, <3>1, ConcatEmptySeq
  <2>9. DrainFlow(b.active, stdin \o client'.sent, stdout', engine.search)
    BY <2>7, <2>8 DEF DrainFlow, more, Chat, Only, Moving
  <2>10. OperationFlow(client'.active, stdin \o client'.sent, stdout', engine.at, engine.search)
    BY <1>5, <2>3, <2>6, <2>9, OperationParts DEF OperationFlow
  <2> QED
    BY <1>1, <1>2, <1>3, <2>3, <2>6, <2>10, OperationParts, OperationStep
<1> QED
  BY <1>8, <1>9

\* The operation that ends leaves nothing behind, and the one that waits begins.
LEMMA CompletesKeeps ==
  ASSUME Inv, client.phase = "connected", Rest = << >>, engine.search = NoPlace
  PROVE  LET d == complete(client)
         IN  /\ d \in Clients /\ Flow(d, stdin \o d.sent, << >>, engine.at, engine.search)
             /\ d.phase = "connected" /\ d.queue = << >>
             /\ client.queue = << >> => d.active = NoOperation
             /\ client.queue # << >> =>
                  /\ d.active # NoOperation /\ turn.current /\ d.active.at = Place(turn.fen, turn.moves)
                  /\ d.active.kind = "inspect" /\ ~d.active.cancelled
<1> DEFINE b == [client EXCEPT !.active = NoOperation]
           d == complete(client)
<1>1. client \in Clients /\ stdin = << >> /\ client.sent = << >>
  BY InvParts, ConcatEqualIffEmpty DEF Rest
<1>2. /\ b \in Clients /\ b.phase = "connected" /\ b.active = NoOperation /\ b.queue = client.queue
      /\ b.sent = << >>
  BY <1>1 DEF Clients
<1> HIDE DEF b
<1>3. stdin \o << >> = << >> /\ stdin \in Seq(Lines)
  BY <1>1, InvParts, ConcatEmptySeq
<1>4. Flow(b, stdin \o b.sent, << >>, engine.at, engine.search)
  BY <1>2, <1>3 DEF Flow, OperationFlow
<1>5. CASE client.queue = << >>
  <2>1. d \in Clients /\ d.phase = "connected" /\ d.active = NoOperation /\ d.queue = << >> /\ d.sent = << >>
    BY <1>1, <1>5, Completes
  <2> HIDE DEF d
  <2>2. Flow(d, stdin \o d.sent, << >>, engine.at, engine.search)
    BY <1>3, <2>1 DEF Flow, OperationFlow
  <2> QED
    BY <1>5, <2>1, <2>2 DEF d
<1>6. CASE client.queue # << >>
  <2>1. turn.current
    BY <1>6, InvParts DEF Serves
  <2>2. PICK op \in Inspection(Place(turn.fen, turn.moves)) : client.queue = <<op>>
    BY <1>6, InvParts DEF Serves
  <2>3. PICK newGame \in BOOLEAN : op = Operation("inspect", Place(turn.fen, turn.moves), newGame)
    BY <2>2 DEF Inspection
  <2>4. Place(turn.fen, turn.moves) \in Places
    <3>1. turn = Turn(shown)
      BY <2>1 DEF Inv, TypeInv, NoTurn
    <3>2. turn.fen = shown.fen /\ turn.moves = shown.moves
      BY <3>1 DEF Turn
    <3> QED
      BY <3>2, InvParts, PlaceType DEF Seen
  <2>5. op.at = Place(turn.fen, turn.moves) /\ op.kind = "inspect" /\ ~op.cancelled /\ op # NoOperation
        /\ op \in Operations /\ op.seen = {} /\ op.barrierSent
    BY <2>3, <2>4, NewOperation
  <2>6. /\ d \in Clients /\ d.phase = "connected" /\ d.active = op /\ d.queue = << >>
        /\ d.sent = client.sent \o Commands(op)
    BY <1>1, <2>2, <2>5, Completes
  <2> HIDE DEF d
  <2>7. Fresh(op)
    BY <2>5 DEF Fresh
  <2>8. d.sent = b.sent \o Commands(op)
    BY <1>1, <1>2, <2>6
  <2>9. Flow(d, stdin \o d.sent, << >>, engine.at, engine.search)
    <3> DEFINE a == engine.at
               z == engine.search
    <3>1. Flow(b, stdin \o b.sent, << >>, a, z)
      BY <1>4
    <3> HIDE DEF a, z
    <3>2. Flow(d, stdin \o d.sent, << >>, a, z)
      BY ONLY <1>2, <1>3, <2>6, <2>7, <2>8, <3>1, FreshFlow
    <3> QED
      BY <3>2 DEF a, z
  <2> QED
    BY <1>6, <2>1, <2>5, <2>6, <2>9 DEF d
<1> QED
  BY <1>5, <1>6

\* readyok ends an operation whose output has all been received.
LEMMA Drained ==
  ASSUME Inv, AcceptReadyOk
  PROVE  /\ client.active \in Operations /\ client.active # NoOperation /\ client.active.barrierSent
         /\ Rest = << >> /\ stdout' = << >> /\ engine.search = NoPlace
         /\ client.active.kind = "inspect" /\ ~client.active.failed => client.active.seen = {client.active.at}
<1> DEFINE op == client.active
<1>1. Receives("readyok") /\ client.phase = "connected"
  BY DEF AcceptReadyOk
<1>2. op \in Operations /\ op # NoOperation /\ OperationFlow(op, Rest, stdout, engine.at, engine.search)
  BY <1>1, Receivers
<1>3. stdout # << >> /\ Head(stdout).msg = "readyok" /\ stdout' = Tail(stdout) /\ stdout \in Seq(Messages)
  BY <1>1, Received, InvParts
<1>4. CASE op.kind = "inspect"
  <2>1. op.barrierSent /\ engine.search = NoPlace /\ InspectFlow(op, Rest, stdout, engine.at)
    BY <1>2, <1>4 DEF OperationFlow
  <2>2. CASE RefusedFlow(op, Rest, stdout)
    <3>1. Rest = << >> /\ Tail(stdout) = << >> /\ op.failed
      BY <1>3, <2>2, TellsOn
    <3> QED
      BY <1>2, <1>3, <2>1, <3>1
  <2>3. CASE ~RefusedFlow(op, Rest, stdout)
    <3>1. Rest = << >> /\ stdout = <<Says("readyok")>> /\ op.seen = {op.at}
      BY <1>3, <2>1, <2>3, TailOf DEF InspectFlow, Saw
    <3>2. Tail(stdout) = << >>
      BY <3>1, TailOf
    <3> QED
      BY <1>2, <1>3, <2>1, <3>1, <3>2
  <2> QED
    BY <2>2, <2>3
<1>5. CASE op.kind # "inspect" /\ op.barrierSent
  <2>1. DrainFlow(op, Rest, stdout, engine.search)
    BY <1>2, <1>5 DEF OperationFlow
  <2>2. Rest = << >> /\ Tail(stdout) = << >> /\ engine.search = NoPlace
    BY <1>3, <2>1, DrainsOn
  <2> QED
    BY <1>2, <1>3, <1>5, <2>2
<1>6. CASE op.kind # "inspect" /\ ~op.barrierSent
  <2>1. SearchFlow(op, Rest, stdout, engine.search)
    BY <1>2, <1>6 DEF OperationFlow
  <2>2. Chat(stdout)
    BY <1>3, <2>1 DEF SearchFlow
  <2> QED
    BY <1>3, <2>2, ChatShortens DEF Moving
<1> QED
  BY <1>4, <1>5, <1>6

LEMMA ReadyOkStep ==
  ASSUME Inv, AcceptReadyOk
  PROVE  Inv'
<1> DEFINE op == client.active
           next == complete(client)
           place == Place(turn.fen, turn.moves)
           search == Operation("search", place, FALSE)
<1>1. Receives("readyok") /\ client.phase = "connected" /\ UNCHANGED <<ready, turn>>
  BY DEF AcceptReadyOk
<1>2. UNCHANGED <<settings, shown, link, stdin, engine>>
  BY <1>1, Received
<1>3. /\ op \in Operations /\ op # NoOperation /\ op.barrierSent /\ Rest = << >> /\ stdout' = << >>
      /\ engine.search = NoPlace /\ (op.kind = "inspect" /\ ~op.failed => op.seen = {op.at})
  BY Drained
<1>4. /\ next \in Clients /\ Flow(next, stdin \o next.sent, << >>, engine.at, engine.search)
      /\ next.phase = "connected" /\ next.queue = << >>
      /\ client.queue = << >> => next.active = NoOperation
      /\ client.queue # << >> =>
           /\ next.active # NoOperation /\ turn.current /\ next.active.at = place
           /\ next.active.kind = "inspect" /\ ~next.active.cancelled
  BY <1>1, <1>3, CompletesKeeps
<1> HIDE DEF next
<1>5. Serves(next, turn)
  BY <1>4 DEF Serves
<1>6. ASSUME Sound(game'), Behind(shown, game'), client' \in Clients, client'.phase = "connected",
             Serves(client', turn),
             Flow(client', stdin \o client'.sent, << >>, engine.at, engine.search), ServingInv'
      PROVE  Inv'
  <2>1. TypeInv'
    <3>1. << >> \in Seq(Messages)
      OBVIOUS
    <3> QED
      BY <1>1, <1>2, <1>3, <1>6, <3>1 DEF Inv, TypeInv
  <2>2. ShownInv'
    BY <1>1, <1>2, <1>6 DEF Inv, ShownInv
  <2>3. ClientInv'
    BY <1>1, <1>2, <1>6 DEF Inv, ClientInv
  <2>4. FlowInv'
    BY <1>2, <1>3, <1>6 DEF FlowInv, Rest
  <2> QED
    BY <1>6, <2>1, <2>2, <2>3, <2>4 DEF Inv, GameInv
<1>7. ready /\ turn.current /\ shown.revision = game.revision => UnderWay(game, client)
  BY DEF Inv, ServingInv
<1>8. ready
  BY <1>1 DEF Inv, ClientInv
<1>9. CASE ~turn.current
  <2>1. client' = next /\ game' = game
    BY <1>3, <1>9 DEF AcceptReadyOk, Answering, next
  <2>2. ServingInv'
    BY <1>1, <1>9 DEF ServingInv
  <2> QED
    BY <1>4, <1>5, <1>6, <2>1, <2>2, InvParts
<1>10. CASE turn.current /\ op.cancelled
  <2>1. client' = next /\ game' = game
    BY <1>3, <1>10 DEF AcceptReadyOk, Answering, next
  <2>2. ServingInv'
    BY <1>1, <1>2, <1>4, <1>7, <1>8, <1>10, <2>1 DEF ServingInv, UnderWay
  <2> QED
    BY <1>4, <1>5, <1>6, <2>1, <2>2, InvParts
<1>11. ASSUME turn.current, ~op.cancelled
       PROVE  /\ client.queue = << >> /\ next.active = NoOperation /\ op.at = place /\ place \in Places
              /\ turn.revision = shown.revision /\ turn.side = shown.side /\ turn.player = shown.player
              /\ shown.phase = "playing" /\ turn.fen = shown.fen /\ turn.moves = shown.moves
  <2>1. client.queue = << >> /\ op.at = place
    BY <1>3, <1>11, InvParts DEF Serves
  <2>2. turn = Turn(shown) /\ shown.phase = "playing"
    BY <1>11 DEF Inv, TypeInv, ShownInv, NoTurn
  <2>3. /\ turn.revision = shown.revision /\ turn.side = shown.side /\ turn.player = shown.player
        /\ turn.fen = shown.fen /\ turn.moves = shown.moves
    BY <2>2 DEF Turn
  <2>4. place \in Places
    BY <1>3, <2>1, PositionType
  <2> QED
    BY <1>4, <2>1, <2>2, <2>3, <2>4
<1>12. CASE turn.current /\ ~op.cancelled /\ Rejected(op)
  <2>1. client' = next /\ game' = ERROR(game, turn.revision)
    BY <1>3, <1>12 DEF AcceptReadyOk, Answering, next
  <2>2. /\ Sound(game') /\ Stays(game, game')
        /\ turn.revision = game.revision => game'.status \notin {"syncing", "thinking"}
    BY <2>1, InvParts, Fails
  <2>3. Behind(shown, game') /\ game'.revision = game.revision
    BY <2>2, InvParts, StaysBehind DEF Stays
  <2>4. ServingInv'
    BY <1>2, <1>11, <1>12, <2>2, <2>3 DEF ServingInv, UnderWay
  <2> QED
    BY <1>4, <1>5, <1>6, <2>1, <2>2, <2>3, <2>4
<1>13. CASE turn.current /\ ~op.cancelled /\ ~Rejected(op) /\ op.kind = "search"
  <2>1. client' = next /\ game' = ENGINE_MOVE(game, turn.revision, op.best)
    BY <1>3, <1>13 DEF AcceptReadyOk, Answering, next
  <2>2. /\ Sound(game') /\ Behind(shown, game')
        /\ turn.revision = game.revision /\ shown.revision = game'.revision /\ game.status # "syncing" =>
             game'.status \notin {"syncing", "thinking"}
    BY <2>1, InvParts, EngineMoves
  <2>3. shown.revision = game'.revision => shown.revision = game.revision
    BY <1>11, <1>13, <2>1 DEF ENGINE_MOVE
  <2>4. shown.revision = game.revision => game.status # "syncing"
    BY <1>7, <1>8, <1>11, <1>13 DEF UnderWay
  <2>5. ServingInv'
    BY <1>2, <1>11, <1>13, <2>2, <2>3, <2>4 DEF ServingInv, UnderWay
  <2> QED
    BY <1>4, <1>5, <1>6, <2>1, <2>2, <2>5
<1>14. CASE turn.current /\ ~op.cancelled /\ ~Rejected(op) /\ op.kind # "search"
  <2>1. op.kind = "inspect"
    BY <1>3, <1>14, OperationParts
  <2>2. (CHOOSE x \in op.seen : TRUE) = place
    BY <1>3, <1>11, <1>14, <2>1 DEF Rejected, Fulfilled
  <2>3. /\ game' = INSPECTED(game, turn.revision, place)
        /\ client' = IF StatusAt(place) # "ongoing" \/ turn.side = turn.player THEN next ELSE enqueue(next, search)
    BY <1>3, <1>14, <2>2 DEF AcceptReadyOk, Answering, next
  <2>4. turn.revision = game.revision =>
          place = Place(game.fen, game.moves) /\ turn.side = game.side /\ turn.player = game.player
    BY <1>11, <1>14, InvParts DEF Behind
  <2>5. /\ Sound(game') /\ Stays(game, game')
        /\ turn.revision = game.revision =>
             /\ game'.status # "syncing"
             /\ game'.status = "thinking" => StatusAt(place) = "ongoing" /\ turn.side # turn.player
    BY <1>11, <1>14, <2>3, <2>4, InvParts, Inspects
  <2>6. Behind(shown, game') /\ game'.revision = game.revision
    BY <2>5, InvParts, StaysBehind DEF Stays
  <2>7. CASE StatusAt(place) # "ongoing" \/ turn.side = turn.player
    <3>1. client' = next
      BY <2>3, <2>7
    <3>2. ServingInv'
      BY <1>2, <1>11, <1>14, <2>5, <2>6, <2>7 DEF ServingInv, UnderWay
    <3> QED
      BY <1>4, <1>5, <1>6, <2>5, <2>6, <3>1, <3>2
  <2>8. CASE ~(StatusAt(place) # "ongoing" \/ turn.side = turn.player)
    <3>1. client' = enqueue(next, search)
      BY <2>3, <2>8
    <3>2. Fresh(search) /\ search.at = place /\ search.kind = "search" /\ ~search.cancelled /\ search # NoOperation
      <4>1. /\ search \in Operations /\ search # NoOperation /\ search.kind = "search" /\ search.at = place
            /\ ~search.cancelled /\ search.newGame = FALSE /\ search.seen = {} /\ ~search.barrierSent
        BY <1>11, <1>14, NewOperation
      <4> HIDE DEF search
      <4> QED
        BY <4>1 DEF Fresh
    <3> HIDE DEF search, place
    <3>3. Cleared(next)
      BY <1>4, <1>11, <1>14 DEF Cleared
    <3>4. /\ client' \in Clients /\ client'.phase = "connected" /\ client'.active = search /\ client'.queue = << >>
          /\ Flow(client', stdin \o client'.sent, << >>, engine.at, engine.search)
      <4> DEFINE a == engine.at
                 z == engine.search
                 s == stdin
                 out == << >>
                 e == enqueue(next, search)
      <4>1. Flow(next, s \o next.sent, out, a, z) /\ next \in Clients /\ s \in Seq(Lines)
            /\ next.active = NoOperation
        BY <1>4, <1>11, <1>14, InvParts
      <4> HIDE DEF a, z, s, out
      <4>2. /\ e \in Clients /\ e.phase = "connected" /\ Flow(e, s \o e.sent, out, a, z)
            /\ next.active = NoOperation => e.active = search /\ e.queue = << >>
        BY ONLY <3>2, <3>3, <4>1, EnqueueKeeps
      <4> QED
        BY <3>1, <4>1, <4>2 DEF a, z, s, out
    <3>5. Serves(client', turn)
      BY <1>14, <3>2, <3>4 DEF Serves, place
    <3>6. ServingInv'
      BY <1>2, <1>11, <1>14, <2>5, <2>6, <3>2, <3>4 DEF ServingInv, UnderWay
    <3> QED
      BY <1>6, <2>5, <2>6, <3>4, <3>5, <3>6
  <2> QED
    BY <2>7, <2>8
<1> QED
  BY <1>9, <1>10, <1>12, <1>13, <1>14

-----------------------------------------------------------------------------
(* The theorems.                                                            *)

LEMMA AcceptStep ==
  ASSUME Inv, Accept
  PROVE  Inv'
BY HandshakeStep, ErrorStep, SeenStep, BestmoveStep, ReadyOkStep DEF Accept

LEMMA InitInv == Init => Inv
<1> SUFFICES ASSUME Init
             PROVE  Inv
  OBVIOUS
<1>1. << >> \in Seq(Moves) /\ {} \in SUBSET Moves /\ << >> \in Seq(Operations) /\ << >> \in Seq(Lines)
      /\ << >> \in Seq(Messages)
  OBVIOUS
<1>2. /\ game \in States /\ game.moves = << >> /\ game.fen = StartFen /\ game.side = "w" /\ game.status = "idle"
      /\ game.player = "w" /\ game.phase = "idle" /\ game.revision = 0
  BY <1>1, StartTypes DEF Init, createGameState, States, Sides
<1>3. /\ shown \in Seen /\ shown.connected = FALSE /\ shown.fen = game.fen /\ shown.moves = game.moves
      /\ shown.side = game.side /\ shown.player = game.player /\ shown.phase = game.phase
      /\ shown.revision = game.revision
  BY <1>2 DEF Init, Dependencies, Seen, States
<1>4. /\ client \in Clients /\ client.phase = "disconnected" /\ client.active = NoOperation
      /\ client.queue = << >>
  BY <1>1 DEF Init, Clients
<1>5. TypeInv
  <2>1. engine \in [at : Places, search : Places]
    BY NoPlaceType, StartPlaceType DEF Init
  <2> QED
    BY <1>1, <1>3, <1>4, <2>1 DEF Init, TypeInv
<1>6. GameInv
  BY <1>2, StartTypes, FreshBoard DEF GameInv
<1>7. ShownInv
  BY <1>2, <1>3 DEF Init, ShownInv, Behind, NoTurn
<1>8. ClientInv
  BY <1>3, <1>4 DEF Init, ClientInv, Serves
<1>9. ServingInv
  BY DEF Init, ServingInv
<1>10. FlowInv
  BY <1>4 DEF FlowInv, Flow
<1> QED
  BY <1>5, <1>6, <1>7, <1>8, <1>9, <1>10 DEF Inv

LEMMA StutterStep ==
  ASSUME Inv, UNCHANGED vars
  PROVE  Inv'
<1>1. UNCHANGED <<game, settings, ready, shown, turn, link, client, stdin, stdout, engine>>
  BY DEF vars
<1>2. TypeInv' /\ GameInv' /\ ShownInv' /\ ServingInv'
  BY <1>1 DEF Inv, TypeInv, GameInv, ShownInv, ServingInv
<1>3. ClientInv' /\ FlowInv'
  BY <1>1 DEF Inv, ClientInv, FlowInv, Rest
<1> QED
  BY <1>2, <1>3 DEF Inv

LEMMA NextInv == Inv /\ [Next]_vars => Inv'
<1> SUFFICES ASSUME Inv, [Next]_vars
             PROVE  Inv'
  OBVIOUS
<1>1. CASE Render
  BY <1>1, RenderStep
<1>2. CASE User
  BY <1>2, UserStep
<1>3. CASE Accept
  BY <1>3, AcceptStep
<1>4. CASE Open \/ Close \/ Reconnect \/ Timeout
  BY <1>4, ConnectionStep
<1>5. CASE BridgeWrites
  BY <1>5, BridgeWritesStep
<1>6. CASE EngineReads
  BY <1>6, EngineReadsStep
<1>7. CASE SearchEnds \/ SearchFails
  BY <1>7, SearchEndsStep
<1>8. CASE GoRefused
  BY <1>8, GoRefusedStep
<1>9. CASE UNCHANGED vars
  BY <1>9, StutterStep
<1> QED
  BY <1>1, <1>2, <1>3, <1>4, <1>5, <1>6, <1>7, <1>8, <1>9 DEF Next

LEMMA Invariance == Spec => []Inv
<1>1. Init => Inv
  BY InitInv
<1>2. Inv /\ [Next]_vars => Inv'
  BY NextInv
<1> QED
  BY <1>1, <1>2, PTL DEF Spec

\* While a move may be made, the legal moves kept are those of the position on
\* the board, whatever was undone, cancelled or answered late before; every move
\* of the game was legal where it was made, and the side to move is the one the
\* moves leave.  (gameReducer, useGame's effect and the client's draining.)
THEOREM TurnIsOfThePosition == Spec => []TurnOfThePosition
<1>1. Inv => TurnOfThePosition
  BY DEF Inv, GameInv, Sound, Legit, TurnOfThePosition
<1> QED
  BY <1>1, Invariance, PTL

\* When all is rendered and the client is connected, a game that waits for the
\* engine is served by an operation that is not cancelled, or by one that waits
\* for its turn.  (useGame: callbacks cancel first and dispatch afterwards.)
THEOREM TurnsAreServed == Spec => []NeverStranded
<1>1. Inv => NeverStranded
  <2> SUFFICES ASSUME Inv, Rendered, client.phase = "connected", game.phase = "playing",
                      game.status \in {"syncing", "thinking"}
               PROVE  (Answering /\ ~client.active.cancelled) \/ client.queue # << >>
    BY DEF NeverStranded
  <2>1. ready
    BY DEF Inv, ClientInv
  <2>2. shown.connected /\ shown.phase = "playing" /\ shown.revision = game.revision
    BY <2>1 DEF Rendered, Dependencies
  <2>3. turn.current
    BY <2>2 DEF Inv, ShownInv
  <2>4. UnderWay(game, client)
    BY <2>1, <2>2, <2>3 DEF Inv, ServingInv
  <2> QED
    BY <2>4, OperationParts DEF UnderWay, Answering
<1> QED
  BY <1>1, Invariance, PTL

\* Between operations nothing is on its way and the engine does not search, so
\* that what the next operation receives is its own.  (uciClient.ts: a search
\* that is cancelled stays in flight until stop and readyok have drained it.)
THEOREM OperationsAreApart == Spec => []QuietBetweenOperations
<1>1. Inv => QuietBetweenOperations
  <2> SUFFICES ASSUME Inv, client.phase = "connected", ~Answering
               PROVE  client.sent = << >> /\ stdin = << >> /\ stdout = << >> /\ engine.search = NoPlace
    BY DEF QuietBetweenOperations
  <2>1. Rest = << >> /\ stdout = << >> /\ engine.search = NoPlace
    BY InvParts, QuietFlow DEF Flow, Answering
  <2> QED
    BY <2>1, InvParts, ConcatEqualIffEmpty DEF Rest
<1> QED
  BY <1>1, Invariance, PTL
=============================================================================
