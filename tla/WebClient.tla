----------------------------- MODULE WebClient -----------------------------
(***************************************************************************)
(* The web front end and its way to the engine: the game reducer           *)
(* (frontend/src/lib/game.ts), the hook that synchronises the turn         *)
(* (hooks/useGame.ts), the connection (hooks/useEngine.ts), the serial UCI *)
(* client (lib/uciClient.ts), the bridge of one connection                 *)
(* (bridge/src/main.rs) and, behind it, the native application as the      *)
(* client sees it (pikarust-app/src/bin/pikarust.rs, module UciLoop).      *)
(*                                                                         *)
(* React is modelled by two copies of the state: game, which every dispatch*)
(* updates, and shown, what was last rendered.  Callbacks see what is      *)
(* shown; Render shows the latest state and runs the effect if one of its  *)
(* dependencies has changed.  A promise's continuation runs as a microtask *)
(* at the end of the step that settles it.                                 *)
(*                                                                         *)
(* A position is a FEN record and the moves made from it; a move knows the *)
(* position it belongs to.  perft, eval and d, which are always asked and  *)
(* answered together, are one line, "look", with one answer, "seen".       *)
(* Search information, the board's orientation and messages to the user    *)
(* are left out.                                                           *)
(***************************************************************************)
EXTENDS Naturals, Sequences, FiniteSets

CONSTANTS
  Fens,       \* FEN records the form accepts: name, and the side to move first
  Refused,    \* those among them the engine refuses
  StartFen,   \* INITIAL_FEN, red to move
  MaxPlies,   \* bound: the game is over after so many moves
  MaxActs,    \* bound: what the user does
  MaxFaults,  \* bound: connections lost, timeouts, searches that fail
  PipeRoom    \* lines a pipe holds

ASSUME WebAssumption ==
  /\ StartFen \in Fens \ Refused /\ StartFen.first = "w" /\ \A f \in Fens : f.first \in {"w", "b"}
  /\ MaxPlies \in Nat /\ MaxActs \in Nat /\ MaxFaults \in Nat /\ PipeRoom \in Nat \ {0}

VARIABLES
  game,      \* the reducer's state
  settings,  \* the search settings chosen
  ready,     \* the client is connected, as it told useEngine
  shown,     \* what was last rendered: the effect's dependencies
  turn,      \* the effect that runs: NoTurn, or its dependencies while current
  link,      \* the WebSocket: waiting, connecting, open, closing
  client,    \* the UciClient: phase, active and queue, and the lines it sent
  writing,   \* the bridge waits for room to write a line
  stdin, stdout,
  engine,    \* the engine's position, and the position searched
  acts, faults
vars == <<game, settings, ready, shown, turn, link, client, writing, stdin, stdout, engine, acts, faults>>
linkVars == <<link, writing, stdin, stdout, engine>>

-----------------------------------------------------------------------------
(* Positions.                                                               *)

flipSide(side) == IF side = "w" THEN "b" ELSE "w"
Place(fen, moves) == [fen |-> fen, made |-> [i \in 1 .. Len(moves) |-> moves[i].choice]]
LegalAt(at) ==
  IF Len(at.made) = MaxPlies THEN {} ELSE {[at |-> at, choice |-> c] : c \in 1 .. 2}
StatusAt(at) == IF Len(at.made) = MaxPlies THEN "loss" ELSE "ongoing"
StartPlace == Place(StartFen, << >>)
NoPlace == [fen |-> StartFen, made |-> <<0>>]
NoMove == [at |-> NoPlace, choice |-> 0]

-----------------------------------------------------------------------------
(* The game reducer.                                                        *)

createGameState ==
  [fen |-> StartFen, moves |-> << >>, side |-> "w", player |-> "w", phase |-> "idle",
   status |-> "idle", revision |-> 0, legal |-> {}, verdict |-> "ongoing"]

MoverOf(g, i) == IF i % 2 = 1 THEN g.fen.first ELSE flipSide(g.fen.first)
(* How many moves are left when the last human decision is taken back. *)
HumanMoves(g) == {i \in 1 .. Len(g.moves) : MoverOf(g, i) = g.player}
undoTarget(g) == (CHOOSE i \in HumanMoves(g) : \A j \in HumanMoves(g) : j <= i) - 1

Anew(g) == [g EXCEPT !.revision = @ + 1, !.legal = {}, !.verdict = "ongoing"]
moved(g, m) ==
  [Anew(g) EXCEPT !.moves = Append(@, m), !.side = flipSide(@), !.status = "syncing"]

PLAYER_MOVE(g, m) ==
  IF g.phase = "playing" /\ g.status = "ready" /\ g.side = g.player /\ m \in g.legal
  THEN moved(g, m) ELSE g
ENGINE_MOVE(g, revision, m) ==
  IF revision # g.revision \/ g.phase # "playing" \/ g.status # "thinking" \/ g.side = g.player THEN g
  ELSE IF m \notin g.legal THEN [g EXCEPT !.status = "error"]
  ELSE moved(g, m)
INSPECTED(g, revision, at) ==
  IF revision # g.revision \/ g.phase # "playing" THEN g
  ELSE [g EXCEPT !.legal = LegalAt(at), !.verdict = StatusAt(at),
                 !.phase = IF StatusAt(at) = "ongoing" THEN "playing" ELSE "ended",
                 !.status = IF StatusAt(at) # "ongoing" THEN "idle"
                            ELSE IF g.side = g.player THEN "ready" ELSE "thinking"]
SYNC(g, revision) ==
  IF revision = g.revision /\ g.phase = "playing" THEN [g EXCEPT !.status = "syncing", !.legal = {}] ELSE g
ERROR(g, revision) ==
  IF revision = g.revision /\ g.phase = "playing" THEN [g EXCEPT !.status = "error", !.legal = {}] ELSE g
DISCONNECTED(g) ==
  [g EXCEPT !.status = IF g.phase = "playing" THEN "disconnected" ELSE "idle", !.legal = {}]
NEW_GAME(g) == [createGameState EXCEPT !.player = g.player, !.revision = g.revision + 1]
UNDO(g) ==
  IF HumanMoves(g) = {} THEN g
  ELSE [Anew(g) EXCEPT !.moves = SubSeq(@, 1, undoTarget(g)), !.side = g.player,
                       !.phase = "playing", !.status = "syncing"]
SET_POSITION(g, fen) ==
  [Anew(g) EXCEPT !.fen = fen, !.moves = << >>, !.side = fen.first, !.phase = "idle", !.status = "idle"]
SET_PLAYER_SIDE(g, side) == IF g.phase = "idle" THEN [g EXCEPT !.player = side] ELSE g
START_GAME(g) ==
  IF g.phase = "idle"
  THEN [g EXCEPT !.phase = "playing", !.status = "syncing", !.revision = @ + 1] ELSE g
RETRY_SameRevision(g) == IF g.phase = "playing" THEN [g EXCEPT !.status = "syncing"] ELSE g
RETRY(g) ==
  IF g.phase = "playing" THEN [g EXCEPT !.revision = @ + 1, !.status = "syncing"] ELSE g

-----------------------------------------------------------------------------
(* The UCI client.  Each method is an operator from the client before to    *)
(* the client after; sent are the lines on their way to the bridge.         *)

Command(name, at) == [name |-> name, at |-> at]
Plain(name) == Command(name, NoPlace)
NoOperation == [kind |-> "none"]
Operation(kind, at, newGame) ==
  [kind |-> kind, at |-> at, newGame |-> newGame, cancelled |-> FALSE, failed |-> FALSE,
   barrierSent |-> kind = "inspect", seen |-> {}, best |-> NoMove]
Commands(op) ==
  (IF op.newGame THEN <<Plain("ucinewgame")>> ELSE << >>) \o <<Command("position", op.at)>>
    \o IF op.kind = "inspect" THEN <<Plain("look"), Plain("isready")>> ELSE <<Plain("go")>>

Sending(c, commands) == [c EXCEPT !.sent = @ \o commands]
Disconnected(c) == [c EXCEPT !.phase = "disconnected", !.active = NoOperation, !.queue = << >>, !.sent = << >>]

pump(c) ==
  IF c.active # NoOperation \/ c.phase # "connected" \/ c.queue = << >> THEN c
  ELSE Sending([c EXCEPT !.active = Head(c.queue), !.queue = Tail(c.queue)], Commands(Head(c.queue)))
(* Accepted only when connected; else the promise is rejected at once. *)
enqueue(c, op) == pump([c EXCEPT !.queue = Append(@, op)])

(* The barrier after which nothing of a search can follow. *)
Barrier_NoStop(c) == Sending([c EXCEPT !.active.barrierSent = TRUE], <<Plain("isready")>>)
Barrier(c) == Sending([c EXCEPT !.active.barrierSent = TRUE], <<Plain("stop"), Plain("isready")>>)
StopActive(c) == IF c.active.kind = "search" /\ ~c.active.barrierSent THEN Barrier(c) ELSE c
cancel_AtOnce(c) == [StopActive(c) EXCEPT !.queue = << >>, !.active = NoOperation]
cancel(c) ==
  IF c.active = NoOperation THEN [c EXCEPT !.queue = << >>]
  ELSE IF c.active.cancelled THEN [c EXCEPT !.queue = << >>]
  ELSE StopActive([c EXCEPT !.queue = << >>, !.active.cancelled = TRUE])

complete_NoPump(c) == [c EXCEPT !.active = NoOperation]
complete(c) == pump([c EXCEPT !.active = NoOperation])

Fulfilled(op) ==
  /\ ~op.cancelled /\ ~op.failed
  /\ IF op.kind = "inspect" THEN Cardinality(op.seen) = 1 ELSE op.best # NoMove
Rejected(op) == ~op.cancelled /\ ~Fulfilled(op)

-----------------------------------------------------------------------------
NoTurn == [current |-> FALSE]
Turn(deps) ==
  [current |-> TRUE, fen |-> deps.fen, moves |-> deps.moves, side |-> deps.side, player |-> deps.player,
   revision |-> deps.revision]
Dependencies ==
  [connected |-> ready, fen |-> game.fen, moves |-> game.moves, side |-> game.side,
   player |-> game.player, phase |-> game.phase, revision |-> game.revision, settings |-> settings]
Rendered == shown = Dependencies

Init ==
  /\ game = createGameState /\ settings = 1 /\ ready = FALSE
  /\ shown = Dependencies /\ turn = NoTurn
  /\ link = "connecting"
  /\ client = [phase |-> "disconnected", active |-> NoOperation, queue |-> << >>, sent |-> << >>]
  /\ writing = FALSE /\ stdin = << >> /\ stdout = << >>
  /\ engine = [at |-> StartPlace, search |-> NoPlace]
  /\ acts = 0 /\ faults = 0

-----------------------------------------------------------------------------
(* The effect of useGame: when a dependency has changed, the old run stops  *)
(* being current and its requests are cancelled, and a new one begins by    *)
(* inspecting the position.                                                 *)
Render ==
  LET deps == Dependencies
      cleaned == IF turn.current THEN cancel(client) ELSE client
      synced == SYNC(game, deps.revision)
      inspect == Operation("inspect", Place(deps.fen, deps.moves), deps.moves = << >>)
  IN  /\ ~Rendered
      /\ shown' = deps
      /\ IF ~deps.connected
         THEN game' = DISCONNECTED(game) /\ turn' = NoTurn /\ client' = cleaned
         ELSE IF deps.phase # "playing"
         THEN UNCHANGED game /\ turn' = NoTurn /\ client' = cleaned
         ELSE /\ turn' = Turn(deps)
              /\ IF cleaned.phase = "connected"
                 THEN game' = synced /\ client' = enqueue(cleaned, inspect)
                 ELSE game' = ERROR(synced, deps.revision) /\ client' = cleaned
      /\ UNCHANGED <<settings, ready, linkVars, acts, faults>>

(* What the user does. *)
Acts == acts < MaxActs /\ acts' = acts + 1
Dispatch(g) == game' = g /\ UNCHANGED <<settings, ready, shown, turn, linkVars, faults>>

MakeMove ==
  /\ Acts /\ shown.connected
  /\ \E m \in LegalAt(Place(shown.fen, shown.moves)) : Dispatch(PLAYER_MOVE(game, m))
  /\ UNCHANGED client
StartGame == Acts /\ shown.connected /\ Dispatch(START_GAME(game)) /\ UNCHANGED client
NewGame == Acts /\ client' = cancel(client) /\ Dispatch(NEW_GAME(game))
Undo == Acts /\ HumanMoves(shown) # {} /\ client' = cancel(client) /\ Dispatch(UNDO(game))
SetPosition ==
  /\ Acts /\ client' = cancel(client)
  /\ \E fen \in Fens : Dispatch(SET_POSITION(game, fen))
SetPlayerSide ==
  /\ Acts /\ \E side \in {"w", "b"} : Dispatch(SET_PLAYER_SIDE(game, side))
  /\ UNCHANGED client
Retry == Acts /\ Dispatch(RETRY(game)) /\ UNCHANGED client
ChangeSettings ==
  /\ Acts /\ settings' = 3 - settings
  /\ UNCHANGED <<game, ready, shown, turn, client, linkVars, faults>>
User ==
  \/ MakeMove \/ StartGame \/ NewGame \/ Undo \/ SetPosition \/ SetPlayerSide \/ Retry \/ ChangeSettings

-----------------------------------------------------------------------------
(* The client receives a line.  A line that no operation waits for is lost. *)

Receives(msg) ==
  /\ link = "open" /\ ~writing /\ stdout # << >>
  /\ Head(stdout).msg = msg
  /\ stdout' = Tail(stdout)
  /\ UNCHANGED <<settings, shown, link, writing, stdin, engine, acts, faults>>
Answering == client.active # NoOperation

AcceptUciOk ==
  /\ Receives("uciok") /\ client.phase = "uci"
  /\ client' = Sending([client EXCEPT !.phase = "ready"], <<Plain("setoption"), Plain("isready")>>)
  /\ UNCHANGED <<game, ready, turn>>
AcceptConnected ==
  /\ Receives("readyok") /\ client.phase = "ready"
  /\ client' = pump([client EXCEPT !.phase = "connected"])
  /\ ready' = TRUE
  /\ UNCHANGED <<game, turn>>
AcceptError ==
  /\ Receives("error")
  /\ client' = IF Answering THEN StopActive([client EXCEPT !.active.failed = TRUE]) ELSE client
  /\ UNCHANGED <<game, ready, turn>>
AcceptSeen ==
  /\ Receives("seen")
  /\ client' = IF client.active.kind = "inspect"
               THEN [client EXCEPT !.active.seen = @ \cup {Head(stdout).at}] ELSE client
  /\ UNCHANGED <<game, ready, turn>>
AcceptBestmove ==
  LET noted == [client EXCEPT !.active.best = Head(stdout).move]
  IN  /\ Receives("bestmove")
      /\ client' = IF client.active.kind # "search" THEN client
                   ELSE IF client.active.barrierSent THEN noted
                   ELSE Sending([noted EXCEPT !.active.barrierSent = TRUE], <<Plain("isready")>>)
      /\ UNCHANGED <<game, ready, turn>>

(* readyok ends an operation whose barrier was sent: the next one begins,   *)
(* and the run whose promise it settles goes on.                            *)
AcceptReadyOk ==
  LET op == client.active
      next == complete(client)
      at == CHOOSE x \in op.seen : TRUE
  IN  /\ Receives("readyok") /\ client.phase = "connected"
      /\ UNCHANGED <<ready, turn>>
      /\ IF ~Answering \/ ~op.barrierSent THEN UNCHANGED <<game, client>>
         ELSE IF ~turn.current \/ op.cancelled THEN client' = next /\ UNCHANGED game
         ELSE IF Rejected(op) THEN client' = next /\ game' = ERROR(game, turn.revision)
         ELSE IF op.kind = "search" THEN client' = next /\ game' = ENGINE_MOVE(game, turn.revision, op.best)
         ELSE /\ game' = INSPECTED(game, turn.revision, at)
              /\ client' = IF StatusAt(at) # "ongoing" \/ turn.side = turn.player THEN next
                           ELSE enqueue(next, Operation("search", Place(turn.fen, turn.moves), FALSE))
Accept ==
  \/ AcceptUciOk \/ AcceptConnected \/ AcceptError \/ AcceptSeen \/ AcceptBestmove \/ AcceptReadyOk

-----------------------------------------------------------------------------
(* The connection.                                                          *)

Faulty == faults < MaxFaults /\ faults' = faults + 1
NoPipes == writing' = FALSE /\ stdin' = << >> /\ stdout' = << >> /\ UNCHANGED engine

(* The bridge launches an engine for the connection and writes `uci`. *)
Open ==
  /\ link = "connecting" /\ link' = "open"
  /\ client' = [Disconnected(client) EXCEPT !.phase = "uci"]
  /\ ready' = FALSE
  /\ stdin' = <<Plain("uci")>> /\ stdout' = << >> /\ writing' = FALSE
  /\ engine' = [at |-> StartPlace, search |-> NoPlace]
  /\ UNCHANGED <<game, settings, shown, turn, acts, faults>>
(* onclose: the socket was lost, the engine has exited, or fail closed it. *)
Close ==
  /\ \/ link \in {"connecting", "open"} /\ Faulty
     \/ link = "closing" /\ UNCHANGED faults
  /\ link' = "waiting"
  /\ client' = Disconnected(client)
  /\ ready' = FALSE
  /\ NoPipes
  /\ UNCHANGED <<game, settings, shown, turn, acts>>
(* Two seconds later; what has changed has been rendered by then. *)
Reconnect ==
  /\ link = "waiting" /\ Rendered /\ link' = "connecting"
  /\ UNCHANGED <<game, settings, ready, shown, turn, client, writing, stdin, stdout, engine, acts, faults>>
(* The timer of the handshake or of the active operation: fail.  The engine *)
(* of this connection is stopped by the bridge when the socket closes.      *)
Timeout ==
  /\ link = "open" /\ Faulty
  /\ client.phase \in {"uci", "ready"} \/ Answering
  /\ game' = IF Answering /\ ~client.active.cancelled /\ turn.current THEN ERROR(game, turn.revision) ELSE game
  /\ client' = Disconnected(client)
  /\ ready' = FALSE
  /\ link' = "closing"
  /\ NoPipes
  /\ UNCHANGED <<settings, shown, turn, acts>>

-----------------------------------------------------------------------------
(* The bridge, which reads nothing from the engine while it waits for room  *)
(* to write, and the engine's process.                                      *)

BridgeWrites ==
  /\ link = "open" /\ client.sent # << >>
  /\ IF Len(stdin) < PipeRoom
     THEN /\ stdin' = Append(stdin, Head(client.sent))
          /\ client' = [client EXCEPT !.sent = Tail(@)]
          /\ writing' = FALSE
     ELSE ~writing /\ writing' = TRUE /\ UNCHANGED <<stdin, client>>
  /\ UNCHANGED <<game, settings, ready, shown, turn, link, stdout, engine, acts, faults>>

Says(msg) == [msg |-> msg]
BestMoves(at) == {[msg |-> "bestmove", move |-> m] : m \in LegalAt(at)}
Prints(output) == Len(stdout \o output) <= PipeRoom /\ stdout' = stdout \o output
engineUnchanged == <<game, settings, ready, shown, turn, link, client, writing, acts>>

(* A position the engine refuses leaves it the one it had, a new game puts  *)
(* it at the start.                                                         *)
Refuses(command) == command.name = "position" /\ command.at.fen \in Refused
PlaceAfter(command) ==
  IF command.name = "ucinewgame" THEN StartPlace
  ELSE IF command.name = "position" /\ ~Refuses(command) THEN command.at ELSE engine.at
SearchAfter(command) ==
  IF command.name = "go" THEN engine.at ELSE IF command.name = "isready" THEN engine.search ELSE NoPlace

(* Every command but isready stops the search first and prints its move. *)
Stopped(command) ==
  IF engine.search = NoPlace \/ command.name = "isready" THEN {<< >>}
  ELSE {<<best>> : best \in BestMoves(engine.search)}
Answer(command) ==
  CASE command.name = "uci" -> <<Says("uciok")>>
    [] command.name = "isready" -> <<Says("readyok")>>
    [] command.name = "look" -> <<[msg |-> "seen", at |-> engine.at]>>
    [] Refuses(command) -> <<Says("error")>>
    [] OTHER -> << >>
EngineReads ==
  /\ link = "open" /\ stdin # << >>
  /\ stdin' = Tail(stdin)
  /\ LET command == Head(stdin)
     IN  /\ \E stopped \in Stopped(command) : Prints(stopped \o Answer(command))
         /\ engine' = [at |-> PlaceAfter(command), search |-> SearchAfter(command)]
  /\ UNCHANGED <<engineUnchanged, faults>>
(* The search ends by itself, or fails, which prints a null move as well. *)
SearchEnds ==
  /\ link = "open" /\ engine.search # NoPlace
  /\ \E best \in BestMoves(engine.search) : Prints(<<best>>)
  /\ engine' = [engine EXCEPT !.search = NoPlace]
  /\ UNCHANGED <<engineUnchanged, stdin, faults>>
SearchFails ==
  /\ link = "open" /\ engine.search # NoPlace /\ Faulty
  /\ Prints(<<Says("error"), [msg |-> "bestmove", move |-> [NoMove EXCEPT !.choice = 9]]>>)
  /\ engine' = [engine EXCEPT !.search = NoPlace]
  /\ UNCHANGED <<engineUnchanged, stdin>>
(* try_go refuses the search: an error line and no move. *)
GoRefused ==
  /\ link = "open" /\ stdin # << >> /\ Head(stdin).name = "go" /\ Faulty
  /\ stdin' = Tail(stdin) /\ Prints(<<Says("error")>>)
  /\ UNCHANGED <<engineUnchanged, engine>>

Next ==
  \/ Render \/ User \/ Accept
  \/ Open \/ Close \/ Reconnect \/ Timeout
  \/ BridgeWrites \/ EngineReads \/ SearchEnds \/ SearchFails \/ GoRefused

Spec == Init /\ [][Next]_vars

(* The browser renders, delivers messages and reconnects; the bridge and    *)
(* the engine run; every search has a limit or is stopped.                  *)
Fairness ==
  /\ WF_vars(Render) /\ WF_vars(Accept)
  /\ WF_vars(Open) /\ WF_vars(link = "closing" /\ Close) /\ WF_vars(Reconnect)
  /\ WF_vars(BridgeWrites) /\ WF_vars(EngineReads) /\ WF_vars(SearchEnds)
FairSpec == Spec /\ Fairness

-----------------------------------------------------------------------------
(* While a move may be made, the legal moves kept are those of the position *)
(* on the board, whatever was asked, undone, cancelled or answered late     *)
(* before; every move of the game was legal where it was made; and the turn *)
(* is that of the side the moves leave to move.                             *)
(* (gameReducer's revisions, the effect's `current` flag and the client's   *)
(* draining of cancelled requests.)                                         *)
TurnOfThePosition ==
  /\ game.status \in {"ready", "thinking"} =>
       /\ game.legal = LegalAt(Place(game.fen, game.moves))
       /\ (game.side = game.player) <=> (game.status = "ready")
  /\ \A i \in 1 .. Len(game.moves) :
       game.moves[i] \in LegalAt(Place(game.fen, SubSeq(game.moves, 1, i - 1)))
  /\ game.side = MoverOf(game, Len(game.moves) + 1)

(* A game that waits for the engine has a request under way: when all is    *)
(* rendered and the client is connected, a turn that is synchronised or     *)
(* thought about is served by an operation that is not cancelled.           *)
(* (useGame: callbacks cancel first and dispatch afterwards.)               *)
NeverStranded ==
  (Rendered /\ client.phase = "connected" /\ game.phase = "playing"
     /\ game.status \in {"syncing", "thinking"}) =>
    \/ Answering /\ ~client.active.cancelled
    \/ client.queue # << >>

(* Between operations nothing is on its way and the engine does not search: *)
(* what the next operation receives is its own.                             *)
(* (uciClient.ts: "A cancelled search stays in flight until stop + readyok  *)
(* drain its output".)                                                      *)
QuietBetweenOperations ==
  client.phase = "connected" /\ ~Answering =>
    client.sent = << >> /\ stdin = << >> /\ stdout = << >> /\ engine.search = NoPlace

(* A turn that waits for the engine does not wait for ever, although the    *)
(* bridge reads nothing while it waits to write, and the engine nothing     *)
(* while its output is full.                                                *)
TurnEnds == (game.status \in {"syncing", "thinking"}) ~> (game.status \notin {"syncing", "thinking"})
=============================================================================
