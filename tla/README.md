# Verification of PikaRust

TLA+ models of PikaRust, a xiangqi engine in Rust: the life of a search through the
engine's threads, the native UCI application and the analysis server around it, the
web client in front, and what a worker does inside a search: lines of play and their
redundant state, the tree search on a shared table, shared histories, and the counter
that decides when a search looks at its limits. The models are checked with TLC on
small instances; the theorems are proved with TLAPS for every value of the constants.
File names below are relative to the repository; `core/` stands for
`crates/pikarust-core/src/`, `app/` for `crates/pikarust-app/src/`.

## 1. Inventory

| Component | State | Operations | Works with |
|---|---|---|---|
| Engine facade, `core/engine/core.rs` | options, position, the pool (made by the first `go`) | `go`, `try_go`, `stop`, `set_option`, `new_game`, `set_position`, drop | calls the pool; hands out handles |
| `SearchHandle`, same file | two shared flags, a one-slot receiver | `stop`, `ponderhit`, `try_result`, `wait_result`, drop | flags read by the workers, channel written by the collector |
| Thread pool, `core/search/thread.rs` | workers, flags of the current search, return channel, collector | `start_search`, `start_search_async`, `recover_workers`, `clear`, drop | moves workers into threads; the collector moves them back |
| Iterative deepening, `core/search/iterdeep.rs` | root depth, `stop_on_ponderhit`, time statistics | the loop of one worker | reads and raises the flags; calls `check_time` at every node |
| Limits, `core/search/search.rs` and `time.rs` | `calls_cnt`, the time manager | `check_time`, `TimeManager::init` | raises the stop flag |
| Transposition table, `core/search/tt.rs` | entries of relaxed atomics, generation, table id | `probe`, `write`, `penalize`, `new_search`, `clear`, `resize` | all workers at once, no lock |
| Position, `core/position/` | board, state stack, repetition filter, `rule60`, `check10` | do/undo (null) move, `rule_judge` | one copy per worker |
| NNUE accumulators, `core/nnue/accumulator.rs` | a stack with `computed` flags | push, pop, lazy update, refresh | follows do/undo of its worker |
| UCI application, `app/bin/pikarust.rs` | active handle, command channel | the reader thread, the main loop | the engine facade, standard input and output |
| Server: pool and sessions, `app/server/pool.rs`, `session.rs` | available engines, total, semaphore permits, session map | acquire, release, create, destroy, `cleanup_idle` | Tokio tasks, the engine facade |
| Server: connection, `app/server/ws.rs`, `http.rs` | active search, outgoing channel | the select loop | sessions, the client |
| Web client and bridge, `pikarust-web/` | operation queue, phase, barrier flags; a child process | `search`, `inspect`, `cancel`, `accept`; forwarding | the UCI application over a socket and pipes |
| Tree search, `core/search/iterdeep.rs`, `qsearch.rs`, `movepick.rs` | search stack, root moves, `nmp_min_ply`, a picker per node | `search_node`, `qsearch`, `next_move` | position, accumulators, table, histories |
| Histories, `core/search/history.rs`, `history_update.rs` | tables of a worker; one shared by all workers | load, update, fill | read by the move picker, written at the end of a node |
| Move generation and legality, `core/position/`, `core/bitboard/` | attack tables; check squares, blockers and pinners of the position | `generate`, `pseudo_legal`, `legal`, `gives_check`, `see_ge` | position, move picker |
| UCI parser, `crates/uci-rs/src/parser.rs` | — | `parse_command` | called by the reader thread |
| Inference kernels, test platform, benchmarks | — | arithmetic; tooling | — |

What is hard, and what makes each part correct:

* **Engine, handles and pool.** Up to five kinds of thread act on the same search
  (caller, handle holder, main worker, helpers, collector), and all coordination
  is two flags, two channels and joins. Correct means: searches are sequential;
  a worker is never lost or duplicated; a handle reaches its own search only; a
  panicking worker never yields an answer; a pondering or infinite search waits
  for its end and every other one ends; no call blocks for ever.
* **UCI loop.** Commands arrive through a reader thread while a polled search
  runs. Correct means: one `bestmove` per accepted `go`, in order and before the
  effects of later commands; `isready` is always answered; end of input exits.
* **Limits.** A signed counter thins out the looks at the clock and node count.
  Correct means: the limits are looked at often enough, whatever came before.
* **Tree search and table.** Torn reads, stale writers, a wrapping generation, values
  relative to a ply and to the sixty-move count, searches aborted anywhere. Correct
  means: a mate that is reported is one, a line that is reported can be played.
* **Histories.** The shared one is updated by a load and a store, and filled by a
  worker that replaces a panicked one. Correct means: entries keep within their limits.
* **Position.** The redundant state, check squares and pins included, must agree with
  the board after any line; the filter must count what is on the stack; moves, checks
  and repetitions must be those of the rules.
* **Accumulators.** A computed flag must imply values of the current position.
* **Server.** Capacity and permits are conserved on every exit path, cancelled
  tasks and panics included; an engine has one owner; an active session is not reaped.
* **Web client.** No result reaches an operation it does not belong to.

The hazards, each at its line and with the properties that would catch it, are in
`PROJECT.json`.

## 2. Plan

The order was: what everything else rests on first, then what surrounds it, then what
happens inside a worker. All of it is written.

1. `SearchService`, `SearchPool`: the abstract promise of the engine, and its threads.
2. `UciLoop`, composed with `SearchService`; `UciCommands`, what its input means.
3. `CheckTime`; `History`, and `WorkerNodes`, the composition of the two.
4. `Server`: pool, sessions, connections and requests over what `SearchService` promises.
5. `Position` and what is computed from it (`Board`, `MoveGen`, `RuleJudge`, `MovePick`,
   `Features`, `Accumulators`), played through by `SearchLine` and `SearchMoves` against
   the rules (`Xiangqi`).
6. `TT` and `Search`: the tree search of one worker.
7. `WebClient`: the browser's client, the bridge and the engine behind them.

Left to prove, in this order: that legal moves leave both kings standing and that a
check is foreseen exactly, which is the geometry of attacks and the hypothesis of what is
proved of `SearchLine`; the truth of mates in `Search`; the accumulators. Left to model:
two positions with one key, resizing the table, and `searchmoves` in `Search`.

## 3. Modules

| Module | Models |
|---|---|
| `SearchService` | What the engine promises about searches: `Safe` (what may happen), `Spec` (a stopped search ends). |
| `SearchPool`, `MCSearchPool`, `SearchPool_proofs` | `Engine`, `SearchHandle`, `ThreadPool`, the workers' control and the collector. |
| `UciCommands` | The parser, the conversion and validation of limits, the options. |
| `UciLoop`, `MCUciLoop`, `UciLoop_proofs` | `pikarust.rs`, with `SearchService` as its engine; extends `UciCommands`. |
| `CheckTime`, `MCCheckTime` | `Worker::check_time`'s call counter. |
| `History`, `History_proofs` | The continuation history that the workers share, and the tables a worker has for itself. |
| `WorkerNodes`, `MCWorkerNodes`, `WorkerNodes_proofs` | `CheckTime` and `History` together: workers at their nodes. The proofs about `CheckTime` are here too. |
| `Board` | Squares, pieces, attack tables. |
| `Position` | The position, its state stack, keys and filter, do and undo, check detection. |
| `MoveGen` | Generators, pseudo-legality, legality. |
| `RuleJudge` | Repetitions, chases, rule 60, material. |
| `MovePick` | `see_ge` and the staged move picker. |
| `Features`, `Accumulators` | Active and changed features; the accumulator stack. |
| `Xiangqi` | The rules of the game, from the game and not from the code: the reference. |
| `SearchLine`, `SearchLine_proofs` | Lines of moves, null moves and undos; positions, repetitions, checks, accumulators. |
| `SearchMoves`, `MCSearchLine` | `SearchLine` with what is asked of a node's moves: generation, picking, exchanges. |
| `TT` | Entries and clusters of the transposition table. |
| `Search`, `MCSearch`, `Search_proofs` | `iterative_deepening`, `search_node` and `qsearch` of one worker; extends `TT`. |
| `Server`, `MCServer`, `Server_proofs` | `pool.rs`, `session.rs`, `ws.rs` and the searching handlers of `http.rs`. |
| `WebClient`, `MCWebClient`, `WebClient_proofs` | The game reducer, its effect, the UCI client, the socket, the bridge. |

An operator named `Name_Change` is a variant of `Name` with a plausible bug. No
specification uses one: replacing `Name` by it must break a property, which shows
that the property says something about that code.

### SearchPool

*State.* Searches are numbered. A flag pair (`stop`, `ponder`) is a cell; cell `s`
is the pair that `start_search` allocates for search `s`, cell 0 the pair of
`ThreadPool::new`. `poolCell`, `cell[i]` and `handleCell[s]` say which pair the pool,
a worker and a handle refer to, so that a stale reference is a state and not an
impossibility. A worker is in the pool, in a thread, carried by a collector, in the
return channel (`inbox`) or lost. `asked` and `seen` are history: what the
application asked of each search and what it was told.

*Engine calls* take `&mut self`, so one is in progress at a time. A call that must
join has two steps, its beginning (stop) and its end, which waits for `Joined`:
`Go`/`StartSearch`, `NewGame`/`Cleared`, `SetOption`/`Rebuilt`, `Shutdown`/`Dropped`.
Handles act between them from other threads. `Engine::go` goes through the same
`start_search` as `try_go`, whose validation changes nothing.

*Workers* move between program points: `head` (the loop's test), `tree` (one
iteration), `park` (the main worker's wait after the loop), `over`. What the tree
search computes is left out; its effects on control are choices: `ManageTime`'s
`over` (time used up, or a mate found), `FailLow`, `ReachMaxPly`, and `Panic`, which
may strike anywhere up to the wait. A second panic in the handler itself is the only
way a join can fail; `MaxLost` bounds it. `late` says that a limit enforced by
`check_time` has been passed.

*Collector.* Joins happen in one step once every thread is over (the order of joins
is not observable); returning the workers and sending the result are two.

*Handles* tell their result once. `Poll` is `try_result`, and `try_recv`, which differs
only in saying of a failed search what it says of one still running: a caller of it
learns nothing, so nothing changes. `Wait`/`WaitReturns` is `wait_result`, and `wait`,
which makes an empty result of a failed search (`seen` is then `"default"`; to the
service both are failures, see `Told`).

*Left out:* `limits.mate`, which the facade never sets; the histories and the
transposition table; `Engine::go` without a pool, unreachable after
`ensure_thread_pool`; `is_ready`-like queries that change nothing. All flag accesses
are atomic and each flag is read on its own, so a sequentially consistent model has
the behaviours that matter: a late read of a relaxed flag is a late step.

### SearchService and the refinement

`SearchPool` maps its state to the service by `StatusOf` and `Endless`. A search is
*endless* if it is infinite without another limit, or pondering. The code has three
exceptions, which the definition names: a position without root moves or a pool that
lost its main worker answers at once, and a single root move under a clock is answered
even while pondering. The last one contradicts the documented behaviour (section 6).

### UciCommands and UciLoop

*Words.* A line is a sequence of words, and a name or value that the code joins with
spaces stays the sequence it was joined from. `Folded` lower-cases a word, `Numeral`
gives a number its value; the widths of `u32`, `u64`, `i32` and `i64` and `MAX_PLY` are
constants, so that a value that does not fit is a small number here. `Playable`, the
legal lines of play, is closed under prefixes and stands for move generation (which
`SearchLine` checks). Every command is parsed, converted, validated and executed as in
the code; what it prints beyond its kind is left out.

*The loop.* The whole input is chosen in the initial state: a line that the GUI writes
late is one that the reader thread reads late, so nothing is lost by that. The reader
thread ends with the input, at a `quit`, and at a line it cannot read (`Unreadable`: not
UTF-8, or an input error), after which nothing else is read (`ReadEnd`). `queue` is the
command channel, `wait` the program point inside `stop_active`, where the reader thread
and the engine go on. `asked` is history: the line, the position and the limits each
search was started with.

*Properties.* `AnsweredOnceInOrder`, `ReadyAfterBestmove`; `SearchesAsAsked` says that
each search got the position and the limits that the lines so far ask for, read off
their words without the parser, illegal `position` lines and the overhead option
included, and that a `go` with a clock is never without limits. `IsReadyIsAnswered` and
`ClosedExits` are liveness: a line behind a `quit` or an unreadable one is not read, so the
first exempts it; the second says that the program exits whatever ended the reader thread.

### CheckTime

`calls_cnt` is a signed integer of `2 * Half` values that wraps, as in a release
build. The quotient `nodes / 1024` is cut to it as the code's `as i32` does. The model
counts the calls between two looks at the limits, across searches: the counter is not
reset by `start_search`.

### History and WorkerNodes

One entry of the shared table and, per worker, the update it is in the middle of
(`get` and `load` are separate reads, `store` overwrites whatever has become of the
entry since). `Recover` is the fill by a worker that replaces a panicked one; it may
come between any two steps of the others. Bonuses are those of the code up to their
size; their weighted product wraps at `Width`, which the code's `i32` does at 2^31 for
large countermove bonuses. Of the tables one worker has for itself, `own` is one entry of
one of them, any: it learns from quiet moves, captures, the parent's move, the table's
move and corrections, ages or is filled anew before a search, and is cleared after a
panic. `correction_value` is the sum the search adds to an evaluation.
`WorkerNodes` interleaves this with `CheckTime`: the main worker, which alone counts,
is either at `check_time` or in an update.

### Board to SearchLine

*Operators and state.* `Position`, `MoveGen`, `RuleJudge`, `MovePick`, `Features` and
`Accumulators` translate methods into operators on records; `SearchLine` is the state
machine that plays: moves, null moves, undos, and in a worker's lines evaluations and new
searches on the same accumulator stack. `SearchMoves` adds no state: it holds the
properties of the moves of a node, which need the move picker and a recursive operator
for exchanges. Which lines exist is a matter of the *scenes*: a position, the moves played
in it (or all), the depth.

*Data.* A bitboard is a set of squares. A magic lookup is the ray walk on the occupied
squares inside the mask, so a mask that leaves out a square would show; the multiplication
that hashes it is left out. A Zobrist key is the set of what was xored into it, so keys
are distinct where the 64-bit numbers are; the filter sees only a slot of it, and slots
collide. A feature index is the tuple its number is computed from, and an accumulator
counts how often each feature was added: it is exact if every active feature is counted
once. Weights and arithmetic are left out.

*References.* `LegalMovesByTheRules` and `ChecksForeseen` compare with `Xiangqi`,
`DerivedState` with a fresh reading of the board, `UndoRestores` with the position before,
`PliesAccounted` with the line, `RepetitionByTheRules` with the occurrences on the stack,
`AccumulatorsExact` with the features of the position, `SeeIsExchange` with the exchange
played out to its end by minimax. The last one is about what `see_ge` does without
playing: its early exits, thresholds, ties, parity and the rule for kings. It shares with
`see_ge` the order of the attackers (the least one first) and who they are: the attackers
to a square, the screens and the pins. Those `LegalMovesByTheRules` and `ChecksForeseen`
compare with the rules, as far as moves and checks depend on them.
The move picker is run through at the root of every scene, for every kind of table move
and two sets of history values, one of which mixes the moves up. In a move's score the
histories are numbers given by a table; the order the generator fills the array in is
arbitrary but fixed.

*Note.* `evaluate_pos` always refreshes the threat accumulators;
`evaluate_threat_side`, which a comment of `crates/pikarust-core/tests/threat_bug_b_repro.rs`
(line 286) calls the actual search path, is not reached from the search. Both are modelled (`lazy`).

### TT and Search

*Calls.* A recursive call pushes a frame and a return pops it, so that a node is a
sequence of actions, one per stage of `search_node` (`Judge`, `Probe`, `Cutoff`, `Prune`,
`TryNull`, ..., `Weigh`, `Finish`) and of `qsearch`. A stop may come before any look at
the flag.

*Data.* The game is a finite graph of positions, some of them mated. What static
evaluations, corrections, histories, the exchange evaluation and move counts contribute
to a decision is a number nobody specifies; each decision that depends on one is free
where its other conditions hold, and `MaxOdd` bounds how many decisions of a run depart
from the plain search. Margins and depths are scaled to values up to `VALUE_MATE = 16`.
The weighted average of root scores uses one weight of its range.

*Table.* A cluster of three entries for all positions, with ageing, so that entries are
replaced all the time. A probe may mix the entry found with the data of another that
is being written (`TornHints`); `torn` remembers it. Mate scores read from a torn entry
prove nothing, in the code as in the model, so `MatesAreProven` and
`ReportedMateIsProven` are claimed while no probe was torn; `LinesArePlayable` and
`ScopesAreClosed` always.

*Left out:* two positions with one key, `resize` (no search outlives a table),
`MultiPV` beyond 1 (the code has one), `searchmoves` (a root restricted to some moves
saves its value as the position's, so the claims about mates would not hold there),
repetitions (the graphs are acyclic; `rule_judge`'s verdict is a free choice among none,
a draw and a two-fold bound; its exact verdicts are `RuleJudge`'s).

### Server

*Tasks* are WebSocket connections and HTTP requests. `pc` says where a task awaits;
the code between two awaits is one action. What outlives a task or runs beside it has
variables of its own: the initialisation thread (`boot`), the destruction of a session
(`life`), the cleanup task (`todo`, `expired`, `victim`), the searches (`runs`).

*Pool.* `Acquire` is the block under the lock. The thread that `spawn_blocking` starts is
`Load` (the cached model, then an engine for the reservation), `Rewind` and `Reset`:
`new_game` sets the position at once, under a search that may still wind down on its own
copy, then stops and joins that search (`ThreadPool::clear`), and only then the options are
set. Each may fail or panic (`BootPanics`). A cancelled task leaves its thread running; the
lease that comes out of it is dropped with the unread result (`Abandoned`). Every drop is
`DropLease`.

*Engines* are reduced to what the pool relies on: whose search their threads run, the
position, and the tasks whose options they carry (`opts`). A search ends when it is
stopped or has a limit, or by a panic, as `SearchService` promises; `limit` says which
searches wait for a `ponderhit` or a stop, `finished` which results wait in a handle.

*Sessions.* A permit, a lease, then the map. `destroy_session` is `Remove`,
`TakeEngine` and `ReleasePermit`, with awaits between them; the connection (`Bye`) and
the cleanup (`SweepDestroy`) both start it and only one finds the session in the map.
Time is the set `idle` of the sessions whose timeout has passed. `cleanup_idle` takes
its `now` and the sessions (`SweepStart`), reads each `last_active` (`SweepRead`; a
session touched since is not idle by that `now`) and destroys one after the other.

*Connections.* A command that changes the engine or ends the search passes through
`finish`, where the answer to the stopped search is awaited, before `execute`. A
command after the session was reaped finds no lease. `want` is history: the position
the client of a task set last. `gos` and `replies` number the `go` commands.

*Left out:* the text of messages and of errors, the outgoing channel's content (see
fairness), the status, health and validation handlers, which change nothing, and Axum's
own serving and shutdown.

### WebClient

The reducer's state and what was last rendered are two copies: callbacks see the
rendered one, and the effect that asks the engine runs after a rendering in which one of
its dependencies changed. `client` is `UciClient` (phase, active operation, queue, lines
sent), `link` the socket, `stdin` and `stdout` the pipes with room for two lines each.
The bridge writes to the engine or reads from it, and reads nothing while it waits to
write. Closing the socket ends the engine's process and empties the pipes; each connection
has its own engine. `perft`, `eval` and `d`, always asked together, are one line, and a
search prints no `info` lines. So the engine never prints more for a command than the
pipes hold, and the deadlock that the bridge's way of writing invites (`main.rs:108`, with
both pipes full, engine and bridge waiting for each other) cannot show: `TurnEnds` does
not speak about it. A position the engine refuses (`Refused`) leaves it the one it had and
is answered by an error line, on which the client fails the operation; the reducer
then waits for the user to try again or choose another position.
`Reconnect` waits for a rendering: the code waits two seconds. Searches may fail or be
refused, operations time out, connections be lost (`MaxFaults`).

## 4. Runs

| Run | Instance | Shows |
|---|---|---|
| `SearchPool` | 2 workers, 2 searches, depth 1, 1 lost worker; a depth limit and a clock with pondering, an infinite search without root moves | `OneSearchAtATime`, `WorkersConserved`, `AnswerIsTrue`, `EndlessWaits`, `ImplementsSafely` |
| `SearchPoolLive` | 2 workers, 1 search, fairness; depth with pondering, clock with pondering, node or time budget, infinite | `ImplementsService`, `LimitedEnds`, `CallsReturn` |
| `PonderSingleMove` | 1 worker, clock, pondering, one root move | a violation of `PonderWaitsForStop` |
| `UciLoop` | 3 lines, each one of 10 (the first of 20), a channel of 1, fairness | `AnsweredOnceInOrder`, `ReadyAfterBestmove`, `SearchesAsAsked`, `IsReadyIsAnswered`, `ClosedExits` |
| `CheckTime` | 2 workers at their nodes, a counter of 16 values, node limits whose share fits it, a history entry of -2..2, 2 offsets, one entry of each of the 7 other tables | `LimitsLookedAt`, `HistoriesBounded` |
| `CheckTimeWrap` | a counter of 64 values, any node limit up to 300 | a violation of `LimitsLookedAt` |
| `SearchLine` | 23 scenes of 5 to 32 men, one followed by a second search, lines of up to 10 plies, a filter of 4 slots, 2 free checks, a draw after 12 plies | `LegalMovesByTheRules`, `SeeIsExchange`, `ChecksForeseen`, `DerivedState`, `PliesAccounted`, `RepetitionByTheRules`, `AccumulatorsExact`, `UndoRestores` |
| `Search` | 4 games of 7 or 8 positions, 4 iterations, up to 2 searches on one table, 1 free decision | `MatesAreProven`, `ReportedMateIsProven`, `LinesArePlayable`, `ScopesAreClosed` |
| `Server` | 2 connections, 1 request, 1 engine, 1 session, 3 commands | `OneOwner`, `CapacityConserved`, `PermitsConserved`, `PooledIsStopped`, `OwnSetup`, `AnsweredInOrder`, `OwnersUndisturbed` |
| `ServerLive` | 1 connection, 1 request, 1 engine, 2 commands, fairness | `BootEnds`, `SessionEnds` |
| `ServerIdle` | 1 connection, 1 command | a violation of `OnlyIdleReaped` |
| `WebClient` | 3 FEN records, one of which the engine refuses, games of 3 plies, 4 acts of the user, 2 faults, pipes of 2 lines, fairness | `TurnOfThePosition`, `NeverStranded`, `QuietBetweenOperations`, `TurnEnds` |

*Bounds.* Two workers make a main worker and a helper; further helpers do what the
first does. Two searches are needed for a stale handle, a recovered worker and a
replaced search, and every property speaks of one search, or of one and its successor.
Depth 1 separates "limit not reached" from "reached"; deeper counts repeat the same
tests. One lost worker of two leaves each of them alone in turn.

A line that interferes with a search in `UciLoop` needs a `go` before it and a reply
after it: three lines; a channel of one is full most of the time, where the real one of
64 seldom is. Lines that differ only in their words (`FirstLines`) come first, where
their effect on the two that follow shows.

In `CheckTime` a unit of 2 and a cap of 3, and in `CheckTimeWrap` of 4 and 16, keep what
matters of 1024, 512 and 2^31: a share below the cap, above it, and outside the counter. Two offsets let an
update meet the entry twice, and a bonus of 3 whose product wraps comes out with the
other sign.

The scenes of `SearchLine` were chosen for what is easy to get wrong: two screens, a
hollow cannon, kings facing, a cannon pinned and a cannon that pins, double checks,
exchanges with uncovered and pinned men, perpetual check and chase, counters one ply
before their limits, kings crossing the mirror, captures that change a bucket. Wherever
a line branches widely it is two plies deep, which lets a move disturb what the move
before it left; repetitions need ten.

In `Search` a mate in three plies, two moves that lose at different speed, a position
reached at two plies and two games full of captures make every stage of a node run; six
plies are the sixty moves, so that mates fall on either side of that limit, and the
second search of a game finds the table of the first under another count. One free
decision is enough for each of them to be taken somewhere, on top of any stop and any
torn probe's successor; two make the instance too large.

One engine makes every task of `Server` compete for it, and passes it from a reaped
connection to another connection or to the request; with one permit and two connections a
session is refused as well. Three commands are a `position` or option, a `go` and one that
interferes with it. The larger instance leaves out `stop` and unknown commands, which
only end a search or touch the session; `ServerLive` has them. What depends on the
number of engines, sessions and tasks (owners, capacity, permits) is proved. The two
connections are symmetric: they start alike, and no property tells them apart.

In `WebClient` four acts are a start, a move and two that cancel what follows; two faults
are a lost connection and one more while reconnecting or searching.

*Deadlock checking* is off where the system may stop: an application that dropped its
engine and handles, a UCI program that exited, a server whose clients are gone, a line
that may not grow, a user who has done enough.

*Fairness* (`SearchPool`). Threads are scheduled (`ThreadStep`, `CollectorStep`), a
blocked call returns when what it waits for has happened (`CallReturns`,
`WaitReturns`), and time passes (`Tick`). `CheckTime` has strong fairness: it is
enabled only while the main worker is inside an iteration, which it enters again and
again, and inside it `check_time` is called at every node and looks at the limits at
least every 512 calls (`LooksOften`). Nothing is assumed of the application, of
panics, or of an iteration reaching the maximal depth. `UciLoop`: both threads run,
and the engine ends a stopped or a limited search, which is what `ImplementsService` and
`LimitedEnds` show; one weak fairness suffices since one search runs at a time.
`Server`: Tokio runs every task and blocking thread, searches end as promised, the
cleanup task runs (`SweepStep`), and a session that is not touched becomes idle
(`GrowIdle`). Nothing is assumed of clients or of panics. Steps that answer a client
(`TalkStep`) have no fairness: they wait for room in the outgoing channel, which a
client that does not read never makes. `SessionEnds` therefore rests on the cleanup,
as it does in the code.
`WebClient`: the browser renders, delivers messages and reconnects, a socket that is
closing closes, the bridge and the engine run, and a search ends (the client always sets
a limit). Nothing is assumed of the user or of faults.

## 5. Proofs

`SearchPool` (`SearchPool_proofs`), for any number of workers, searches, lost workers and
any set of requests:

* `TypeCorrect`: `Spec => []TypeOK`.
* `SearchesAreSequential`: `Spec => []OneSearchAtATime`. `OneSearchAtATime` is not
  inductive: a call may replace the current search only because joining the collector
  implies that its threads are joined (`CollectorInv`), because a pool without a collector
  has no search running (`PoolInv`), and because the first `go` after construction finds
  no earlier search (`CallInv`). `IInv` is their conjunction with `TypeOK`. The proof
  has one step per action; actions that leave the engine's and the threads' variables
  alone share a frame step, the workers' moves share the lemma `MoveKeeps`, the
  collector's `CollectorKeeps`, and the ends of calls `AllQuiet`.
* `WorkersAreConserved`, `AnswersAreTrue`, `EndlessSearchesWait`: `WorkersConserved`,
  `AnswerIsTrue`, `EndlessWaits`, from `FullInv`, which adds `AnswersInv` to `IInv`.
  A worker has one place because a collector carries workers only until it returns them
  and not all workers are lost (`PlaceInv`). An answer is true because the flags, the
  root moves and the number of the search that the threads refer to are those of the
  search whose collector joins them (`CellInv`, `SearchersInv`), which the order of
  `start_search` establishes and no stale handle can change; what the collector then has
  in hand, sends and leaves in the channel is `ResultInv`. `EndlessInv` says who has
  asked an endless search to stop when a thread of it is over.
* `PoolImplementsService`: `Spec => ImplementsSafely`. The initial states map to initial
  states; of the actions, those that start a search, set a flag, take a root or end a
  collector map to the service's steps, all others to stutters (`StatusOf` unchanged).
  That an ended endless search was stopped is `EndlessInv` again.

`UciLoop` (`UciLoop_proofs`), for any lines of input, capacity of the channel and legal lines
of play:

* `AnswersInOrder`, `ReadyFollowsBestmove`: `Spec => []AnsweredOnceInOrder` and
  `Spec => []ReadyAfterBestmove`, from one inductive invariant (`IInv`, `LoopInvariant`).
  `QueueInv`: while the loop runs the channel holds exactly the commands read and not yet
  taken, in the order of the input. `AnswerInv`: all searches but the active one have been
  answered, in order, and nothing else has. `StopInv`: after the `go` of the active search no
  command that stops was taken, but perhaps the one that now waits in `stop_active`; and
  nothing was answered that was not taken. `EngineInv` follows the engine's status as
  `SearchService` has it, `CountInv` gives each search a line of its own.
* `SearchesGetWhatWasParsed`: each search got the position, the overhead and the limits that
  the lines before it leave, as the parser reads them. `TextInv` says it of the engine's
  position and overhead at every moment: they are what the last lines that replace them, among
  those executed, left; rejected lines and those the reader thread answers by itself replace
  nothing. `AskedInv` says it of the searches started.
* `SearchesGetWhatWasAsked`: `LinesMeanWhatTheySay` implies `Spec => []SearchesAsAsked`. The
  hypothesis is that parser and conversion make of every line of the input what the words of
  the line ask for, which is a statement about constants and involves no state. It is what
  `UciCommands` computes word by word, by recursion, so TLC evaluates it, as an ASSUME of
  `MCUciLoop` over all lines of the instance.
* `CallsFindTheEngineReady`: the loop calls `try_go` only while no search runs and `stop` or
  `try_result` only on a handle whose answer is outstanding, which is what `SearchService`
  expects of its caller.

`CheckTime`, `History`, `WorkerNodes` (`History_proofs`, `WorkerNodes_proofs`):

* `LooksOften`: `Spec => []LimitsLookedAt` for every width of the counter, provided
  that `n \div Unit < Half` for every node limit. The invariant (`GapInv`) is that the
  calls counted and what is left of the counter together stay within the cap. The
  proviso is needed: `CheckTimeWrap` violates the property without it.
* `HistoriesStayBounded`: `Spec => []HistoriesBounded` of `History`, for any number of
  workers, any limits, bonuses, offsets and width of the products. The inductive
  `HistoryInv` says besides that a value loaded and not yet stored is within the limit.
  The arithmetic is in `UpdateKeepsBound`: whatever integer comes out of the product,
  `update_entry` clamps it to the limit and takes the share of the entry off it, and
  `(limit - w) * (limit - a) >= 0` (`ShareKeepsBound`) bounds what is left.
* `CorrectionBounded`: the sum of the correction entries is at most a multiple of their
  limit, hence fits an `i32` with entries of at most 1024.
* `NodesKeepHistoryBounded`: the same of `WorkerNodes`, every step of which is a step of
  `History` or leaves it alone (`NodesImplementHistory`).

`Server` (`Server_proofs`), for any finite sets of connections and requests, any numbers of
engines, permits and commands:

* `EnginesHaveOneOwner`, `CapacityIsConserved`, `PermitsAreConserved`: `OneOwner`,
  `CapacityConserved` and `PermitsConserved`. None is inductive: which of a lease, a
  reservation and a permit a task has follows from where it and its thread are
  (`StageInv`), for instance that a request cancelled while its engine is reset still
  has the lease, and that a session leaves the map with both its engine and its permit.
  Each pool operation has a lemma that preserves `PoolInv` (`PopKeeps`, `ReserveKeeps`,
  `ReturnKeeps`, `LoadKeeps`), where sequences and cardinalities are dealt with; the
  lemmas per group of actions (`BootKeeps`, `RequestKeeps`, `SessionKeeps`, ...) only
  reason about stages.
* `TypeCorrect`, `PooledEnginesStop`, `SetupsAreOwn`, `GosAreAnsweredInOrder`: `TypeOK`,
  `PooledIsStopped`, `OwnSetup`, `AnsweredInOrder`, from `FullInv`, which adds `EngineInv`.
  Its core is about the one search an engine's threads run: whoever runs it has the
  engine's lease or has told it to stop (`RunsInv`), so that an engine in the pool is
  stopped; after the initialisation, which joins that search, only the owner searches on
  it (`OwnRun`), so that nobody else's setup is in use; and a result waits only for a task
  that will read it (`FinishedInv`), so that answers come in order (`ReplyInv`).
* `OwnersAreUndisturbed`: `Spec => OwnersUndisturbed`, an action property. A connection
  executes a command that changes the setup only without a search (`OwnRun`, `LoopInv`),
  options are set after the join; and the one position that changes under a search, in
  `Rewind`, is of an engine whose lease is another task's (`OneOwner`), so that the search
  has been told to stop (`RunsInv`).

`Search` (`Search_proofs`), for any games, windows, margins, depths and table, and any
number of decisions that depart from the plain search:

* `ScopesClosed`: `Spec => []ScopesAreClosed`. That a node finds the board where it left it
  is not inductive, since it depends on what all callers will take back. The invariant
  describes the whole stack: every frame stands on the line at its ply, the move it has in
  hand is one of its position and is the next on the line while it is made, and a callee's
  ply is where its caller's program point says it is (`StackInv`, `Level`). `FrameOk` says
  which moves a frame may have left. `MarkInv` gives every excluded move, and the ply from
  which null moves are allowed, to a frame that waits at the point where it takes it back.
* `LinesPlayable`: `Spec => []LinesArePlayable`. A node prepends its move to the line of the
  ply below, so that line must be playable after this very move. Only callers on the
  principal variation that wait at a full-window search call such nodes (`PvChain`); each
  of them has a playable line of its own, and below it one that is empty or follows
  from the move in hand (`StackLines`), except while a quiescence node that has not begun
  has still to clear it (`Entered`). `LinesKnown` says the same of the root moves, and that
  there is one for each legal move, which sorting (`SortedMoves`), widening, aborted
  iterations and lost mates (`FrontedMoves`) preserve.
* The 24 actions of a node are shown to go on, to call or to return (`FrameStep`), each in
  a lemma of its own (`JudgeStep`, ...); what happens to the stack, the marks and the lines
  is then proved once for the three forms (`StackStep`, `MarkStep`, `ChainStep`,
  `LinesStep`).

`SearchLine` (`SearchLine_proofs`), for any scenes, any filter, any number of free checks and
any limit of `rule60`, over every line of moves, null moves and undos:

* `UndoGivesBack`: `Spec /\ []KingsStand => UndoRestores`. That `undo_move` inverts `do_move` on
  the board, the sets of squares, the counts and the middle encoding is `UndoMoveRestores`, an
  algebra of putting, removing and moving men; the rest comes back because it is popped. A
  line is undone step by step, so the invariant has to speak of all of it: `LineLedHere` says
  that there is a sequence of positions, each made from the one before by a move or a null move
  (`Follows`), of which the last is the position and whose states are its stack (`Chained`).
  Every position of it is `Kept`.
* `DerivedFromBoard`: `Spec /\ []KingsStand /\ []CheckersKnown => []DerivedState`. `Kept` says
  that sets, counts, keys and material are functions of the board, that blockers, pinners
  and check squares are what `set_check_info` computes from it, and that the filter counts
  the keys of the stack modulo its width. Each is shown of `from_fen`, of a move and of a null
  move. `from_fen` places its men one after the other, in an order nobody fixes, so a lemma on
  folds (`FoldAny`, `FoldAgree`) shows that any order leads to the same sets.
* `PliesInWindow`: `Spec /\ []KingsStand => []PliesAccounted`, from `Accounts`: `rule60`
  with the checks and answers beyond the free ones is the number of quiet plies since the last
  capture, and `plies_from_null` that of all plies since the last null move.
* `RepetitionJudged`: `Spec /\ []KingsStand /\ []SlotHolds => []RepetitionByTheRules`. What
  `rule_judge` finds is an earlier occurrence because its window ends at the last null move
  (`NoNullInWindow`). Conversely what occurs is found: equal keys mean equal boards, so nothing
  was taken in between and the occurrence is inside the window; it is never two plies back,
  since each side has then moved one man once (`NoTwoPlyCycle`); and the filter, asked first,
  has counted it (`FilterSees`). A third occurrence decides (`ThirdDecides`).
  `SlotHolds` is that fewer than `FilterWidth` keys of the line share the position's slot. It is
  needed: the code's slots are `u8`s that wrap, so 256 keys in one slot hide a repetition.
* `ShortLinesJudged`: the same without `SlotHolds` if lines have fewer plies than a slot counts
  (`ShortLines`). TLC evaluates that bound of the instance (`MCLinesAreShort`).

`KingsStand` and `CheckersKnown` are the first conjuncts of `ChecksForeseen`, which TLC checks
on every state of the run: they say that what generation lets through never takes a king,
and that `gives_check` is right about the moves played. Both rest on the geometry of attacks
(below). As hypotheses they are statements about behaviours, so that the theorems say what
holds of a line for as long as these two do, and not that they do.

`WebClient` (`WebClient_proofs`), for any FEN records, any length of a game, pipes of any
size and any number of acts and faults, from one inductive invariant, `Inv`:

* `TurnIsOfThePosition`: `Spec => []TurnOfThePosition`. The reducer keeps `Sound` games
  sound, one lemma per action of it (`PlayerMoves`, `Undoes`, `Inspects`, ...); what needs
  the rest of the system is that an inspection is of the board whose revision it carries.
  It is because the operation that is not cancelled asks about the position of the run of
  the effect that is current (`Serves`), whose revision and position were rendered
  together (`Behind`).
* `TurnsAreServed`: `Spec => []NeverStranded`. While the revision rendered is the game's, a
  game that synchronises has an inspection under way or waiting, and one that thinks a
  search (`ServingInv`). A callback that cancels also dispatches a new revision, so the
  effect will run again; only an undo may find nothing to take back, and then the rendered
  game is another one.
* `OperationsAreApart`: `Spec => []QuietBetweenOperations`. `FlowInv` says what can be
  between the client and the engine at every point of an operation: the lines left of its
  commands, the answers so far, and whether the engine searches. It is stated of the lines
  sent and the engine's input as one sequence, so that the bridge's steps leave it alone.
  A search without a barrier prints at most one move; once `stop` and `isready` follow, what
  comes is chatter and then `readyok` (`DrainFlow`), and the operation that ends with it
  leaves nothing behind (`Drained`). After a refused position the first answer is the
  error (`RefusedFlow`), so that the inspection fails and never takes what the engine then
  says of its old position.

The assumptions are the named ASSUMEs of the modules (sizes are natural numbers, the
requests are requests, fewer workers are lost than there are; the moves of a game lead to
its positions, and a root has a move; in `INITIAL_FEN` red is to move; a scene has both kings
and nobody who has just left his own in check). TLC evaluates them.

Only model-checked:

* `MatesAreProven` and `ReportedMateIsProven` of `Search`: a mate within a number of plies is
  a recursive function over positions, and what a node returns is related to it by an
  argument over the recursion of the whole search.
* `LegalMovesByTheRules`, `ChecksForeseen`, `SeeIsExchange`: that rays, screens, pins and
  exchanges computed from sets agree with the rules is a matter of ninety squares and their
  geometry, which is a finite computation for TLC and a very large case distinction for a prover.
  `KingsStand` and `CheckersKnown` are part of it.
* `AccumulatorsExact`: sums brought forward and back along the stack by recursion.
* The premise `LinesMeanWhatTheySay`, and the liveness properties, with `ImplementsService`.

Liveness under fairness and ENABLED are outside what the provers handle. So is induction
over recursive definitions; induction over numbers and over the length of a line needs no
theorem with an operator parameter where the least element of a set will do (`LeastNat`).

## 6. Findings

* `PonderSingleMove`: with a clock and a single legal move, a ponder search stops after
  its first iteration (`iterdeep.rs:238`) without looking at the ponder flag. The
  tests' expectation, "ponder search should not return until stop" (`core.rs:861`),
  and the doc of `ponderhit` ("Time management starts taking effect") do not hold for it.
* `CheckTimeWrap`: `(limits.nodes / 1024) as i32` (`search.rs:526`) truncates. With
  `nodes = 2^41` the counter becomes `i32::MIN`, the next decrement wraps, and no limit
  is looked at for 2^31 nodes (a debug build panics instead, which fails the search).
  `docs/architecture.md:65` promises that the limits "still apply independently".
* `ServerIdle`: `cleanup_idle` decides which sessions are idle (`session.rs:89-94`) and
  destroys them later without looking again (`96-98`). A session that receives a command
  in between is destroyed while active: its search is cancelled, and later commands are
  answered with an error (`go`) or not at all (`position`). `README.md:179` describes
  the timeout as the "Idle timeout in seconds".

## 7. Not modelled

* The inference kernels (`core/nnue/simd/`, `model.rs`) and the weights: arithmetic
  without control. The repository checks them against reference values.
* The numbers of the tree search: evaluations, corrections, reductions, margins and the
  `TimeManager`'s floating-point optimum. They are free choices where a decision depends
  on them (`Search`, `ManageTime` of `SearchPool`), so nothing is claimed about playing
  strength or time use.
* The transposition table's identities and resizing, and two positions with one key: see
  `TT and Search`. `new_game` on it is a table that starts empty.
* Several workers inside one tree: a worker sees the others through torn probes, the
  shared history and the flags, each in its own module; their product is out of reach.
* Texts: FEN records, responses, `info` lines, messages of the server and the web client,
  their drawing.
* The model loader, the HTTP handlers that only read, the end-to-end test platform,
  benchmarks and release scripts: tooling, or without state.
