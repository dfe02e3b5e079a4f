----------------------------- MODULE SearchPool -----------------------------
(***************************************************************************)
(* The life of a search in PikaRust: the Engine facade                      *)
(* (pikarust-core/src/engine/core.rs), its ThreadPool (search/thread.rs),   *)
(* the Lazy-SMP worker threads running iterative deepening                  *)
(* (search/iterdeep.rs, the control of check_time in search/search.rs), the *)
(* collector thread that joins them, and the SearchHandles the application  *)
(* holds.                                                                   *)
(*                                                                          *)
(* The engine's methods take &mut self, so one call is in progress at a     *)
(* time; a handle is a value of its own and may be used from another thread *)
(* while an engine call is blocked.  Searches are numbered in the order     *)
(* they start.  The stop and ponder flags are shared cells (Arc<AtomicBool>)*)
(* that the pool, each worker and each handle refer to: cell 0 is the pair  *)
(* made by ThreadPool::new, cell s the pair made for search s.              *)
(*                                                                          *)
(* Left out: what a search computes (a search is the sequence of its        *)
(* iterations), the histories of the workers, and `limits.mate`, which the  *)
(* facade never sets.                                                       *)
(*                                                                          *)
(* An operator Name_Change is a variant of Name with a plausible bug, which *)
(* a property must notice; no specification uses one.                       *)
(***************************************************************************)
EXTENDS Naturals, FiniteSets

CONSTANTS
  N,            \* the Threads option: number of workers of a pool
  MaxSearches,  \* bound: number of searches started
  MaxDepth,     \* bound: the main worker's root_depth is counted up to here
  MaxLost,      \* bound: workers lost to a panic inside the panic handler
  Requests      \* the searches an application asks for

(***************************************************************************)
(* A request is what limits and position come to:                          *)
(*   depth     the depth limit, 0 for none                                 *)
(*   timed     a clock was given (use_time_management)                     *)
(*   budget    a movetime or a node limit was given                        *)
(*   infinite, ponder                                                      *)
(*   roots     number of root moves, 2 standing for two or more            *)
(***************************************************************************)
RequestType ==
  [depth: 0..MaxDepth, timed: BOOLEAN, budget: BOOLEAN,
   infinite: BOOLEAN, ponder: BOOLEAN, roots: 0..2]

ASSUME NAssumption        == N \in Nat \ {0}
ASSUME SearchesAssumption == MaxSearches \in Nat
ASSUME DepthAssumption    == MaxDepth \in Nat \ {0}
ASSUME LostAssumption     == MaxLost \in 0..(N - 1)
ASSUME RequestsAssumption == Requests \subseteq RequestType

Worker == 0..(N - 1)
Main   == 0
Search == 1..MaxSearches
Cell   == 0..MaxSearches
NoRequest == [depth |-> 0, timed |-> FALSE, budget |-> FALSE,
              infinite |-> FALSE, ponder |-> FALSE, roots |-> 0]

VARIABLES
  \* The engine and its pool.
  call,        \* the engine call in progress
  built,       \* Engine.thread_pool is Some
  last,        \* the number of searches started, and the current one
  pool,        \* ThreadPool.workers
  inbox,       \* the workers sent down worker_return, not yet received
  collecting,  \* ThreadPool.collector_handle is Some
  poolCell,    \* the cell of ThreadPool.stop and ThreadPool.ponder
  lost,        \* the workers no longer reachable from the pool
  \* The shared cells.
  stop, ponder,
  \* Per worker.
  job,         \* the search its root moves belong to, 0 for none
  cell,        \* the cell of its stop and ponder flags
  depth,       \* the main worker's root_depth
  stopOnPonderhit,  \* the main worker's flag
  \* Per search.
  req,         \* what was asked
  thread,      \* the worker threads
  collector,   \* the collector thread
  carried,     \* the workers it has joined
  failed,      \* ThreadPool.failed of this search
  result,      \* the search whose best line it reports, 0 for a default one
  chan,        \* the one-slot channel to the handle
  handle,      \* the SearchHandle
  handleCell,  \* the cell the handle refers to
  late,        \* the limit that check_time enforces has been passed
  \* History.
  asked,       \* what the application has asked of each search
  seen         \* what it has been told

poolVars   == <<call, built, last, pool, inbox, collecting, poolCell, lost>>
flagVars   == <<stop, ponder>>
workerVars == <<job, cell, depth, stopOnPonderhit>>
jobVars    == <<req, thread, collector, carried, failed, result, late>>
clientVars == <<chan, handle, handleCell, asked, seen>>
vars == <<poolVars, flagVars, workerVars, jobVars, clientVars>>

-----------------------------------------------------------------------------
(***************************************************************************)
(* Initial state: Engine::new makes no pool; the first `go` does.           *)
(***************************************************************************)
Init ==
  /\ call = "idle" /\ built = FALSE /\ last = 0
  /\ pool = {} /\ inbox = {} /\ collecting = FALSE /\ poolCell = 0 /\ lost = {}
  /\ stop = [c \in Cell |-> FALSE] /\ ponder = [c \in Cell |-> FALSE]
  /\ job = [i \in Worker |-> 0] /\ cell = [i \in Worker |-> 0]
  /\ depth = 0 /\ stopOnPonderhit = FALSE
  /\ req = [s \in Search |-> NoRequest]
  /\ thread = [s \in Search |-> [i \in Worker |-> "none"]]
  /\ collector = [s \in Search |-> "none"]
  /\ carried = [s \in Search |-> {}]
  /\ failed = [s \in Search |-> FALSE]
  /\ result = [s \in Search |-> 0]
  /\ late = FALSE
  /\ chan = [s \in Search |-> "none"]
  /\ handle = [s \in Search |-> "none"] /\ handleCell = [s \in Search |-> 0]
  /\ asked = [s \in Cell |-> {}]
  /\ seen = [s \in Search |-> "nothing"]

-----------------------------------------------------------------------------
(***************************************************************************)
(* Engine calls.  Each begins by stopping the search it will replace and    *)
(* ends when the collector thread has been joined.                          *)
(***************************************************************************)
StopPool ==
  /\ stop' = [stop EXCEPT ![poolCell] = TRUE]
  /\ asked' = [asked EXCEPT ![last] = @ \union {"stop"}]

\* recover_workers, first half: the stop flag is set only if a search may
\* still be running.
BeginRecovery_NoStop == UNCHANGED <<stop, asked>>
BeginRecovery == IF collecting THEN StopPool ELSE UNCHANGED <<stop, asked>>

\* recover_workers, second half: the collector has been joined and the
\* inbox drained into the pool.
Joined_Early    == TRUE
Joined          == collecting => collector[last] = "ended"
Recovered_Undrained == pool
Recovered           == pool \union inbox

\* A pool as ThreadPool::new makes it (cell 0 is a new pair of flags).
FreshPool ==
  /\ pool' = Worker /\ inbox' = {} /\ lost' = {} /\ collecting' = FALSE
  /\ poolCell' = 0
  /\ job' = [i \in Worker |-> 0] /\ cell' = [i \in Worker |-> 0]
  /\ depth' = 0 /\ stopOnPonderhit' = FALSE

\* Engine::go, which makes the pool if there is none and enters start_search.
Go(r) ==
  /\ call = "idle" /\ last < MaxSearches
  /\ call' = "go" /\ built' = TRUE
  /\ req' = [req EXCEPT ![last + 1] = r]
  /\ IF built THEN UNCHANGED <<pool, inbox, lost, collecting, poolCell, workerVars>>
              ELSE FreshPool
  /\ BeginRecovery
  /\ UNCHANGED <<last, ponder, thread, collector, carried, failed, result, late,
                 chan, handle, handleCell, seen>>

\* The cell of the flags made for search s.
NewCell_Reused(s) == 0
NewCell(s)        == s

\* start_search once the workers are back: new flags, new root moves, one
\* thread per worker, and the collector of start_search_async.  Without a
\* root move no thread is started and the workers stay in the pool.
StartSearch ==
  LET s == last + 1
      searching == IF req[s].roots = 0 THEN {} ELSE Recovered
  IN
  /\ call = "go" /\ Joined
  /\ call' = "idle" /\ last' = s
  /\ pool' = Recovered \ searching /\ inbox' = {} /\ collecting' = TRUE
  /\ poolCell' = NewCell(s)
  /\ handleCell' = [handleCell EXCEPT ![s] = NewCell(s)]
  /\ stop' = [stop EXCEPT ![NewCell(s)] = FALSE]
  /\ ponder' = [ponder EXCEPT ![NewCell(s)] = req[s].ponder]
  /\ job' = [i \in Worker |-> IF i \in searching THEN s ELSE job[i]]
  /\ cell' = [i \in Worker |-> IF i \in searching THEN NewCell(s) ELSE cell[i]]
  /\ depth' = IF Main \in searching THEN 0 ELSE depth
  /\ stopOnPonderhit' = FALSE /\ late' = FALSE
  /\ thread' = [thread EXCEPT ![s] =
                  [i \in Worker |-> IF i \in searching THEN "head" ELSE "none"]]
  /\ collector' = [collector EXCEPT ![s] = "joining"]
  /\ chan' = [chan EXCEPT ![s] = "open"]
  /\ handle' = [handle EXCEPT ![s] = "held"]
  /\ UNCHANGED <<built, lost, req, carried, failed, result, asked, seen>>

\* Engine::new_game (ThreadPool::clear) and set_option on Threads or Hash,
\* which drops the pool and makes another.  Without a pool neither does
\* anything to one.  Drop for ThreadPool sets the flag unconditionally.
NewGame ==
  /\ call = "idle" /\ built
  /\ call' = "clear"
  /\ BeginRecovery
  /\ UNCHANGED <<built, last, pool, inbox, collecting, poolCell, lost, ponder,
                 workerVars, jobVars, chan, handle, handleCell, seen>>

Cleared ==
  /\ call = "clear" /\ Joined
  /\ call' = "idle" /\ pool' = Recovered /\ inbox' = {} /\ collecting' = FALSE
  /\ stopOnPonderhit' = FALSE
  /\ UNCHANGED <<built, last, poolCell, lost, flagVars, job, cell, depth,
                 jobVars, clientVars>>

DropPool(next) ==
  /\ call = "idle" /\ built
  /\ call' = next
  /\ StopPool
  /\ UNCHANGED <<built, last, pool, inbox, collecting, poolCell, lost, ponder,
                 workerVars, jobVars, chan, handle, handleCell, seen>>

SetOption == DropPool("rebuild")
Shutdown  == DropPool("drop")

Rebuilt ==
  /\ call = "rebuild" /\ Joined
  /\ call' = "idle"
  /\ FreshPool
  /\ stop' = [stop EXCEPT ![0] = FALSE] /\ ponder' = [ponder EXCEPT ![0] = FALSE]
  /\ UNCHANGED <<built, last, jobVars, clientVars>>

Dropped ==
  /\ call = "drop" /\ Joined
  /\ call' = "gone" /\ built' = FALSE
  /\ pool' = {} /\ inbox' = {} /\ collecting' = FALSE /\ lost' = Worker
  /\ UNCHANGED <<last, poolCell, flagVars, workerVars, jobVars, clientVars>>

\* Engine::stop.
EngineStop ==
  /\ call = "idle" /\ built
  /\ StopPool
  /\ UNCHANGED <<poolVars, ponder, workerVars, jobVars, chan, handle, handleCell, seen>>

-----------------------------------------------------------------------------
(***************************************************************************)
(* Handle operations.                                                       *)
(***************************************************************************)
SetStop(s) ==
  /\ stop' = [stop EXCEPT ![handleCell[s]] = TRUE]
  /\ asked' = [asked EXCEPT ![s] = @ \union {"stop"}]

HandleStop(s) ==
  /\ handle[s] = "held"
  /\ SetStop(s)
  /\ UNCHANGED <<poolVars, ponder, workerVars, jobVars, chan, handle, handleCell, seen>>

PonderHit(s) ==
  /\ handle[s] = "held"
  /\ ponder' = [ponder EXCEPT ![handleCell[s]] = FALSE]
  /\ asked' = [asked EXCEPT ![s] = @ \union {"ponderhit"}]
  /\ UNCHANGED <<poolVars, stop, workerVars, jobVars, chan, handle, handleCell, seen>>

\* Drop for SearchHandle.
DropHandle(s) ==
  /\ handle[s] = "held"
  /\ handle' = [handle EXCEPT ![s] = "ended"]
  /\ SetStop(s)
  /\ UNCHANGED <<poolVars, ponder, workerVars, jobVars, chan, handleCell, seen>>

\* What a receive finds: the one value of a full channel, or nothing left
\* and no sender, of which the caller is told `failure`.
Receive(s, failure) ==
  \/ /\ chan[s] = "full"
     /\ seen' = [seen EXCEPT ![s] = "result"]
     /\ chan' = [chan EXCEPT ![s] = "closed"]
  \/ /\ chan[s] = "closed"
     /\ seen' = [seen EXCEPT ![s] = failure]
     /\ UNCHANGED chan

\* try_result, and try_recv, which says of a closed channel what it says of an
\* empty one (then nothing changes).  Every caller in the repository stops
\* polling at the first answer.
Poll(s) ==
  /\ handle[s] = "held" /\ seen[s] = "nothing"
  /\ Receive(s, "failed")
  /\ UNCHANGED <<poolVars, flagVars, workerVars, jobVars, handle, handleCell, asked>>

\* wait_result and wait: block, and drop the handle when they return.  Of a
\* failed search wait makes an empty result, the default one.
Wait(s) ==
  /\ handle[s] = "held" /\ seen[s] = "nothing"
  /\ handle' = [handle EXCEPT ![s] = "waiting"]
  /\ UNCHANGED <<poolVars, flagVars, workerVars, jobVars, chan, handleCell, asked, seen>>

WaitReturns(s) ==
  /\ handle[s] = "waiting"
  /\ \E failure \in {"failed", "default"} : Receive(s, failure)
  /\ handle' = [handle EXCEPT ![s] = "ended"]
  /\ SetStop(s)
  /\ UNCHANGED <<poolVars, ponder, workerVars, jobVars, handleCell>>

-----------------------------------------------------------------------------
(***************************************************************************)
(* A worker thread: "head" is the test of the iterative-deepening loop,     *)
(* "tree" the search of one iteration, "park" the main worker's wait after  *)
(* the loop, "over" a finished thread whose JoinHandle holds the worker,    *)
(* "dead" one that holds none, "joined" one the collector has joined.       *)
(***************************************************************************)
Move(s, i, from, to) ==
  /\ thread[s][i] = from
  /\ thread' = [thread EXCEPT ![s][i] = to]

Stopped(i) == stop[cell[i]]
Raise(i)   == stop' = [stop EXCEPT ![cell[i]] = TRUE]

DepthReached(s) == req[s].depth > 0 /\ depth >= req[s].depth

EnterIteration(s, i) ==
  /\ Move(s, i, "head", "tree")
  /\ ~Stopped(i)
  /\ i = Main => ~DepthReached(s)
  /\ depth' = IF i = Main /\ depth < MaxDepth THEN depth + 1 ELSE depth
  /\ UNCHANGED <<poolVars, flagVars, job, cell, stopOnPonderhit, req, collector,
                 carried, failed, result, late, clientVars>>

AfterLoop(i) == IF i = Main THEN "park" ELSE "over"

\* The loop ends on a stop or, for the main worker, on its depth limit...
LeaveLoop(s, i) ==
  /\ Move(s, i, "head", AfterLoop(i))
  /\ Stopped(i) \/ (i = Main /\ DepthReached(s))
  /\ UNCHANGED <<poolVars, flagVars, workerVars, req, collector, carried, failed,
                 result, late, clientVars>>

\* ... or at MAX_PLY, which an iteration may turn out to have reached.
ReachMaxPly(s, i) ==
  /\ Move(s, i, "head", AfterLoop(i))
  /\ UNCHANGED <<poolVars, flagVars, workerVars, req, collector, carried, failed,
                 result, late, clientVars>>

\* The limits check_time enforces while the main worker visits nodes.
LimitHit_ClockOnly(s) == req[s].timed /\ (late \/ stopOnPonderhit)
LimitHit(s) ==
  \/ req[s].timed /\ (late \/ stopOnPonderhit)
  \/ req[s].budget /\ late

CheckTime_WhilePondering(s) ==
  /\ thread[s][Main] = "tree"
  /\ LimitHit(s)
  /\ Raise(Main)
  /\ UNCHANGED <<poolVars, ponder, workerVars, jobVars, clientVars>>

CheckTime(s) ==
  /\ thread[s][Main] = "tree"
  /\ ~ponder[cell[Main]]
  /\ LimitHit(s)
  /\ Raise(Main)
  /\ UNCHANGED <<poolVars, ponder, workerVars, jobVars, clientVars>>

\* A fail-low inside the aspiration window.
FailLow(s) ==
  /\ thread[s][Main] = "tree" /\ ~Stopped(Main)
  /\ stopOnPonderhit /\ stopOnPonderhit' = FALSE
  /\ UNCHANGED <<poolVars, flagVars, job, cell, depth, jobVars, clientVars>>

\* Whether the main worker's time management runs after this iteration.
Managed(s) == req[s].timed /\ ~Stopped(Main) /\ ~stopOnPonderhit

EndIteration(s, i) ==
  /\ Move(s, i, "tree", "head")
  /\ ~(i = Main /\ Managed(s))
  /\ UNCHANGED <<poolVars, flagVars, workerVars, req, collector, carried, failed,
                 result, late, clientVars>>

\* Time management: `over` says that the (evaluation-dependent) time is used
\* up or that a mate was found; past the maximum it always is.
ManageTime(s, over) ==
  /\ Move(s, Main, "tree", "head")
  /\ Managed(s)
  /\ late /\ ~req[s].budget => over
  /\ IF req[s].roots = 1 \/ (over /\ ~ponder[cell[Main]])
       THEN Raise(Main) ELSE UNCHANGED stop
  /\ stopOnPonderhit' = (over /\ ponder[cell[Main]])
  /\ UNCHANGED <<poolVars, ponder, job, cell, depth, req, collector, carried,
                 failed, result, late, clientVars>>

\* The main worker leaves its wait, and stops the helpers.
Unpark_OnPonderhitOnly(s) ==
  /\ Move(s, Main, "park", "over")
  /\ ~(ponder[cell[Main]] \/ req[s].infinite)
  /\ Raise(Main)
  /\ UNCHANGED <<poolVars, ponder, workerVars, req, collector, carried, failed,
                 result, late, clientVars>>

Unpark(s) ==
  /\ Move(s, Main, "park", "over")
  /\ Stopped(Main) \/ ~(ponder[cell[Main]] \/ req[s].infinite)
  /\ Raise(Main)
  /\ UNCHANGED <<poolVars, ponder, workerVars, req, collector, carried, failed,
                 result, late, clientVars>>

\* catch_unwind: the search is marked failed and stopped, and a new Worker
\* without root moves takes the place of the old one.
Panic(s, i) ==
  /\ thread[s][i] \in {"head", "tree"}
  /\ failed' = [failed EXCEPT ![s] = TRUE]
  /\ Raise(i)
  /\ \/ /\ Move(s, i, thread[s][i], "over")
        /\ job' = [job EXCEPT ![i] = 0]
        /\ UNCHANGED lost
     \/ \* a second panic, in the handler itself: the join will fail
        /\ Cardinality(lost) < MaxLost
        /\ Move(s, i, thread[s][i], "dead")
        /\ lost' = lost \union {i}
        /\ UNCHANGED job
  /\ depth' = IF i = Main THEN 0 ELSE depth
  /\ stopOnPonderhit' = (i # Main /\ stopOnPonderhit)
  /\ UNCHANGED <<call, built, last, pool, inbox, collecting, poolCell, ponder, cell,
                 req, collector, carried, result, late, clientVars>>

-----------------------------------------------------------------------------
(***************************************************************************)
(* The collector of a search.                                               *)
(***************************************************************************)
\* extract_search_result reports the line of the first worker under a depth
\* limit and otherwise of the worker that wins the vote of those with root moves.
First(joined) == {i \in joined : \A k \in joined : i <= k}

Reported(s, joined) ==
  LET voting == {i \in joined : job[i] # 0} IN
  IF joined = {} THEN {0}
  ELSE IF req[s].depth > 0 \/ voting = {} THEN {job[i] : i \in First(joined)}
  ELSE {job[i] : i \in voting}

Collect(s) ==
  LET joined == {i \in Worker : thread[s][i] = "over"}
  IN
  /\ collector[s] = "joining"
  /\ \A i \in Worker : thread[s][i] \in {"none", "over", "dead"}
  /\ thread' = [thread EXCEPT ![s] =
                  [i \in Worker |-> IF @[i] = "none" THEN "none" ELSE "joined"]]
  /\ carried' = [carried EXCEPT ![s] = joined]
  /\ failed' = [failed EXCEPT ![s] = @ \/ \E i \in Worker : thread[s][i] = "dead"]
  /\ IF failed'[s] THEN UNCHANGED result
     ELSE \E j \in Reported(s, joined) : result' = [result EXCEPT ![s] = j]
  /\ collector' = [collector EXCEPT ![s] = "returning"]
  /\ UNCHANGED <<poolVars, flagVars, workerVars, req, late, clientVars>>

ReturnWorkers(s) ==
  /\ collector[s] = "returning"
  /\ inbox' = inbox \union carried[s]
  /\ carried' = [carried EXCEPT ![s] = {}]
  /\ collector' = [collector EXCEPT ![s] = "sending"]
  /\ UNCHANGED <<call, built, last, pool, collecting, poolCell, lost, flagVars,
                 workerVars, req, thread, failed, result, late, clientVars>>

\* The result is sent, or the sender dropped without one.
SendResult_Unchecked(s) ==
  /\ collector[s] = "sending"
  /\ chan' = [chan EXCEPT ![s] = "full"]
  /\ collector' = [collector EXCEPT ![s] = "ended"]
  /\ UNCHANGED <<poolVars, flagVars, workerVars, req, thread, carried, failed,
                 result, late, handle, handleCell, asked, seen>>

SendResult(s) ==
  /\ collector[s] = "sending"
  /\ chan' = [chan EXCEPT ![s] = IF failed[s] THEN "closed" ELSE "full"]
  /\ collector' = [collector EXCEPT ![s] = "ended"]
  /\ UNCHANGED <<poolVars, flagVars, workerVars, req, thread, carried, failed,
                 result, late, handle, handleCell, asked, seen>>

\* Time passes (or nodes are counted) beyond what check_time allows.
Tick ==
  /\ last > 0 /\ ~late
  /\ req[last].timed \/ req[last].budget
  /\ late' = TRUE
  /\ UNCHANGED <<poolVars, flagVars, workerVars, req, thread, collector, carried,
                 failed, result, clientVars>>

-----------------------------------------------------------------------------
CallReturns == StartSearch \/ Cleared \/ Rebuilt \/ Dropped

Client ==
  \/ \E r \in Requests : Go(r)
  \/ NewGame \/ SetOption \/ Shutdown \/ EngineStop
  \/ \E s \in Search : HandleStop(s) \/ PonderHit(s) \/ DropHandle(s) \/ Poll(s) \/ Wait(s)

ThreadStep(s, i) ==
  \/ EnterIteration(s, i) \/ LeaveLoop(s, i) \/ EndIteration(s, i)
  \/ i = Main /\ \E over \in BOOLEAN : ManageTime(s, over)
  \/ i = Main /\ Unpark(s)

CollectorStep(s) == Collect(s) \/ ReturnWorkers(s) \/ SendResult(s)

Next ==
  \/ Client
  \/ CallReturns
  \/ Tick
  \/ \E s \in Search : WaitReturns(s) \/ CollectorStep(s) \/ CheckTime(s) \/ FailLow(s)
  \/ \E s \in Search, i \in Worker : ThreadStep(s, i) \/ ReachMaxPly(s, i) \/ Panic(s, i)

Spec == Init /\ [][Next]_vars

(***************************************************************************)
(* Fairness: the operating system runs every thread, a blocked call returns *)
(* when what it waits for has happened, and time passes.  check_time is     *)
(* called at least every 512 nodes, so a main worker that keeps searching   *)
(* keeps calling it.  Nothing is assumed of the application, of panics or   *)
(* of MAX_PLY being reached.                                                *)
(***************************************************************************)
Fairness ==
  /\ WF_vars(CallReturns)
  /\ WF_vars(Tick)
  /\ \A s \in Search :
       /\ WF_vars(WaitReturns(s))
       /\ WF_vars(CollectorStep(s))
       /\ SF_vars(CheckTime(s))
       /\ \A i \in Worker : WF_vars(ThreadStep(s, i))

FairSpec == Spec /\ Fairness

-----------------------------------------------------------------------------
CallType   == {"idle", "go", "clear", "rebuild", "drop", "gone"}
ThreadType == {"none", "head", "tree", "park", "over", "dead", "joined"}

PoolTypeOK ==
  /\ call \in CallType /\ built \in BOOLEAN /\ last \in Cell
  /\ pool \subseteq Worker /\ inbox \subseteq Worker /\ lost \subseteq Worker
  /\ collecting \in BOOLEAN /\ poolCell \in Cell

WorkerTypeOK ==
  /\ stop \in [Cell -> BOOLEAN] /\ ponder \in [Cell -> BOOLEAN]
  /\ job \in [Worker -> Cell] /\ cell \in [Worker -> Cell]
  /\ depth \in 0..MaxDepth /\ stopOnPonderhit \in BOOLEAN

JobTypeOK ==
  /\ req \in [Search -> RequestType]
  /\ thread \in [Search -> [Worker -> ThreadType]]
  /\ collector \in [Search -> {"none", "joining", "returning", "sending", "ended"}]
  /\ carried \in [Search -> SUBSET Worker]
  /\ failed \in [Search -> BOOLEAN]
  /\ result \in [Search -> Cell]
  /\ late \in BOOLEAN

ClientTypeOK ==
  /\ chan \in [Search -> {"none", "open", "full", "closed"}]
  /\ handle \in [Search -> {"none", "held", "waiting", "ended"}]
  /\ handleCell \in [Search -> Cell]
  /\ asked \in [Cell -> SUBSET {"stop", "ponderhit"}]
  /\ seen \in [Search -> {"nothing", "result", "failed", "default"}]

TypeOK == PoolTypeOK /\ WorkerTypeOK /\ JobTypeOK /\ ClientTypeOK

\* At most one search has threads: whatever calls replaced, cleared or
\* rebuilt the pool, every search but the latest has joined its workers and
\* its collector.  The workers share histories and the transposition table
\* on that assumption, and the Engine's doc says it joins its workers.
Quiet(s) ==
  /\ \A i \in Worker : thread[s][i] \in {"none", "joined"}
  /\ collector[s] \in {"none", "ended"}

OneSearchAtATime == \A s \in Search : s # last => Quiet(s)

\* No worker is lost or duplicated on its way through the threads, the
\* collector, the return channel and the pool, over any sequence of
\* searches, panics and rebuilt pools: a built pool's worker is in exactly
\* one of these places.
InThread(i)    == {s \in Search : thread[s][i] \notin {"none", "dead", "joined"}}
InCollector(i) == {s \in Search : i \in carried[s]}
Places(i) ==
  ({"pool"} \X {t \in {0} : i \in pool}) \union ({"inbox"} \X {t \in {0} : i \in inbox})
    \union ({"lost"} \X {t \in {0} : i \in lost})
    \union ({"thread"} \X InThread(i)) \union ({"collector"} \X InCollector(i))

WorkersConserved == built => \A i \in Worker : Cardinality(Places(i)) = 1

\* An application is told of a result only when no worker of that search
\* panicked, and the result is then the line of a worker that searched that
\* very position: never one left over from an earlier search, and never the
\* empty one of a worker rebuilt after a panic.  It is told of a failure, or
\* given wait's default result, only when a worker did panic.
AnswerIsTrue ==
  \A s \in Search :
    /\ seen[s] = "result" =>
         ~failed[s] /\ result[s] = IF req[s].roots = 0 THEN 0 ELSE s
    /\ seen[s] \in {"failed", "default"} => failed[s]

Pondering(s) == req[s].ponder /\ "ponderhit" \notin asked[s]

\* A search the application has to end: infinite without another limit, or
\* still pondering.  Exceptions the code makes: a position without root
\* moves, or a pool whose main worker was lost, where the main worker takes
\* no part; and a single root move under a clock.
Endless(s) ==
  /\ thread[s][Main] # "none"
  /\ \/ req[s].infinite /\ ~req[s].timed /\ ~req[s].budget
     \/ Pondering(s) /\ ~(req[s].timed /\ req[s].roots = 1)

\* Only the application ends such a search, through its own handle or an
\* engine call made while it is the current one: a handle of an earlier
\* search cannot, nor can a limit, a time-out or a helper thread.
EndlessWaits ==
  \A s \in Search :
    collector[s] \in {"returning", "sending", "ended"} /\ Endless(s) /\ ~failed[s]
      => "stop" \in asked[s]

-----------------------------------------------------------------------------
(***************************************************************************)
(* Liveness, for a pool that loses no worker (MaxLost = 0).                 *)
(***************************************************************************)
Resolved(s) == collector[s] = "ended"

\* A search with a limit ends on its own once it does not ponder: no
\* application has to stop it.
Limited(s) ==
  /\ collector[s] = "joining" /\ ~req[s].infinite /\ ~Pondering(s)
  /\ req[s].depth > 0 \/ req[s].timed \/ req[s].budget

LimitedEnds == \A s \in Search : Limited(s) ~> Resolved(s)

\* No engine call blocks for ever: joining the search it replaces needs no
\* help from the handle.
CallsReturn == call \in {"go", "clear", "rebuild", "drop"} ~> call \in {"idle", "gone"}

-----------------------------------------------------------------------------
(***************************************************************************)
(* The pool implements the service: what the application observes is a      *)
(* behaviour of SearchService.                                              *)
(***************************************************************************)
StatusOf(s) ==
  CASE collector[s] = "none" -> "unused"
    [] collector[s] \in {"joining", "returning", "sending"} -> "running"
    [] OTHER -> IF failed[s] THEN "failed" ELSE "answered"

\* The default result of wait stands for a failure, though nothing in it says so.
Told(s) == IF seen[s] = "default" THEN "failed" ELSE seen[s]

Service == INSTANCE SearchService WITH
  started <- last,
  status  <- [s \in Search |-> StatusOf(s)],
  endless <- [s \in Search |-> Endless(s)],
  stopped <- [s \in Search |-> "stop" \in asked[s]],
  told    <- [s \in Search |-> Told(s)]

\* Every behaviour of the pool, its threads and its handles is one the
\* service allows; for a pool that loses no worker, a stop is effective too.
ImplementsSafely  == Service!Safe
ImplementsService == Service!Spec

\* The documentation's claim (core.rs, test_search_handle_ponder_waits_for_stop:
\* "ponder search should not return until stop"), without the exception.
PonderWaitsForStop ==
  \A s \in Search :
    Resolved(s) /\ Pondering(s) /\ req[s].roots > 0 /\ ~failed[s]
      => "stop" \in asked[s]
=============================================================================
