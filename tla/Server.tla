------------------------------- MODULE Server -------------------------------
(***************************************************************************)
(* The analysis server (pikarust-app/src/server): a bounded pool of engines *)
(* that tasks lease (pool.rs), sessions bounded by a semaphore and reaped   *)
(* when idle (session.rs), WebSocket connections (ws.rs) and HTTP requests  *)
(* (http.rs).  Tokio runs the tasks concurrently and may cancel a request   *)
(* wherever it awaits; engines are initialised on blocking threads, which   *)
(* go on after their task is gone.                                          *)
(*                                                                          *)
(* Of an engine this module keeps whose search its threads run, the         *)
(* position and the options it holds.  A search ends by itself if it has a  *)
(* limit, when it is stopped, or by a panic: what SearchService promises.   *)
(*                                                                          *)
(* An operator Name_Change is a variant of Name with a plausible bug, which *)
(* a property must notice; no specification uses one.                       *)
(***************************************************************************)
EXTENDS Naturals, Sequences, FiniteSets, Functions

CONSTANTS
  Conn,          \* WebSocket connections
  Req,           \* HTTP requests
  Nobody,        \* not a task
  MaxEngines,    \* PoolConfig::max_engines
  MaxSessions,   \* ServerConfig::max_sessions
  Commands,      \* the commands clients send
  MaxCommands    \* bound: commands of all connections

ASSUME TaskAssumption ==
  IsFiniteSet(Conn) /\ IsFiniteSet(Req) /\ Conn \cap Req = {} /\ Nobody \notin Conn \cup Req
ASSUME SizeAssumption == MaxEngines \in Nat /\ MaxSessions \in Nat /\ MaxCommands \in Nat

Task     == Conn \cup Req
Engine   == 1..MaxEngines
NoEngine == 0
Start    == <<>>                       \* the initial position
Position == {Start} \cup (Task \X (0..MaxCommands))
AllCommands == {"position", "go", "stop", "ponderhit", "ucinewgame", "setoption", "other"}

ASSUME CommandAssumption == Commands \subseteq AllCommands

VARIABLES
  total,      \* engines and reservations (PoolState::total)
  available,  \* engines in the pool (PoolState::available)
  reserved,   \* tasks whose lease has no engine yet
  lease,      \* the engine of each task's lease
  network,    \* the outcome of loading the model, cached for ever
  boot,       \* progress of each task's initialisation thread
  permits,    \* free permits of the session semaphore
  holds,      \* the connections that hold one
  life,       \* each connection's session: in the map ("open"), or how far destroyed
  idle,       \* sessions whose last_active is older than the timeout
  todo,       \* sessions cleanup_idle has found idle by its `now`, not yet read
  expired,    \* sessions it will destroy
  victim,     \* the session it is destroying
  runs,       \* whose search occupies each engine's threads
  stop,       \* tasks whose latest search has its stop flag set
  limit,      \* what each task's latest search waits for
  finished,   \* tasks whose search has an unread result
  pos, opts,  \* an engine's position; the tasks whose options it has
  pc, cmd,    \* where a task is, and the command it executes
  left,       \* commands the connections may still send
  want,       \* the position the client of each task was told it has
  active,     \* the `go` whose handle a connection holds, 0 for none
  gos,        \* `go` commands executed
  replies     \* the `go` commands answered, in order

poolVars   == <<total, available, reserved, lease, network, boot>>
permitVars == <<permits, holds>>
sweepVars  == <<idle, todo, expired, victim>>
searchVars == <<runs, stop, limit, finished>>
setupVars  == <<pos, opts, want>>
talkVars   == <<cmd, left, active, gos, replies>>
vars == <<poolVars, permitVars, life, sweepVars, searchVars, setupVars, pc, talkVars>>

Init ==
  /\ total = 0 /\ available = <<>> /\ reserved = {} /\ network = "unset"
  /\ lease = [t \in Task |-> NoEngine]
  /\ boot = [t \in Task |-> "none"]
  /\ permits = MaxSessions /\ holds = {}
  /\ life = [c \in Conn |-> "none"]
  /\ idle = {} /\ todo = {} /\ expired = {} /\ victim = Nobody
  /\ runs = [e \in Engine |-> Nobody]
  /\ stop = {} /\ finished = {}
  /\ limit = [t \in Task |-> "limited"]
  /\ pos = [e \in Engine |-> Start] /\ opts = [e \in Engine |-> {}]
  /\ want = [t \in Task |-> Start]
  /\ pc = [t \in Task |-> "new"]
  /\ cmd = [c \in Conn |-> "other"] /\ left = MaxCommands
  /\ active = [c \in Conn |-> 0] /\ gos = [c \in Conn |-> 0]
  /\ replies = [c \in Conn |-> <<>>]

Goto(t, place) == pc' = [pc EXCEPT ![t] = place]

-----------------------------------------------------------------------------
(***************************************************************************)
(* The pool.  Under one lock, acquire pops an engine or reserves capacity;  *)
(* the initialisation thread makes the engine of a reservation, then starts *)
(* a new game on it, which joins its previous owner's search, and sets the  *)
(* options.                                                                 *)
(***************************************************************************)
HasCapacity == total < MaxEngines

Popped_Peeked == available
Popped == SubSeq(available, 1, Len(available) - 1)

Acquire(t) ==
  \/ /\ available # <<>>
     /\ lease' = [lease EXCEPT ![t] = available[Len(available)]]
     /\ available' = Popped
     /\ boot' = [boot EXCEPT ![t] = "reset"]
     /\ UNCHANGED <<total, reserved, network>>
  \/ /\ available = <<>> /\ HasCapacity
     /\ total' = total + 1
     /\ reserved' = reserved \cup {t}
     /\ boot' = [boot EXCEPT ![t] = "load"]
     /\ UNCHANGED <<available, lease, network>>

Exhausted == available = <<>> /\ ~HasCapacity

SearchOf(e) == IF e = NoEngine THEN {} ELSE {runs[e]} \ {Nobody}

\* Drop for EngineLease: the engine is stopped and goes back to the pool, a
\* reservation without an engine is cancelled.
ReturnLease_KeepsReservation(t) ==
  /\ lease' = [lease EXCEPT ![t] = NoEngine]
  /\ reserved' = reserved \ {t}
  /\ UNCHANGED total
  /\ IF lease[t] # NoEngine
     THEN available' = Append(available, lease[t])
     ELSE UNCHANGED available

ReturnLease(t) ==
  /\ lease' = [lease EXCEPT ![t] = NoEngine]
  /\ reserved' = reserved \ {t}
  /\ IF lease[t] # NoEngine
     THEN available' = Append(available, lease[t]) /\ UNCHANGED total
     ELSE total' = total - 1 /\ UNCHANGED available

StoppedBy_Nothing(t) == stop
StoppedBy(t) == stop \cup SearchOf(lease[t])

DropLease(t) == ReturnLease(t) /\ stop' = StoppedBy(t)

\* The task no longer awaits its initialisation thread.
Abandoned(t) == pc[t] = "cancelled"

BootFails_KeepsLease(t) ==
  /\ boot' = [boot EXCEPT ![t] = "failed"]
  /\ UNCHANGED <<total, available, reserved, lease, searchVars>>

BootFails(t) ==
  /\ boot' = [boot EXCEPT ![t] = "failed"]
  /\ DropLease(t)
  /\ UNCHANGED <<runs, limit, finished>>

NewEngines == Engine \ (Range(available) \cup Range(lease))

\* The first initialisation loads the model; its outcome, good or bad, is
\* what all later ones get.  Making the engine may fail with a good one too.
Load(t) ==
  /\ boot[t] = "load"
  /\ network' \in IF network = "unset" THEN {"ok", "bad"} ELSE {network}
  /\ \/ /\ network' = "ok"
        /\ \E e \in NewEngines : lease' = [lease EXCEPT ![t] = e]
        /\ reserved' = reserved \ {t}
        /\ boot' = [boot EXCEPT ![t] = "reset"]
        /\ UNCHANGED <<total, available, searchVars>>
     \/ BootFails(t)
  /\ UNCHANGED <<permitVars, life, sweepVars, setupVars, pc, talkVars>>

ResetOptions_Kept(e) == opts[e]
ResetOptions(e) == {}

\* new_game puts the position back while the old search may still wind down
\* (it has a copy of its own), and only then, in ThreadPool::clear, stops that
\* search and joins it.
Rewind(t) ==
  /\ boot[t] = "reset"
  /\ pos' = [pos EXCEPT ![lease[t]] = Start]
  /\ stop' = stop \cup SearchOf(lease[t])
  /\ boot' = [boot EXCEPT ![t] = "join"]
  /\ UNCHANGED <<total, available, reserved, lease, network, permitVars, life, sweepVars,
                 runs, limit, finished, opts, want, pc, talkVars>>

\* Once it is joined the options are set.  The lease that comes out of the
\* thread is dropped with the abandoned task's result.
Reset(t) ==
  LET e == lease[t] IN
  /\ boot[t] = "join" /\ runs[e] = Nobody
  /\ opts' = [opts EXCEPT ![e] = ResetOptions(e)]
  /\ \/ Abandoned(t) /\ BootFails(t)
     \/ /\ ~Abandoned(t)
        /\ boot' = [boot EXCEPT ![t] = "ready"]
        /\ UNCHANGED <<total, available, reserved, lease, searchVars>>
  /\ UNCHANGED <<network, permitVars, life, sweepVars, pos, want, pc, talkVars>>

\* Loading or resetting panics, or resetting fails: the lease is dropped.
BootPanics(t) ==
  /\ boot[t] \in {"load", "reset", "join"}
  /\ BootFails(t)
  /\ UNCHANGED <<network, permitVars, life, sweepVars, setupVars, pc, talkVars>>

-----------------------------------------------------------------------------
\* Searches, as SearchService promises them.
StartSearch(t, l) ==
  /\ runs[lease[t]] = Nobody
  /\ runs' = [runs EXCEPT ![lease[t]] = t]
  /\ limit' = [limit EXCEPT ![t] = l]
  /\ UNCHANGED <<stop, finished>>

\* The result waits in the channel of the search's handle, if there is one.
HasHandle(t) == IF t \in Req THEN pc[t] = "wait" ELSE active[t] # 0

SearchOver(e) ==
  /\ runs' = [runs EXCEPT ![e] = Nobody]
  /\ finished' = IF HasHandle(runs[e]) THEN finished \cup {runs[e]} ELSE finished
  /\ stop' = stop \ {runs[e]}
  /\ limit' = [limit EXCEPT ![runs[e]] = "limited"]
  /\ UNCHANGED <<poolVars, permitVars, life, sweepVars, setupVars, pc, talkVars>>

SearchEnds(e) ==
  /\ runs[e] # Nobody
  /\ runs[e] \in stop \/ limit[runs[e]] = "limited"
  /\ SearchOver(e)

SearchPanics(e) == runs[e] # Nobody /\ SearchOver(e)

-----------------------------------------------------------------------------
\* An HTTP request: evaluate or bestmove.  Dropping its future anywhere it
\* awaits drops the search's handle, which stops the search, and the lease.
RequestAcquire(t) ==
  /\ pc[t] = "new"
  /\ \/ Acquire(t) /\ Goto(t, "boot")
     \/ Exhausted /\ Goto(t, "done") /\ UNCHANGED poolVars
  /\ UNCHANGED <<permitVars, life, sweepVars, searchVars, setupVars, talkVars>>

RequestFailed(t) ==
  /\ pc[t] = "boot" /\ boot[t] = "failed"
  /\ Goto(t, "done")
  /\ UNCHANGED <<poolVars, permitVars, life, sweepVars, searchVars, setupVars, talkVars>>

\* A bad FEN returns early, bad limits after the position is set.
RequestSearch(t) ==
  LET Rejected == /\ DropLease(t) /\ Goto(t, "done")
                  /\ UNCHANGED <<runs, limit, finished>>
  IN
  /\ pc[t] = "boot" /\ boot[t] = "ready"
  /\ \/ Rejected /\ UNCHANGED <<pos, want>>
     \/ /\ pos' = [pos EXCEPT ![lease[t]] = <<t, 0>>]
        /\ want' = [want EXCEPT ![t] = <<t, 0>>]
        /\ \/ Rejected
           \/ /\ StartSearch(t, "limited") /\ Goto(t, "wait")
              /\ UNCHANGED <<total, available, reserved, lease>>
  /\ UNCHANGED <<network, boot, permitVars, life, sweepVars, opts, talkVars>>

RequestAnswered(t) ==
  /\ pc[t] = "wait" /\ t \in finished
  /\ finished' = finished \ {t}
  /\ DropLease(t) /\ Goto(t, "done")
  /\ UNCHANGED <<network, boot, permitVars, life, sweepVars, runs, limit, setupVars, talkVars>>

RequestCancelled(t) ==
  /\ pc[t] \in {"boot", "wait"} /\ Goto(t, "cancelled")
  /\ IF boot[t] = "ready"
     THEN DropLease(t)
     ELSE UNCHANGED <<total, available, reserved, lease, stop>>
  /\ finished' = finished \ {t}
  /\ UNCHANGED <<network, boot, permitVars, life, sweepVars, runs, limit, setupVars, talkVars>>

-----------------------------------------------------------------------------
(***************************************************************************)
(* Sessions.  A connection takes a permit, then a lease, and enters the     *)
(* map.  Destroying removes it from the map, which only one destroyer can,  *)
(* then drops the lease, then the permit.                                   *)
(***************************************************************************)
TakePermit(c) ==
  /\ pc[c] = "new"
  /\ \/ /\ permits > 0
        /\ permits' = permits - 1 /\ holds' = holds \cup {c}
        /\ Goto(c, "acquire")
     \/ permits = 0 /\ Goto(c, "closed") /\ UNCHANGED permitVars
  /\ UNCHANGED <<poolVars, life, sweepVars, searchVars, setupVars, talkVars>>

DropPermit_Forgotten(c) == holds' = holds \ {c} /\ UNCHANGED permits
DropPermit(c) == holds' = holds \ {c} /\ permits' = permits + 1

SessionAcquire(c) ==
  /\ pc[c] = "acquire"
  /\ \/ Acquire(c) /\ Goto(c, "boot") /\ UNCHANGED permitVars
     \/ Exhausted /\ DropPermit(c) /\ Goto(c, "closed") /\ UNCHANGED poolVars
  /\ UNCHANGED <<life, sweepVars, searchVars, setupVars, talkVars>>

SessionFailed(c) ==
  /\ pc[c] = "boot" /\ boot[c] = "failed"
  /\ DropPermit(c) /\ Goto(c, "closed")
  /\ UNCHANGED <<poolVars, life, sweepVars, searchVars, setupVars, talkVars>>

OpenSession(c) ==
  /\ pc[c] = "boot" /\ boot[c] = "ready"
  /\ life' = [life EXCEPT ![c] = "open"]
  /\ Goto(c, "hello")
  /\ UNCHANGED <<poolVars, permitVars, sweepVars, searchVars, setupVars, talkVars>>

Remove(c) ==
  life' = IF life[c] = "open" THEN [life EXCEPT ![c] = "removed"] ELSE life

TakeEngine(c) ==
  /\ life[c] = "removed"
  /\ life' = [life EXCEPT ![c] = "taken"]
  /\ DropLease(c)
  /\ UNCHANGED <<network, boot, permitVars, sweepVars, runs, limit, finished, setupVars, pc, talkVars>>

ReleasePermit_WithConnection(c) ==
  /\ life[c] = "taken" /\ pc[c] = "closed"
  /\ life' = [life EXCEPT ![c] = "gone"]
  /\ DropPermit(c)
  /\ UNCHANGED <<poolVars, sweepVars, searchVars, setupVars, pc, talkVars>>

ReleasePermit(c) ==
  /\ life[c] = "taken"
  /\ life' = [life EXCEPT ![c] = "gone"]
  /\ DropPermit(c)
  /\ UNCHANGED <<poolVars, sweepVars, searchVars, setupVars, pc, talkVars>>

-----------------------------------------------------------------------------
\* cleanup_idle, every minute: the sessions of the map, one read of each
\* last_active against an earlier `now`, then one destruction after another.
GrowIdle(c) ==
  /\ life[c] = "open" /\ c \notin idle
  /\ idle' = idle \cup {c}
  /\ UNCHANGED <<poolVars, permitVars, life, todo, expired, victim, searchVars, setupVars, pc, talkVars>>

\* A session touched after `now` is read as active.
Touch(c) == idle' = idle \ {c} /\ todo' = todo \ {c}

Resting == todo = {} /\ expired = {} /\ victim = Nobody

SweepStart ==
  /\ Resting
  /\ todo' = {c \in idle : life[c] = "open"} /\ todo' # {}
  /\ UNCHANGED <<poolVars, permitVars, life, idle, expired, victim, searchVars, setupVars, pc, talkVars>>

SweepRead(c) ==
  /\ c \in todo
  /\ todo' = todo \ {c} /\ expired' = expired \cup {c}
  /\ UNCHANGED <<poolVars, permitVars, life, idle, victim, searchVars, setupVars, pc, talkVars>>

SweepDestroy(c) ==
  /\ todo = {} /\ victim = Nobody /\ c \in expired
  /\ expired' = expired \ {c}
  /\ victim' = IF life[c] = "open" THEN c ELSE Nobody
  /\ Remove(c)
  /\ UNCHANGED <<poolVars, permitVars, idle, todo, searchVars, setupVars, pc, talkVars>>

SweepDestroyed ==
  /\ victim # Nobody /\ life[victim] = "gone"
  /\ victim' = Nobody
  /\ UNCHANGED <<poolVars, permitVars, life, idle, todo, expired, searchVars, setupVars, pc, talkVars>>

-----------------------------------------------------------------------------
(***************************************************************************)
(* A connection's loop selects between the end of the socket, a poll of the *)
(* active search and a message.  A command that changes the engine or ends  *)
(* the search stops it and waits for its answer first ("finish").           *)
(***************************************************************************)
Finishing == {"go", "stop", "position", "ucinewgame", "setoption"}
EndsActive_NotPosition(k) == k \in Finishing \ {"position"}
EndsActive_NotGo(k) == k \in Finishing \ {"go"}
EndsActive(k) == k \in Finishing

\* The stop flag of the active search; after its end nobody reads it.
Cancelled(c) == IF active[c] # 0 /\ c \notin finished THEN stop \cup {c} ELSE stop

Hello(c) ==
  /\ pc[c] = "hello"
  /\ pc' \in {[pc EXCEPT ![c] = "loop"], [pc EXCEPT ![c] = "bye"]}
  /\ UNCHANGED <<poolVars, permitVars, life, sweepVars, searchVars, setupVars, talkVars>>

Receive(c, k) ==
  /\ pc[c] = "loop" /\ left > 0
  /\ left' = left - 1
  /\ cmd' = [cmd EXCEPT ![c] = k]
  /\ Touch(c)
  /\ IF EndsActive(k) /\ active[c] # 0
     THEN stop' = Cancelled(c) /\ Goto(c, "finish")
     ELSE Goto(c, "execute") /\ UNCHANGED stop
  /\ UNCHANGED <<poolVars, permitVars, life, expired, victim, runs, limit, finished,
                 setupVars, active, gos, replies>>

\* The answer to the active search, a best move or an error.
Answer(c) ==
  /\ active[c] # 0 /\ c \in finished
  /\ replies' = [replies EXCEPT ![c] = Append(@, active[c])]
  /\ active' = [active EXCEPT ![c] = 0]
  /\ finished' = finished \ {c} /\ stop' = stop \ {c}
  /\ UNCHANGED <<poolVars, permitVars, life, sweepVars, runs, limit, setupVars, cmd, left, gos>>

Poll(c)   == pc[c] = "loop" /\ Answer(c) /\ UNCHANGED pc
Finish(c) == pc[c] = "finish" /\ Answer(c) /\ Goto(c, "execute")

\* A position is set, rejected, or silently ignored after the session expired.
SetPosition(c) ==
  LET p == IF cmd[c] = "ucinewgame" THEN Start ELSE <<c, left>> IN
  /\ cmd[c] \in {"position", "ucinewgame"}
  /\ Touch(c)
  /\ \/ /\ lease[c] # NoEngine
        /\ pos' = [pos EXCEPT ![lease[c]] = p] /\ want' = [want EXCEPT ![c] = p]
        /\ UNCHANGED opts
     \/ (cmd[c] = "position" \/ lease[c] = NoEngine) /\ UNCHANGED setupVars
  /\ UNCHANGED <<poolVars, searchVars, active, gos, replies>>

\* An option is set, rejected, silently ignored after the session expired, or
\* refused at once if it is the server's (Threads, Hash).
SetOption(c) ==
  /\ cmd[c] = "setoption"
  /\ \/ /\ lease[c] # NoEngine /\ Touch(c)
        /\ opts' = [opts EXCEPT ![lease[c]] = @ \cup {c}]
     \/ Touch(c) /\ UNCHANGED opts
     \/ UNCHANGED <<idle, todo, opts>>
  /\ UNCHANGED <<poolVars, searchVars, pos, want, active, gos, replies>>

\* An expired session and bad limits are answered with an error.
Go(c) ==
  /\ cmd[c] = "go"
  /\ gos' = [gos EXCEPT ![c] = @ + 1]
  /\ \/ /\ lease[c] # NoEngine
        /\ \E l \in {"limited", "ponder", "infinite"} : StartSearch(c, l)
        /\ active' = [active EXCEPT ![c] = gos[c] + 1]
        /\ UNCHANGED replies
     \/ /\ replies' = [replies EXCEPT ![c] = Append(@, gos[c] + 1)]
        /\ UNCHANGED <<searchVars, active>>
  /\ UNCHANGED <<poolVars, idle, todo, setupVars>>

PonderHit(c) ==
  /\ cmd[c] = "ponderhit"
  /\ limit' = IF active[c] # 0 /\ limit[c] = "ponder"
              THEN [limit EXCEPT ![c] = "limited"] ELSE limit
  /\ UNCHANGED <<poolVars, idle, todo, runs, stop, finished, setupVars, active, gos, replies>>

NothingMore(c) ==
  /\ cmd[c] \in {"stop", "other"}
  /\ UNCHANGED <<poolVars, idle, todo, searchVars, setupVars, active, gos, replies>>

Execute(c) ==
  /\ pc[c] = "execute" /\ Goto(c, "loop")
  /\ SetPosition(c) \/ SetOption(c) \/ Go(c) \/ PonderHit(c) \/ NothingMore(c)
  /\ cmd' = [cmd EXCEPT ![c] = "other"]
  /\ UNCHANGED <<permitVars, life, expired, victim, left>>

\* The socket closed: the handle is dropped, which stops its search.
Leave(c) ==
  /\ pc[c] = "loop" /\ Goto(c, "bye")
  /\ stop' = Cancelled(c)
  /\ active' = [active EXCEPT ![c] = 0]
  /\ finished' = finished \ {c}
  /\ UNCHANGED <<poolVars, permitVars, life, sweepVars, runs, limit, setupVars,
                 cmd, left, gos, replies>>

Bye(c) ==
  /\ pc[c] = "bye" /\ Goto(c, "closed")
  /\ Remove(c)
  /\ UNCHANGED <<poolVars, permitVars, sweepVars, searchVars, setupVars, talkVars>>

-----------------------------------------------------------------------------
BootStep(t) == Load(t) \/ Rewind(t) \/ Reset(t)
RequestStep(t) ==
  RequestAcquire(t) \/ RequestFailed(t) \/ RequestSearch(t) \/ RequestAnswered(t)
SessionStep(c) ==
  \/ TakePermit(c) \/ SessionAcquire(c) \/ SessionFailed(c) \/ OpenSession(c)
  \/ TakeEngine(c) \/ ReleasePermit(c)
TalkStep(c) ==
  \/ Hello(c) \/ Poll(c) \/ Finish(c) \/ Execute(c)
  \/ \E k \in Commands : Receive(c, k)
SweepStep == SweepStart \/ SweepDestroyed \/ \E c \in Conn : SweepRead(c) \/ SweepDestroy(c)

Next ==
  \/ \E t \in Task : BootStep(t) \/ BootPanics(t)
  \/ \E t \in Req : RequestStep(t) \/ RequestCancelled(t)
  \/ \E c \in Conn : SessionStep(c) \/ TalkStep(c) \/ GrowIdle(c) \/ Leave(c) \/ Bye(c)
  \/ \E e \in Engine : SearchEnds(e) \/ SearchPanics(e)
  \/ SweepStep

Spec == Init /\ [][Next]_vars

\* Threads and tasks are scheduled and time passes.  Nothing is assumed of the
\* clients: what they send, whether they read the answers (TalkStep waits for
\* room in the outgoing channel), and when they leave.
FairSpec ==
  /\ Spec
  /\ \A t \in Task : WF_vars(BootStep(t))
  /\ \A t \in Req : WF_vars(RequestStep(t))
  /\ \A c \in Conn : WF_vars(SessionStep(c)) /\ WF_vars(Bye(c)) /\ WF_vars(GrowIdle(c))
  /\ \A e \in Engine : WF_vars(SearchEnds(e))
  /\ WF_vars(SweepStep)

-----------------------------------------------------------------------------
TypeOK ==
  /\ total \in 0..MaxEngines /\ available \in Seq(Engine)
  /\ reserved \subseteq Task /\ lease \in [Task -> 0..MaxEngines]
  /\ network \in {"unset", "ok", "bad"}
  /\ boot \in [Task -> {"none", "load", "reset", "join", "ready", "failed"}]
  /\ permits \in 0..MaxSessions /\ holds \subseteq Conn
  /\ life \in [Conn -> {"none", "open", "removed", "taken", "gone"}]
  /\ idle \subseteq Conn /\ todo \subseteq Conn /\ expired \subseteq Conn
  /\ victim \in Conn \cup {Nobody}
  /\ runs \in [Engine -> Task \cup {Nobody}]
  /\ stop \subseteq Task /\ finished \subseteq Task
  /\ limit \in [Task -> {"limited", "ponder", "infinite"}]
  /\ pos \in [Engine -> Position] /\ want \in [Task -> Position]
  /\ opts \in [Engine -> SUBSET Task]
  /\ pc \in [Task -> {"new", "acquire", "boot", "wait", "hello", "loop", "finish",
                      "execute", "bye", "closed", "done", "cancelled"}]
  /\ cmd \in [Conn -> AllCommands] /\ left \in 0..MaxCommands
  /\ active \in [Conn -> 0..MaxCommands] /\ gos \in [Conn -> 0..MaxCommands]
  /\ replies \in [Conn -> Seq(1..MaxCommands)]

\* No engine is leased twice, or leased while it is in the pool.
Leased == {t \in Task : lease[t] # NoEngine}

OneOwner ==
  /\ \A i, j \in DOMAIN available : available[i] = available[j] => i = j
  /\ \A t \in Leased :
       /\ \A i \in DOMAIN available : available[i] # lease[t]
       /\ \A u \in Leased : lease[t] = lease[u] => t = u

\* Capacity is conserved and respected: whatever fails, panics or is cancelled,
\* `total` counts the engines in the pool, those of the leases, and the
\* reservations under way.
CapacityConserved ==
  /\ total = Len(available) + Cardinality(reserved) + Cardinality(Leased)
  /\ total <= MaxEngines

\* Permits are conserved, and a session's engine or reservation is always
\* covered by its permit: sessions never hold more engines than max_sessions.
PermitsConserved ==
  /\ permits + Cardinality(holds) = MaxSessions
  /\ \A c \in Conn : lease[c] # NoEngine \/ c \in reserved => c \in holds

\* An engine in the pool has been told to stop: whoever dropped it, on which
\* path ever, no unlimited search keeps its threads.
PooledIsStopped ==
  \A i \in DOMAIN available : SearchOf(available[i]) \subseteq stop

\* A task finds in its engine the position it set last (the initial one before
\* that), and no options but its own, whoever had the engine before.
OwnSetup ==
  \A t \in Leased : boot[t] = "ready" =>
    pos[lease[t]] = want[t] /\ opts[lease[t]] \subseteq {t}

\* While a connection lasts, its `go` commands are answered once each and in
\* order, and the next one does not start before.
AnsweredInOrder ==
  \A c \in Conn : pc[c] \in {"loop", "finish", "execute"} =>
    /\ replies[c] = [i \in 1..Len(replies[c]) |-> i]
    /\ Len(replies[c]) = gos[c] - (IF active[c] = 0 THEN 0 ELSE 1)

\* While a search runs, nobody touches the options of its engine, and the
\* position only the initialisation for the next owner: of a search whose task
\* has given the engine up and which has been told to stop.
OwnersUndisturbed ==
  [][\A e \in Engine : runs[e] # Nobody =>
       /\ pos'[e] # pos[e] => lease[runs[e]] # e /\ runs[e] \in stop
       /\ opts'[e] = opts[e]]_vars

\* The README's idle timeout (PIKARUST_IDLE_TIMEOUT): a session cleanup_idle
\* destroys has been idle for that long.
OnlyIdleReaped ==
  [][\A c \in Conn : victim' = c /\ victim # c => c \in idle]_vars

\* An initialisation ends, and gives capacity back if nobody wants its lease.
BootEnds ==
  \A t \in Task :
    /\ boot[t] \in {"load", "reset", "join"} ~> boot[t] \notin {"load", "reset", "join"}
    /\ t \in Req => (lease[t] # NoEngine \/ t \in reserved ~> t \notin Leased \cup reserved)

\* A session whose client falls silent or leaves gives back its engine and
\* its permit, whether or not the client reads, and a search whose task has
\* no lease on the engine any more ends.
SessionEnds ==
  /\ \A c \in Conn : life[c] = "open" ~> c \notin holds \cup Leased
  /\ \A e \in Engine, t \in Task : runs[e] = t /\ lease[t] # e ~> runs[e] # t
=============================================================================
