------------------------- MODULE SearchPool_proofs -------------------------
(***************************************************************************)
(* Proofs about SearchPool, for every number of workers, searches, depths   *)
(* and requests.                                                            *)
(***************************************************************************)
EXTENDS SearchPool, FiniteSetTheorems, TLAPS

\* What the calls know of the searches: a pool exists once a search has
\* started (until the engine is dropped), and a `go` in progress has a
\* number for its search.
CallInv ==
  /\ call = "go" => last < MaxSearches
  /\ call \in {"go", "clear", "rebuild", "drop"} => built
  /\ ~built => last = 0 \/ call = "gone"

\* A collector that is past its joins, or not there, has no thread to join.
CollectorInv ==
  \A s \in Search : collector[s] # "joining" =>
    \A i \in Worker : thread[s][i] \in {"none", "joined"}

\* A pool without a collector to join has no search running.
PoolInv == ~collecting => \A s \in Search : Quiet(s)

IInv == TypeOK /\ CallInv /\ CollectorInv /\ PoolInv /\ OneSearchAtATime

-----------------------------------------------------------------------------
LEMMA Zero == 0 \in Cell /\ Main \in Worker /\ Search \subseteq Cell
  BY SearchesAssumption, NAssumption DEF Cell, Worker, Main, Search

LEMMA InitIInv == Init => IInv
<1> SUFFICES ASSUME Init PROVE IInv
  OBVIOUS
<1>1. PoolTypeOK
  BY Zero DEF Init, PoolTypeOK, CallType
<1>2. WorkerTypeOK
  <2>1. depth \in 0..MaxDepth
    BY DepthAssumption DEF Init
  <2> QED
    BY <2>1, Zero DEF Init, WorkerTypeOK
<1>3. NoRequest \in RequestType
  BY DepthAssumption DEF NoRequest, RequestType
<1>4. JobTypeOK
  BY <1>3, Zero DEF Init, JobTypeOK, ThreadType
<1>5. ClientTypeOK
  BY Zero DEF Init, ClientTypeOK
<1>6. CallInv /\ CollectorInv /\ PoolInv /\ OneSearchAtATime
  BY DEF Init, CallInv, CollectorInv, PoolInv, OneSearchAtATime, Quiet
<1> QED
  BY <1>1, <1>2, <1>4, <1>5, <1>6 DEF IInv, TypeOK

\* The steps that change nothing a type says more than "a member of its set"
\* about need their definition and the types only.
LEMMA TypeStep == TypeOK /\ CallInv /\ [Next]_vars => TypeOK'
<1> SUFFICES ASSUME TypeOK, CallInv, [Next]_vars PROVE TypeOK'
  OBVIOUS
<1> USE Zero
    DEF TypeOK, PoolTypeOK, WorkerTypeOK, JobTypeOK, ClientTypeOK, CallType, ThreadType,
        poolVars, flagVars, workerVars, jobVars, clientVars
<1>1. StopPool => /\ stop' \in [Cell -> BOOLEAN]
                  /\ asked' \in [Cell -> SUBSET {"stop", "ponderhit"}]
  BY DEF StopPool
<1>2. BeginRecovery => /\ stop' \in [Cell -> BOOLEAN]
                       /\ asked' \in [Cell -> SUBSET {"stop", "ponderhit"}]
  BY <1>1 DEF BeginRecovery
<1>3. ASSUME NEW r \in Requests, Go(r) PROVE TypeOK'
  <2> DEFINE PoolVarsTyped ==
         /\ pool \subseteq Worker /\ inbox \subseteq Worker /\ lost \subseteq Worker
         /\ collecting \in BOOLEAN /\ poolCell \in Cell
         /\ job \in [Worker -> Cell] /\ cell \in [Worker -> Cell]
         /\ stopOnPonderhit \in BOOLEAN
  <2>a. ASSUME FreshPool PROVE PoolVarsTyped' /\ depth' = 0
    BY <2>a DEF FreshPool
  <2>c. PoolVarsTyped' /\ (depth' = 0 \/ depth' = depth)
    BY <1>3, <2>a DEF Go
  <2>d. call' \in CallType /\ built' \in BOOLEAN /\ last' \in Cell
    BY <1>3 DEF Go
  <2>1. PoolTypeOK' /\ job' \in [Worker -> Cell] /\ cell' \in [Worker -> Cell]
    BY <2>c, <2>d
  <2>2. depth' \in 0..MaxDepth /\ stopOnPonderhit' \in BOOLEAN
    <3>1. depth' \in 0..MaxDepth
      BY <2>c, DepthAssumption
    <3> QED
      BY <2>c, <3>1
  <2>3. WorkerTypeOK' /\ ClientTypeOK'
    BY <1>2, <1>3, <2>1, <2>2 DEF Go
  <2>4. JobTypeOK'
    BY <1>3, RequestsAssumption DEF Go
  <2> QED
    BY <2>1, <2>3, <2>4
<1>4. CASE NewGame
  BY <1>2, <1>4 DEF NewGame
<1>5. CASE SetOption
  BY <1>1, <1>5 DEF SetOption, DropPool
<1>6. CASE Shutdown
  BY <1>1, <1>6 DEF Shutdown, DropPool
<1>7. CASE EngineStop
  BY <1>1, <1>7 DEF EngineStop
<1>8. ASSUME NEW s \in Search, HandleStop(s) PROVE TypeOK'
  BY <1>8 DEF HandleStop, SetStop
<1>9. ASSUME NEW s \in Search, PonderHit(s) PROVE TypeOK'
  BY <1>9 DEF PonderHit
<1>10. ASSUME NEW s \in Search, DropHandle(s) PROVE TypeOK'
  BY <1>10 DEF DropHandle, SetStop
<1>11. ASSUME NEW s \in Search, Poll(s) PROVE TypeOK'
  BY <1>11 DEF Poll, Receive
<1>12. ASSUME NEW s \in Search, Wait(s) PROVE TypeOK'
  BY <1>12 DEF Wait
<1>13. ASSUME NEW s \in Search, WaitReturns(s) PROVE TypeOK'
  BY <1>13 DEF WaitReturns, Receive, SetStop
<1>14. CASE StartSearch
  <2> DEFINE s == last + 1
             searching == IF req[s].roots = 0 THEN {} ELSE Recovered
  <2>1. s \in Search /\ s \in Cell
    BY <1>14, SearchesAssumption DEF StartSearch, CallInv, Search, Cell
  <2>2. req[s] \in RequestType /\ req[s].ponder \in BOOLEAN
    BY <2>1 DEF RequestType
  <2>3. searching \subseteq Worker /\ Recovered \subseteq Worker
    BY DEF Recovered
  <2> HIDE DEF s, searching
  <2>4. PoolTypeOK'
    BY <1>14, <2>1, <2>3 DEF StartSearch, NewCell, s, searching
  <2>5. WorkerTypeOK'
    <3>1. stop' \in [Cell -> BOOLEAN] /\ ponder' \in [Cell -> BOOLEAN]
      BY <1>14, <2>1, <2>2 DEF StartSearch, NewCell, s
    <3>2. job' \in [Worker -> Cell] /\ cell' \in [Worker -> Cell]
      BY <1>14, <2>1 DEF StartSearch, NewCell, s
    <3>3. depth' \in 0..MaxDepth
      BY <1>14, DepthAssumption DEF StartSearch
    <3>4. stopOnPonderhit' \in BOOLEAN
      BY <1>14 DEF StartSearch
    <3> QED
      BY <3>1, <3>2, <3>3, <3>4
  <2>6. JobTypeOK'
    BY <1>14, <2>1 DEF StartSearch, s
  <2>7. ClientTypeOK'
    BY <1>14, <2>1 DEF StartSearch, NewCell, s
  <2> QED
    BY <2>4, <2>5, <2>6, <2>7
<1>15. CASE Cleared
  BY <1>15 DEF Cleared, Recovered
<1>16. CASE Rebuilt
  <2>1. depth' \in 0..MaxDepth
    BY <1>16, DepthAssumption DEF Rebuilt, FreshPool
  <2>2. PoolTypeOK' /\ JobTypeOK' /\ ClientTypeOK'
    BY <1>16 DEF Rebuilt, FreshPool
  <2>3. stop' \in [Cell -> BOOLEAN] /\ ponder' \in [Cell -> BOOLEAN]
    BY <1>16 DEF Rebuilt
  <2>4. /\ job' \in [Worker -> Cell] /\ cell' \in [Worker -> Cell]
        /\ stopOnPonderhit' \in BOOLEAN
    BY <1>16 DEF Rebuilt, FreshPool
  <2> QED
    BY <2>1, <2>2, <2>3, <2>4
<1>17. CASE Dropped
  BY <1>17 DEF Dropped
<1>18. CASE Tick
  BY <1>18 DEF Tick
<1>19. ASSUME NEW s \in Search, Collect(s) PROVE TypeOK'
  <2>1. PoolTypeOK' /\ WorkerTypeOK' /\ ClientTypeOK'
    BY <1>19 DEF Collect
  <2>2. result' \in [Search -> Cell]
    <3> DEFINE joined == {i \in Worker : thread[s][i] = "over"}
    <3>1. ASSUME NEW j \in Reported(s, joined) PROVE j \in Cell
      BY <3>1 DEF Reported, First
    <3> HIDE DEF joined
    <3>2. \/ result' = result
          \/ \E j \in Reported(s, joined) : result' = [result EXCEPT ![s] = j]
      BY <1>19 DEF Collect, joined
    <3> QED
      BY <3>1, <3>2
  <2>3. /\ thread' \in [Search -> [Worker -> ThreadType]]
        /\ carried' \in [Search -> SUBSET Worker]
        /\ collector' \in [Search -> {"none", "joining", "returning", "sending", "ended"}]
    BY <1>19 DEF Collect
  <2>4. failed' \in [Search -> BOOLEAN]
    BY <1>19 DEF Collect
  <2> QED
    BY <1>19, <2>1, <2>2, <2>3, <2>4 DEF Collect
<1>20. ASSUME NEW s \in Search, ReturnWorkers(s) PROVE TypeOK'
  BY <1>20 DEF ReturnWorkers
<1>21. ASSUME NEW s \in Search, SendResult(s) PROVE TypeOK'
  BY <1>21 DEF SendResult
<1>22. ASSUME NEW s \in Search, CheckTime(s) PROVE TypeOK'
  BY <1>22 DEF CheckTime, Raise
<1>23. ASSUME NEW s \in Search, FailLow(s) PROVE TypeOK'
  BY <1>23 DEF FailLow
<1>24. ASSUME NEW s \in Search, NEW i \in Worker, EnterIteration(s, i) PROVE TypeOK'
  <2>1. depth' \in 0..MaxDepth
    BY <1>24, DepthAssumption DEF EnterIteration
  <2>2. thread' \in [Search -> [Worker -> ThreadType]]
    BY <1>24 DEF EnterIteration, Move
  <2> QED
    BY <1>24, <2>1, <2>2 DEF EnterIteration
<1>25. ASSUME NEW s \in Search, NEW i \in Worker, LeaveLoop(s, i) PROVE TypeOK'
  BY <1>25 DEF LeaveLoop, Move, AfterLoop
<1>26. ASSUME NEW s \in Search, NEW i \in Worker, ReachMaxPly(s, i) PROVE TypeOK'
  BY <1>26 DEF ReachMaxPly, Move, AfterLoop
<1>27. ASSUME NEW s \in Search, NEW i \in Worker, EndIteration(s, i) PROVE TypeOK'
  BY <1>27 DEF EndIteration, Move
<1>28. ASSUME NEW s \in Search, NEW over \in BOOLEAN, ManageTime(s, over) PROVE TypeOK'
  BY <1>28 DEF ManageTime, Move, Raise
<1>29. ASSUME NEW s \in Search, Unpark(s) PROVE TypeOK'
  BY <1>29 DEF Unpark, Move, Raise
<1>30. ASSUME NEW s \in Search, NEW i \in Worker, Panic(s, i) PROVE TypeOK'
  <2>1. depth' \in 0..MaxDepth /\ stopOnPonderhit' \in BOOLEAN
    BY <1>30, DepthAssumption DEF Panic
  <2>2. stop' \in [Cell -> BOOLEAN] /\ failed' \in [Search -> BOOLEAN]
    BY <1>30 DEF Panic, Raise
  <2>3. /\ thread' \in [Search -> [Worker -> ThreadType]]
        /\ job' \in [Worker -> Cell] /\ lost' \subseteq Worker
    <3>1. CASE /\ Move(s, i, thread[s][i], "over")
               /\ job' = [job EXCEPT ![i] = 0] /\ lost' = lost
      <4>1. thread' \in [Search -> [Worker -> ThreadType]]
        BY <3>1 DEF Move
      <4>2. job' \in [Worker -> Cell]
        BY <3>1
      <4> QED
        BY <3>1, <4>1, <4>2
    <3>2. CASE /\ Move(s, i, thread[s][i], "dead")
               /\ lost' = lost \union {i} /\ job' = job
      <4>1. thread' \in [Search -> [Worker -> ThreadType]]
        BY <3>2 DEF Move
      <4> QED
        BY <3>2, <4>1
    <3> QED
      BY <1>30, <3>1, <3>2 DEF Panic
  <2> QED
    BY <1>30, <2>1, <2>2, <2>3 DEF Panic
<1>31. CASE UNCHANGED vars
  BY <1>31 DEF vars
<1> QED
  BY <1>3, <1>4, <1>5, <1>6, <1>7, <1>8, <1>9, <1>10, <1>11, <1>12, <1>13, <1>14, <1>15,
     <1>16, <1>17, <1>18, <1>19, <1>20, <1>21, <1>22, <1>23, <1>24, <1>25, <1>26, <1>27,
     <1>28, <1>29, <1>30, <1>31
  DEF Next, Client, CallReturns, CollectorStep, ThreadStep

-----------------------------------------------------------------------------
\* What joining the pool's collector establishes: no search is running.
LEMMA AllQuiet ==
  ASSUME CollectorInv, PoolInv, OneSearchAtATime, Joined
  PROVE  \A s \in Search : Quiet(s)
<1> SUFFICES ASSUME NEW s \in Search PROVE Quiet(s)
  OBVIOUS
<1>1. CASE s # last
  BY <1>1 DEF OneSearchAtATime
<1>2. CASE ~collecting
  BY <1>2 DEF PoolInv
<1>3. CASE s = last /\ collecting
  BY <1>3 DEF Joined, CollectorInv, Quiet
<1> QED
  BY <1>1, <1>2, <1>3

\* A search with something left to do is the current one, and its pool has a
\* collector to join.
LEMMA Current ==
  ASSUME PoolInv, OneSearchAtATime, NEW s \in Search, ~Quiet(s)
  PROVE  s = last /\ collecting
BY DEF PoolInv, OneSearchAtATime

LifeInv == CallInv /\ CollectorInv /\ PoolInv /\ OneSearchAtATime
engineVars == <<call, built, last, collecting>>

\* A worker thread's own move.
LEMMA MoveKeeps ==
  ASSUME TypeOK, LifeInv, NEW s \in Search, NEW i \in Worker, NEW to,
         thread[s][i] \notin {"none", "joined"},
         thread' = [thread EXCEPT ![s][i] = to],
         UNCHANGED <<engineVars, collector>>
  PROVE  LifeInv'
<1>1. ~Quiet(s) /\ collector[s] = "joining"
  BY DEF LifeInv, Quiet, CollectorInv
<1>2. s = last /\ collecting
  BY <1>1, Current DEF LifeInv
<1>3. \A t \in Search : t # s => thread'[t] = thread[t]
  BY DEF TypeOK, JobTypeOK
<1>4. CallInv' /\ PoolInv'
  BY <1>2 DEF LifeInv, engineVars, CallInv, PoolInv
<1>5. CollectorInv'
  BY <1>1, <1>3 DEF LifeInv, CollectorInv
<1>6. OneSearchAtATime'
  BY <1>2, <1>3 DEF LifeInv, engineVars, OneSearchAtATime, Quiet
<1> QED
  BY <1>4, <1>5, <1>6 DEF LifeInv

\* A collector's step leaves no thread to join behind it.
LEMMA CollectorKeeps ==
  ASSUME TypeOK, LifeInv, NEW s \in Search, NEW to,
         collector[s] \notin {"none", "ended"}, to # "joining",
         collector' = [collector EXCEPT ![s] = to],
         \A t \in Search : t # s => thread'[t] = thread[t],
         \A i \in Worker : thread'[s][i] \in {"none", "joined"},
         UNCHANGED engineVars
  PROVE  LifeInv'
<1>1. s = last /\ collecting
  BY Current DEF LifeInv, Quiet
<1>2. \A t \in Search : t # s => collector'[t] = collector[t]
  BY DEF TypeOK, JobTypeOK
<1>3. CallInv' /\ PoolInv'
  BY <1>1 DEF LifeInv, engineVars, CallInv, PoolInv
<1>4. CollectorInv'
  BY <1>2 DEF LifeInv, CollectorInv
<1>5. OneSearchAtATime'
  BY <1>1, <1>2 DEF LifeInv, engineVars, OneSearchAtATime, Quiet
<1> QED
  BY <1>3, <1>4, <1>5 DEF LifeInv

LEMMA LifeStep == TypeOK /\ LifeInv /\ [Next]_vars => LifeInv'
<1> SUFFICES ASSUME TypeOK, LifeInv, [Next]_vars PROVE LifeInv'
  OBVIOUS
<1> USE DEF poolVars, flagVars, workerVars, jobVars, clientVars
<1>1. ASSUME UNCHANGED <<engineVars, thread, collector>> PROVE LifeInv'
  BY <1>1 DEF LifeInv, engineVars, CallInv, CollectorInv, PoolInv, OneSearchAtATime, Quiet
<1>2. ASSUME UNCHANGED <<thread, collector>>, \A s \in Search : Quiet(s), CallInv' PROVE LifeInv'
  BY <1>2 DEF LifeInv, CollectorInv, PoolInv, OneSearchAtATime, Quiet
<1>3. ASSUME Joined PROVE \A s \in Search : Quiet(s)
  BY <1>3, AllQuiet DEF LifeInv
<1>4. ASSUME NEW r \in Requests, Go(r) PROVE LifeInv'
  <2>1. CallInv'
    BY <1>4, SearchesAssumption DEF Go, CallInv, TypeOK, PoolTypeOK, Cell
  <2>2. CASE built
    BY <1>4, <2>1, <2>2 DEF Go, LifeInv, CollectorInv, PoolInv, OneSearchAtATime, Quiet
  <2>3. CASE ~built
    <3>1. last = 0
      BY <1>4, <2>3 DEF Go, LifeInv, CallInv
    <3>2. \A s \in Search : Quiet(s)
      BY <3>1 DEF LifeInv, OneSearchAtATime, Search
    <3> QED
      BY <1>2, <1>4, <2>1, <3>2 DEF Go
  <2> QED
    BY <2>2, <2>3
<1>5. ASSUME NEW next \in {"clear", "rebuild", "drop"},
             call' = next, built, UNCHANGED <<built, last, collecting, thread, collector>>
      PROVE  LifeInv'
  BY <1>5 DEF LifeInv, CallInv, CollectorInv, PoolInv, OneSearchAtATime, Quiet
<1>6. CASE NewGame
  BY <1>5, <1>6 DEF NewGame
<1>7. CASE SetOption \/ Shutdown
  BY <1>5, <1>7 DEF SetOption, Shutdown, DropPool
<1>8. CASE EngineStop
  BY <1>1, <1>8 DEF EngineStop, engineVars
<1>9. ASSUME NEW s \in Search,
             HandleStop(s) \/ PonderHit(s) \/ DropHandle(s) \/ Poll(s) \/ Wait(s) \/ WaitReturns(s)
      PROVE  LifeInv'
  BY <1>1, <1>9
  DEF HandleStop, PonderHit, DropHandle, Poll, Wait, WaitReturns, engineVars
<1>10. CASE StartSearch
  <2> DEFINE s == last + 1
  <2>1. s \in Search /\ s # 0
    BY <1>10, SearchesAssumption
    DEF StartSearch, LifeInv, CallInv, TypeOK, PoolTypeOK, Search, Cell
  <2>2. \A t \in Search : Quiet(t)
    BY <1>3, <1>10 DEF StartSearch
  <2>3. /\ last' = s /\ collecting' /\ call' = "idle" /\ built' = built
        /\ collector' = [collector EXCEPT ![s] = "joining"]
        /\ \A t \in Search : t # s => thread'[t] = thread[t]
    BY <1>10 DEF StartSearch, TypeOK, JobTypeOK
  <2> HIDE DEF s
  <2>4. collector'[s] = "joining" /\ \A t \in Search : t # s => collector'[t] = collector[t]
    BY <2>1, <2>3 DEF TypeOK, JobTypeOK
  <2>5. built
    BY <1>10 DEF StartSearch, LifeInv, CallInv
  <2>6. CallInv' /\ PoolInv'
    BY <2>3, <2>5 DEF CallInv, PoolInv
  <2>7. CollectorInv'
    BY <2>3, <2>4 DEF LifeInv, CollectorInv
  <2>8. OneSearchAtATime'
    BY <2>2, <2>3, <2>4 DEF OneSearchAtATime, Quiet
  <2> QED
    BY <2>6, <2>7, <2>8 DEF LifeInv
<1>11. CASE Cleared \/ Rebuilt
  <2>1. Joined /\ UNCHANGED <<thread, collector>>
    BY <1>11 DEF Cleared, Rebuilt
  <2>2. CallInv'
    BY <1>11 DEF Cleared, Rebuilt, LifeInv, CallInv
  <2> QED
    BY <1>2, <1>3, <2>1, <2>2
<1>12. CASE Dropped
  <2>1. CallInv'
    BY <1>12 DEF Dropped, CallInv
  <2> QED
    BY <1>2, <1>3, <1>12, <2>1 DEF Dropped
<1>13. CASE Tick
  BY <1>1, <1>13 DEF Tick, engineVars
<1>14. ASSUME NEW s \in Search, CheckTime(s) \/ FailLow(s) PROVE LifeInv'
  BY <1>1, <1>14 DEF CheckTime, FailLow, engineVars
<1>15. ASSUME NEW s \in Search, Collect(s) PROVE LifeInv'
  <2>1. /\ \A t \in Search : t # s => thread'[t] = thread[t]
        /\ \A i \in Worker : thread'[s][i] \in {"none", "joined"}
    BY <1>15 DEF Collect, TypeOK, JobTypeOK
  <2>2. /\ collector[s] = "joining" /\ collector' = [collector EXCEPT ![s] = "returning"]
        /\ UNCHANGED engineVars
    BY <1>15 DEF Collect, engineVars
  <2> QED
    BY <2>1, <2>2, CollectorKeeps
<1>16. ASSUME NEW s \in Search, ReturnWorkers(s) \/ SendResult(s) PROVE LifeInv'
  <2>1. PICK to \in {"sending", "ended"} :
          /\ collector[s] \in {"returning", "sending"}
          /\ collector' = [collector EXCEPT ![s] = to]
          /\ UNCHANGED <<engineVars, thread>>
    BY <1>16 DEF ReturnWorkers, SendResult, engineVars
  <2>2. \A i \in Worker : thread'[s][i] \in {"none", "joined"}
    BY <2>1 DEF LifeInv, CollectorInv
  <2> QED
    BY <2>1, <2>2, CollectorKeeps
<1>17. ASSUME NEW s \in Search, NEW i \in Worker, ThreadStep(s, i) \/ ReachMaxPly(s, i) \/ Panic(s, i)
       PROVE  LifeInv'
  <2>1. PICK to : /\ thread[s][i] \in {"head", "tree", "park"}
                  /\ thread' = [thread EXCEPT ![s][i] = to]
    BY <1>17
    DEF ThreadStep, EnterIteration, LeaveLoop, EndIteration, ManageTime, Unpark, ReachMaxPly,
        Panic, Move
  <2>2. UNCHANGED <<engineVars, collector>>
    BY <1>17
    DEF ThreadStep, EnterIteration, LeaveLoop, EndIteration, ManageTime, Unpark, ReachMaxPly,
        Panic, engineVars
  <2> QED
    BY <2>1, <2>2, MoveKeeps
<1>18. CASE UNCHANGED vars
  BY <1>1, <1>18 DEF vars, engineVars
<1> QED
  BY <1>4, <1>6, <1>7, <1>8, <1>9, <1>10, <1>11, <1>12, <1>13, <1>14, <1>15, <1>16, <1>17, <1>18
  DEF Next, Client, CallReturns, CollectorStep

-----------------------------------------------------------------------------
(***************************************************************************)
(* Where the workers are, and what a search comes to.                       *)
(***************************************************************************)
Active(s, i) == thread[s][i] \in {"head", "tree", "park", "over"}
Busy(i) == \E s \in Search : Active(s, i)
Held(i) == \E s \in Search : i \in carried[s]

\* A worker is in exactly one place.
OnePlace(i) ==
  /\ i \in pool \/ i \in inbox \/ i \in lost \/ Busy(i) \/ Held(i)
  /\ i \in pool => i \notin inbox /\ i \notin lost
  /\ i \in inbox => i \notin lost
  /\ Busy(i) => i \notin pool /\ i \notin inbox /\ i \notin lost
  /\ Held(i) => i \notin pool /\ i \notin inbox /\ i \notin lost /\ ~Busy(i)

\* A collector carries workers only until it returns them; and not all the
\* workers of a pool are lost.
PlaceInv ==
  /\ \A s \in Search : carried[s] # {} => collector[s] = "returning"
  /\ built => Cardinality(lost) <= MaxLost /\ \A i \in Worker : OnePlace(i)

\* A search is untouched until it is started, and its handle then has flags
\* of its own.
Untouched(s) ==
  /\ collector[s] = "none" /\ chan[s] = "none" /\ handle[s] = "none" /\ seen[s] = "nothing"
  /\ asked[s] = {} /\ ~failed[s] /\ \A i \in Worker : thread[s][i] = "none"

Begun(s) == collector[s] # "none" /\ handle[s] # "none" /\ handleCell[s] = s

StartedInv == \A s \in Search : IF s > last THEN Untouched(s) ELSE Begun(s)

\* So do the workers that search for it, and the pool until it is rebuilt.
CellInv ==
  /\ poolCell \in {0, last}
  /\ \A s \in Search, i \in Worker : Active(s, i) => cell[i] = s

\* Unless one of them panicked, the workers of a search have its root moves,
\* and there is a worker if there is a root move.
SearchersInv ==
  \A s \in Search : collector[s] = "joining" /\ ~failed[s] =>
    /\ \A i \in Worker : thread[s][i] # "dead" /\ (Active(s, i) => job[i] = s)
    /\ req[s].roots = 0 <=> \A i \in Worker : thread[s][i] = "none"

\* The line a search reports.
Line(s) == IF req[s].roots = 0 THEN 0 ELSE s
Answers(s) == collector[s] = "ended" /\ ~failed[s]
Fails(s)   == collector[s] = "ended" /\ failed[s]

ResultOf(s) ==
  /\ collector[s] \in {"returning", "sending", "ended"} /\ ~failed[s] => result[s] = Line(s)
  /\ chan[s] = "open" => collector[s] # "ended"
  /\ chan[s] = "full" => Answers(s)
  /\ seen[s] = "result" => Answers(s)
  /\ seen[s] \in {"failed", "default"} => Fails(s)
  /\ chan[s] = "closed" /\ seen[s] = "nothing" => Fails(s)
  /\ chan[s] \in {"open", "full"} \/ handle[s] = "waiting" => seen[s] = "nothing"

ResultInv == \A s \in Search : ResultOf(s)

\* A search that ponders has its ponder flag set; one that may not end by
\* itself is stopped, and its main worker is done, only if it was asked to.
OnlyAsked(s) ==
  /\ Pondering(s) => ponder[s]
  /\ Endless(s) /\ ~failed[s] /\ (stop[s] \/ thread[s][Main] \in {"over", "joined"})
       => "stop" \in asked[s]

EndlessInv == \A s \in Search : s <= last => OnlyAsked(s)

AnswersInv == PlaceInv /\ StartedInv /\ CellInv /\ SearchersInv /\ ResultInv /\ EndlessInv

-----------------------------------------------------------------------------
\* What a step of a worker thread does to the threads.
LEMMA ThreadMoves ==
  ASSUME TypeOK, LifeInv, NEW s \in Search, NEW i \in Worker,
         ThreadStep(s, i) \/ ReachMaxPly(s, i) \/ Panic(s, i)
  PROVE  /\ s = last /\ collecting /\ collector[s] = "joining" /\ Active(s, i)
         /\ thread'[s][i] \in {"head", "tree", "park", "over", "dead"}
         /\ \A t \in Search, j \in Worker : t # s \/ j # i => thread'[t][j] = thread[t][j]
<1>1. PICK to \in {"head", "tree", "park", "over", "dead"} :
        /\ thread[s][i] \in {"head", "tree", "park"}
        /\ thread' = [thread EXCEPT ![s][i] = to]
  BY DEF ThreadStep, EnterIteration, LeaveLoop, EndIteration, ManageTime, Unpark, ReachMaxPly,
         Panic, Move, AfterLoop
<1>2. ~Quiet(s) /\ collector[s] = "joining"
  BY <1>1 DEF LifeInv, Quiet, CollectorInv
<1>3. s = last /\ collecting
  BY <1>2, Current DEF LifeInv
<1>4. thread \in [Search -> [Worker -> ThreadType]]
  BY DEF TypeOK, JobTypeOK
<1> QED
  BY <1>1, <1>2, <1>3, <1>4 DEF Active

\* The steps of a worker thread, by what becomes of the worker.
LEMMA ThreadKeepsOrPanics ==
  ASSUME TypeOK, LifeInv, NEW s \in Search, NEW i \in Worker,
         ThreadStep(s, i) \/ ReachMaxPly(s, i) \/ Panic(s, i)
  PROVE  /\ UNCHANGED <<call, built, last, pool, inbox, collecting, poolCell, cell, ponder, req,
                        collector, carried, result, clientVars>>
         /\ \/ /\ UNCHANGED <<lost, job, failed>> /\ Active(s, i)' /\ ~Panic(s, i)
            \/ /\ UNCHANGED lost /\ Active(s, i)' /\ failed' = [failed EXCEPT ![s] = TRUE]
               /\ Raise(i)
            \/ /\ lost' = lost \union {i} /\ Cardinality(lost) < MaxLost
               /\ thread'[s][i] = "dead" /\ failed' = [failed EXCEPT ![s] = TRUE]
               /\ Raise(i)
<1> USE DEF poolVars, flagVars, workerVars, jobVars, clientVars
<1>0. thread \in [Search -> [Worker -> ThreadType]]
  BY DEF TypeOK, JobTypeOK
<1>1. CASE Panic(s, i)
  <2>1. CASE Move(s, i, thread[s][i], "over") /\ UNCHANGED lost
    BY <1>0, <1>1, <2>1 DEF Panic, Move, Active
  <2>2. CASE /\ Move(s, i, thread[s][i], "dead") /\ lost' = lost \union {i}
             /\ Cardinality(lost) < MaxLost
    BY <1>0, <1>1, <2>2 DEF Panic, Move, Active
  <2> QED
    BY <1>1, <2>1, <2>2 DEF Panic
<1>2. CASE (ThreadStep(s, i) \/ ReachMaxPly(s, i)) /\ ~Panic(s, i)
  BY <1>0, <1>2 DEF ThreadStep, EnterIteration, LeaveLoop, EndIteration, ManageTime, Unpark,
     ReachMaxPly, Move, AfterLoop, Active
<1> QED
  BY <1>1, <1>2

-----------------------------------------------------------------------------
\* A place of a worker depends on where it is active and on who carries it.
LEMMA PlaceFrame ==
  ASSUME TypeOK, PlaceInv, UNCHANGED <<pool, inbox, lost, carried, collector>>, built' => built,
         \A s \in Search, i \in Worker : Active(s, i)' <=> Active(s, i)
  PROVE  PlaceInv'
<1>1. \A i \in Worker : (Busy(i)' <=> Busy(i)) /\ (Held(i)' <=> Held(i))
  BY DEF Busy, Held
<1>2. \A i \in Worker : OnePlace(i) => OnePlace(i)'
  BY <1>1 DEF OnePlace
<1> QED
  BY <1>2 DEF PlaceInv

\* While no search runs, the workers are in the pool, on the channel or lost.
LEMMA QuietPlaces ==
  ASSUME PlaceInv, \A s \in Search : Quiet(s)
  PROVE  \A i \in Worker : ~Busy(i) /\ ~Held(i)
BY DEF PlaceInv, Quiet, Busy, Held, Active

\* A worker that is lost is one more of them.
LEMMA OneMoreLost ==
  ASSUME NEW i \in Worker, lost \subseteq Worker, Cardinality(lost) < MaxLost
  PROVE  Cardinality(lost \union {i}) <= MaxLost
<1>1. IsFiniteSet(Worker)
  BY NAssumption, FS_Interval DEF Worker
<1>2. IsFiniteSet(lost)
  BY <1>1, FS_Subset
<1>3. Cardinality(lost) \in Nat
  BY <1>2, FS_CardinalityType
<1>4. Cardinality(lost \union {i}) = IF i \in lost THEN Cardinality(lost) ELSE Cardinality(lost) + 1
  BY <1>2, FS_AddElement
<1>5. MaxLost \in Nat
  BY LostAssumption, NAssumption
<1> QED
  BY <1>3, <1>4, <1>5

LEMMA NoneLost == Cardinality({}) <= MaxLost
  BY FS_EmptySet, LostAssumption, NAssumption

\* Not all the workers of a pool are lost.
LEMMA SomeLeft ==
  ASSUME lost \subseteq Worker, Cardinality(lost) <= MaxLost
  PROVE  \E i \in Worker : i \notin lost
<1> SUFFICES ASSUME lost = Worker PROVE FALSE
  OBVIOUS
<1>1. Cardinality(Worker) = N
  BY NAssumption, FS_Interval DEF Worker
<1> QED
  BY <1>1, LostAssumption, NAssumption

\* Engine::go, start_search, new_game, set_option and dropping the engine.
LEMMA PlaceCalls ==
  ASSUME TypeOK, LifeInv, PlaceInv,
         (\E r \in Requests : Go(r)) \/ CallReturns
  PROVE  PlaceInv'
<1> USE DEF poolVars, flagVars, workerVars, jobVars, clientVars
<1>1. (~built \/ Joined) => \A s \in Search : Quiet(s)
  <2>1. ~built => ~(\E r \in Requests : Go(r)) \/ last = 0
    BY DEF LifeInv, CallInv, Go
  <2>2. CASE Joined
    BY <2>2, AllQuiet DEF LifeInv
  <2>3. CASE ~Joined /\ ~built
    <3>1. \E r \in Requests : Go(r)
      BY <2>3 DEF CallReturns, StartSearch, Cleared, Rebuilt, Dropped
    <3>2. last = 0
      BY <2>1, <2>3, <3>1
    <3> QED
      BY <3>2 DEF LifeInv, OneSearchAtATime, Search
  <2> QED
    BY <2>2, <2>3
<1>2. ASSUME NEW r \in Requests, Go(r), built PROVE PlaceInv'
  BY <1>2, PlaceFrame DEF Go, Active
<1>3. ASSUME pool' = Worker, inbox' = {}, lost' = {}, UNCHANGED <<thread, carried, collector>>,
             \A s \in Search : Quiet(s)
      PROVE  PlaceInv'
  <2>1. \A i \in Worker : ~Busy(i)' /\ ~Held(i)'
    BY <1>3, QuietPlaces DEF Busy, Held, Active
  <2>2. Cardinality(lost') <= MaxLost
    BY <1>3, NoneLost
  <2> QED
    BY <1>3, <2>1, <2>2 DEF PlaceInv, OnePlace
<1>4. ASSUME NEW r \in Requests, Go(r), ~built PROVE PlaceInv'
  BY <1>1, <1>3, <1>4 DEF Go, FreshPool
<1>5. CASE Rebuilt
  BY <1>1, <1>3, <1>5 DEF Rebuilt, FreshPool
<1>6. CASE Dropped
  BY <1>6 DEF Dropped, PlaceInv
<1>7. CASE Cleared
  <2>1. \A i \in Worker : (Busy(i)' <=> Busy(i)) /\ (Held(i)' <=> Held(i))
    BY <1>7 DEF Cleared, Busy, Held, Active
  <2>2. /\ pool' = pool \union inbox /\ inbox' = {}
        /\ UNCHANGED <<built, lost, carried, collector>>
    BY <1>7 DEF Cleared, Recovered
  <2>3. ASSUME NEW i \in Worker, OnePlace(i) PROVE OnePlace(i)'
    BY <2>1, <2>2, <2>3 DEF OnePlace
  <2> QED
    BY <2>2, <2>3 DEF PlaceInv
<1>8. CASE StartSearch
  <2> DEFINE s == last + 1
             searching == IF req[s].roots = 0 THEN {} ELSE Recovered
  <2>1. s \in Search
    BY <1>8, SearchesAssumption
    DEF StartSearch, LifeInv, CallInv, TypeOK, PoolTypeOK, Search, Cell
  <2>2. \A i \in Worker : ~Busy(i) /\ ~Held(i)
    BY <1>1, <1>8, QuietPlaces DEF StartSearch
  <2>3. /\ pool' = Recovered \ searching /\ inbox' = {} /\ lost' = lost /\ built
        /\ carried' = carried
        /\ \A t \in Search, i \in Worker : Active(t, i)' <=> t = s /\ i \in searching
    <3>1. \A t \in Search, i \in Worker : ~Active(t, i)
      BY <2>2 DEF Busy
    <3>2. thread \in [Search -> [Worker -> ThreadType]]
      BY DEF TypeOK, JobTypeOK
    <3>3. thread' = [thread EXCEPT ![s] = [i \in Worker |-> IF i \in searching THEN "head" ELSE "none"]]
      BY <1>8 DEF StartSearch
    <3> HIDE DEF searching, s
    <3>4. \A t \in Search, i \in Worker : Active(t, i)' <=> t = s /\ i \in searching
      BY <2>1, <3>1, <3>2, <3>3 DEF Active
    <3> QED
      BY <1>8, <3>4 DEF StartSearch, LifeInv, CallInv, searching, s
  <2>4. searching \in {{}, Recovered}
    OBVIOUS
  <2> HIDE DEF searching, s
  <2>5. \A i \in Worker : (Busy(i)' <=> i \in searching) /\ ~Held(i)'
    BY <2>1, <2>2, <2>3 DEF Busy, Held
  <2>6. ASSUME NEW i \in Worker PROVE OnePlace(i)'
    <3>1. OnePlace(i)
      BY <2>3 DEF PlaceInv
    <3> QED
      BY <2>2, <2>3, <2>4, <2>5, <3>1 DEF OnePlace, Recovered
  <2>7. \A t \in Search : carried'[t] = {}
    BY <2>2, <2>3 DEF Held, TypeOK, JobTypeOK
  <2> QED
    BY <2>3, <2>6, <2>7 DEF PlaceInv
<1> QED
  BY <1>2, <1>4, <1>5, <1>6, <1>7, <1>8 DEF CallReturns

\* A worker thread keeps its worker, or loses it; the collector takes the
\* workers of its threads and puts them on the channel.
LEMMA PlaceStep ==
  ASSUME TypeOK, LifeInv, PlaceInv, [Next]_vars PROVE PlaceInv'
<1> USE DEF poolVars, flagVars, workerVars, jobVars, clientVars
<1>1. ASSUME UNCHANGED <<built, pool, inbox, lost, thread, carried, collector>> PROVE PlaceInv'
  BY <1>1, PlaceFrame DEF Active
<1>2. ASSUME NEW s \in Search, NEW i \in Worker, ThreadStep(s, i) \/ ReachMaxPly(s, i) \/ Panic(s, i)
      PROVE  PlaceInv'
  <2>1. /\ Active(s, i) /\ collector[s] = "joining"
        /\ \A t \in Search, j \in Worker : t # s \/ j # i => (Active(t, j)' <=> Active(t, j))
    BY <1>2, ThreadMoves DEF Active
  <2>2. UNCHANGED <<built, pool, inbox, collector, carried>>
    BY <1>2, ThreadKeepsOrPanics
  <2>3. CASE UNCHANGED lost /\ Active(s, i)'
    BY <2>1, <2>2, <2>3, PlaceFrame
  <2>4. CASE lost' = lost \union {i} /\ Cardinality(lost) < MaxLost /\ thread'[s][i] = "dead"
    <3>1. \A t \in Search : t # s => ~Active(t, i)
      BY <1>2, ThreadMoves DEF LifeInv, OneSearchAtATime, Quiet, Active
    <3>2. ~Busy(i)' /\ \A j \in Worker : j # i => (Busy(j)' <=> Busy(j))
      BY <2>1, <2>4, <3>1 DEF Busy, Active
    <3>3. \A j \in Worker : Held(j)' <=> Held(j)
      BY <2>2 DEF Held
    <3>4. Busy(i)
      BY <2>1 DEF Busy
    <3>5. ASSUME NEW j \in Worker, OnePlace(j) PROVE OnePlace(j)'
      BY <2>2, <2>4, <3>2, <3>3, <3>4, <3>5 DEF OnePlace
    <3>6. Cardinality(lost') <= MaxLost
      BY <2>4, OneMoreLost DEF TypeOK, PoolTypeOK
    <3> QED
      BY <2>2, <3>5, <3>6 DEF PlaceInv
  <2> QED
    BY <1>2, <2>3, <2>4, ThreadKeepsOrPanics
<1>3. ASSUME NEW s \in Search, Collect(s) PROVE PlaceInv'
  <2> DEFINE joined == {i \in Worker : thread[s][i] = "over"}
  <2>0. thread \in [Search -> [Worker -> ThreadType]] /\ carried \in [Search -> SUBSET Worker]
        /\ collector \in [Search -> {"none", "joining", "returning", "sending", "ended"}]
    BY DEF TypeOK, JobTypeOK
  <2>1. /\ UNCHANGED <<built, pool, inbox, lost>>
        /\ carried' = [carried EXCEPT ![s] = joined]
        /\ collector' = [collector EXCEPT ![s] = "returning"]
        /\ collector[s] = "joining"
        /\ \A i \in Worker : ~Active(s, i)' /\ (Active(s, i) <=> i \in joined)
        /\ \A t \in Search, i \in Worker : t # s => (Active(t, i)' <=> Active(t, i))
    BY <1>3, <2>0 DEF Collect, Active
  <2>2. \A t \in Search : t # s => ~(\E i \in Worker : Active(t, i)) /\ carried[t] = {}
    <3>1. s = last
      BY <2>1, Current DEF LifeInv, Quiet
    <3> QED
      BY <3>1 DEF LifeInv, OneSearchAtATime, Quiet, Active, PlaceInv
  <2>3. carried[s] = {}
    BY <2>1 DEF PlaceInv
  <2> HIDE DEF joined
  <2>4. \A i \in Worker : (Busy(i) <=> i \in joined) /\ ~Held(i)
    BY <2>1, <2>2, <2>3 DEF Busy, Held
  <2>5. \A i \in Worker : (Held(i)' <=> i \in joined) /\ ~Busy(i)'
    BY <2>0, <2>1, <2>2 DEF Busy, Held
  <2>6. ASSUME NEW i \in Worker, OnePlace(i) PROVE OnePlace(i)'
    BY <2>1, <2>4, <2>5, <2>6 DEF OnePlace
  <2>7. \A t \in Search : carried'[t] # {} => collector'[t] = "returning"
    BY <2>0, <2>1, <2>2
  <2> QED
    BY <2>1, <2>6, <2>7 DEF PlaceInv
<1>4. ASSUME NEW s \in Search, ReturnWorkers(s) PROVE PlaceInv'
  <2>0. carried \in [Search -> SUBSET Worker]
        /\ collector \in [Search -> {"none", "joining", "returning", "sending", "ended"}]
    BY DEF TypeOK, JobTypeOK
  <2>1. /\ UNCHANGED <<built, pool, lost, thread>> /\ collector[s] = "returning"
        /\ inbox' = inbox \union carried[s] /\ carried' = [carried EXCEPT ![s] = {}]
        /\ collector' = [collector EXCEPT ![s] = "sending"]
    BY <1>4 DEF ReturnWorkers
  <2>2. \A t \in Search : t # s => carried[t] = {}
    <3>1. s = last
      BY <2>1, Current DEF LifeInv, Quiet
    <3> QED
      BY <3>1 DEF LifeInv, OneSearchAtATime, Quiet, PlaceInv
  <2>3. \A i \in Worker : (Held(i) <=> i \in carried[s]) /\ ~Held(i)'
    BY <2>0, <2>1, <2>2 DEF Held
  <2>4. \A i \in Worker : Busy(i)' <=> Busy(i)
    BY <2>1 DEF Busy, Active
  <2>5. ASSUME NEW i \in Worker, OnePlace(i) PROVE OnePlace(i)'
    BY <2>1, <2>3, <2>4, <2>5 DEF OnePlace
  <2>6. \A t \in Search : carried'[t] = {}
    BY <2>0, <2>1, <2>2
  <2> QED
    BY <2>1, <2>5, <2>6 DEF PlaceInv
<1>5. ASSUME NEW s \in Search, SendResult(s) PROVE PlaceInv'
  <2>1. /\ UNCHANGED <<built, pool, inbox, lost, thread, carried>>
        /\ \A t \in Search : carried'[t] # {} => collector'[t] = collector[t]
    BY <1>5 DEF SendResult, TypeOK, JobTypeOK, PlaceInv
  <2>2. \A i \in Worker : (Busy(i)' <=> Busy(i)) /\ (Held(i)' <=> Held(i))
    BY <2>1 DEF Busy, Held, Active
  <2>3. \A i \in Worker : OnePlace(i) => OnePlace(i)'
    BY <2>1, <2>2 DEF OnePlace
  <2> QED
    BY <2>1, <2>3 DEF PlaceInv
<1>6. CASE NewGame \/ SetOption \/ Shutdown \/ EngineStop \/ Tick
  BY <1>1, <1>6 DEF NewGame, SetOption, Shutdown, DropPool, EngineStop, Tick
<1>7. ASSUME NEW s \in Search,
             HandleStop(s) \/ PonderHit(s) \/ DropHandle(s) \/ Poll(s) \/ Wait(s) \/ WaitReturns(s)
               \/ CheckTime(s) \/ FailLow(s)
      PROVE  PlaceInv'
  BY <1>1, <1>7
  DEF HandleStop, PonderHit, DropHandle, Poll, Wait, WaitReturns, CheckTime, FailLow
<1>8. CASE UNCHANGED vars
  BY <1>1, <1>8 DEF vars
<1> QED
  BY <1>2, <1>3, <1>4, <1>5, <1>6, <1>7, <1>8, PlaceCalls DEF Next, Client, CollectorStep

\* The places of a worker are one.
LEMMA OnePlaceCounts ==
  ASSUME TypeOK, LifeInv, PlaceInv, built, NEW i \in Worker PROVE Cardinality(Places(i)) = 1
<1>1. OnePlace(i)
  BY DEF PlaceInv
<1>2. \A s \in Search : (s \in InThread(i) <=> Active(s, i)) /\ (s \in InCollector(i) <=> i \in carried[s])
  BY DEF InThread, InCollector, Active, TypeOK, JobTypeOK, ThreadType
<1>3. \A s \in Search : s \in InThread(i) \/ s \in InCollector(i) => s = last
  <2>1. \A s \in Search : Active(s, i) \/ i \in carried[s] => ~Quiet(s)
    BY DEF Active, Quiet, PlaceInv
  <2> QED
    BY <1>2, <2>1, Current DEF LifeInv
<1>4. InThread(i) \subseteq Search /\ InCollector(i) \subseteq Search
  BY DEF InThread, InCollector
<1>5. InThread(i) = IF Busy(i) THEN {last} ELSE {}
  BY <1>2, <1>3, <1>4 DEF Busy
<1>6. InCollector(i) = IF Held(i) THEN {last} ELSE {}
  BY <1>2, <1>3, <1>4 DEF Held
<1>7. \E p : Places(i) = {p}
  <2>1. CASE i \in pool
    <3>1. Places(i) = {<<"pool", 0>>}
      BY <1>1, <1>5, <1>6, <2>1 DEF OnePlace, Places
    <3> QED
      BY <3>1
  <2>2. CASE i \in inbox
    <3>1. Places(i) = {<<"inbox", 0>>}
      BY <1>1, <1>5, <1>6, <2>2 DEF OnePlace, Places
    <3> QED
      BY <3>1
  <2>3. CASE i \in lost
    <3>1. Places(i) = {<<"lost", 0>>}
      BY <1>1, <1>5, <1>6, <2>3 DEF OnePlace, Places
    <3> QED
      BY <3>1
  <2>4. CASE Busy(i)
    <3>1. Places(i) = {<<"thread", last>>}
      BY <1>1, <1>5, <1>6, <2>4 DEF OnePlace, Places
    <3> QED
      BY <3>1
  <2>5. CASE Held(i)
    <3>1. Places(i) = {<<"collector", last>>}
      BY <1>1, <1>5, <1>6, <2>5 DEF OnePlace, Places
    <3> QED
      BY <3>1
  <2> QED
    BY <1>1, <2>1, <2>2, <2>3, <2>4, <2>5 DEF OnePlace
<1> QED
  BY <1>7, FS_Singleton

-----------------------------------------------------------------------------
\* Nothing happens to a search before it is started.
LEMMA StartedFrame ==
  ASSUME TypeOK, StartedInv, NEW s0 \in Cell, s0 <= last, UNCHANGED <<last, handleCell>>,
         \A s \in Search : s # s0 =>
           /\ collector'[s] = collector[s] /\ chan'[s] = chan[s] /\ handle'[s] = handle[s]
           /\ seen'[s] = seen[s] /\ asked'[s] = asked[s] /\ failed'[s] = failed[s]
           /\ thread'[s] = thread[s],
         s0 \in Search => collector'[s0] # "none" /\ handle'[s0] # "none"
  PROVE  StartedInv'
BY DEF StartedInv, Untouched, Begun, TypeOK, PoolTypeOK, Cell, Search

LEMMA HeldIsStarted ==
  ASSUME StartedInv, TypeOK, NEW s \in Search, handle[s] # "none" \/ collector[s] # "none"
  PROVE  s <= last /\ Begun(s)
BY DEF StartedInv, Untouched, TypeOK, PoolTypeOK, Cell, Search

LEMMA StartedStep ==
  ASSUME TypeOK, LifeInv, StartedInv, [Next]_vars PROVE StartedInv'
<1> USE Zero DEF poolVars, flagVars, workerVars, jobVars, clientVars
<1>0. /\ last \in Cell /\ last <= last /\ Search \subseteq Cell
      /\ thread \in [Search -> [Worker -> ThreadType]] /\ failed \in [Search -> BOOLEAN]
      /\ collector \in [Search -> {"none", "joining", "returning", "sending", "ended"}]
      /\ chan \in [Search -> {"none", "open", "full", "closed"}]
      /\ handle \in [Search -> {"none", "held", "waiting", "ended"}]
      /\ handleCell \in [Search -> Cell]
      /\ asked \in [Cell -> SUBSET {"stop", "ponderhit"}]
      /\ seen \in [Search -> {"nothing", "result", "failed", "default"}]
  BY DEF TypeOK, PoolTypeOK, JobTypeOK, ClientTypeOK, Cell
<1>1. \A s \in Search : handle[s] # "none" \/ collector[s] # "none" => s <= last /\ Begun(s)
  BY HeldIsStarted
<1>2. \A s \in Search : s <= last => collector[s] # "none" /\ handle[s] # "none"
  BY <1>0 DEF StartedInv, Begun, Cell, Search
<1>3. ASSUME UNCHANGED <<last, thread, collector, failed, chan, handle, handleCell, seen>>,
             StopPool \/ UNCHANGED asked
      PROVE  StartedInv'
  <2>1. \A s \in Search : s # last => asked'[s] = asked[s]
    BY <1>0, <1>3 DEF StopPool
  <2> QED
    BY <1>0, <1>2, <1>3, <2>1, StartedFrame
<1>4. CASE (\E r \in Requests : Go(r)) \/ NewGame \/ SetOption \/ Shutdown \/ EngineStop
           \/ Cleared \/ Rebuilt \/ Dropped \/ Tick
  BY <1>3, <1>4 DEF Go, NewGame, SetOption, Shutdown, DropPool, EngineStop, Cleared, Rebuilt,
     Dropped, Tick, BeginRecovery
<1>5. CASE StartSearch
  <2>1. PICK s \in Search : s = last + 1 /\ s > last /\ last \in Nat
    BY <1>0, <1>5, SearchesAssumption DEF StartSearch, LifeInv, CallInv, Search, Cell
  <2>2. /\ last' = s /\ handleCell' = [handleCell EXCEPT ![s] = s]
        /\ collector' = [collector EXCEPT ![s] = "joining"]
        /\ chan' = [chan EXCEPT ![s] = "open"]
        /\ handle' = [handle EXCEPT ![s] = "held"]
        /\ UNCHANGED <<failed, asked, seen>>
        /\ \A t \in Search : t # s => thread'[t] = thread[t]
    BY <1>0, <1>5, <2>1 DEF StartSearch, NewCell
  <2>3. Begun(s)'
    BY <1>0, <2>1, <2>2 DEF Begun
  <2>4. \A t \in Search : (t > s => t > last) /\ (t <= s => t = s \/ t <= last) /\ (t <= s <=> ~(t > s))
    BY <2>1 DEF Search
  <2>5. \A t \in Search : t # s => (Untouched(t) => Untouched(t)') /\ (Begun(t) => Begun(t)')
    BY <1>0, <2>1, <2>2 DEF Untouched, Begun
  <2>6. \A t \in Search : t > s => Untouched(t)'
    BY <2>1, <2>4, <2>5 DEF StartedInv, Search
  <2>7. ASSUME NEW t \in Search, t <= s PROVE Begun(t)'
    <3>1. CASE t = s
      BY <2>3, <3>1
    <3>2. CASE t # s
      <4>1. t <= last /\ ~(t > last)
        BY <2>1, <2>7, <3>2 DEF Search
      <4> QED
        BY <2>5, <3>2, <4>1 DEF StartedInv
    <3> QED
      BY <3>1, <3>2
  <2> QED
    BY <2>2, <2>4, <2>6, <2>7 DEF StartedInv
<1>6. ASSUME NEW s \in Search,
             HandleStop(s) \/ PonderHit(s) \/ DropHandle(s) \/ Poll(s) \/ Wait(s) \/ WaitReturns(s)
      PROVE  StartedInv'
  <2>1. s <= last
    BY <1>1, <1>6 DEF HandleStop, PonderHit, DropHandle, Poll, Wait, WaitReturns
  <2>2. UNCHANGED <<last, handleCell, collector, failed, thread>>
    BY <1>6 DEF HandleStop, PonderHit, DropHandle, Poll, Wait, WaitReturns
  <2>3. /\ \A t \in Search : t # s => asked'[t] = asked[t]
        /\ \A t \in Search : t # s => handle'[t] = handle[t]
        /\ handle'[s] # "none"
    BY <1>0, <1>6 DEF HandleStop, PonderHit, DropHandle, Poll, Wait, WaitReturns, SetStop
  <2>4. \A t \in Search : t # s => chan'[t] = chan[t] /\ seen'[t] = seen[t]
    BY <1>0, <1>6 DEF HandleStop, PonderHit, DropHandle, Poll, Wait, WaitReturns, Receive
  <2> QED
    BY <1>0, <1>2, <2>1, <2>2, <2>3, <2>4, StartedFrame
<1>7. ASSUME NEW s \in Search, CheckTime(s) \/ FailLow(s) PROVE StartedInv'
  BY <1>3, <1>7 DEF CheckTime, FailLow
<1>8. ASSUME NEW s \in Search, CollectorStep(s) PROVE StartedInv'
  <2>1. collector[s] # "none"
    BY <1>8 DEF CollectorStep, Collect, ReturnWorkers, SendResult
  <2>2. /\ UNCHANGED <<last, handleCell, handle, asked, seen>>
        /\ collector'[s] # "none"
        /\ \A t \in Search : t # s =>
             /\ collector'[t] = collector[t] /\ chan'[t] = chan[t] /\ failed'[t] = failed[t]
             /\ thread'[t] = thread[t]
    <3>1. CASE Collect(s)
      BY <1>0, <3>1 DEF Collect
    <3>2. CASE ReturnWorkers(s)
      BY <1>0, <3>2 DEF ReturnWorkers
    <3>3. CASE SendResult(s)
      BY <1>0, <3>3 DEF SendResult
    <3> QED
      BY <1>8, <3>1, <3>2, <3>3 DEF CollectorStep
  <2> QED
    BY <1>0, <1>1, <1>2, <2>1, <2>2, StartedFrame
<1>9. ASSUME NEW s \in Search, NEW i \in Worker, ThreadStep(s, i) \/ ReachMaxPly(s, i) \/ Panic(s, i)
      PROVE  StartedInv'
  <2>1. s = last /\ \A t \in Search : t # s => \A j \in Worker : thread'[t][j] = thread[t][j]
    BY <1>9, ThreadMoves
  <2>2. UNCHANGED <<last, collector, clientVars>>
    BY <1>9, ThreadKeepsOrPanics
  <2>3. \A t \in Search : t # s => failed'[t] = failed[t]
    <3>1. failed' = failed \/ failed' = [failed EXCEPT ![s] = TRUE]
      BY <1>9, ThreadKeepsOrPanics
    <3> QED
      BY <1>0, <3>1
  <2>4. \A t \in Search : t # s => thread'[t] = thread[t]
    BY <1>0, <1>9 DEF ThreadStep, EnterIteration, LeaveLoop, EndIteration, ManageTime, Unpark,
       ReachMaxPly, Panic, Move
  <2> QED
    BY <1>0, <1>2, <2>1, <2>2, <2>3, <2>4, StartedFrame
<1>10. CASE UNCHANGED vars
  BY <1>3, <1>10 DEF vars
<1> QED
  BY <1>4, <1>5, <1>6, <1>7, <1>8, <1>9, <1>10 DEF Next, Client, CallReturns

\* The flags a worker looks at are its search's as long as it is active.
LEMMA CellStep ==
  ASSUME TypeOK, LifeInv, CellInv, [Next]_vars PROVE CellInv'
<1> USE DEF poolVars, flagVars, workerVars, jobVars, clientVars
<1>0. thread \in [Search -> [Worker -> ThreadType]]
  BY DEF TypeOK, JobTypeOK
<1>1. ASSUME UNCHANGED <<poolCell, last, cell>>, \A s \in Search, i \in Worker : Active(s, i)' => Active(s, i)
      PROVE  CellInv'
  BY <1>1 DEF CellInv
<1>2. ASSUME UNCHANGED <<poolCell, last, cell, thread>> PROVE CellInv'
  BY <1>1, <1>2 DEF Active
<1>3. ASSUME \A s \in Search : Quiet(s), UNCHANGED <<thread, last>>, poolCell' \in {0, poolCell}
      PROVE  CellInv'
  BY <1>3 DEF CellInv, Quiet, Active
<1>4. Joined => \A s \in Search : Quiet(s)
  BY AllQuiet DEF LifeInv
<1>5. ASSUME NEW r \in Requests, Go(r) PROVE CellInv'
  <2>1. CASE built
    BY <1>2, <1>5, <2>1 DEF Go
  <2>2. CASE ~built
    <3>1. \A s \in Search : Quiet(s)
      BY <1>5, <2>2 DEF Go, LifeInv, CallInv, OneSearchAtATime, Search
    <3> QED
      BY <1>3, <1>5, <2>2, <3>1 DEF Go, FreshPool
  <2> QED
    BY <2>1, <2>2
<1>6. CASE StartSearch
  <2> DEFINE s == last + 1
             searching == IF req[s].roots = 0 THEN {} ELSE Recovered
  <2>1. /\ \A t \in Search, i \in Worker : ~Active(t, i)
        /\ poolCell' = s /\ last' = s
        /\ cell' = [i \in Worker |-> IF i \in searching THEN s ELSE cell[i]]
        /\ thread' = [thread EXCEPT ![s] = [i \in Worker |-> IF i \in searching THEN "head" ELSE "none"]]
    BY <1>4, <1>6 DEF StartSearch, NewCell, Quiet, Active
  <2> HIDE DEF searching
  <2>2. s \in Search
    BY <1>6, SearchesAssumption
    DEF StartSearch, LifeInv, CallInv, TypeOK, PoolTypeOK, Search, Cell
  <2> HIDE DEF s
  <2>3. \A t \in Search, i \in Worker : Active(t, i)' => t = s /\ i \in searching
    BY <1>0, <2>1, <2>2 DEF Active
  <2> QED
    BY <2>1, <2>3 DEF CellInv
<1>7. CASE Cleared \/ Rebuilt \/ Dropped
  BY <1>3, <1>4, <1>7 DEF Cleared, Rebuilt, Dropped, FreshPool
<1>8. CASE NewGame \/ SetOption \/ Shutdown \/ EngineStop \/ Tick
  BY <1>2, <1>8 DEF NewGame, SetOption, Shutdown, DropPool, EngineStop, Tick
<1>9. ASSUME NEW s \in Search,
             HandleStop(s) \/ PonderHit(s) \/ DropHandle(s) \/ Poll(s) \/ Wait(s) \/ WaitReturns(s)
               \/ CheckTime(s) \/ FailLow(s) \/ ReturnWorkers(s) \/ SendResult(s)
      PROVE  CellInv'
  BY <1>2, <1>9
  DEF HandleStop, PonderHit, DropHandle, Poll, Wait, WaitReturns, CheckTime, FailLow, ReturnWorkers,
      SendResult
<1>10. ASSUME NEW s \in Search, Collect(s) PROVE CellInv'
  <2>1. \A t \in Search, i \in Worker : Active(t, i)' => Active(t, i)
    BY <1>0, <1>10 DEF Collect, Active
  <2> QED
    BY <1>1, <1>10, <2>1 DEF Collect
<1>11. ASSUME NEW s \in Search, NEW i \in Worker, ThreadStep(s, i) \/ ReachMaxPly(s, i) \/ Panic(s, i)
       PROVE  CellInv'
  <2>1. \A t \in Search, j \in Worker : Active(t, j)' => Active(t, j)
    BY <1>11, ThreadMoves DEF Active
  <2>2. UNCHANGED <<poolCell, last, cell>>
    BY <1>11, ThreadKeepsOrPanics
  <2> QED
    BY <1>1, <2>1, <2>2
<1>12. CASE UNCHANGED vars
  BY <1>2, <1>12 DEF vars
<1> QED
  BY <1>5, <1>6, <1>7, <1>8, <1>9, <1>10, <1>11, <1>12 DEF Next, Client, CallReturns, CollectorStep

-----------------------------------------------------------------------------
\* What a search that is over, or not begun, says about its workers.
LEMMA SearchersStep ==
  ASSUME TypeOK, LifeInv, PlaceInv, StartedInv, SearchersInv, [Next]_vars PROVE SearchersInv'
<1> USE DEF poolVars, flagVars, workerVars, jobVars, clientVars
<1>0. /\ last \in Cell /\ failed \in [Search -> BOOLEAN] /\ req \in [Search -> RequestType]
      /\ thread \in [Search -> [Worker -> ThreadType]] /\ job \in [Worker -> Cell]
      /\ collector \in [Search -> {"none", "joining", "returning", "sending", "ended"}]
  BY DEF TypeOK, PoolTypeOK, JobTypeOK, WorkerTypeOK
<1>1. ASSUME UNCHANGED <<thread, job, req>>,
             \A s \in Search : collector'[s] = "joining" /\ ~failed'[s] =>
               collector[s] = "joining" /\ ~failed[s]
      PROVE  SearchersInv'
  BY <1>1 DEF SearchersInv, Active
<1>2. ASSUME \A s \in Search : Quiet(s), UNCHANGED collector PROVE SearchersInv'
  BY <1>2 DEF SearchersInv, Quiet
<1>3. Joined => \A s \in Search : Quiet(s)
  BY AllQuiet DEF LifeInv
<1>4. ASSUME NEW r \in Requests, Go(r) PROVE SearchersInv'
  <2>1. CASE built
    <3>1. \A s \in Search : s # last + 1 => req'[s] = req[s]
      BY <1>0, <1>4 DEF Go
    <3>2. \A s \in Search : s = last + 1 => collector[s] = "none"
      BY <1>0 DEF StartedInv, Untouched, Cell
    <3>3. UNCHANGED <<thread, job, collector, failed>>
      BY <1>4, <2>1 DEF Go
    <3> QED
      BY <3>1, <3>2, <3>3 DEF SearchersInv, Active
  <2>2. CASE ~built
    <3>1. \A s \in Search : Quiet(s)
      BY <1>4, <2>2 DEF Go, LifeInv, CallInv, OneSearchAtATime, Search
    <3> QED
      BY <1>2, <1>4, <3>1 DEF Go
  <2> QED
    BY <2>1, <2>2
<1>5. CASE StartSearch
  <2>1. PICK s \in Search : s = last + 1
    BY <1>0, <1>5, SearchesAssumption DEF StartSearch, LifeInv, CallInv, Search, Cell
  <2> DEFINE searching == IF req[s].roots = 0 THEN {} ELSE Recovered
  <2>2. /\ \A t \in Search : Quiet(t)
        /\ UNCHANGED <<failed, req>> /\ built
        /\ collector' = [collector EXCEPT ![s] = "joining"]
        /\ job' = [i \in Worker |-> IF i \in searching THEN s ELSE job[i]]
        /\ thread' = [thread EXCEPT ![s] = [i \in Worker |-> IF i \in searching THEN "head" ELSE "none"]]
    BY <1>3, <1>5, <2>1 DEF StartSearch, LifeInv, CallInv
  <2>3. req[s].roots # 0 => \E i \in Worker : i \in searching
    <3>1. PICK i \in Worker : i \notin lost
      BY <2>2, SomeLeft DEF PlaceInv, TypeOK, PoolTypeOK
    <3>2. i \in Recovered
      BY <2>2, <3>1, QuietPlaces DEF PlaceInv, OnePlace, Recovered
    <3> QED
      BY <3>2
  <2>4. req[s].roots = 0 => searching = {}
    OBVIOUS
  <2> HIDE DEF searching
  <2>5. \A i \in Worker : thread'[s][i] = IF i \in searching THEN "head" ELSE "none"
    BY <1>0, <2>2
  <2>6. \A t \in Search : t # s => collector'[t] # "joining"
    BY <1>0, <2>2 DEF Quiet
  <2>7. \A i \in Worker : i \in searching => job'[i] = s
    BY <2>2
  <2> QED
    BY <2>2, <2>3, <2>4, <2>5, <2>6, <2>7 DEF SearchersInv, Active
<1>6. CASE Cleared \/ Rebuilt \/ Dropped
  BY <1>2, <1>3, <1>6 DEF Cleared, Rebuilt, Dropped
<1>7. CASE NewGame \/ SetOption \/ Shutdown \/ EngineStop \/ Tick
  BY <1>1, <1>7 DEF NewGame, SetOption, Shutdown, DropPool, EngineStop, Tick
<1>8. ASSUME NEW s \in Search,
             HandleStop(s) \/ PonderHit(s) \/ DropHandle(s) \/ Poll(s) \/ Wait(s) \/ WaitReturns(s)
               \/ CheckTime(s) \/ FailLow(s)
      PROVE  SearchersInv'
  BY <1>1, <1>8
  DEF HandleStop, PonderHit, DropHandle, Poll, Wait, WaitReturns, CheckTime, FailLow
<1>9. ASSUME NEW s \in Search, Collect(s) PROVE SearchersInv'
  <2>1. s = last /\ collector'[s] # "joining"
    BY <1>0, <1>9, Current DEF Collect, LifeInv, Quiet
  <2>2. \A t \in Search : t # s => collector'[t] # "joining"
    BY <1>0, <1>9, <2>1 DEF Collect, LifeInv, OneSearchAtATime, Quiet
  <2> QED
    BY <2>1, <2>2 DEF SearchersInv
<1>10. ASSUME NEW s \in Search, ReturnWorkers(s) \/ SendResult(s) PROVE SearchersInv'
  <2>1. UNCHANGED <<thread, job, req, failed>>
    BY <1>10 DEF ReturnWorkers, SendResult
  <2>2. \A t \in Search : collector'[t] = "joining" => collector[t] = "joining"
    BY <1>0, <1>10 DEF ReturnWorkers, SendResult
  <2> QED
    BY <1>1, <2>1, <2>2
<1>11. ASSUME NEW s \in Search, NEW i \in Worker, ThreadStep(s, i) \/ ReachMaxPly(s, i) \/ Panic(s, i)
       PROVE  SearchersInv'
  <2>1. /\ s = last /\ Active(s, i)
        /\ \A t \in Search, j \in Worker : t # s \/ j # i => thread'[t][j] = thread[t][j]
    BY <1>11, ThreadMoves
  <2>2. UNCHANGED <<collector, req>>
    BY <1>11, ThreadKeepsOrPanics
  <2>3. \A t \in Search : t # s => collector[t] # "joining"
    BY <2>1 DEF LifeInv, OneSearchAtATime, Quiet
  <2>4. CASE UNCHANGED <<job, failed>> /\ Active(s, i)'
    BY <2>1, <2>2, <2>3, <2>4 DEF SearchersInv, Active
  <2>5. CASE failed' = [failed EXCEPT ![s] = TRUE]
    BY <1>0, <2>2, <2>3, <2>5 DEF SearchersInv
  <2> QED
    BY <1>11, <2>4, <2>5, ThreadKeepsOrPanics
<1>12. CASE UNCHANGED vars
  BY <1>1, <1>12 DEF vars
<1> QED
  BY <1>4, <1>5, <1>6, <1>7, <1>8, <1>9, <1>10, <1>11, <1>12 DEF Next, Client, CallReturns, CollectorStep

-----------------------------------------------------------------------------
\* A collector of a search without a panic reports its line.
LEMMA CollectsLine ==
  ASSUME TypeOK, SearchersInv, NEW s \in Search, Collect(s), ~failed'[s]
  PROVE  result'[s] = Line(s)
<1> DEFINE joined == {i \in Worker : thread[s][i] = "over"}
<1>0. /\ failed \in [Search -> BOOLEAN] /\ result \in [Search -> Cell]
      /\ thread \in [Search -> [Worker -> ThreadType]]
  BY DEF TypeOK, JobTypeOK
<1>1. ~failed[s] /\ collector[s] = "joining"
  BY <1>0 DEF Collect
<1>2. \A i \in joined : job[i] = s
  BY <1>1 DEF SearchersInv, Active
<1>3. req[s].roots = 0 <=> joined = {}
  BY <1>1 DEF Collect, SearchersInv
<1>4. PICK j \in Reported(s, joined) : result' = [result EXCEPT ![s] = j]
  BY DEF Collect
<1>5. joined # {} => j = s
  BY <1>2, <1>4 DEF Reported, First
<1>6. joined = {} => j = 0
  BY <1>4 DEF Reported
<1> QED
  BY <1>0, <1>3, <1>4, <1>5, <1>6 DEF Line

LEMMA ResultStep ==
  ASSUME TypeOK, LifeInv, StartedInv, SearchersInv, ResultInv, [Next]_vars PROVE ResultInv'
<1> USE DEF poolVars, flagVars, workerVars, jobVars, clientVars
<1>0. /\ last \in Cell /\ failed \in [Search -> BOOLEAN] /\ req \in [Search -> RequestType]
      /\ result \in [Search -> Cell]
      /\ collector \in [Search -> {"none", "joining", "returning", "sending", "ended"}]
      /\ chan \in [Search -> {"none", "open", "full", "closed"}]
      /\ handle \in [Search -> {"none", "held", "waiting", "ended"}]
      /\ seen \in [Search -> {"nothing", "result", "failed", "default"}]
  BY DEF TypeOK, PoolTypeOK, JobTypeOK, ClientTypeOK
<1>a. \A s \in Search : ResultOf(s)
  BY DEF ResultInv
<1>b. SUFFICES \A s \in Search : ResultOf(s)'
  BY DEF ResultInv
<1>1. ASSUME NEW s \in Search, collector'[s] = collector[s], failed'[s] = failed[s],
             result'[s] = result[s], req'[s] = req[s] \/ collector[s] = "none",
             chan'[s] = chan[s], seen'[s] = seen[s],
             handle'[s] = handle[s] \/ handle'[s] # "waiting"
      PROVE  ResultOf(s)'
  BY <1>1, <1>a DEF ResultOf, Answers, Fails, Line
<1>2. ASSUME UNCHANGED <<collector, failed, result, req, chan, handle, seen>>
      PROVE  \A s \in Search : ResultOf(s)'
  BY <1>1, <1>2
<1>3. ASSUME NEW r \in Requests, Go(r) PROVE \A s \in Search : ResultOf(s)'
  <2>1. \A s \in Search : req'[s] = req[s] \/ collector[s] = "none"
    BY <1>0, <1>3 DEF Go, StartedInv, Untouched, Cell
  <2>2. UNCHANGED <<collector, failed, result, chan, handle, seen>>
    BY <1>3 DEF Go
  <2> QED
    BY <1>1, <2>1, <2>2
<1>4. CASE StartSearch
  <2>1. PICK s \in Search : s = last + 1
    BY <1>0, <1>4, SearchesAssumption DEF StartSearch, LifeInv, CallInv, Search, Cell
  <2>2. /\ UNCHANGED <<failed, result, req, seen>>
        /\ collector' = [collector EXCEPT ![s] = "joining"]
        /\ chan' = [chan EXCEPT ![s] = "open"]
        /\ handle' = [handle EXCEPT ![s] = "held"]
    BY <1>4, <2>1 DEF StartSearch
  <2>3. seen[s] = "nothing"
    BY <1>0, <2>1 DEF StartedInv, Untouched, Cell
  <2>4. ResultOf(s)'
    BY <1>0, <2>2, <2>3 DEF ResultOf, Answers, Fails
  <2>5. ASSUME NEW t \in Search, t # s PROVE ResultOf(t)'
    BY <1>0, <1>1, <2>2, <2>5
  <2> QED
    BY <2>4, <2>5
<1>5. CASE Cleared \/ Rebuilt \/ Dropped \/ NewGame \/ SetOption \/ Shutdown \/ EngineStop \/ Tick
  BY <1>2, <1>5 DEF Cleared, Rebuilt, Dropped, NewGame, SetOption, Shutdown, DropPool, EngineStop, Tick
<1>6. ASSUME NEW s \in Search, HandleStop(s) \/ PonderHit(s) \/ CheckTime(s) \/ FailLow(s)
      PROVE  \A t \in Search : ResultOf(t)'
  BY <1>2, <1>6 DEF HandleStop, PonderHit, CheckTime, FailLow
<1>7. ASSUME NEW s \in Search, DropHandle(s) \/ Wait(s) PROVE \A t \in Search : ResultOf(t)'
  <2>1. UNCHANGED <<collector, failed, result, req, chan, seen>>
    BY <1>7 DEF DropHandle, Wait
  <2>2. \A t \in Search : t # s => handle'[t] = handle[t]
    BY <1>0, <1>7 DEF DropHandle, Wait
  <2>3. handle'[s] = "waiting" => seen[s] = "nothing"
    BY <1>0, <1>7 DEF DropHandle, Wait
  <2>4. ResultOf(s)'
    BY <1>a, <2>1, <2>3 DEF ResultOf, Answers, Fails, Line
  <2> QED
    BY <1>1, <2>1, <2>2, <2>4
<1>8. ASSUME NEW s \in Search, Poll(s) \/ WaitReturns(s) PROVE \A t \in Search : ResultOf(t)'
  <2>1. /\ UNCHANGED <<collector, failed, result, req>> /\ seen[s] = "nothing"
        /\ \E failure \in {"failed", "default"} : Receive(s, failure)
        /\ handle'[s] # "waiting" /\ \A t \in Search : t # s => handle'[t] = handle[t]
    BY <1>0, <1>8, <1>a DEF Poll, WaitReturns, ResultOf
  <2>2. ResultOf(s)'
    <3>1. CASE /\ chan[s] = "full" /\ seen' = [seen EXCEPT ![s] = "result"]
               /\ chan' = [chan EXCEPT ![s] = "closed"]
      BY <1>0, <1>a, <2>1, <3>1 DEF ResultOf, Answers, Fails, Line
    <3>2. ASSUME NEW failure \in {"failed", "default"}, chan[s] = "closed",
                 seen' = [seen EXCEPT ![s] = failure], chan' = chan
          PROVE  ResultOf(s)'
      BY <1>0, <1>a, <2>1, <3>2 DEF ResultOf, Answers, Fails, Line
    <3> QED
      BY <2>1, <3>1, <3>2 DEF Receive
  <2>3. \A t \in Search : t # s => chan'[t] = chan[t] /\ seen'[t] = seen[t]
    BY <1>0, <2>1 DEF Receive
  <2> QED
    BY <1>1, <2>1, <2>2, <2>3
<1>9. ASSUME NEW s \in Search, Collect(s) PROVE \A t \in Search : ResultOf(t)'
  <2>1. /\ collector[s] = "joining" /\ collector' = [collector EXCEPT ![s] = "returning"]
        /\ UNCHANGED <<req, chan, handle, seen>>
        /\ \A t \in Search : t # s => failed'[t] = failed[t] /\ result'[t] = result[t]
    BY <1>0, <1>9 DEF Collect
  <2>2. ~failed'[s] => result'[s] = Line(s)
    BY <1>9, CollectsLine
  <2>3. ResultOf(s)'
    BY <1>0, <1>a, <2>1, <2>2 DEF ResultOf, Answers, Fails, Line
  <2> QED
    BY <1>0, <1>1, <2>1, <2>3
<1>10. ASSUME NEW s \in Search, ReturnWorkers(s) PROVE \A t \in Search : ResultOf(t)'
  <2>1. /\ collector[s] = "returning" /\ collector' = [collector EXCEPT ![s] = "sending"]
        /\ UNCHANGED <<req, chan, handle, seen, failed, result>>
    BY <1>10 DEF ReturnWorkers
  <2>2. ResultOf(s)'
    BY <1>0, <1>a, <2>1 DEF ResultOf, Answers, Fails, Line
  <2> QED
    BY <1>0, <1>1, <2>1, <2>2
<1>11. ASSUME NEW s \in Search, SendResult(s) PROVE \A t \in Search : ResultOf(t)'
  <2>1. /\ collector[s] = "sending" /\ collector' = [collector EXCEPT ![s] = "ended"]
        /\ chan' = [chan EXCEPT ![s] = IF failed[s] THEN "closed" ELSE "full"]
        /\ UNCHANGED <<req, handle, seen, failed, result>>
    BY <1>11 DEF SendResult
  <2>2. seen[s] = "nothing"
    BY <1>0, <1>a, <2>1 DEF ResultOf, Answers, Fails
  <2>3. ResultOf(s)'
    BY <1>0, <1>a, <2>1, <2>2 DEF ResultOf, Answers, Fails, Line
  <2> QED
    BY <1>0, <1>1, <2>1, <2>3
<1>12. ASSUME NEW s \in Search, NEW i \in Worker, ThreadStep(s, i) \/ ReachMaxPly(s, i) \/ Panic(s, i)
       PROVE  \A t \in Search : ResultOf(t)'
  <2>1. collector[s] = "joining"
    BY <1>12, ThreadMoves
  <2>2. UNCHANGED <<collector, result, req, chan, handle, seen>>
    BY <1>12, ThreadKeepsOrPanics
  <2>3. failed' = failed \/ failed' = [failed EXCEPT ![s] = TRUE]
    BY <1>12, ThreadKeepsOrPanics
  <2>4. ResultOf(s)'
    BY <1>0, <1>a, <2>1, <2>2 DEF ResultOf, Answers, Fails, Line
  <2>5. \A t \in Search : t # s => failed'[t] = failed[t]
    BY <1>0, <2>3
  <2> QED
    BY <1>1, <2>2, <2>4, <2>5
<1>13. CASE UNCHANGED vars
  BY <1>2, <1>13 DEF vars
<1> QED
  BY <1>3, <1>4, <1>5, <1>6, <1>7, <1>8, <1>9, <1>10, <1>11, <1>12, <1>13
  DEF Next, Client, CallReturns, CollectorStep

-----------------------------------------------------------------------------
\* A search keeps waiting for its application as long as its flags, its main
\* worker's wait and what was asked of it are left alone.
LEMMA EndlessFrame ==
  ASSUME NEW s \in Search, OnlyAsked(s), req'[s] = req[s], failed[s] => failed'[s],
         ponder'[s] = ponder[s] \/ ~Pondering(s)', stop'[s] => stop[s] \/ "stop" \in asked'[s],
         asked[s] \subseteq asked'[s],
         thread'[s][Main] # "none" => thread[s][Main] # "none",
         thread'[s][Main] \in {"over", "joined"} => thread[s][Main] \in {"over", "joined"}
  PROVE  OnlyAsked(s)'
BY DEF OnlyAsked, Endless, Pondering

\* Neither a limit nor a time-out applies to such a search.
LEMMA EndlessIsUnlimited ==
  ASSUME NEW s \in Search, OnlyAsked(s), Endless(s)
  PROVE  /\ LimitHit(s) => ponder[s]
         /\ req[s].timed => ponder[s] /\ req[s].roots # 1
         /\ ponder[s] \/ req[s].infinite
BY DEF OnlyAsked, Endless, LimitHit

LEMMA EndlessStep ==
  ASSUME TypeOK, LifeInv, StartedInv, CellInv, EndlessInv, [Next]_vars PROVE EndlessInv'
<1> USE Zero DEF poolVars, flagVars, workerVars, jobVars, clientVars
<1>0. /\ last \in Cell /\ Search \subseteq Cell
      /\ failed \in [Search -> BOOLEAN] /\ req \in [Search -> RequestType]
      /\ thread \in [Search -> [Worker -> ThreadType]]
      /\ stop \in [Cell -> BOOLEAN] /\ ponder \in [Cell -> BOOLEAN]
      /\ asked \in [Cell -> SUBSET {"stop", "ponderhit"}]
  BY DEF TypeOK, PoolTypeOK, JobTypeOK, WorkerTypeOK, ClientTypeOK
<1>1. ASSUME UNCHANGED <<last, req, failed, ponder, thread>>,
             \A s \in Search : s <= last =>
               (stop'[s] => stop[s] \/ "stop" \in asked'[s]) /\ asked[s] \subseteq asked'[s]
      PROVE  EndlessInv'
  BY <1>1, EndlessFrame DEF EndlessInv
<1>2. ASSUME UNCHANGED <<last, req, failed, ponder, thread, stop, asked>> PROVE EndlessInv'
  BY <1>1, <1>2
<1>3. (StopPool \/ UNCHANGED <<stop, asked>>) =>
        \A s \in Search : (stop'[s] => stop[s] \/ "stop" \in asked'[s]) /\ asked[s] \subseteq asked'[s]
  <2>1. StopPool =>
          \A s \in Search : (stop'[s] => stop[s] \/ "stop" \in asked'[s]) /\ asked[s] \subseteq asked'[s]
    BY <1>0 DEF StopPool, CellInv, Search
  <2> QED
    BY <2>1
<1>4. ASSUME NEW r \in Requests, Go(r) PROVE EndlessInv'
  <2>1. \A s \in Search : s <= last => req'[s] = req[s]
    BY <1>0, <1>4 DEF Go, Search, Cell
  <2>2. UNCHANGED <<last, failed, ponder, thread>> /\ BeginRecovery
    BY <1>4 DEF Go
  <2> QED
    BY <1>3, <2>1, <2>2, EndlessFrame DEF BeginRecovery, EndlessInv
<1>5. CASE NewGame \/ SetOption \/ Shutdown \/ EngineStop
  BY <1>1, <1>3, <1>5 DEF NewGame, SetOption, Shutdown, DropPool, EngineStop, BeginRecovery
<1>6. CASE StartSearch
  <2>1. PICK s \in Search : s = last + 1
    BY <1>0, <1>6, SearchesAssumption DEF StartSearch, LifeInv, CallInv, Search, Cell
  <2>2. /\ last' = s /\ UNCHANGED <<failed, req, asked>>
        /\ stop' = [stop EXCEPT ![s] = FALSE]
        /\ ponder' = [ponder EXCEPT ![s] = req[s].ponder]
        /\ thread'[s][Main] \in {"head", "none"}
        /\ \A t \in Search : t # s => thread'[t] = thread[t]
    BY <1>0, <1>6, <2>1 DEF StartSearch, NewCell
  <2>3. OnlyAsked(s)'
    BY <1>0, <2>2 DEF OnlyAsked, Pondering, Endless
  <2>4. ASSUME NEW t \in Search, t # s, t <= s PROVE OnlyAsked(t)'
    <3>1. OnlyAsked(t)
      BY <1>0, <2>1, <2>4 DEF EndlessInv, Search, Cell
    <3> QED
      BY <1>0, <2>2, <2>4, <3>1, EndlessFrame
  <2> QED
    BY <2>2, <2>3, <2>4 DEF EndlessInv
<1>7. CASE Cleared \/ Dropped \/ Tick
  BY <1>2, <1>7 DEF Cleared, Dropped, Tick
<1>8. CASE Rebuilt
  <2>0. \A s \in Search : s # 0
    BY DEF Search
  <2>1. \A s \in Search : stop'[s] = stop[s] /\ ponder'[s] = ponder[s]
    BY <1>0, <1>8, <2>0 DEF Rebuilt
  <2> QED
    BY <1>8, <2>1, EndlessFrame DEF Rebuilt, EndlessInv
<1>9. ASSUME NEW s \in Search, HandleStop(s) \/ DropHandle(s) \/ Poll(s) \/ Wait(s) \/ WaitReturns(s)
      PROVE  EndlessInv'
  <2>1. SetStop(s) \/ UNCHANGED <<stop, asked>>
    BY <1>9 DEF HandleStop, DropHandle, Poll, Wait, WaitReturns
  <2>2. handleCell[s] = s
    BY <1>9, HeldIsStarted DEF HandleStop, DropHandle, Poll, Wait, WaitReturns, Begun
  <2>3. \A t \in Search : (stop'[t] => stop[t] \/ "stop" \in asked'[t]) /\ asked[t] \subseteq asked'[t]
    BY <1>0, <2>1, <2>2 DEF SetStop
  <2>4. UNCHANGED <<last, req, failed, ponder, thread>>
    BY <1>9 DEF HandleStop, DropHandle, Poll, Wait, WaitReturns
  <2> QED
    BY <1>1, <2>3, <2>4
<1>10. ASSUME NEW s \in Search, PonderHit(s) PROVE EndlessInv'
  <2>1. handleCell[s] = s
    BY <1>10, HeldIsStarted DEF PonderHit, Begun
  <2>2. /\ \A t \in Search : t # s => ponder'[t] = ponder[t]
        /\ \A t \in Search : asked[t] \subseteq asked'[t]
        /\ ~Pondering(s)'
    BY <1>0, <1>10, <2>1 DEF PonderHit, Pondering
  <2>3. UNCHANGED <<last, req, failed, stop, thread>>
    BY <1>10 DEF PonderHit
  <2> QED
    BY <2>2, <2>3, EndlessFrame DEF EndlessInv
<1>11. ASSUME NEW s \in Search, CheckTime(s) PROVE EndlessInv'
  <2>1. Active(s, Main)
    BY <1>11 DEF CheckTime, Active
  <2>2. cell[Main] = s /\ s = last
    BY <2>1, Current DEF CellInv, LifeInv, Quiet, Active
  <2>3. /\ UNCHANGED <<last, req, failed, ponder, thread, asked>>
        /\ \A t \in Search : t # s => stop'[t] = stop[t]
    BY <1>0, <1>11, <2>2 DEF CheckTime, Raise
  <2>4. OnlyAsked(s) /\ ~Endless(s)
    BY <1>0, <1>11, <2>2, EndlessIsUnlimited DEF CheckTime, EndlessInv, Cell
  <2>5. OnlyAsked(s)'
    BY <2>3, <2>4 DEF OnlyAsked, Endless, Pondering
  <2> QED
    BY <2>3, <2>5, EndlessFrame DEF EndlessInv
<1>12. ASSUME NEW s \in Search, FailLow(s) \/ ReturnWorkers(s) \/ SendResult(s) PROVE EndlessInv'
  BY <1>2, <1>12 DEF FailLow, ReturnWorkers, SendResult
<1>13. ASSUME NEW s \in Search, Collect(s) PROVE EndlessInv'
  <2>1. /\ UNCHANGED <<last, req, ponder, stop, asked>>
        /\ failed' = [failed EXCEPT ![s] = @ \/ \E i \in Worker : thread[s][i] = "dead"]
        /\ \A t \in Search : t # s => thread'[t] = thread[t]
        /\ thread[s][Main] \in {"none", "over", "dead"}
        /\ thread'[s][Main] = IF thread[s][Main] = "none" THEN "none" ELSE "joined"
    BY <1>0, <1>13 DEF Collect
  <2>2. \A t \in Search : t # s /\ OnlyAsked(t) => OnlyAsked(t)'
    BY <1>0, <2>1, EndlessFrame
  <2>3. OnlyAsked(s) => OnlyAsked(s)'
    <3>1. CASE thread[s][Main] = "dead"
      <4>1. failed'[s]
        BY <1>0, <2>1, <3>1
      <4> QED
        BY <2>1, <4>1 DEF OnlyAsked, Pondering
    <3>2. CASE thread[s][Main] # "dead"
      <4>1. failed[s] => failed'[s]
        BY <1>0, <2>1
      <4> QED
        BY <1>0, <2>1, <3>2, <4>1, EndlessFrame
    <3> QED
      BY <3>1, <3>2
  <2> QED
    BY <2>1, <2>2, <2>3 DEF EndlessInv
<1>14. ASSUME NEW s \in Search, NEW i \in Worker, ThreadStep(s, i) \/ ReachMaxPly(s, i) \/ Panic(s, i)
       PROVE  EndlessInv'
  <2>1. /\ s = last /\ Active(s, i) /\ cell[i] = s
        /\ \A t \in Search, j \in Worker : t # s \/ j # i => thread'[t][j] = thread[t][j]
    BY <1>14, ThreadMoves DEF CellInv
  <2>2. UNCHANGED <<last, req, ponder, asked>>
    BY <1>14, ThreadKeepsOrPanics
  <2>3. Raise(i) \/ UNCHANGED stop
    <3>1. i = Main => (Raise(Main) => Raise(i))
      OBVIOUS
    <3> QED
      BY <1>14, <3>1 DEF ThreadStep, EnterIteration, LeaveLoop, EndIteration, ManageTime, Unpark,
         ReachMaxPly, Panic
  <2>4. \A t \in Search : t # s => stop'[t] = stop[t]
    BY <1>0, <2>1, <2>3 DEF Raise
  <2>5. failed' = failed \/ failed' = [failed EXCEPT ![s] = TRUE]
    BY <1>14, ThreadKeepsOrPanics
  <2>6. \A t \in Search : t # s /\ OnlyAsked(t) => OnlyAsked(t)'
    BY <1>0, <2>1, <2>2, <2>4, <2>5, EndlessFrame
  <2>7. OnlyAsked(s)
    BY <1>0, <2>1 DEF EndlessInv, Cell
  <2>8. OnlyAsked(s)'
    <3>1. CASE failed' = [failed EXCEPT ![s] = TRUE]
      BY <1>0, <2>2, <2>7, <3>1 DEF OnlyAsked, Pondering
    <3>2. thread'[s][Main] # "none" => thread[s][Main] # "none"
      BY <2>1 DEF Active
    <3>3. CASE EnterIteration(s, i) \/ LeaveLoop(s, i) \/ EndIteration(s, i) \/ ReachMaxPly(s, i)
      <4>1. i = Main => thread'[s][Main] \notin {"over", "joined"}
        BY <1>0, <3>3 DEF EnterIteration, LeaveLoop, EndIteration, ReachMaxPly, Move, AfterLoop
      <4>2. UNCHANGED <<stop, failed>>
        BY <3>3 DEF EnterIteration, LeaveLoop, EndIteration, ReachMaxPly
      <4> QED
        BY <2>1, <2>2, <2>7, <3>2, <4>1, <4>2, EndlessFrame
    <3>4. ASSUME NEW over \in BOOLEAN, i = Main, ManageTime(s, over) PROVE OnlyAsked(s)'
      <4>1. /\ thread'[s][Main] = "head" /\ UNCHANGED failed /\ req[s].timed
            /\ req[s].roots = 1 \/ ~ponder[s] \/ UNCHANGED stop
        BY <1>0, <2>1, <3>4 DEF ManageTime, Move, Managed
      <4>2. Endless(s) => UNCHANGED stop
        BY <2>7, <4>1, EndlessIsUnlimited
      <4> QED
        BY <2>2, <2>7, <3>2, <4>1, <4>2 DEF OnlyAsked, Endless, Pondering
    <3>5. ASSUME i = Main, Unpark(s) PROVE OnlyAsked(s)'
      <4>1. UNCHANGED failed /\ (stop[s] \/ ~(ponder[s] \/ req[s].infinite))
        BY <1>0, <2>1, <3>5 DEF Unpark, Stopped
      <4>2. Endless(s) => stop[s]
        BY <2>7, <4>1, EndlessIsUnlimited
      <4> QED
        BY <2>2, <2>7, <3>2, <4>1, <4>2 DEF OnlyAsked, Endless, Pondering
    <3> QED
      BY <1>14, <3>1, <3>3, <3>4, <3>5 DEF ThreadStep, Panic
  <2> QED
    BY <2>2, <2>6, <2>8 DEF EndlessInv
<1>15. CASE UNCHANGED vars
  BY <1>2, <1>15 DEF vars
<1> QED
  BY <1>4, <1>5, <1>6, <1>7, <1>8, <1>9, <1>10, <1>11, <1>12, <1>13, <1>14, <1>15
  DEF Next, Client, CallReturns, CollectorStep

-----------------------------------------------------------------------------
LEMMA Inductive == Spec => []IInv
<1>1. IInv /\ [Next]_vars => IInv'
  BY TypeStep, LifeStep DEF IInv, LifeInv
<1> QED
  BY InitIInv, <1>1, PTL DEF Spec

\* Type correctness of the engine, its pool, its threads and its handles.
THEOREM TypeCorrect == Spec => []TypeOK
BY Inductive, PTL DEF IInv

\* Searches are sequential: whatever sequence of calls, stops, panics and
\* rebuilt pools, when a search has started every earlier one has joined its
\* workers and its collector, so that no two searches' threads ever run
\* together on the histories and the transposition table they share.
THEOREM SearchesAreSequential == Spec => []OneSearchAtATime
BY Inductive, PTL DEF IInv

-----------------------------------------------------------------------------
FullInv == IInv /\ AnswersInv

LEMMA InitFull == Init => FullInv
<1> SUFFICES ASSUME Init PROVE FullInv
  OBVIOUS
<1>1. IInv
  BY InitIInv
<1>2. \A s \in Search : Untouched(s) /\ carried[s] = {} /\ s > last
  BY Zero DEF Init, Untouched, Search
<1>3. PlaceInv
  BY <1>2 DEF Init, PlaceInv
<1>4. StartedInv /\ EndlessInv
  BY <1>2 DEF Init, StartedInv, EndlessInv, Search
<1>5. CellInv /\ SearchersInv /\ ResultInv
  BY <1>2 DEF Init, CellInv, SearchersInv, ResultInv, ResultOf, Active, Untouched, Answers, Fails
<1> QED
  BY <1>1, <1>3, <1>4, <1>5 DEF FullInv, AnswersInv

LEMMA FullStep == FullInv /\ [Next]_vars => FullInv'
<1> SUFFICES ASSUME FullInv, [Next]_vars PROVE FullInv'
  OBVIOUS
<1>1. TypeOK /\ LifeInv /\ AnswersInv
  BY DEF FullInv, IInv, LifeInv
<1>2. TypeOK' /\ LifeInv'
  BY <1>1, TypeStep, LifeStep DEF LifeInv
<1>3. PlaceInv' /\ StartedInv' /\ CellInv'
  BY <1>1, PlaceStep, StartedStep, CellStep DEF AnswersInv
<1>4. SearchersInv' /\ ResultInv' /\ EndlessInv'
  BY <1>1, SearchersStep, ResultStep, EndlessStep DEF AnswersInv
<1> QED
  BY <1>2, <1>3, <1>4 DEF FullInv, IInv, LifeInv, AnswersInv

LEMMA FullInductive == Spec => []FullInv
BY InitFull, FullStep, PTL DEF Spec

\* What a search that has to be ended waits for.
LEMMA EndlessIsAsked ==
  ASSUME FullInv, NEW s \in Search,
         collector[s] \in {"returning", "sending", "ended"}, Endless(s), ~failed[s]
  PROVE  "stop" \in asked[s]
<1>1. s <= last
  BY HeldIsStarted DEF FullInv, IInv, AnswersInv
<1>2. thread[s][Main] = "joined"
  BY Zero DEF FullInv, IInv, CollectorInv, Endless
<1> QED
  BY <1>1, <1>2 DEF FullInv, AnswersInv, EndlessInv, OnlyAsked

\* No worker is lost or duplicated, for any number of workers, searches and
\* panics: in a built pool each is in the pool, on the channel, in one thread,
\* with one collector, or among the lost.  (start_search, recover_workers,
\* collect_finished and the panic handler.)
THEOREM WorkersAreConserved == Spec => []WorkersConserved
<1>1. FullInv => WorkersConserved
  BY OnePlaceCounts DEF FullInv, IInv, LifeInv, AnswersInv, WorkersConserved
<1> QED
  BY <1>1, FullInductive, PTL

\* An application that is told of a result is told of the line of the search
\* it asked for, of which no worker panicked.  (extract_search_result,
\* try_result and wait_result.)
THEOREM AnswersAreTrue == Spec => []AnswerIsTrue
<1>1. FullInv => AnswerIsTrue
  BY DEF FullInv, AnswersInv, ResultInv, ResultOf, Answers, Fails, Line,
     AnswerIsTrue
<1> QED
  BY <1>1, FullInductive, PTL

\* Only its application ends a search without a limit, or one that ponders:
\* no limit, no time-out, no helper and no handle of another search.
\* (check_time, the waits of iterative_deepening and SearchHandle.)
THEOREM EndlessSearchesWait == Spec => []EndlessWaits
<1>1. FullInv => EndlessWaits
  BY EndlessIsAsked DEF EndlessWaits
<1> QED
  BY <1>1, FullInductive, PTL

-----------------------------------------------------------------------------
(***************************************************************************)
(* The pool implements the service.                                         *)
(***************************************************************************)
\* What the application sees of a search, before and after a step.
LEMMA StatusIs ==
  ASSUME NEW s \in Search
  PROVE  /\ collector[s] = "none" => StatusOf(s) = "unused"
         /\ collector[s] \in {"joining", "returning", "sending"} => StatusOf(s) = "running"
         /\ collector[s] = "ended" => StatusOf(s) = IF failed[s] THEN "failed" ELSE "answered"
<1>1. collector[s] = "none" => StatusOf(s) = "unused"
  BY DEF StatusOf
<1>2. collector[s] \in {"joining", "returning", "sending"} => StatusOf(s) = "running"
  BY DEF StatusOf
<1>3. collector[s] = "ended" => StatusOf(s) = IF failed[s] THEN "failed" ELSE "answered"
  BY DEF StatusOf
<1> QED
  BY <1>1, <1>2, <1>3

LEMMA StatusIsNext ==
  ASSUME NEW s \in Search
  PROVE  /\ collector'[s] = "none" => StatusOf(s)' = "unused"
         /\ collector'[s] \in {"joining", "returning", "sending"} => StatusOf(s)' = "running"
         /\ collector'[s] = "ended" => StatusOf(s)' = IF failed'[s] THEN "failed" ELSE "answered"
<1>1. collector'[s] = "none" => StatusOf(s)' = "unused"
  BY DEF StatusOf
<1>2. collector'[s] \in {"joining", "returning", "sending"} => StatusOf(s)' = "running"
  BY DEF StatusOf
<1>3. collector'[s] = "ended" => StatusOf(s)' = IF failed'[s] THEN "failed" ELSE "answered"
  BY DEF StatusOf
<1> QED
  BY <1>1, <1>2, <1>3

LEMMA StatusKept ==
  ASSUME TypeOK, NEW s \in Search, collector'[s] = collector[s],
         failed'[s] = failed[s] \/ collector[s] # "ended"
  PROVE  StatusOf(s)' = StatusOf(s)
<1>1. collector[s] \in {"none", "joining", "returning", "sending", "ended"}
  BY DEF TypeOK, JobTypeOK
<1> QED
  BY <1>1, StatusIs, StatusIsNext

LEMMA EndlessIsBoolean ==
  ASSUME NEW s PROVE Endless(s) \in BOOLEAN /\ Endless(s)' \in BOOLEAN
BY DEF Endless

LEMMA EndlessKept ==
  ASSUME NEW s \in Search, req'[s] = req[s],
         "ponderhit" \in asked'[s] <=> "ponderhit" \in asked[s],
         thread'[s][Main] = "none" <=> thread[s][Main] = "none"
  PROVE  Endless(s)' = Endless(s)
<1>1. Endless(s)' <=> Endless(s)
  BY DEF Endless, Pondering
<1> QED
  BY <1>1, EndlessIsBoolean

LEMMA ToldKept ==
  ASSUME UNCHANGED seen PROVE [s \in Search |-> Told(s)]' = [s \in Search |-> Told(s)]
<1>1. \A s \in Search : Told(s)' = Told(s)
  BY DEF Told
<1> QED
  BY <1>1

\* Seen by the application, nothing happens.
LEMMA ServiceStutters ==
  ASSUME UNCHANGED <<last, seen>>,
         \A s \in Search : /\ StatusOf(s)' = StatusOf(s) /\ Endless(s)' = Endless(s)
                           /\ "stop" \in asked'[s] <=> "stop" \in asked[s]
  PROVE  UNCHANGED Service!svars
<1>1. [s \in Search |-> StatusOf(s)]' = [s \in Search |-> StatusOf(s)]
  OBVIOUS
<1>2. [s \in Search |-> Endless(s)]' = [s \in Search |-> Endless(s)]
  OBVIOUS
<1>3. [s \in Search |-> "stop" \in asked[s]]' = [s \in Search |-> "stop" \in asked[s]]
  OBVIOUS
<1> QED
  BY <1>1, <1>2, <1>3, ToldKept DEF Service!svars

\* It asks for a stop.
LEMMA ServiceAsks ==
  ASSUME NEW t \in Search, StatusOf(t) # "unused", UNCHANGED <<last, seen>>,
         \A s \in Search : /\ StatusOf(s)' = StatusOf(s) /\ Endless(s)' = Endless(s)
                           /\ s # t => ("stop" \in asked'[s] <=> "stop" \in asked[s]),
         "stop" \in asked'[t]
  PROVE  Service!AskStop(t)
<1>1. [s \in Search |-> StatusOf(s)]' = [s \in Search |-> StatusOf(s)]
  OBVIOUS
<1>2. [s \in Search |-> Endless(s)]' = [s \in Search |-> Endless(s)]
  OBVIOUS
<1>3. [s \in Search |-> "stop" \in asked[s]]'
        = [[s \in Search |-> "stop" \in asked[s]] EXCEPT ![t] = TRUE]
  <2> DEFINE f == [s \in Search |-> "stop" \in asked'[s]]
             g == [s \in Search |-> "stop" \in asked[s]]
  <2>1. f[t] = TRUE
    OBVIOUS
  <2>2. \A s \in Search : s # t => f[s] = g[s]
    OBVIOUS
  <2>3. f = [s \in Search |-> f[s]] /\ g = [s \in Search |-> g[s]]
    OBVIOUS
  <2> HIDE DEF f, g
  <2>4. f = [g EXCEPT ![t] = TRUE]
    BY <2>1, <2>2, <2>3
  <2> QED
    BY <2>4 DEF f, g
<1> QED
  BY <1>1, <1>2, <1>3, ToldKept DEF Service!AskStop

\* A search starts when no other runs.
LEMMA ServiceStarts ==
  ASSUME FullInv, StartSearch PROVE \E e \in BOOLEAN : Service!Start(e)
<1>0. /\ last \in Cell /\ collector \in [Search -> {"none", "joining", "returning", "sending", "ended"}]
      /\ thread \in [Search -> [Worker -> ThreadType]]
  BY DEF FullInv, IInv, TypeOK, PoolTypeOK, JobTypeOK
<1>1. PICK s \in Search : s = last + 1
  BY <1>0, SearchesAssumption DEF StartSearch, FullInv, IInv, CallInv, Search, Cell
<1>2. /\ last' = s /\ UNCHANGED <<failed, req, asked, seen>>
      /\ collector' = [collector EXCEPT ![s] = "joining"]
      /\ \A t \in Search : t # s => thread'[t] = thread[t]
  BY <1>0, <1>1 DEF StartSearch
<1>3. \A t \in Search : t # s => StatusOf(t)' = StatusOf(t) /\ Endless(t)' = Endless(t)
  BY <1>0, <1>2, StatusKept, EndlessKept DEF FullInv, IInv
<1>4. StatusOf(s)' = "running"
  BY <1>0, <1>2, StatusIsNext
<1>5. ASSUME NEW t \in Search PROVE StatusOf(t) # "running"
  <2>1. collector[t] \in {"none", "ended"}
    BY AllQuiet DEF StartSearch, FullInv, IInv, Quiet
  <2> QED
    BY <2>1, StatusIs
<1>6. [t \in Search |-> StatusOf(t)]' = [[t \in Search |-> StatusOf(t)] EXCEPT ![s] = "running"]
  BY <1>3, <1>4
<1>7. PICK e \in BOOLEAN : Endless(s)' = e
  BY EndlessIsBoolean
<1>8. [t \in Search |-> Endless(t)]' = [[t \in Search |-> Endless(t)] EXCEPT ![s] = e]
  BY <1>3, <1>7
<1>9. [t \in Search |-> "stop" \in asked[t]]' = [t \in Search |-> "stop" \in asked[t]]
  BY <1>2
<1> QED
  BY <1>1, <1>2, <1>5, <1>6, <1>8, <1>9, ToldKept
  DEF Service!Start, Service!Running, Service!Search, Search

\* A ponder hit is one, or changes nothing because the search is infinite.
LEMMA ServicePonders ==
  ASSUME FullInv, NEW s \in Search, PonderHit(s) PROVE Service!PonderHit(s) \/ UNCHANGED Service!svars
<1>0. asked \in [Cell -> SUBSET {"stop", "ponderhit"}] /\ Search \subseteq Cell
  BY Zero DEF FullInv, IInv, TypeOK, ClientTypeOK
<1>1. /\ UNCHANGED <<last, req, failed, thread, collector, seen>>
      /\ asked' = [asked EXCEPT ![s] = @ \union {"ponderhit"}]
  BY DEF PonderHit, poolVars, jobVars
<1>2. \A t \in Search : StatusOf(t)' = StatusOf(t)
  BY <1>1, StatusKept DEF FullInv, IInv
<1>3. \A t \in Search : "stop" \in asked'[t] <=> "stop" \in asked[t]
  BY <1>0, <1>1
<1>4. \A t \in Search : t # s => Endless(t)' = Endless(t)
  BY <1>0, <1>1, EndlessKept
<1>5. CASE Endless(s)' = Endless(s)
  BY <1>1, <1>2, <1>3, <1>4, <1>5, ServiceStutters
<1>6. CASE Endless(s)' # Endless(s)
  <2>1. Endless(s)' = FALSE
    <3>1. Endless(s)' => Endless(s)
      BY <1>0, <1>1 DEF Endless, Pondering
    <3> QED
      BY <1>6, <3>1, EndlessIsBoolean
  <2>2. [t \in Search |-> Endless(t)]' = [[t \in Search |-> Endless(t)] EXCEPT ![s] = FALSE]
    BY <1>4, <2>1
  <2>3. [t \in Search |-> StatusOf(t)]' = [t \in Search |-> StatusOf(t)]
    BY <1>2
  <2>4. [t \in Search |-> "stop" \in asked[t]]' = [t \in Search |-> "stop" \in asked[t]]
    BY <1>3
  <2>5. StatusOf(s) # "unused"
    <3>1. collector[s] \in {"joining", "returning", "sending", "ended"}
      BY HeldIsStarted DEF PonderHit, FullInv, AnswersInv, IInv, TypeOK, JobTypeOK, Begun
    <3> QED
      BY <3>1, StatusIs
  <2> QED
    BY <1>1, <2>2, <2>3, <2>4, <2>5, ToldKept DEF Service!PonderHit
<1> QED
  BY <1>5, <1>6

\* A search ends when its result is sent, or its sender dropped; one that may
\* not end by itself was asked to.
LEMMA ServiceEnds ==
  ASSUME FullInv, NEW s \in Search, SendResult(s) PROVE Service!End(s)
<1>0. collector \in [Search -> {"none", "joining", "returning", "sending", "ended"}]
      /\ failed \in [Search -> BOOLEAN]
  BY DEF FullInv, IInv, TypeOK, JobTypeOK
<1>1. /\ UNCHANGED <<last, req, failed, thread, asked, seen>> /\ collector[s] = "sending"
      /\ collector' = [collector EXCEPT ![s] = "ended"]
  BY DEF SendResult, poolVars
<1>2. \A t \in Search : Endless(t)' = Endless(t)
  BY <1>1, EndlessKept
<1>3. \A t \in Search : t # s => StatusOf(t)' = StatusOf(t)
  BY <1>0, <1>1, StatusKept DEF FullInv, IInv
<1>4. StatusOf(s) = "running" /\ StatusOf(s)' = IF failed[s] THEN "failed" ELSE "answered"
  BY <1>0, <1>1, StatusIs, StatusIsNext
<1>5. ~failed[s] => (Endless(s) => "stop" \in asked[s])
  BY <1>1, EndlessIsAsked
<1>6. [t \in Search |-> Endless(t)]' = [t \in Search |-> Endless(t)]
  BY <1>2
<1>7. [t \in Search |-> "stop" \in asked[t]]' = [t \in Search |-> "stop" \in asked[t]]
  BY <1>1
<1>8. CASE failed[s]
  <2>1. [t \in Search |-> StatusOf(t)]' = [[t \in Search |-> StatusOf(t)] EXCEPT ![s] = "failed"]
    BY <1>3, <1>4, <1>8
  <2> QED
    BY <1>1, <1>4, <1>6, <1>7, <2>1, ToldKept DEF Service!End, Service!Running
<1>9. CASE ~failed[s]
  <2>1. [t \in Search |-> StatusOf(t)]' = [[t \in Search |-> StatusOf(t)] EXCEPT ![s] = "answered"]
    BY <1>3, <1>4, <1>9
  <2>2. [t \in Search |-> Endless(t)][s] => [t \in Search |-> "stop" \in asked[t]][s]
    BY <1>5, <1>9
  <2> QED
    BY <1>1, <1>4, <1>6, <1>7, <2>1, <2>2, ToldKept DEF Service!End, Service!Running
<1> QED
  BY <1>8, <1>9

\* The application is told what the search has come to.
LEMMA ServiceTells ==
  ASSUME FullInv, NEW s \in Search, Poll(s) \/ WaitReturns(s) PROVE Service!Tell(s)
<1>0. /\ asked \in [Cell -> SUBSET {"stop", "ponderhit"}] /\ Search \subseteq Cell
      /\ seen \in [Search -> {"nothing", "result", "failed", "default"}]
  BY Zero DEF FullInv, IInv, TypeOK, ClientTypeOK
<1>1. UNCHANGED <<last, req, failed, thread, collector>>
      /\ \E failure \in {"failed", "default"} : Receive(s, failure)
      /\ (asked' = asked \/ asked' = [asked EXCEPT ![s] = @ \union {"stop"}])
  BY DEF Poll, WaitReturns, SetStop, poolVars, jobVars
<1>2. ResultOf(s)
  BY DEF FullInv, AnswersInv, ResultInv
<1>3. seen[s] = "nothing"
  BY <1>2 DEF Poll, WaitReturns, ResultOf
<1> DEFINE told == [t \in Search |-> Told(t)]
<1>4. \/ StatusOf(s) = "answered" /\ told' = [told EXCEPT ![s] = "result"]
      \/ StatusOf(s) = "failed" /\ told' = [told EXCEPT ![s] = "failed"]
  <2>1. ASSUME NEW w \in {"result", "failed", "default"}, seen' = [seen EXCEPT ![s] = w]
        PROVE  told' = [told EXCEPT ![s] = IF w = "default" THEN "failed" ELSE w]
    BY <1>0, <2>1 DEF Told
  <2>2. CASE chan[s] = "full" /\ seen' = [seen EXCEPT ![s] = "result"]
    BY <1>2, <2>1, <2>2, StatusIs DEF ResultOf, Answers
  <2>3. ASSUME NEW failure \in {"failed", "default"}, chan[s] = "closed",
               seen' = [seen EXCEPT ![s] = failure]
        PROVE  StatusOf(s) = "failed" /\ told' = [told EXCEPT ![s] = "failed"]
    BY <1>2, <1>3, <2>1, <2>3, StatusIs DEF ResultOf, Fails
  <2> QED
    BY <1>1, <2>2, <2>3 DEF Receive
<1>5. \A t \in Search : StatusOf(t)' = StatusOf(t)
  BY <1>1, StatusKept DEF FullInv, IInv
<1>6. \A t \in Search : Endless(t)' = Endless(t)
  BY <1>0, <1>1, EndlessKept
<1>7. [t \in Search |-> StatusOf(t)]' = [t \in Search |-> StatusOf(t)]
  BY <1>5
<1>8. [t \in Search |-> Endless(t)]' = [t \in Search |-> Endless(t)]
  BY <1>6
<1>9. [t \in Search |-> "stop" \in asked[t]]'
        \in {[t \in Search |-> "stop" \in asked[t]],
             [[t \in Search |-> "stop" \in asked[t]] EXCEPT ![s] = TRUE]}
  <2>1. CASE asked' = asked
    BY <2>1
  <2>2. CASE asked' = [asked EXCEPT ![s] = @ \union {"stop"}]
    <3> DEFINE f == [t \in Search |-> "stop" \in asked'[t]]
               g == [t \in Search |-> "stop" \in asked[t]]
    <3>1. f[s] = TRUE
      BY <1>0, <2>2
    <3>2. \A t \in Search : t # s => f[t] = g[t]
      BY <1>0, <2>2
    <3>3. f = [t \in Search |-> f[t]] /\ g = [t \in Search |-> g[t]]
      OBVIOUS
    <3> HIDE DEF f, g
    <3>4. f = [g EXCEPT ![s] = TRUE]
      BY <3>1, <3>2, <3>3
    <3> QED
      BY <3>4 DEF f, g
  <2> QED
    BY <1>1, <2>1, <2>2
<1>10. \/ [t \in Search |-> StatusOf(t)][s] = "answered" /\ told' = [told EXCEPT ![s] = "result"]
       \/ [t \in Search |-> StatusOf(t)][s] = "failed" /\ told' = [told EXCEPT ![s] = "failed"]
  BY <1>4
<1>11. told[s] = "nothing"
  BY <1>3 DEF Told
<1> QED
  BY <1>1, <1>11, <1>7, <1>8, <1>9, <1>10 DEF Service!Tell

LEMMA ServiceStep ==
  ASSUME FullInv, [Next]_vars PROVE [Service!Next]_(Service!svars)
<1> USE Zero DEF poolVars, flagVars, workerVars, jobVars, clientVars
<1>0. /\ TypeOK /\ LifeInv /\ StartedInv /\ last \in Cell /\ Search \subseteq Cell
      /\ asked \in [Cell -> SUBSET {"stop", "ponderhit"}]
      /\ thread \in [Search -> [Worker -> ThreadType]]
      /\ collector \in [Search -> {"none", "joining", "returning", "sending", "ended"}]
  BY DEF FullInv, IInv, LifeInv, AnswersInv, TypeOK, PoolTypeOK, JobTypeOK, ClientTypeOK
<1>1. ASSUME UNCHANGED <<last, req, thread, collector, failed, asked, seen>>
      PROVE  UNCHANGED Service!svars
  BY <1>0, <1>1, StatusKept, EndlessKept, ServiceStutters
<1>2. ASSUME NEW t \in Cell, asked' = [asked EXCEPT ![t] = @ \union {"stop"}], t <= last,
             UNCHANGED <<last, thread, collector, failed, seen>>,
             \A s \in Search : s <= last => req'[s] = req[s]
      PROVE  [Service!Next]_(Service!svars)
  <2>1. \A s \in Search : StatusOf(s)' = StatusOf(s)
    BY <1>0, <1>2, StatusKept
  <2>2. ASSUME NEW s \in Search PROVE Endless(s)' = Endless(s)
    <3>1. CASE s <= last
      <4>1. "ponderhit" \in asked'[s] <=> "ponderhit" \in asked[s]
        BY <1>0, <1>2
      <4> QED
        BY <1>2, <3>1, <4>1, EndlessKept
    <3>2. CASE ~(s <= last)
      <4>1. thread[s][Main] = "none" /\ thread'[s][Main] = "none"
        BY <1>0, <1>2, <3>2 DEF StartedInv, Untouched, Search, Cell
      <4> QED
        BY <4>1 DEF Endless
    <3> QED
      BY <3>1, <3>2
  <2>3. \A s \in Search : s # t => ("stop" \in asked'[s] <=> "stop" \in asked[s])
    BY <1>0, <1>2
  <2>4. CASE t \in Search
    <3>1. collector[t] # "none" /\ "stop" \in asked'[t]
      BY <1>0, <1>2, <2>4 DEF StartedInv, Begun, Search, Cell
    <3>2. StatusOf(t) # "unused"
      BY <1>0, <2>4, <3>1, StatusIs
    <3>3. Service!AskStop(t)
      BY <1>2, <2>1, <2>2, <2>3, <2>4, <3>1, <3>2, ServiceAsks
    <3> QED
      BY <2>4, <3>3 DEF Service!Next, Service!Search, Search
  <2>5. CASE t \notin Search
    BY <1>2, <2>1, <2>2, <2>3, <2>5, ServiceStutters
  <2> QED
    BY <2>4, <2>5
<1>3. ASSUME NEW r \in Requests, Go(r) PROVE [Service!Next]_(Service!svars)
  <2>1. /\ UNCHANGED <<last, thread, collector, failed, seen>> /\ BeginRecovery
        /\ \A s \in Search : s <= last => req'[s] = req[s]
    BY <1>0, <1>3 DEF Go, Search, Cell
  <2>2. CASE StopPool
    <3>1. asked' = [asked EXCEPT ![last] = @ \union {"stop"}]
      BY <1>0, <2>2 DEF StopPool
    <3>2. last \in Cell /\ last <= last
      BY <1>0 DEF Cell
    <3>3. UNCHANGED <<last, thread, collector, failed, seen>>
      BY <2>1
    <3>4. \A s \in Search : s <= last => req'[s] = req[s]
      BY <2>1
    <3> QED
      BY <1>2, <3>1, <3>2, <3>3, <3>4
  <2>3. CASE UNCHANGED asked
    <3>1. \A s \in Search : StatusOf(s)' = StatusOf(s)
      BY <1>0, <2>1, StatusKept
    <3>2. ASSUME NEW s \in Search PROVE Endless(s)' = Endless(s)
      <4>1. CASE s <= last
        BY <2>1, <2>3, <4>1, EndlessKept
      <4>2. CASE ~(s <= last)
        <5>1. thread[s][Main] = "none" /\ thread'[s][Main] = "none"
          BY <1>0, <2>1, <4>2 DEF StartedInv, Untouched, Search, Cell
        <5> QED
          BY <5>1 DEF Endless
      <4> QED
        BY <4>1, <4>2
    <3> QED
      BY <2>1, <2>3, <3>1, <3>2, ServiceStutters
  <2> QED
    BY <2>1, <2>2, <2>3 DEF BeginRecovery
<1>4. CASE NewGame \/ SetOption \/ Shutdown \/ EngineStop
  <2>1. UNCHANGED <<last, req, thread, collector, failed, seen>> /\ (StopPool \/ UNCHANGED asked)
    BY <1>4 DEF NewGame, SetOption, Shutdown, DropPool, EngineStop, BeginRecovery
  <2>2. CASE StopPool
    <3>1. asked' = [asked EXCEPT ![last] = @ \union {"stop"}]
      BY <1>0, <2>2 DEF StopPool
    <3>2. last \in Cell /\ last <= last
      BY <1>0 DEF Cell
    <3>3. UNCHANGED <<last, thread, collector, failed, seen>>
      BY <2>1
    <3>4. \A s \in Search : s <= last => req'[s] = req[s]
      BY <2>1
    <3> QED
      BY <1>2, <3>1, <3>2, <3>3, <3>4
  <2>3. CASE UNCHANGED asked
    BY <1>1, <2>1, <2>3
  <2> QED
    BY <2>1, <2>2, <2>3
<1>5. CASE StartSearch
  BY <1>5, ServiceStarts DEF Service!Next
<1>6. CASE Cleared \/ Rebuilt \/ Dropped \/ Tick
  BY <1>1, <1>6 DEF Cleared, Rebuilt, Dropped, Tick
<1>7. ASSUME NEW s \in Search, HandleStop(s) \/ DropHandle(s) PROVE [Service!Next]_(Service!svars)
  <2>1. s <= last
    BY <1>0, <1>7, HeldIsStarted DEF HandleStop, DropHandle
  <2>2. UNCHANGED <<last, req, thread, collector, failed, seen>> /\ SetStop(s)
    BY <1>7 DEF HandleStop, DropHandle
  <2> QED
    BY <1>0, <1>2, <2>1, <2>2 DEF SetStop
<1>8. ASSUME NEW s \in Search, PonderHit(s) PROVE [Service!Next]_(Service!svars)
  BY <1>8, ServicePonders DEF Service!Next, Service!Search, Search
<1>9. ASSUME NEW s \in Search, Poll(s) \/ WaitReturns(s) PROVE [Service!Next]_(Service!svars)
  BY <1>9, ServiceTells DEF Service!Next, Service!Search, Search
<1>10. ASSUME NEW s \in Search, SendResult(s) PROVE [Service!Next]_(Service!svars)
  BY <1>10, ServiceEnds DEF Service!Next, Service!Search, Search
<1>11. ASSUME NEW s \in Search, Wait(s) \/ CheckTime(s) \/ FailLow(s) PROVE UNCHANGED Service!svars
  BY <1>1, <1>11 DEF Wait, CheckTime, FailLow
<1>12. ASSUME NEW s \in Search, Collect(s) \/ ReturnWorkers(s) PROVE UNCHANGED Service!svars
  <2>1. /\ UNCHANGED <<last, req, asked, seen>>
        /\ collector[s] \in {"joining", "returning"} /\ collector'[s] \in {"returning", "sending"}
        /\ \A t \in Search : t # s => collector'[t] = collector[t]
    BY <1>0, <1>12 DEF Collect, ReturnWorkers
  <2>2. \A t \in Search : t # s => failed'[t] = failed[t]
    BY <1>12 DEF Collect, ReturnWorkers, FullInv, IInv, TypeOK, JobTypeOK
  <2>3. \A t \in Search : thread'[t][Main] = "none" <=> thread[t][Main] = "none"
    BY <1>0, <1>12 DEF Collect, ReturnWorkers
  <2>4. \A t \in Search : StatusOf(t)' = StatusOf(t)
    BY <1>0, <2>1, <2>2, StatusIs, StatusIsNext, StatusKept
  <2> QED
    BY <2>1, <2>3, <2>4, EndlessKept, ServiceStutters
<1>13. ASSUME NEW s \in Search, NEW i \in Worker, ThreadStep(s, i) \/ ReachMaxPly(s, i) \/ Panic(s, i)
       PROVE  UNCHANGED Service!svars
  <2>1. /\ collector[s] = "joining" /\ Active(s, i) /\ thread'[s][i] # "none"
        /\ \A t \in Search, j \in Worker : t # s \/ j # i => thread'[t][j] = thread[t][j]
    BY <1>0, <1>13, ThreadMoves
  <2>2. UNCHANGED <<last, req, collector, asked, seen>>
    BY <1>0, <1>13, ThreadKeepsOrPanics
  <2>3. failed' = failed \/ failed' = [failed EXCEPT ![s] = TRUE]
    BY <1>0, <1>13, ThreadKeepsOrPanics
  <2>4. \A t \in Search : failed'[t] = failed[t] \/ collector[t] # "ended"
    BY <2>1, <2>3 DEF FullInv, IInv, TypeOK, JobTypeOK
  <2>5. \A t \in Search : thread'[t][Main] = "none" <=> thread[t][Main] = "none"
    BY <2>1 DEF Active
  <2> QED
    BY <1>0, <2>2, <2>4, <2>5, StatusKept, EndlessKept, ServiceStutters
<1>14. CASE UNCHANGED vars
  BY <1>1, <1>14 DEF vars
<1> QED
  BY <1>3, <1>4, <1>5, <1>6, <1>7, <1>8, <1>9, <1>10, <1>11, <1>12, <1>13, <1>14
  DEF Next, Client, CallReturns, CollectorStep

\* The engine, its pool, threads, channels and handles are the service: one
\* search at a time, each answered once or failed, told as it came out, and
\* answered only after a stop if it has no end of its own.  (Engine,
\* ThreadPool and SearchHandle.)
THEOREM PoolImplementsService == Spec => ImplementsSafely
<1>1. Init => Service!Init
  <2>1. Init => \A s \in Search : StatusOf(s) = "unused" /\ Endless(s) = FALSE
                                   /\ ("stop" \in asked[s]) = FALSE
    <3> SUFFICES ASSUME Init, NEW s \in Search
                 PROVE  StatusOf(s) = "unused" /\ Endless(s) = FALSE /\ ("stop" \in asked[s]) = FALSE
      OBVIOUS
    <3>1. StatusOf(s) = "unused"
      BY StatusIs DEF Init
    <3>2. Endless(s) = FALSE
      BY Zero DEF Init, Endless
    <3>3. "stop" \notin asked[s]
      BY Zero DEF Init
    <3> QED
      BY <3>1, <3>2, <3>3
  <2>2. Init => [s \in Search |-> Told(s)] = [s \in Search |-> "nothing"]
    BY DEF Init, Told
  <2> QED
    BY <2>1, <2>2 DEF Init, Service!Init, Service!Search, Search
<1>2. FullInv /\ [Next]_vars => [Service!Next]_(Service!svars)
  BY ServiceStep
<1> QED
  BY <1>1, <1>2, FullInductive, PTL DEF Spec, ImplementsSafely, Service!Safe
=============================================================================
