---------------------------- MODULE Server_proofs ----------------------------
(***************************************************************************)
(* Proofs about Server, for any number of connections, requests, engines,   *)
(* sessions and commands.                                                   *)
(***************************************************************************)
EXTENDS Server, FiniteSetTheorems, SequenceTheorems, TLAPS

PoolType ==
  /\ total \in Nat /\ available \in Seq(Engine)
  /\ reserved \subseteq Task /\ lease \in [Task -> 0..MaxEngines]

StageType ==
  /\ boot \in [Task -> {"none", "load", "reset", "join", "ready", "failed"}]
  /\ pc \in [Task -> {"new", "acquire", "boot", "wait", "hello", "loop", "finish",
                      "execute", "bye", "closed", "done", "cancelled"}]
  /\ life \in [Conn -> {"none", "open", "removed", "taken", "gone"}]
  /\ permits \in Nat /\ holds \subseteq Conn

\* What a task's lease is at each stage of its initialisation.
LeaseInv ==
  \A t \in Task :
    /\ boot[t] \in {"none", "failed"} => t \notin reserved /\ lease[t] = NoEngine
    /\ boot[t] = "load"  => t \in reserved /\ lease[t] = NoEngine
    /\ boot[t] \in {"reset", "join"} => t \notin reserved /\ lease[t] # NoEngine
    /\ boot[t] = "ready" => t \notin reserved
    /\ pc[t] \in {"new", "acquire"} => boot[t] = "none"

\* Where a request has a lease.
RequestInv ==
  \A t \in Req :
    /\ pc[t] \in {"new", "boot", "wait", "done", "cancelled"}
    /\ pc[t] = "wait" => boot[t] = "ready"
    /\ pc[t] \in {"boot", "wait"} /\ boot[t] = "ready" => lease[t] # NoEngine

\* Where a connection has a lease and a permit.
SessionInv ==
  \A c \in Conn :
    /\ pc[c] \notin {"wait", "done", "cancelled"}
    /\ life[c] # "none" => pc[c] \in {"hello", "loop", "finish", "execute", "bye", "closed"}
    /\ life[c] \in {"open", "removed"} => boot[c] = "ready" /\ lease[c] # NoEngine
    /\ pc[c] = "boot" /\ boot[c] = "ready" => lease[c] # NoEngine
    /\ lease[c] # NoEngine \/ c \in reserved => pc[c] = "boot" \/ life[c] \in {"open", "removed"}
    /\ c \in holds <=> pc[c] \in {"acquire", "boot"} \/ life[c] \in {"open", "removed", "taken"}

PermitCount == permits + Cardinality(holds) = MaxSessions

StageInv == StageType /\ LeaseInv /\ RequestInv /\ SessionInv


PoolInv == PoolType /\ OneOwner /\ CapacityConserved

IInv == PoolInv /\ StageInv /\ PermitCount

-----------------------------------------------------------------------------
\* Searches and setups.  The types of what a search, a setup and a loop keep.
SearchType ==
  /\ runs \in [Engine -> Task \cup {Nobody}]
  /\ stop \subseteq Task /\ finished \subseteq Task
  /\ limit \in [Task -> {"limited", "ponder", "infinite"}]

SetupType ==
  /\ pos \in [Engine -> Position] /\ want \in [Task -> Position]
  /\ opts \in [Engine -> SUBSET Task]

TalkType ==
  /\ cmd \in [Conn -> AllCommands] /\ left \in 0..MaxCommands
  /\ active \in [Conn -> 0..MaxCommands] /\ gos \in [Conn -> 0..MaxCommands]
  /\ replies \in [Conn -> Seq(1..MaxCommands)]

\* A `go` that a connection has received and not executed yet.
Pending(c) == IF pc[c] \in {"finish", "execute"} /\ cmd[c] = "go" THEN 1 ELSE 0

\* A connection talks with an initialised session, holds the handle of a search
\* only in its loop, and executes no command that ends a search under one.
LoopInv ==
  \A c \in Conn :
    /\ pc[c] \in {"hello", "loop", "finish", "execute", "bye"} => boot[c] = "ready"
    /\ active[c] # 0 => pc[c] \in {"loop", "finish", "execute"}
    /\ pc[c] = "execute" /\ cmd[c] \in Finishing => active[c] = 0
    /\ gos[c] + Pending(c) + left <= MaxCommands

\* The task has started a search whose answer it has not read.
Begun(t) ==
  \/ t \in Req /\ pc[t] \in {"wait", "done", "cancelled"}
  \/ t \in Conn /\ (active[t] # 0 \/ pc[t] \in {"bye", "closed"})

\* A task searches on one engine, and has its lease or has told it to stop.
RunsInv ==
  \A e \in Engine : \A t \in Task : runs[e] = t =>
    /\ lease[t] = e \/ t \in stop
    /\ t \notin finished /\ Begun(t) /\ boot[t] = "ready"
    /\ \A f \in Engine : runs[f] = t => f = e

\* A result waits for a task that will read it.
FinishedInv ==
  \A t \in finished : IF t \in Req THEN pc[t] = "wait" ELSE active[t] # 0

\* Who had the engine before searches on it no more once it is initialised.
OwnRun ==
  \A t \in Leased : boot[t] = "ready" => runs[lease[t]] \in {Nobody, t}

SetupInv ==
  /\ OwnSetup
  /\ \A t \in Task : boot[t] = "join" => pos[lease[t]] = Start
  /\ \A t \in Task : boot[t] # "ready" => want[t] = Start

ReplyInv ==
  \A c \in Conn :
    /\ pc[c] \in {"new", "acquire", "boot", "hello"} => gos[c] = 0 /\ replies[c] = <<>>
    /\ pc[c] \in {"loop", "finish", "execute"} =>
         /\ active[c] \in {0, gos[c]}
         /\ replies[c] = [i \in 1..Len(replies[c]) |-> i]
         /\ Len(replies[c]) = gos[c] - (IF active[c] = 0 THEN 0 ELSE 1)

EngineInv == SearchType /\ SetupType /\ TalkType /\ LoopInv /\ RunsInv /\ FinishedInv /\ OwnRun
             /\ SetupInv /\ ReplyInv

FullInv == IInv /\ EngineInv

-----------------------------------------------------------------------------
\* The pool's operations.
LEMMA Finite ==
  ASSUME PoolType
  PROVE  IsFiniteSet(reserved) /\ IsFiniteSet(Leased)
<1>1. IsFiniteSet(Task)
  BY FS_Union, TaskAssumption DEF Task
<1> QED
  BY <1>1, FS_Subset DEF PoolType, Leased

LEMMA PopKeeps ==
  ASSUME PoolInv, NEW t \in Task, t \notin reserved, lease[t] = NoEngine,
         available # <<>>,
         lease' = [lease EXCEPT ![t] = available[Len(available)]],
         available' = Popped,
         UNCHANGED <<total, reserved>>
  PROVE  PoolInv'
<1> DEFINE e == available[Len(available)]
<1> USE DEF PoolInv
<1>0. available \in Seq(Engine) /\ Len(available) \in Nat \ {0}
  BY EmptySeq DEF PoolType
<1>1. Len(available) \in DOMAIN available /\ e \in Engine /\ e # NoEngine
  <2>1. e \in Engine
    BY <1>0, ElementOfSeq
  <2> QED
    BY <1>0, <2>1 DEF Engine, NoEngine
<1>2. /\ available' \in Seq(Engine)
      /\ Len(available') = Len(available) - 1
      /\ \A i \in DOMAIN available' : i \in DOMAIN available /\ available'[i] = available[i]
                                      /\ i # Len(available)
  <2>1. \A i \in 1..(Len(available) - 1) : available[i] \in Engine
    BY <1>0, ElementOfSeq
  <2>2. /\ available' \in Seq(Engine)
        /\ Len(available') = Len(available) - 1
        /\ \A i \in 1..(Len(available) - 1) : available'[i] = available[i]
    <3> DEFINE n == Len(available) - 1
    <3>1. n \in Nat /\ Len(available) = n + 1
      BY <1>0
    <3>2. /\ Popped \in Seq(Engine)
          /\ Len(Popped) = IF 1 <= n THEN n - 1 + 1 ELSE 0
          /\ \A i \in 1..(n - 1 + 1) : Popped[i] = available[1 + i - 1]
      BY <2>1, <3>1, SubSeqProperties DEF Popped
    <3> HIDE DEF n
    <3>3. \A i \in 1..n : Popped[i] = available[i]
      BY <3>1, <3>2
    <3>4. Len(Popped) = n
      BY <3>1, <3>2
    <3>5. Len(available) - 1 = n
      BY DEF n
    <3> QED
      BY <3>2, <3>3, <3>4, <3>5, Zenon
  <2>3. DOMAIN available' = 1..(Len(available) - 1) /\ DOMAIN available = 1..Len(available)
    BY <1>0, <2>2, LenProperties
  <2> QED
    BY <1>0, <2>2, <2>3
<1>3. PoolType'
  BY <1>1, <1>2, SizeAssumption DEF PoolType, Engine
<1>4. Leased' = Leased \cup {t} /\ t \notin Leased
  BY <1>1 DEF Leased, PoolType
<1>5. /\ \A u \in Leased : lease'[u] = lease[u] /\ lease[u] # e
      /\ lease'[t] = e
  BY <1>1, <1>4 DEF OneOwner, Leased, PoolType
<1>6. \A i \in DOMAIN available' : available'[i] # e
  BY <1>1, <1>2 DEF OneOwner, PoolType
<1>7. OneOwner'
  BY <1>2, <1>4, <1>5, <1>6 DEF OneOwner
<1>8. Cardinality(Leased') = Cardinality(Leased) + 1 /\ Cardinality(Leased) \in Nat
  BY <1>4, Finite, FS_AddElement, FS_CardinalityType
<1>9. CapacityConserved'
  <2>1. Cardinality(reserved) \in Nat
    BY Finite, FS_CardinalityType
  <2> QED
    BY <1>0, <1>2, <1>8, <2>1 DEF CapacityConserved, PoolType
<1> QED
  BY <1>3, <1>7, <1>9

LEMMA ReserveKeeps ==
  ASSUME PoolInv, NEW t \in Task, t \notin reserved, HasCapacity,
         total' = total + 1, reserved' = reserved \cup {t},
         UNCHANGED <<available, lease>>
  PROVE  PoolInv'
<1> USE DEF PoolInv
<1>1. PoolType'
  BY DEF PoolType
<1>2. OneOwner'
  BY DEF OneOwner, Leased
<1>3. Cardinality(reserved') = Cardinality(reserved) + 1 /\ Leased' = Leased
  BY Finite, FS_AddElement DEF Leased
<1>4. Cardinality(reserved) \in Nat /\ Cardinality(Leased) \in Nat /\ Len(available) \in Nat
  BY Finite, FS_CardinalityType DEF PoolType
<1>5. CapacityConserved'
  BY <1>3, <1>4, SizeAssumption DEF CapacityConserved, HasCapacity, PoolType
<1> QED
  BY <1>1, <1>2, <1>5

\* Popping takes the engine of nobody; reserving stays within the capacity.
LEMMA AcquireKeeps ==
  ASSUME PoolInv, NEW t \in Task, t \notin reserved, lease[t] = NoEngine, Acquire(t)
  PROVE  PoolInv'
  BY PopKeeps, ReserveKeeps DEF Acquire

\* A lease that has an engine, or a reservation, is given back once.
LEMMA ReturnKeeps ==
  ASSUME PoolInv, NEW t \in Task, ReturnLease(t),
         (lease[t] # NoEngine /\ t \notin reserved) \/ (lease[t] = NoEngine /\ t \in reserved)
  PROVE  PoolInv'
<1> USE DEF PoolInv
<1>0. Cardinality(reserved) \in Nat /\ Cardinality(Leased) \in Nat /\ Len(available) \in Nat
  BY Finite, FS_CardinalityType DEF PoolType
<1>1. CASE lease[t] # NoEngine /\ t \notin reserved
  <2>1. /\ lease' = [lease EXCEPT ![t] = NoEngine] /\ reserved' = reserved
        /\ available' = Append(available, lease[t]) /\ total' = total
    BY <1>1 DEF ReturnLease
  <2>2. lease[t] \in Engine /\ t \in Leased
    BY <1>1 DEF PoolType, Engine, NoEngine, Leased
  <2>3. /\ available' \in Seq(Engine) /\ Len(available') = Len(available) + 1
        /\ \A i \in DOMAIN available' :
             IF i = Len(available) + 1 THEN available'[i] = lease[t]
             ELSE i \in DOMAIN available /\ available'[i] = available[i]
    BY <2>1, <2>2 DEF PoolType
  <2>4. PoolType'
    BY <2>1, <2>3, SizeAssumption DEF PoolType, NoEngine
  <2>5. /\ Leased' = Leased \ {t}
        /\ \A u \in Leased' : u \in Leased /\ lease'[u] = lease[u] /\ lease[u] # lease[t]
    BY <2>1, <2>2 DEF Leased, PoolType, OneOwner
  <2>6. \A i \in DOMAIN available : available[i] # lease[t]
    BY <2>2 DEF OneOwner
  <2>7. OneOwner'
    BY <2>3, <2>5, <2>6 DEF OneOwner
  <2>8. Cardinality(Leased') = Cardinality(Leased) - 1
    BY <2>2, <2>5, Finite, FS_RemoveElement
  <2>9. CapacityConserved'
    BY <1>0, <2>1, <2>3, <2>8 DEF CapacityConserved, PoolType
  <2> QED
    BY <2>4, <2>7, <2>9
<1>2. CASE lease[t] = NoEngine /\ t \in reserved
  <2>1. /\ lease' = lease /\ reserved' = reserved \ {t}
        /\ available' = available /\ total' = total - 1
    BY <1>2 DEF ReturnLease, PoolType
  <2>2. Leased' = Leased
    BY <2>1 DEF Leased
  <2>3. Cardinality(reserved') = Cardinality(reserved) - 1
    BY <1>2, <2>1, Finite, FS_RemoveElement
  <2>4. IsFiniteSet(reserved')
    BY <2>1, Finite, FS_RemoveElement
  <2>5. Cardinality(reserved') \in Nat
    BY <2>4, FS_CardinalityType
  <2>6. PoolType'
    BY <1>0, <2>1, <2>3, <2>5 DEF PoolType, CapacityConserved
  <2>7. OneOwner'
    BY <2>1, <2>2 DEF OneOwner
  <2>8. CapacityConserved'
    BY <1>0, <2>1, <2>2, <2>3, SizeAssumption DEF CapacityConserved, PoolType
  <2> QED
    BY <2>6, <2>7, <2>8
<1> QED
  BY <1>1, <1>2

\* A reservation becomes an engine that is new.
LEMMA LoadKeeps ==
  ASSUME PoolInv, NEW t \in Task, t \in reserved, lease[t] = NoEngine,
         NEW e \in NewEngines, lease' = [lease EXCEPT ![t] = e],
         reserved' = reserved \ {t}, UNCHANGED <<total, available>>
  PROVE  PoolInv'
<1> USE DEF PoolInv
<1>1. /\ e \in Engine /\ e # NoEngine
      /\ \A i \in DOMAIN available : available[i] # e
      /\ \A u \in Task : lease[u] # e
  BY DEF NewEngines, Range, PoolType, Engine, NoEngine
<1>2. PoolType'
  BY <1>1 DEF PoolType, Engine
<1>3. /\ Leased' = Leased \cup {t} /\ t \notin Leased
      /\ lease'[t] = e /\ \A u \in Leased : lease'[u] = lease[u]
  BY <1>1 DEF Leased, PoolType
<1>4. OneOwner'
  BY <1>1, <1>3 DEF OneOwner, Leased
<1>5. /\ Cardinality(Leased') = Cardinality(Leased) + 1
      /\ Cardinality(reserved') = Cardinality(reserved) - 1
  BY <1>3, Finite, FS_AddElement, FS_RemoveElement
<1>6. Cardinality(reserved) \in Nat /\ Cardinality(Leased) \in Nat /\ Len(available) \in Nat
  BY Finite, FS_CardinalityType DEF PoolType
<1>7. CapacityConserved'
  BY <1>5, <1>6 DEF CapacityConserved, PoolType
<1> QED
  BY <1>2, <1>4, <1>7

LEMMA PoolFrame ==
  ASSUME PoolInv, UNCHANGED <<total, available, reserved, lease>>
  PROVE  PoolInv'
  BY DEF PoolInv, PoolType, OneOwner, CapacityConserved, Leased

-----------------------------------------------------------------------------
\* The stages of tasks.  Only the task that moves changes its lease, its stage
\* and its permit.
LEMMA Tasks == Conn \subseteq Task /\ Req \subseteq Task /\ \A c \in Conn : c \notin Req
  BY TaskAssumption DEF Task

LEMMA StageFrame ==
  ASSUME StageInv, UNCHANGED <<reserved, lease, boot, pc, life, permits, holds>>
  PROVE  StageInv'
  BY DEF StageInv, StageType, LeaseInv, RequestInv, SessionInv

LEMMA CountFrame ==
  ASSUME PermitCount, UNCHANGED permitVars
  PROVE  PermitCount'
  BY DEF PermitCount, permitVars

\* A connection moves about its loop.
LEMMA TalkMoves ==
  ASSUME StageInv, NEW c \in Conn, NEW q \in {"loop", "finish", "execute", "bye"},
         pc[c] \in {"hello", "loop", "finish", "execute"},
         pc' = [pc EXCEPT ![c] = q],
         UNCHANGED <<reserved, lease, boot, life, permits, holds>>
  PROVE  StageInv'
<1> USE Tasks DEF StageInv
<1>1. StageType'
  BY DEF StageType
<1>2. LeaseInv'
  BY DEF StageType, LeaseInv
<1>3. RequestInv'
  BY DEF StageType, RequestInv
<1>4. SessionInv'
  BY DEF StageType, SessionInv
<1> QED
  BY <1>1, <1>2, <1>3, <1>4

LEMMA PermitTaken ==
  ASSUME StageType, PermitCount, NEW c \in Conn, c \notin holds,
         permits > 0, permits' = permits - 1, holds' = holds \cup {c}
  PROVE  PermitCount' /\ permits' \in Nat
<1>1. IsFiniteSet(holds)
  BY FS_Subset, TaskAssumption DEF StageType
<1>2. Cardinality(holds') = Cardinality(holds) + 1 /\ Cardinality(holds) \in Nat
  BY <1>1, FS_AddElement, FS_CardinalityType
<1> QED
  BY <1>2 DEF StageType, PermitCount

LEMMA PermitDropped ==
  ASSUME StageType, PermitCount, NEW c \in Conn, c \in holds, DropPermit(c)
  PROVE  PermitCount' /\ permits' \in Nat /\ holds' = holds \ {c}
<1>1. IsFiniteSet(holds)
  BY FS_Subset, TaskAssumption DEF StageType
<1>2. Cardinality(holds') = Cardinality(holds) - 1 /\ Cardinality(holds) \in Nat
  BY <1>1, FS_RemoveElement, FS_CardinalityType DEF DropPermit
<1> QED
  BY <1>2, SizeAssumption DEF StageType, PermitCount, DropPermit

LEMMA AcquireStage ==
  ASSUME PoolInv, StageInv, NEW t \in Task, Acquire(t), boot[t] = "none"
  PROVE  /\ boot'[t] \in {"load", "reset"} /\ boot' = [boot EXCEPT ![t] = boot'[t]]
         /\ boot'[t] = "load"  => reserved' = reserved \cup {t} /\ lease' = lease
         /\ boot'[t] = "reset" => /\ reserved' = reserved /\ lease'[t] # NoEngine
                                  /\ lease' = [lease EXCEPT ![t] = lease'[t]]
<1>1. CASE available # <<>>
  <2>1. available[Len(available)] \in Engine
    BY <1>1, EmptySeq, ElementOfSeq DEF PoolInv, PoolType
  <2> QED
    BY <1>1, <2>1 DEF Acquire, StageInv, StageType, PoolInv, PoolType, Engine, NoEngine
<1>2. CASE available = <<>>
  BY <1>2 DEF Acquire, StageInv, StageType
<1> QED
  BY <1>1, <1>2

-----------------------------------------------------------------------------
\* The steps of the initialisation threads.
LEMMA BootFailsStage ==
  ASSUME PoolInv, StageInv, NEW t \in Task, boot[t] \in {"load", "reset", "join"}, BootFails(t),
         UNCHANGED <<pc, life, permits, holds>>
  PROVE  PoolInv' /\ StageInv'
<1> USE Tasks DEF StageInv
<1>1. ReturnLease(t) /\ boot' = [boot EXCEPT ![t] = "failed"]
  BY DEF BootFails, DropLease
<1>2. PoolInv'
  BY <1>1, ReturnKeeps DEF LeaseInv
<1>3. lease' = [lease EXCEPT ![t] = NoEngine] /\ reserved' = reserved \ {t}
  BY <1>1 DEF ReturnLease
<1>4. StageType'
  BY <1>1 DEF StageType
<1>5. LeaseInv'
  BY <1>1, <1>3 DEF StageType, LeaseInv, PoolInv, PoolType
<1>6. RequestInv'
  BY <1>1, <1>3 DEF StageType, RequestInv, PoolInv, PoolType
<1>7. SessionInv'
  BY <1>1, <1>3 DEF StageType, SessionInv, PoolInv, PoolType
<1> QED
  BY <1>2, <1>4, <1>5, <1>6, <1>7

LEMMA BootKeeps ==
  ASSUME IInv, NEW t \in Task, BootStep(t) \/ BootPanics(t)
  PROVE  IInv'
<1> USE Tasks DEF IInv
<1>1. UNCHANGED <<pc, life, permits, holds>> /\ PermitCount'
  BY CountFrame DEF BootStep, BootPanics, Load, Rewind, Reset, permitVars
<1>2. ASSUME BootFails(t), boot[t] \in {"load", "reset", "join"}
      PROVE  IInv'
  BY <1>1, <1>2, BootFailsStage
<1>3. CASE BootPanics(t)
  BY <1>2, <1>3 DEF BootPanics
<1>4. CASE Load(t)
  <2>1. CASE BootFails(t)
    BY <1>2, <1>4, <2>1 DEF Load
  <2>2. ASSUME NEW e \in NewEngines, lease' = [lease EXCEPT ![t] = e],
               reserved' = reserved \ {t}, boot' = [boot EXCEPT ![t] = "reset"],
               UNCHANGED <<total, available>>
        PROVE  IInv'
    <3>1. boot[t] = "load" /\ t \in reserved /\ lease[t] = NoEngine /\ e # NoEngine
      BY <1>4 DEF Load, StageInv, LeaseInv, NewEngines, Engine, NoEngine
    <3>2. PoolInv'
      BY <2>2, <3>1, LoadKeeps
    <3>3. StageType'
      BY <1>1, <2>2 DEF StageInv, StageType
    <3>4. LeaseInv'
      BY <1>1, <2>2, <3>1 DEF StageInv, StageType, LeaseInv, PoolInv, PoolType
    <3>5. RequestInv'
      BY <1>1, <2>2, <3>1 DEF StageInv, StageType, RequestInv, PoolInv, PoolType
    <3>6. SessionInv'
      BY <1>1, <2>2, <3>1 DEF StageInv, StageType, SessionInv, PoolInv, PoolType
    <3> QED
      BY <1>1, <3>2, <3>3, <3>4, <3>5, <3>6 DEF StageInv
  <2> QED
    BY <1>4, <2>1, <2>2 DEF Load
<1>5. CASE Reset(t)
  <2>1. CASE Abandoned(t) /\ BootFails(t)
    BY <1>2, <1>5, <2>1 DEF Reset
  <2>2. CASE ~Abandoned(t) /\ boot' = [boot EXCEPT ![t] = "ready"]
             /\ UNCHANGED <<total, available, reserved, lease>>
    <3>1. boot[t] = "join" /\ t \notin reserved /\ lease[t] # NoEngine
      BY <1>5 DEF Reset, StageInv, LeaseInv
    <3>2. PoolInv'
      BY <2>2, PoolFrame
    <3>3. StageType'
      BY <1>1, <2>2 DEF StageInv, StageType
    <3>4. LeaseInv'
      BY <1>1, <2>2, <3>1 DEF StageInv, StageType, LeaseInv
    <3>5. RequestInv'
      BY <1>1, <2>2, <3>1 DEF StageInv, StageType, RequestInv
    <3>6. SessionInv'
      BY <1>1, <2>2, <3>1 DEF StageInv, StageType, SessionInv
    <3> QED
      BY <1>1, <3>2, <3>3, <3>4, <3>5, <3>6 DEF StageInv
  <2> QED
    BY <1>5, <2>1, <2>2 DEF Reset, searchVars
<1>6. CASE Rewind(t)
  <2>1. /\ boot[t] = "reset" /\ boot' = [boot EXCEPT ![t] = "join"]
        /\ UNCHANGED <<total, available, reserved, lease>>
    BY <1>6 DEF Rewind
  <2>2. PoolInv'
    BY <2>1, PoolFrame
  <2>3. StageType'
    BY <1>1, <2>1 DEF StageInv, StageType
  <2>4. LeaseInv'
    BY <1>1, <2>1 DEF StageInv, StageType, LeaseInv
  <2>5. RequestInv'
    BY <1>1, <2>1 DEF StageInv, StageType, RequestInv
  <2>6. SessionInv'
    BY <1>1, <2>1 DEF StageInv, StageType, SessionInv
  <2> QED
    BY <1>1, <2>2, <2>3, <2>4, <2>5, <2>6 DEF StageInv
<1> QED
  BY <1>3, <1>4, <1>5, <1>6 DEF BootStep

-----------------------------------------------------------------------------
\* The steps of requests.
LEMMA RequestReturns ==
  ASSUME PoolInv, StageInv, NEW t \in Req, boot[t] = "ready", pc[t] \in {"boot", "wait"},
         DropLease(t), NEW q \in {"done", "cancelled"}, Goto(t, q),
         UNCHANGED <<boot, life, permits, holds>>
  PROVE  PoolInv' /\ StageInv'
<1> USE Tasks DEF StageInv, Goto
<1>1. lease[t] # NoEngine /\ t \notin reserved
  BY DEF LeaseInv, RequestInv
<1>2. PoolInv'
  BY <1>1, ReturnKeeps DEF DropLease
<1>3. lease' = [lease EXCEPT ![t] = NoEngine] /\ reserved' = reserved \ {t}
  BY DEF ReturnLease, DropLease
<1>4. StageType'
  BY DEF StageType
<1>5. LeaseInv'
  BY <1>1, <1>3 DEF StageType, LeaseInv, PoolInv, PoolType
<1>6. RequestInv'
  BY <1>1, <1>3 DEF StageType, RequestInv, PoolInv, PoolType
<1>7. SessionInv'
  BY <1>1, <1>3 DEF StageType, SessionInv, PoolInv, PoolType
<1> QED
  BY <1>2, <1>4, <1>5, <1>6, <1>7

LEMMA RequestMoves ==
  ASSUME StageInv, NEW t \in Req, NEW q \in {"wait", "done", "cancelled"}, Goto(t, q),
         pc[t] # "new", q = "wait" => boot[t] = "ready" /\ lease[t] # NoEngine,
         UNCHANGED <<reserved, lease, boot, life, permits, holds>>
  PROVE  StageInv'
<1> USE Tasks DEF StageInv, Goto
<1>1. StageType'
  BY DEF StageType
<1>2. LeaseInv'
  BY DEF StageType, LeaseInv
<1>3. RequestInv'
  BY DEF StageType, RequestInv
<1>4. SessionInv'
  BY DEF StageType, SessionInv
<1> QED
  BY <1>1, <1>2, <1>3, <1>4

LEMMA RequestKeeps ==
  ASSUME IInv, NEW t \in Req, RequestStep(t) \/ RequestCancelled(t)
  PROVE  IInv'
<1> USE Tasks DEF IInv
<1>1. UNCHANGED <<life, permits, holds>> /\ PermitCount'
  BY CountFrame DEF RequestStep, RequestCancelled, RequestAcquire, RequestFailed, RequestSearch,
     RequestAnswered, permitVars
<1>2. CASE RequestAcquire(t)
  <2>1. boot[t] = "none" /\ t \notin reserved /\ lease[t] = NoEngine /\ pc[t] = "new"
    BY <1>2 DEF RequestAcquire, StageInv, LeaseInv
  <2>2. CASE Acquire(t) /\ Goto(t, "boot")
    <3>1. PoolInv'
      BY <2>1, <2>2, AcquireKeeps
    <3>2. StageType'
      BY <1>1, <2>1, <2>2, AcquireStage DEF StageInv, StageType, Goto
    <3>3. LeaseInv'
      BY <1>1, <2>1, <2>2, AcquireStage DEF StageInv, StageType, LeaseInv, Goto, PoolInv, PoolType
    <3>4. RequestInv'
      BY <1>1, <2>1, <2>2, AcquireStage DEF StageInv, StageType, RequestInv, Goto, PoolInv, PoolType
    <3>5. SessionInv'
      BY <1>1, <2>1, <2>2, AcquireStage DEF StageInv, StageType, SessionInv, Goto, PoolInv, PoolType
    <3> QED
      BY <1>1, <3>1, <3>2, <3>3, <3>4, <3>5 DEF StageInv
  <2>3. CASE Goto(t, "done") /\ UNCHANGED poolVars
    <3>1. PoolInv'
      BY <2>3, PoolFrame DEF poolVars
    <3>2. StageType'
      BY <1>1, <2>3 DEF StageInv, StageType, Goto, poolVars
    <3>3. LeaseInv'
      BY <1>1, <2>1, <2>3 DEF StageInv, StageType, LeaseInv, Goto, poolVars
    <3>4. RequestInv'
      BY <1>1, <2>3 DEF StageInv, StageType, RequestInv, Goto, poolVars
    <3>5. SessionInv'
      BY <1>1, <2>3 DEF StageInv, StageType, SessionInv, Goto, poolVars
    <3> QED
      BY <1>1, <3>1, <3>2, <3>3, <3>4, <3>5 DEF StageInv
  <2> QED
    BY <1>2, <2>2, <2>3 DEF RequestAcquire
<1>3. CASE RequestFailed(t)
  <2>1. UNCHANGED <<total, available, reserved, lease, boot>> /\ Goto(t, "done") /\ pc[t] # "new"
    BY <1>3 DEF RequestFailed, poolVars
  <2> QED
    BY <1>1, <2>1, PoolFrame, RequestMoves
<1>4. CASE RequestSearch(t)
  <2>1. boot[t] = "ready" /\ pc[t] = "boot" /\ UNCHANGED boot
    BY <1>4 DEF RequestSearch
  <2>2. CASE DropLease(t) /\ Goto(t, "done")
    BY <1>1, <2>1, <2>2, RequestReturns
  <2>3. CASE Goto(t, "wait") /\ UNCHANGED <<total, available, reserved, lease>>
    <3>1. lease[t] # NoEngine
      BY <2>1 DEF StageInv, RequestInv
    <3> QED
      BY <1>1, <2>1, <2>3, <3>1, PoolFrame, RequestMoves
  <2> QED
    BY <1>4, <2>2, <2>3 DEF RequestSearch
<1>5. CASE RequestAnswered(t)
  <2>1. boot[t] = "ready" /\ pc[t] = "wait" /\ UNCHANGED boot
    BY <1>5 DEF RequestAnswered, StageInv, RequestInv
  <2> QED
    BY <1>1, <1>5, <2>1, RequestReturns DEF RequestAnswered
<1>6. CASE RequestCancelled(t)
  <2>1. pc[t] \in {"boot", "wait"} /\ Goto(t, "cancelled") /\ UNCHANGED boot
    BY <1>6 DEF RequestCancelled
  <2>2. CASE boot[t] = "ready"
    BY <1>1, <1>6, <2>1, <2>2, RequestReturns DEF RequestCancelled
  <2>3. CASE boot[t] # "ready"
    <3>1. UNCHANGED <<total, available, reserved, lease>>
      BY <1>6, <2>3 DEF RequestCancelled
    <3> QED
      BY <1>1, <2>1, <3>1, PoolFrame, RequestMoves
  <2> QED
    BY <2>2, <2>3
<1> QED
  BY <1>2, <1>3, <1>4, <1>5, <1>6 DEF RequestStep

-----------------------------------------------------------------------------
\* The steps of sessions.
LEMMA SessionKeeps ==
  ASSUME IInv, NEW c \in Conn, SessionStep(c)
  PROVE  IInv'
<1> USE Tasks DEF IInv, Goto
<1>1. CASE TakePermit(c)
  <2>1. UNCHANGED <<total, available, reserved, lease, boot, life>> /\ pc[c] = "new" /\ c \notin holds
    BY <1>1 DEF TakePermit, poolVars, StageInv, SessionInv
  <2>2. CASE permits > 0 /\ permits' = permits - 1 /\ holds' = holds \cup {c}
             /\ pc' = [pc EXCEPT ![c] = "acquire"]
    <3>1. PermitCount' /\ permits' \in Nat
      BY <2>1, <2>2, PermitTaken DEF StageInv
    <3>2. StageType'
      BY <2>1, <2>2, <3>1 DEF StageInv, StageType
    <3>3. LeaseInv'
      BY <2>1, <2>2 DEF StageInv, StageType, LeaseInv
    <3>4. RequestInv'
      BY <2>1, <2>2 DEF StageInv, StageType, RequestInv
    <3>5. SessionInv'
      BY <2>1, <2>2 DEF StageInv, StageType, SessionInv
    <3> QED
      BY <2>1, <3>1, <3>2, <3>3, <3>4, <3>5, PoolFrame DEF StageInv
  <2>3. CASE pc' = [pc EXCEPT ![c] = "closed"] /\ UNCHANGED permitVars
    <3>1. StageType'
      BY <2>1, <2>3 DEF StageInv, StageType, permitVars
    <3>2. LeaseInv'
      BY <2>1, <2>3 DEF StageInv, StageType, LeaseInv
    <3>3. RequestInv'
      BY <2>1, <2>3 DEF StageInv, StageType, RequestInv
    <3>4. SessionInv'
      BY <2>1, <2>3 DEF StageInv, StageType, SessionInv, permitVars
    <3> QED
      BY <2>1, <2>3, <3>1, <3>2, <3>3, <3>4, PoolFrame, CountFrame DEF StageInv
  <2> QED
    BY <1>1, <2>2, <2>3 DEF TakePermit
<1>2. CASE SessionAcquire(c)
  <2>1. /\ boot[c] = "none" /\ c \notin reserved /\ lease[c] = NoEngine /\ pc[c] = "acquire"
        /\ c \in holds /\ UNCHANGED life /\ life[c] = "none"
    BY <1>2 DEF SessionAcquire, StageInv, StageType, LeaseInv, SessionInv
  <2>2. CASE Acquire(c) /\ pc' = [pc EXCEPT ![c] = "boot"] /\ UNCHANGED permitVars
    <3>1. PoolInv'
      BY <2>1, <2>2, AcquireKeeps
    <3>2. StageType'
      BY <2>1, <2>2, AcquireStage DEF StageInv, StageType, permitVars
    <3>3. LeaseInv'
      BY <2>1, <2>2, AcquireStage DEF StageInv, StageType, LeaseInv, PoolInv, PoolType
    <3>4. RequestInv'
      BY <2>1, <2>2, AcquireStage DEF StageInv, StageType, RequestInv, PoolInv, PoolType
    <3>5. SessionInv'
      <4>1. /\ \A d \in Conn : d # c =>
                 /\ pc'[d] = pc[d] /\ boot'[d] = boot[d] /\ lease'[d] = lease[d]
                 /\ d \in reserved' <=> d \in reserved
            /\ UNCHANGED <<life, holds>>
        BY <2>1, <2>2, AcquireStage DEF StageInv, StageType, PoolInv, PoolType, permitVars
      <4>2. pc'[c] = "boot" /\ (boot'[c] = "ready" => lease'[c] # NoEngine)
        BY <2>1, <2>2, AcquireStage DEF StageInv, StageType
      <4> QED
        BY <2>1, <4>1, <4>2 DEF StageInv, SessionInv
    <3> QED
      BY <2>2, <3>1, <3>2, <3>3, <3>4, <3>5, CountFrame DEF StageInv
  <2>3. CASE DropPermit(c) /\ pc' = [pc EXCEPT ![c] = "closed"] /\ UNCHANGED poolVars
    <3>1. PermitCount' /\ permits' \in Nat /\ holds' = holds \ {c}
      BY <2>1, <2>3, PermitDropped DEF StageInv
    <3>2. StageType'
      BY <2>1, <2>3, <3>1 DEF StageInv, StageType, poolVars
    <3>3. LeaseInv'
      BY <2>1, <2>3 DEF StageInv, StageType, LeaseInv, poolVars
    <3>4. RequestInv'
      BY <2>1, <2>3 DEF StageInv, StageType, RequestInv, poolVars
    <3>5. SessionInv'
      BY <2>1, <2>3, <3>1 DEF StageInv, StageType, SessionInv, poolVars
    <3> QED
      BY <2>3, <3>1, <3>2, <3>3, <3>4, <3>5, PoolFrame DEF StageInv, poolVars
  <2> QED
    BY <1>2, <2>2, <2>3 DEF SessionAcquire
<1>3. CASE SessionFailed(c)
  <2>1. /\ pc[c] = "boot" /\ boot[c] = "failed" /\ c \in holds /\ life[c] = "none"
        /\ lease[c] = NoEngine /\ c \notin reserved
        /\ pc' = [pc EXCEPT ![c] = "closed"] /\ DropPermit(c)
        /\ UNCHANGED <<total, available, reserved, lease, boot, life>>
    BY <1>3 DEF SessionFailed, poolVars, StageInv, StageType, LeaseInv, SessionInv
  <2>2. PermitCount' /\ permits' \in Nat /\ holds' = holds \ {c}
    BY <2>1, PermitDropped DEF StageInv
  <2>3. StageType'
    BY <2>1, <2>2 DEF StageInv, StageType
  <2>4. LeaseInv'
    BY <2>1 DEF StageInv, StageType, LeaseInv
  <2>5. RequestInv'
    BY <2>1 DEF StageInv, StageType, RequestInv
  <2>6. SessionInv'
    BY <2>1, <2>2 DEF StageInv, StageType, SessionInv
  <2> QED
    BY <2>1, <2>2, <2>3, <2>4, <2>5, <2>6, PoolFrame DEF StageInv
<1>4. CASE OpenSession(c)
  <2>1. /\ pc[c] = "boot" /\ boot[c] = "ready" /\ lease[c] # NoEngine /\ life[c] = "none"
        /\ pc' = [pc EXCEPT ![c] = "hello"] /\ life' = [life EXCEPT ![c] = "open"]
        /\ UNCHANGED <<total, available, reserved, lease, boot, permits, holds>>
    BY <1>4 DEF OpenSession, poolVars, permitVars, StageInv, StageType, SessionInv
  <2>2. StageType'
    BY <2>1 DEF StageInv, StageType
  <2>3. LeaseInv'
    BY <2>1 DEF StageInv, StageType, LeaseInv
  <2>4. RequestInv'
    BY <2>1 DEF StageInv, StageType, RequestInv
  <2>5. SessionInv'
    BY <2>1 DEF StageInv, StageType, SessionInv
  <2> QED
    BY <2>1, <2>2, <2>3, <2>4, <2>5, PoolFrame, CountFrame DEF StageInv, permitVars
<1>5. CASE TakeEngine(c)
  <2>1. /\ life[c] = "removed" /\ lease[c] # NoEngine /\ c \notin reserved
        /\ ReturnLease(c) /\ life' = [life EXCEPT ![c] = "taken"]
        /\ UNCHANGED <<boot, pc, permits, holds>>
    BY <1>5 DEF TakeEngine, DropLease, permitVars, StageInv, LeaseInv, SessionInv
  <2>2. lease' = [lease EXCEPT ![c] = NoEngine] /\ reserved' = reserved \ {c}
    BY <2>1 DEF ReturnLease
  <2>3. StageType'
    BY <2>1 DEF StageInv, StageType
  <2>4. LeaseInv'
    BY <2>1, <2>2 DEF StageInv, StageType, LeaseInv, SessionInv, PoolInv, PoolType
  <2>5. RequestInv'
    BY <2>1, <2>2 DEF StageInv, StageType, RequestInv, PoolInv, PoolType
  <2>6. SessionInv'
    BY <2>1, <2>2 DEF StageInv, StageType, SessionInv, PoolInv, PoolType
  <2> QED
    BY <2>1, <2>3, <2>4, <2>5, <2>6, ReturnKeeps, CountFrame DEF StageInv, permitVars
<1>6. CASE ReleasePermit(c)
  <2>1. /\ life[c] = "taken" /\ c \in holds /\ life' = [life EXCEPT ![c] = "gone"] /\ DropPermit(c)
        /\ UNCHANGED <<total, available, reserved, lease, boot, pc>>
    BY <1>6 DEF ReleasePermit, poolVars, StageInv, SessionInv
  <2>2. PermitCount' /\ permits' \in Nat /\ holds' = holds \ {c}
    BY <2>1, PermitDropped DEF StageInv
  <2>3. StageType'
    BY <2>1, <2>2 DEF StageInv, StageType
  <2>4. LeaseInv'
    BY <2>1 DEF StageInv, StageType, LeaseInv
  <2>5. RequestInv'
    BY <2>1 DEF StageInv, StageType, RequestInv
  <2>6. SessionInv'
    BY <2>1, <2>2 DEF StageInv, StageType, SessionInv
  <2> QED
    BY <2>1, <2>2, <2>3, <2>4, <2>5, <2>6, PoolFrame DEF StageInv
<1> QED
  BY <1>1, <1>2, <1>3, <1>4, <1>5, <1>6 DEF SessionStep

\* Whoever destroys a session removes it from the map.
LEMMA RemoveKeeps ==
  ASSUME IInv, NEW c \in Conn, Remove(c),
         UNCHANGED <<total, available, reserved, lease, boot, permits, holds>>,
         pc' = pc \/ (pc[c] = "bye" /\ pc' = [pc EXCEPT ![c] = "closed"])
  PROVE  IInv'
<1> USE Tasks DEF IInv
<1>1. StageType'
  BY DEF StageInv, StageType, Remove
<1>2. LeaseInv'
  BY DEF StageInv, StageType, LeaseInv
<1>3. RequestInv'
  BY DEF StageInv, StageType, RequestInv
<1>4. SessionInv'
  BY DEF StageInv, StageType, SessionInv, Remove
<1> QED
  BY <1>1, <1>2, <1>3, <1>4, PoolFrame, CountFrame DEF StageInv, permitVars

-----------------------------------------------------------------------------
\* The steps of a connection's loop, and those that leave the stages alone.
LEMMA TalkKeeps ==
  ASSUME IInv, NEW c \in Conn, TalkStep(c) \/ Leave(c)
  PROVE  IInv'
<1> USE DEF IInv
<1>1. UNCHANGED <<total, available, reserved, lease, boot, life, permits, holds>>
  BY DEF TalkStep, Leave, Hello, Poll, Finish, Answer, Execute, SetPosition, SetOption, Go,
     PonderHit, NothingMore, Receive, poolVars, permitVars
<1>2. \/ /\ pc[c] \in {"hello", "loop", "finish", "execute"}
         /\ \E q \in {"loop", "finish", "execute", "bye"} : pc' = [pc EXCEPT ![c] = q]
      \/ UNCHANGED pc
  BY DEF TalkStep, Leave, Hello, Poll, Finish, Execute, Receive, Goto
<1> QED
  BY <1>1, <1>2, TalkMoves, StageFrame, PoolFrame, CountFrame DEF permitVars

LEMMA OtherKeeps ==
  ASSUME IInv,
         \/ \E c \in Conn : GrowIdle(c) \/ SweepRead(c)
         \/ \E e \in Engine : SearchEnds(e) \/ SearchPanics(e)
         \/ SweepStart \/ SweepDestroyed \/ UNCHANGED vars
  PROVE  IInv'
<1>1. UNCHANGED <<total, available, reserved, lease, boot, pc, life, permits, holds>>
  BY DEF GrowIdle, SweepRead, SearchEnds, SearchPanics, SearchOver, SweepStart, SweepDestroyed,
     vars, poolVars, permitVars
<1> QED
  BY <1>1, StageFrame, PoolFrame, CountFrame DEF IInv, permitVars

LEMMA Inductive ==
  ASSUME IInv, [Next]_vars
  PROVE  IInv'
<1>1. ASSUME NEW t \in Task, BootStep(t) \/ BootPanics(t)  PROVE IInv'
  BY <1>1, BootKeeps
<1>2. ASSUME NEW t \in Req, RequestStep(t) \/ RequestCancelled(t)  PROVE IInv'
  BY <1>2, RequestKeeps
<1>3. ASSUME NEW c \in Conn, SessionStep(c)  PROVE IInv'
  BY <1>3, SessionKeeps
<1>4. ASSUME NEW c \in Conn, TalkStep(c) \/ Leave(c)  PROVE IInv'
  BY <1>4, TalkKeeps
<1>5. ASSUME NEW c \in Conn, Bye(c)  PROVE IInv'
  BY <1>5, RemoveKeeps DEF Bye, Goto, poolVars, permitVars
<1>6. ASSUME NEW c \in Conn, SweepDestroy(c)  PROVE IInv'
  BY <1>6, RemoveKeeps DEF SweepDestroy, poolVars, permitVars
<1>7. ASSUME \/ \E c \in Conn : GrowIdle(c) \/ SweepRead(c)
             \/ \E e \in Engine : SearchEnds(e) \/ SearchPanics(e)
             \/ SweepStart \/ SweepDestroyed \/ UNCHANGED vars
      PROVE  IInv'
  BY <1>7, OtherKeeps
<1> QED
  BY <1>1, <1>2, <1>3, <1>4, <1>5, <1>6, <1>7 DEF Next, SweepStep

LEMMA InitIInv == Init => IInv
<1> SUFFICES ASSUME Init PROVE IInv
  OBVIOUS
<1> USE Tasks DEF Init
<1>1. reserved = {} /\ Leased = {} /\ holds = {} /\ available = <<>>
  BY DEF Leased
<1>2. Cardinality({}) = 0
  BY FS_EmptySet
<1>3. PoolType
  BY EmptySeq, SizeAssumption DEF PoolType, NoEngine
<1>4. OneOwner
  BY <1>1, EmptySeq DEF OneOwner
<1>5. CapacityConserved
  BY <1>1, <1>2, EmptySeq, SizeAssumption DEF CapacityConserved
<1>6. StageInv
  BY SizeAssumption DEF StageInv, StageType, LeaseInv, RequestInv, SessionInv
<1>7. PermitCount
  BY <1>1, <1>2, SizeAssumption DEF PermitCount
<1> QED
  BY <1>3, <1>4, <1>5, <1>6, <1>7 DEF IInv, PoolInv

LEMMA Invariance == Spec => []IInv
<1>1. Init => IInv
  BY InitIInv
<1>2. IInv /\ [Next]_vars => IInv'
  BY Inductive
<1> QED
  BY <1>1, <1>2, PTL DEF Spec

-----------------------------------------------------------------------------
\* What a step does to searches, stop flags and leases.
Starts(t) ==
  /\ boot[t] = "ready" /\ lease[t] # NoEngine /\ UNCHANGED <<lease, boot, stop, finished>>
  /\ runs[lease[t]] = Nobody /\ runs' = [runs EXCEPT ![lease[t]] = t]
  /\ ~Begun(t) /\ Begun(t)'

LEMMA RunsChange ==
  ASSUME FullInv, [Next]_vars
  PROVE  \/ UNCHANGED runs
         \/ \E e \in Engine : runs[e] # Nobody /\ SearchOver(e)
         \/ \E t \in Task : Starts(t)
<1> USE Tasks DEF Goto, searchVars
<1>0. StageType /\ TalkType /\ LoopInv /\ RequestInv
  BY DEF FullInv, IInv, StageInv, EngineInv
<1>1. ASSUME NEW t \in Task, BootStep(t) \/ BootPanics(t) PROVE UNCHANGED runs
  BY <1>1 DEF BootStep, BootPanics, Load, Rewind, Reset, BootFails
<1>2. ASSUME NEW t \in Req, RequestStep(t) \/ RequestCancelled(t)
      PROVE  UNCHANGED runs \/ Starts(t)
  <2>1. CASE RequestSearch(t) /\ StartSearch(t, "limited") /\ Goto(t, "wait")
             /\ UNCHANGED <<total, available, reserved, lease>>
    <3>1. boot[t] = "ready" /\ pc[t] = "boot" /\ pc'[t] = "wait" /\ UNCHANGED boot /\ lease[t] # NoEngine
      BY <1>0, <2>1 DEF RequestSearch, StageType, RequestInv
    <3> QED
      BY <2>1, <3>1 DEF Starts, StartSearch, Begun
  <2> QED
    BY <1>2, <2>1 DEF RequestStep, RequestCancelled, RequestAcquire, RequestFailed, RequestSearch,
       RequestAnswered
<1>3. ASSUME NEW c \in Conn, SessionStep(c) \/ GrowIdle(c) \/ Bye(c) PROVE UNCHANGED runs
  BY <1>3 DEF SessionStep, GrowIdle, Bye, TakePermit, SessionAcquire, SessionFailed, OpenSession,
     TakeEngine, ReleasePermit
<1>4. ASSUME NEW c \in Conn, TalkStep(c) \/ Leave(c) PROVE UNCHANGED runs \/ Starts(c)
  <2>1. CASE Execute(c) /\ Go(c) /\ lease[c] # NoEngine /\ active' = [active EXCEPT ![c] = gos[c] + 1]
             /\ \E l \in {"limited", "ponder", "infinite"} : StartSearch(c, l)
    <3>1. pc[c] = "execute" /\ cmd[c] = "go" /\ active[c] = 0 /\ boot[c] = "ready"
      BY <1>0, <2>1 DEF Execute, Go, LoopInv, Finishing
    <3>2. active'[c] # 0 /\ UNCHANGED <<lease, boot>>
      BY <1>0, <2>1 DEF Go, TalkType, poolVars
    <3> QED
      BY <2>1, <3>1, <3>2 DEF Starts, StartSearch, Begun
  <2> QED
    BY <1>4, <2>1 DEF TalkStep, Leave, Hello, Poll, Finish, Answer, Execute, SetPosition, SetOption, Go,
       PonderHit, NothingMore, Receive
<1>5. ASSUME NEW e \in Engine, SearchEnds(e) \/ SearchPanics(e)
      PROVE  runs[e] # Nobody /\ SearchOver(e)
  BY <1>5 DEF SearchEnds, SearchPanics
<1>6. CASE SweepStep \/ UNCHANGED vars
  BY <1>6 DEF SweepStep, SweepStart, SweepRead, SweepDestroy, SweepDestroyed, vars
<1> QED
  BY <1>1, <1>2, <1>3, <1>4, <1>5, <1>6 DEF Next

\* A stop flag lasts as long as the search it stops.
LEMMA StopKept ==
  ASSUME FullInv, [Next]_vars, UNCHANGED runs
  PROVE  finished' \subseteq finished /\ \A t \in stop : t \in stop' \/ t \in finished
<1> USE Tasks DEF searchVars
<1>1. ASSUME NEW t \in Task, BootStep(t) \/ BootPanics(t)
      PROVE  UNCHANGED finished /\ stop \subseteq stop'
  BY <1>1 DEF BootStep, BootPanics, Load, Rewind, Reset, BootFails, DropLease, StoppedBy
<1>2. ASSUME NEW t \in Req, RequestStep(t) \/ RequestCancelled(t)
      PROVE  finished' \subseteq finished /\ stop \subseteq stop'
  BY <1>2 DEF RequestStep, RequestCancelled, RequestAcquire, RequestFailed, RequestSearch,
       RequestAnswered, DropLease, StoppedBy, StartSearch
<1>3. ASSUME NEW c \in Conn, SessionStep(c) \/ GrowIdle(c) \/ Bye(c)
      PROVE  UNCHANGED finished /\ stop \subseteq stop'
  BY <1>3 DEF SessionStep, GrowIdle, Bye, TakePermit, SessionAcquire, SessionFailed, OpenSession,
     TakeEngine, ReleasePermit, DropLease, StoppedBy
<1>4. ASSUME NEW c \in Conn, TalkStep(c) \/ Leave(c)
      PROVE  finished' \subseteq finished /\ \A t \in stop : t \in stop' \/ t \in finished
  BY <1>4 DEF TalkStep, Leave, Hello, Poll, Finish, Answer, Execute, SetPosition, SetOption, Go,
       PonderHit, NothingMore, Receive, StartSearch, Cancelled
<1>5. ASSUME NEW e \in Engine, SearchEnds(e) \/ SearchPanics(e) PROVE FALSE
  BY <1>5 DEF SearchEnds, SearchPanics, SearchOver, FullInv, EngineInv, SearchType
<1>6. CASE SweepStep \/ UNCHANGED vars
  BY <1>6 DEF SweepStep, SweepStart, SweepRead, SweepDestroy, SweepDestroyed, vars
<1> QED
  BY <1>1, <1>2, <1>3, <1>4, <1>5, <1>6 DEF Next

LEMMA BegunKept ==
  ASSUME FullInv, [Next]_vars, NEW t \in Task, t \notin finished, Begun(t)
  PROVE  Begun(t)'
<1> USE Tasks DEF Goto, Begun
<1>0. StageType /\ TalkType /\ LoopInv
  BY DEF FullInv, IInv, StageInv, EngineInv
<1>1. ASSUME NEW u \in Task, BootStep(u) \/ BootPanics(u) PROVE Begun(t)'
  BY <1>1 DEF BootStep, BootPanics, Load, Rewind, Reset, talkVars
<1>2. ASSUME NEW u \in Req, RequestStep(u) \/ RequestCancelled(u) PROVE Begun(t)'
  BY <1>0, <1>2 DEF RequestStep, RequestCancelled, RequestAcquire, RequestFailed, RequestSearch,
       RequestAnswered, talkVars, StageType
<1>3. ASSUME NEW c \in Conn, SessionStep(c) \/ GrowIdle(c) \/ Bye(c) PROVE Begun(t)'
  BY <1>0, <1>3 DEF SessionStep, GrowIdle, Bye, TakePermit, SessionAcquire, SessionFailed, OpenSession,
     TakeEngine, ReleasePermit, talkVars, StageType
<1>4. ASSUME NEW c \in Conn, TalkStep(c) \/ Leave(c) PROVE Begun(t)'
  <2>1. CASE Hello(c) \/ Poll(c) \/ Finish(c) \/ Leave(c)
    BY <1>0, <2>1 DEF Hello, Poll, Finish, Answer, Leave, talkVars, StageType, TalkType
  <2>2. CASE Execute(c)
    <3>1. /\ pc' = [pc EXCEPT ![c] = "loop"] /\ pc[c] = "execute"
          /\ UNCHANGED active \/ active' = [active EXCEPT ![c] = gos[c] + 1]
      BY <2>2 DEF Execute, SetPosition, SetOption, Go, PonderHit, NothingMore
    <3>2. gos[c] + 1 # 0
      BY <1>0 DEF TalkType
    <3> QED
      BY <1>0, <3>1, <3>2 DEF StageType, TalkType
  <2>3. ASSUME NEW k \in Commands, Receive(c, k) PROVE Begun(t)'
    BY <1>0, <2>3 DEF Receive, StageType
  <2> QED
    BY <1>4, <2>1, <2>2, <2>3 DEF TalkStep
<1>5. ASSUME NEW e \in Engine, SearchEnds(e) \/ SearchPanics(e) PROVE Begun(t)'
  BY <1>5 DEF SearchEnds, SearchPanics, SearchOver, talkVars
<1>6. CASE SweepStep \/ UNCHANGED vars
  BY <1>6 DEF SweepStep, SweepStart, SweepRead, SweepDestroy, SweepDestroyed, vars, talkVars
<1> QED
  BY <1>1, <1>2, <1>3, <1>4, <1>5, <1>6 DEF Next

\* An initialised task keeps its lease or stops the engine when it gives it up.
LEMMA LeaseKept ==
  ASSUME FullInv, [Next]_vars, NEW t \in Task, boot[t] = "ready"
  PROVE  /\ boot'[t] = "ready"
         /\ \/ lease'[t] = lease[t]
            \/ lease'[t] = NoEngine /\ SearchOf(lease[t]) \subseteq stop'
<1> USE Tasks DEF poolVars
<1>0. StageType /\ LeaseInv /\ lease \in [Task -> 0..MaxEngines] /\ SessionInv
  BY DEF FullInv, IInv, StageInv, PoolInv, PoolType
<1>1. ASSUME NEW u \in Task, DropLease(u)
      PROVE  \/ lease'[t] = lease[t]
             \/ lease'[t] = NoEngine /\ SearchOf(lease[t]) \subseteq stop'
  BY <1>0, <1>1 DEF DropLease, ReturnLease, StoppedBy
<1>2. ASSUME NEW u \in Task, BootStep(u) \/ BootPanics(u)
      PROVE  /\ boot'[t] = "ready"
             /\ lease'[t] = lease[t] \/ (lease'[t] = NoEngine /\ SearchOf(lease[t]) \subseteq stop')
  <2>1. boot[u] \in {"load", "reset", "join"}
    BY <1>2 DEF BootStep, BootPanics, Load, Rewind, Reset
  <2>2. CASE BootFails(u)
    BY <1>0, <1>1, <2>1, <2>2 DEF BootFails, StageType
  <2>3. CASE ~BootFails(u)
    BY <1>0, <1>2, <2>1, <2>3 DEF BootStep, BootPanics, Load, Rewind, Reset, StageType
  <2> QED
    BY <2>2, <2>3
<1>3. ASSUME NEW u \in Task, Acquire(u), boot[u] = "none"
      PROVE  boot'[t] = "ready" /\ lease'[t] = lease[t]
  BY <1>0, <1>3 DEF Acquire, StageType
<1>4. ASSUME NEW u \in Req, RequestStep(u) \/ RequestCancelled(u)
      PROVE  /\ boot'[t] = "ready"
             /\ lease'[t] = lease[t] \/ (lease'[t] = NoEngine /\ SearchOf(lease[t]) \subseteq stop')
  <2>1. CASE RequestAcquire(u)
    BY <1>0, <1>3, <2>1 DEF RequestAcquire, LeaseInv
  <2>2. CASE ~RequestAcquire(u)
    BY <1>1, <1>4, <2>2 DEF RequestStep, RequestCancelled, RequestFailed, RequestSearch, RequestAnswered
  <2> QED
    BY <2>1, <2>2
<1>5. ASSUME NEW c \in Conn, SessionStep(c) \/ GrowIdle(c) \/ Bye(c)
      PROVE  /\ boot'[t] = "ready"
             /\ lease'[t] = lease[t] \/ (lease'[t] = NoEngine /\ SearchOf(lease[t]) \subseteq stop')
  <2>1. CASE SessionAcquire(c)
    BY <1>0, <1>3, <2>1 DEF SessionAcquire, LeaseInv
  <2>2. CASE ~SessionAcquire(c)
    BY <1>1, <1>5, <2>2 DEF SessionStep, GrowIdle, Bye, TakePermit, SessionFailed, OpenSession,
       TakeEngine, ReleasePermit
  <2> QED
    BY <2>1, <2>2
<1>6. ASSUME NEW c \in Conn, TalkStep(c) \/ Leave(c) PROVE UNCHANGED <<boot, lease>>
  BY <1>6 DEF TalkStep, Leave, Hello, Poll, Finish, Answer, Execute, SetPosition, SetOption, Go,
       PonderHit, NothingMore, Receive
<1>7. ASSUME NEW e \in Engine, SearchEnds(e) \/ SearchPanics(e) PROVE UNCHANGED <<boot, lease>>
  BY <1>7 DEF SearchEnds, SearchPanics, SearchOver
<1>8. CASE SweepStep \/ UNCHANGED vars
  BY <1>8 DEF SweepStep, SweepStart, SweepRead, SweepDestroy, SweepDestroyed, vars
<1> QED
  BY <1>2, <1>4, <1>5, <1>6, <1>7, <1>8 DEF Next

\* A task becomes ready only by resetting its engine.
LEMMA ReadyByReset ==
  ASSUME FullInv, [Next]_vars, NEW t \in Task, boot[t] # "ready", boot'[t] = "ready"
  PROVE  /\ Reset(t) /\ UNCHANGED <<lease, runs, want>> /\ lease[t] \in Engine
         /\ lease[t] # NoEngine /\ runs[lease[t]] = Nobody
<1> USE Tasks DEF poolVars
<1>0. StageType /\ LeaseInv /\ lease \in [Task -> 0..MaxEngines]
  BY DEF FullInv, IInv, StageInv, PoolInv, PoolType
<1>1. ASSUME NEW u \in Task, Acquire(u) PROVE FALSE
  BY <1>0, <1>1 DEF Acquire, StageType
<1>2. ASSUME NEW u \in Task, BootStep(u) \/ BootPanics(u)
      PROVE  Reset(t) /\ UNCHANGED <<lease, runs, want>>
  <2>1. ~BootFails(u)
    BY <1>0 DEF BootFails, StageType
  <2> QED
    BY <1>0, <1>2, <2>1 DEF BootStep, BootPanics, Load, Rewind, Reset, StageType, searchVars
<1>3. ASSUME NEW u \in Req, RequestStep(u) \/ RequestCancelled(u) PROVE FALSE
  BY <1>1, <1>3 DEF RequestStep, RequestCancelled, RequestAcquire, RequestFailed, RequestSearch, RequestAnswered
<1>4. ASSUME NEW c \in Conn, SessionStep(c) \/ GrowIdle(c) \/ Bye(c) PROVE FALSE
  BY <1>1, <1>4 DEF SessionStep, GrowIdle, Bye, TakePermit, SessionAcquire, SessionFailed, OpenSession,
       TakeEngine, ReleasePermit
<1>5. ASSUME NEW c \in Conn, TalkStep(c) \/ Leave(c) PROVE FALSE
  BY <1>5 DEF TalkStep, Leave, Hello, Poll, Finish, Answer, Execute, SetPosition, SetOption, Go,
       PonderHit, NothingMore, Receive
<1>6. ASSUME NEW e \in Engine, SearchEnds(e) \/ SearchPanics(e) PROVE FALSE
  BY <1>6 DEF SearchEnds, SearchPanics, SearchOver
<1>7. CASE SweepStep \/ UNCHANGED vars
  BY <1>7 DEF SweepStep, SweepStart, SweepRead, SweepDestroy, SweepDestroyed, vars
<1>8. Reset(t) /\ UNCHANGED <<lease, runs, want>>
  BY <1>2, <1>3, <1>4, <1>5, <1>6, <1>7 DEF Next
<1> QED
  BY <1>0, <1>8 DEF Reset, LeaseInv, Engine, NoEngine

\* A thread joins only the search of an engine it has rewound.
LEMMA JoinByRewind ==
  ASSUME FullInv, [Next]_vars, NEW t \in Task, boot'[t] = "join"
  PROVE  Rewind(t) \/ (boot[t] = "join" /\ lease'[t] = lease[t])
<1> USE Tasks DEF poolVars
<1>0. StageType /\ LeaseInv /\ lease \in [Task -> 0..MaxEngines]
  BY DEF FullInv, IInv, StageInv, PoolInv, PoolType
<1> DEFINE Kept == boot[t] = "join" /\ lease'[t] = lease[t]
<1>1. ASSUME NEW u \in Task, Acquire(u), boot[u] = "none" PROVE Kept
  BY <1>0, <1>1 DEF Acquire, StageType
<1>2. ASSUME NEW u \in Task, DropLease(u), boot[u] # "join", UNCHANGED boot PROVE Kept
  BY <1>0, <1>2 DEF DropLease, ReturnLease
<1>3. ASSUME NEW u \in Task, BootStep(u) \/ BootPanics(u) PROVE Rewind(t) \/ Kept
  <2>1. CASE BootFails(u)
    BY <1>0, <2>1 DEF BootFails, DropLease, ReturnLease, StageType
  <2>2. CASE ~BootFails(u)
    BY <1>0, <1>3, <2>2 DEF BootStep, BootPanics, Load, Rewind, Reset, StageType
  <2> QED
    BY <2>1, <2>2
<1>4. ASSUME NEW u \in Req, RequestStep(u) \/ RequestCancelled(u) PROVE Kept
  <2>1. CASE RequestAcquire(u)
    BY <1>0, <1>1, <2>1 DEF RequestAcquire, LeaseInv
  <2>2. pc[u] = "wait" => boot[u] = "ready"
    BY DEF FullInv, IInv, StageInv, RequestInv
  <2>3. CASE ~RequestAcquire(u)
    BY <1>2, <1>4, <2>2, <2>3 DEF RequestStep, RequestCancelled, RequestFailed, RequestSearch, RequestAnswered
  <2> QED
    BY <2>1, <2>3
<1>5. ASSUME NEW c \in Conn, SessionStep(c) \/ GrowIdle(c) \/ Bye(c) PROVE Kept
  <2>1. CASE SessionAcquire(c)
    BY <1>0, <1>1, <2>1 DEF SessionAcquire, LeaseInv
  <2>2. life[c] = "removed" => boot[c] = "ready"
    BY DEF FullInv, IInv, StageInv, SessionInv
  <2>3. CASE ~SessionAcquire(c)
    BY <1>2, <1>5, <2>2, <2>3 DEF SessionStep, GrowIdle, Bye, TakePermit, SessionFailed, OpenSession,
       TakeEngine, ReleasePermit
  <2> QED
    BY <2>1, <2>3
<1>6. ASSUME NEW c \in Conn, TalkStep(c) \/ Leave(c) PROVE Kept
  BY <1>6 DEF TalkStep, Leave, Hello, Poll, Finish, Answer, Execute, SetPosition, SetOption, Go,
       PonderHit, NothingMore, Receive
<1>7. ASSUME NEW e \in Engine, SearchEnds(e) \/ SearchPanics(e) PROVE Kept
  BY <1>7 DEF SearchEnds, SearchPanics, SearchOver
<1>8. CASE SweepStep \/ UNCHANGED vars
  BY <1>8 DEF SweepStep, SweepStart, SweepRead, SweepDestroy, SweepDestroyed, vars
<1> QED
  BY <1>3, <1>4, <1>5, <1>6, <1>7, <1>8 DEF Next

\* An engine's setup is made anew before its task is ready, the position by
\* Rewind and the options once the old search is joined, or changed by the task
\* that has the lease and no search on it.
Renews(t) ==
  /\ boot[t] = "join" /\ lease[t] # NoEngine /\ runs[lease[t]] = Nobody
  /\ opts' = [opts EXCEPT ![lease[t]] = {}]
  /\ UNCHANGED <<pos, want>>

Sets(t) ==
  /\ boot[t] = "ready" /\ lease[t] # NoEngine /\ ~Begun(t)
  /\ \/ \E p \in Position : /\ pos' = [pos EXCEPT ![lease[t]] = p]
                            /\ want' = [want EXCEPT ![t] = p]
                            /\ UNCHANGED opts
     \/ opts' = [opts EXCEPT ![lease[t]] = @ \cup {t}] /\ UNCHANGED <<pos, want>>

LEMMA SetupChange ==
  ASSUME FullInv, [Next]_vars
  PROVE  UNCHANGED setupVars \/ \E t \in Task : Rewind(t) \/ Renews(t) \/ Sets(t)
<1> USE Tasks DEF setupVars
<1>0. StageType /\ LeaseInv /\ LoopInv /\ RequestInv /\ TalkType
  BY DEF FullInv, IInv, StageInv, EngineInv
<1>1. ASSUME NEW t \in Task, BootStep(t) \/ BootPanics(t)
      PROVE  UNCHANGED setupVars \/ Rewind(t) \/ Renews(t)
  BY <1>0, <1>1 DEF BootStep, BootPanics, Load, Rewind, Reset, Renews, LeaseInv, ResetOptions
<1>2. ASSUME NEW t \in Req, RequestStep(t) \/ RequestCancelled(t)
      PROVE  UNCHANGED setupVars \/ Sets(t)
  <2>1. CASE RequestSearch(t) /\ ~UNCHANGED setupVars
    <3>1. pc[t] = "boot" /\ boot[t] = "ready" /\ lease[t] # NoEngine
      BY <1>0, <2>1 DEF RequestSearch, RequestInv
    <3>2. <<t, 0>> \in Position
      BY SizeAssumption DEF Position
    <3>3. pos' = [pos EXCEPT ![lease[t]] = <<t, 0>>] /\ want' = [want EXCEPT ![t] = <<t, 0>>]
          /\ UNCHANGED opts
      BY <2>1 DEF RequestSearch
    <3> QED
      BY <3>1, <3>2, <3>3 DEF Sets, Begun
  <2> QED
    BY <1>2, <2>1 DEF RequestStep, RequestCancelled, RequestAcquire, RequestFailed, RequestAnswered
<1>3. ASSUME NEW c \in Conn, SessionStep(c) \/ GrowIdle(c) \/ Bye(c) PROVE UNCHANGED setupVars
  BY <1>3 DEF SessionStep, GrowIdle, Bye, TakePermit, SessionAcquire, SessionFailed, OpenSession,
     TakeEngine, ReleasePermit
<1>4. ASSUME NEW c \in Conn, TalkStep(c) \/ Leave(c) PROVE UNCHANGED setupVars \/ Sets(c)
  <2>1. CASE Execute(c) /\ (SetPosition(c) \/ SetOption(c)) /\ ~UNCHANGED setupVars
    <3>1. /\ pc[c] = "execute" /\ cmd[c] \in {"position", "ucinewgame", "setoption"}
          /\ lease[c] # NoEngine
      BY <2>1 DEF Execute, SetPosition, SetOption
    <3>2. boot[c] = "ready" /\ active[c] = 0 /\ ~Begun(c)
      BY <1>0, <3>1 DEF LoopInv, Finishing, Begun
    <3>3. Start \in Position /\ <<c, left>> \in Position
      BY <1>0 DEF Position, TalkType
    <3> QED
      BY <2>1, <3>1, <3>2, <3>3 DEF SetPosition, SetOption, Sets
  <2> QED
    BY <1>4, <2>1 DEF TalkStep, Leave, Hello, Poll, Finish, Answer, Execute, Go, PonderHit,
       NothingMore, Receive
<1>5. ASSUME NEW e \in Engine, SearchEnds(e) \/ SearchPanics(e) PROVE UNCHANGED setupVars
  BY <1>5 DEF SearchEnds, SearchPanics, SearchOver
<1>6. CASE SweepStep \/ UNCHANGED vars
  BY <1>6 DEF SweepStep, SweepStart, SweepRead, SweepDestroy, SweepDestroyed, vars
<1> QED
  BY <1>1, <1>2, <1>3, <1>4, <1>5, <1>6 DEF Next

-----------------------------------------------------------------------------
\* The invariants of searches and setups.
LEMMA RunsStep ==
  ASSUME FullInv, [Next]_vars
  PROVE  RunsInv'
<1>0. RunsInv /\ FinishedInv /\ SearchType
  BY DEF FullInv, EngineInv
<1> SUFFICES ASSUME NEW e \in Engine, NEW t \in Task, runs'[e] = t
             PROVE  /\ lease'[t] = e \/ t \in stop'
                    /\ t \notin finished' /\ Begun(t)' /\ boot'[t] = "ready"
                    /\ \A f \in Engine : runs'[f] = t => f = e
  BY DEF RunsInv
<1>1. t # Nobody
  BY TaskAssumption DEF Task
<1>2. ASSUME runs[e] = t
      PROVE  /\ lease[t] = e \/ t \in stop
             /\ t \notin finished /\ Begun(t) /\ boot[t] = "ready"
             /\ \A f \in Engine : runs[f] = t => f = e
             /\ Begun(t)' /\ boot'[t] = "ready" /\ (lease'[t] = e \/ t \in stop \cup stop')
  <2>1. /\ lease[t] = e \/ t \in stop
        /\ t \notin finished /\ Begun(t) /\ boot[t] = "ready"
        /\ \A f \in Engine : runs[f] = t => f = e
    BY <1>0, <1>2 DEF RunsInv
  <2>2. Begun(t)'
    BY <2>1, BegunKept
  <2>3. /\ boot'[t] = "ready"
        /\ \/ lease'[t] = lease[t]
           \/ SearchOf(lease[t]) \subseteq stop'
    BY <2>1, LeaseKept
  <2>4. lease[t] = e => SearchOf(lease[t]) = {t}
    BY <1>1, <1>2 DEF SearchOf, Engine, NoEngine
  <2> QED
    BY <2>1, <2>2, <2>3, <2>4
<1>3. CASE UNCHANGED runs
  BY <1>2, <1>3, StopKept
<1>4. ASSUME NEW x \in Engine, runs[x] # Nobody, SearchOver(x)
      PROVE  /\ lease'[t] = e \/ t \in stop'
             /\ t \notin finished' /\ Begun(t)' /\ boot'[t] = "ready"
             /\ \A f \in Engine : runs'[f] = t => f = e
  <2>1. /\ runs' = [runs EXCEPT ![x] = Nobody] /\ stop' = stop \ {runs[x]}
        /\ finished' \subseteq finished \cup {runs[x]} /\ UNCHANGED lease
    BY <1>4 DEF SearchOver, poolVars
  <2>2. e # x /\ runs[e] = t
    BY <1>0, <1>1, <2>1 DEF SearchType
  <2>3. runs[x] # t
    BY <1>2, <2>2
  <2>4. \A f \in Engine : runs'[f] = t => runs[f] = t
    BY <1>0, <1>1, <2>1 DEF SearchType
  <2>5. lease[t] = e \/ t \in stop
    BY <1>2, <2>2
  <2> QED
    BY <1>2, <2>1, <2>2, <2>3, <2>4, <2>5
<1>5. ASSUME NEW u \in Task, Starts(u)
      PROVE  /\ lease'[t] = e \/ t \in stop'
             /\ t \notin finished' /\ Begun(t)' /\ boot'[t] = "ready"
             /\ \A f \in Engine : runs'[f] = t => f = e
  <2>1. \A f \in Engine : runs[f] # u
    BY <1>0, <1>5 DEF RunsInv, Starts
  <2>2. \A f \in Engine : runs'[f] = IF f = lease[u] THEN u ELSE runs[f]
    BY <1>0, <1>5 DEF Starts, SearchType
  <2>3. CASE e = lease[u]
    <3>1. t = u
      BY <2>2, <2>3
    <3>2. u \notin finished
      BY <1>0, <1>5 DEF FinishedInv, Starts, Begun, Task
    <3> QED
      BY <1>5, <2>1, <2>2, <2>3, <3>1, <3>2 DEF Starts
  <2>4. CASE e # lease[u]
    <3>1. runs[e] = t /\ t # u
      BY <2>1, <2>2, <2>4
    <3> QED
      BY <1>2, <1>5, <2>2, <3>1 DEF Starts
  <2> QED
    BY <2>3, <2>4
<1> QED
  BY <1>3, <1>4, <1>5, RunsChange

LEMMA OwnRunStep ==
  ASSUME FullInv, [Next]_vars
  PROVE  OwnRun'
<1>0. OwnRun /\ OneOwner /\ SearchType /\ lease \in [Task -> 0..MaxEngines]
  BY DEF FullInv, EngineInv, IInv, PoolInv, PoolType
<1> SUFFICES ASSUME NEW t \in Task, lease'[t] # NoEngine, boot'[t] = "ready"
             PROVE  runs'[lease'[t]] \in {Nobody, t}
  BY DEF OwnRun, Leased
<1>1. CASE boot[t] # "ready"
  BY <1>1, ReadyByReset
<1>2. CASE boot[t] = "ready"
  <2>1. lease'[t] = lease[t] /\ runs[lease[t]] \in {Nobody, t}
    BY <1>0, <1>2, LeaseKept DEF OwnRun, Leased
  <2>2. CASE UNCHANGED runs
    BY <2>1, <2>2
  <2>3. ASSUME NEW x \in Engine, SearchOver(x) PROVE runs'[lease'[t]] \in {Nobody, t}
    BY <1>0, <2>1, <2>3 DEF SearchOver, SearchType
  <2>4. ASSUME NEW u \in Task, Starts(u) PROVE runs'[lease'[t]] \in {Nobody, t}
    BY <1>0, <2>1, <2>4 DEF Starts, SearchType, OneOwner, Leased
  <2> QED
    BY <2>2, <2>3, <2>4, RunsChange
<1> QED
  BY <1>1, <1>2

LEMMA SetupStep ==
  ASSUME FullInv, [Next]_vars
  PROVE  SetupInv'
<1>0. /\ SetupInv /\ OneOwner /\ SetupType /\ lease \in [Task -> 0..MaxEngines] /\ LeaseInv
  BY DEF FullInv, EngineInv, IInv, PoolInv, PoolType, StageInv
<1>1. ASSUME NEW t \in Task, lease'[t] # NoEngine, boot'[t] = "ready"
      PROVE  pos'[lease'[t]] = want'[t] /\ opts'[lease'[t]] \subseteq {t}
  <2>1. CASE boot[t] # "ready"
    <3>1. /\ Reset(t) /\ UNCHANGED <<lease, want>> /\ lease[t] \in Engine
      BY <1>1, <2>1, ReadyByReset
    <3>2. boot[t] = "join" /\ UNCHANGED pos /\ opts' = [opts EXCEPT ![lease[t]] = {}]
      BY <3>1 DEF Reset, ResetOptions
    <3> QED
      BY <1>0, <2>1, <3>1, <3>2 DEF SetupInv, SetupType
  <2>2. CASE boot[t] = "ready"
    <3>1. lease'[t] = lease[t] /\ lease[t] \in Engine
      BY <1>0, <1>1, <2>2, LeaseKept DEF Engine, NoEngine
    <3>2. pos[lease[t]] = want[t] /\ opts[lease[t]] \subseteq {t} /\ t \in Leased
      BY <1>1, <1>0, <2>2, <3>1 DEF SetupInv, OwnSetup, Leased
    <3>3. ASSUME NEW u \in Task, u # t, lease[u] # NoEngine PROVE lease[u] # lease[t]
      BY <1>0, <3>2, <3>3 DEF OneOwner, Leased
    <3>4. CASE UNCHANGED setupVars
      BY <3>1, <3>2, <3>4 DEF setupVars
    <3>5. ASSUME NEW u \in Task, Renews(u)
          PROVE  pos'[lease'[t]] = want'[t] /\ opts'[lease'[t]] \subseteq {t}
      BY <1>0, <2>2, <3>1, <3>2, <3>3, <3>5 DEF Renews, SetupType
    <3>6. ASSUME NEW u \in Task, Sets(u)
          PROVE  pos'[lease'[t]] = want'[t] /\ opts'[lease'[t]] \subseteq {t}
      <4>1. CASE u = t
        BY <1>0, <3>1, <3>2, <3>6, <4>1 DEF Sets, SetupType
      <4>2. CASE u # t
        BY <1>0, <3>1, <3>2, <3>3, <3>6, <4>2 DEF Sets, SetupType
      <4> QED
        BY <4>1, <4>2
    <3>7. ASSUME NEW u \in Task, Rewind(u)
          PROVE  pos'[lease'[t]] = want'[t] /\ opts'[lease'[t]] \subseteq {t}
      <4>1. u # t /\ lease[u] # NoEngine
        BY <1>0, <2>2, <3>7 DEF Rewind, LeaseInv
      <4> QED
        BY <1>0, <3>1, <3>2, <3>3, <3>7, <4>1 DEF Rewind, SetupType
    <3> QED
      BY <3>4, <3>5, <3>6, <3>7, SetupChange
  <2> QED
    BY <2>1, <2>2
<1>2. ASSUME NEW t \in Task, boot'[t] # "ready" PROVE want'[t] = Start
  <2>1. boot[t] # "ready" /\ want[t] = Start
    BY <1>0, <1>2, LeaseKept DEF SetupInv
  <2> QED
    BY <1>0, <2>1, SetupChange DEF Rewind, Renews, Sets, SetupType, setupVars
<1>3. ASSUME NEW t \in Task, boot'[t] = "join" PROVE pos'[lease'[t]] = Start
  <2>1. CASE Rewind(t)
    BY <1>0, <2>1 DEF Rewind, LeaseInv, SetupType, Engine, NoEngine
  <2>2. CASE boot[t] = "join" /\ lease'[t] = lease[t]
    <3>1. pos[lease[t]] = Start /\ lease[t] \in Engine /\ t \in Leased
      BY <1>0, <2>2 DEF SetupInv, LeaseInv, Leased, Engine, NoEngine
    <3>2. CASE UNCHANGED setupVars
      BY <2>2, <3>1, <3>2 DEF setupVars
    <3>3. ASSUME NEW u \in Task, Rewind(u) \/ Renews(u) PROVE pos'[lease'[t]] = Start
      BY <1>0, <2>2, <3>1, <3>3 DEF Rewind, Renews, SetupType
    <3>4. ASSUME NEW u \in Task, Sets(u) PROVE pos'[lease'[t]] = Start
      <4>1. lease[u] # lease[t]
        BY <1>0, <2>2, <3>1, <3>4 DEF Sets, OneOwner, Leased
      <4> QED
        BY <1>0, <2>2, <3>1, <3>4, <4>1 DEF Sets, SetupType
    <3> QED
      BY <3>2, <3>3, <3>4, SetupChange
  <2> QED
    BY <1>3, <2>1, <2>2, JoinByRewind
<1> QED
  BY <1>1, <1>2, <1>3 DEF SetupInv, OwnSetup, Leased

LEMMA FinishedStep ==
  ASSUME FullInv, [Next]_vars
  PROVE  FinishedInv'
<1> USE Tasks DEF Goto, FinishedInv
<1>0. FinishedInv /\ StageType /\ TalkType /\ SearchType /\ LoopInv
  BY DEF FullInv, IInv, StageInv, EngineInv
<1>1. ASSUME NEW u \in Task, BootStep(u) \/ BootPanics(u) PROVE FinishedInv'
  BY <1>0, <1>1 DEF BootStep, BootPanics, Load, Rewind, Reset, BootFails, talkVars, searchVars
<1>2. ASSUME NEW u \in Req, RequestStep(u) \/ RequestCancelled(u) PROVE FinishedInv'
  <2>1. UNCHANGED active /\ finished' \subseteq finished
        /\ \A t \in Task : pc'[t] = pc[t] \/ (t = u /\ (pc[t] # "wait" \/ u \notin finished'))
    BY <1>0, <1>2 DEF RequestStep, RequestCancelled, RequestAcquire, RequestFailed, RequestSearch,
       RequestAnswered, StartSearch, talkVars, searchVars, StageType
  <2> QED
    BY <1>0, <2>1 DEF SearchType
<1>3. ASSUME NEW c \in Conn, SessionStep(c) \/ GrowIdle(c) \/ Bye(c) PROVE FinishedInv'
  BY <1>0, <1>3 DEF SessionStep, GrowIdle, Bye, TakePermit, SessionAcquire, SessionFailed, OpenSession,
     TakeEngine, ReleasePermit, talkVars, searchVars, StageType
<1>4. ASSUME NEW c \in Conn, TalkStep(c) \/ Leave(c) PROVE FinishedInv'
  <2>1. \A t \in Req : pc'[t] = pc[t]
    BY <1>0, <1>4 DEF TalkStep, Leave, Hello, Poll, Finish, Answer, Execute, Receive, StageType
  <2>2. /\ finished' \subseteq finished
        /\ \/ UNCHANGED active
           \/ c \notin finished' /\ active' = [active EXCEPT ![c] = 0]
           \/ active' = [active EXCEPT ![c] = gos[c] + 1]
    BY <1>4 DEF TalkStep, Leave, Hello, Poll, Finish, Answer, Execute, SetPosition, SetOption, Go,
       PonderHit, NothingMore, Receive, StartSearch, searchVars, talkVars
  <2>3. gos[c] + 1 # 0
    BY <1>0 DEF TalkType
  <2>4. \A d \in Conn : d \in finished' => active'[d] # 0
    BY <1>0, <2>2, <2>3 DEF TalkType
  <2> QED
    BY <1>0, <2>1, <2>2, <2>4 DEF SearchType, Task
<1>5. ASSUME NEW e \in Engine, SearchEnds(e) \/ SearchPanics(e) PROVE FinishedInv'
  BY <1>0, <1>5 DEF SearchEnds, SearchPanics, SearchOver, HasHandle, talkVars
<1>6. CASE SweepStep \/ UNCHANGED vars
  BY <1>0, <1>6 DEF SweepStep, SweepStart, SweepRead, SweepDestroy, SweepDestroyed, vars, searchVars, talkVars
<1> QED
  BY <1>1, <1>2, <1>3, <1>4, <1>5, <1>6 DEF Next

\* Only a connection changes what its loop keeps, and its place decides.
LoopFrame(c) ==
  pc'[c] = pc[c] /\ active'[c] = active[c] /\ cmd'[c] = cmd[c] /\ gos'[c] = gos[c]
  /\ replies'[c] = replies[c] /\ left' \in 0..left

Silent == {"new", "acquire", "boot"}

LEMMA LoopChange ==
  ASSUME FullInv, [Next]_vars, NEW c \in Conn
  PROVE  \/ LoopFrame(c)
         \/ pc[c] \in Silent /\ pc'[c] \in Silent \cup {"closed"} /\ UNCHANGED talkVars
         \/ OpenSession(c) \/ Hello(c) \/ Bye(c) \/ Poll(c) \/ Finish(c) \/ Execute(c) \/ Leave(c)
         \/ \E k \in Commands : Receive(c, k)
<1> USE Tasks DEF Goto, talkVars, LoopFrame
<1>0. StageType /\ TalkType
  BY DEF FullInv, IInv, StageInv, EngineInv
<1>1. ASSUME UNCHANGED talkVars, pc'[c] = pc[c] PROVE LoopFrame(c)
  BY <1>0, <1>1 DEF TalkType
<1>2. ASSUME NEW u \in Task, BootStep(u) \/ BootPanics(u) PROVE LoopFrame(c)
  BY <1>1, <1>2 DEF BootStep, BootPanics, Load, Rewind, Reset
<1>3. ASSUME NEW u \in Req, RequestStep(u) \/ RequestCancelled(u) PROVE LoopFrame(c)
  BY <1>0, <1>1, <1>3 DEF RequestStep, RequestCancelled, RequestAcquire, RequestFailed, RequestSearch,
     RequestAnswered, StageType
<1>4. ASSUME NEW d \in Conn, SessionStep(d) \/ GrowIdle(d) \/ Bye(d)
      PROVE  \/ LoopFrame(c) \/ OpenSession(c) \/ Bye(c)
             \/ pc[c] \in Silent /\ pc'[c] \in Silent \cup {"closed"} /\ UNCHANGED talkVars
  BY <1>0, <1>1, <1>4 DEF SessionStep, GrowIdle, Bye, TakePermit, SessionAcquire, SessionFailed,
     OpenSession, TakeEngine, ReleasePermit, StageType, Silent
<1>5. ASSUME NEW d \in Conn, d # c, TalkStep(d) \/ Leave(d) PROVE LoopFrame(c)
  <2>1. pc'[c] = pc[c] /\ active'[c] = active[c] /\ left' \in 0..left
    BY <1>0, <1>5 DEF TalkStep, Leave, Hello, Poll, Finish, Answer, Execute, SetPosition, SetOption, Go,
       PonderHit, NothingMore, Receive, StageType, TalkType
  <2>2. cmd'[c] = cmd[c] /\ gos'[c] = gos[c] /\ replies'[c] = replies[c]
    BY <1>0, <1>5 DEF TalkStep, Leave, Hello, Poll, Finish, Answer, Execute, SetPosition, SetOption, Go,
       PonderHit, NothingMore, Receive, StageType, TalkType
  <2> QED
    BY <2>1, <2>2
<1>6. ASSUME TalkStep(c) \/ Leave(c)
      PROVE  \/ Hello(c) \/ Poll(c) \/ Finish(c) \/ Execute(c) \/ Leave(c)
             \/ \E k \in Commands : Receive(c, k)
  BY <1>6 DEF TalkStep
<1>7. ASSUME NEW e \in Engine, SearchEnds(e) \/ SearchPanics(e) PROVE LoopFrame(c)
  BY <1>1, <1>7 DEF SearchEnds, SearchPanics, SearchOver
<1>8. CASE SweepStep \/ UNCHANGED vars
  BY <1>1, <1>8 DEF SweepStep, SweepStart, SweepRead, SweepDestroy, SweepDestroyed, vars
<1> QED
  BY <1>2, <1>3, <1>4, <1>5, <1>6, <1>7, <1>8 DEF Next

\* What a command does to the loop's state when it is executed.
LEMMA ExecuteTalks ==
  ASSUME NEW c \in Conn, Execute(c)
  PROVE  /\ pc[c] = "execute" /\ pc' = [pc EXCEPT ![c] = "loop"]
         /\ cmd' = [cmd EXCEPT ![c] = "other"] /\ UNCHANGED left
         /\ \/ UNCHANGED <<active, gos, replies>>
            \/ /\ cmd[c] = "go" /\ gos' = [gos EXCEPT ![c] = @ + 1]
               /\ \/ active' = [active EXCEPT ![c] = gos[c] + 1] /\ UNCHANGED replies
                  \/ replies' = [replies EXCEPT ![c] = Append(@, gos[c] + 1)] /\ UNCHANGED active
  BY DEF Execute, SetPosition, SetOption, Go, PonderHit, NothingMore, Goto

LEMMA LoopStep ==
  ASSUME FullInv, [Next]_vars
  PROVE  LoopInv'
<1> USE Tasks DEF Goto, talkVars
<1>0. StageType /\ TalkType /\ LoopInv
  BY DEF FullInv, IInv, StageInv, EngineInv
<1> SUFFICES ASSUME NEW c \in Conn
             PROVE  /\ pc'[c] \in {"hello", "loop", "finish", "execute", "bye"} => boot'[c] = "ready"
                    /\ active'[c] # 0 => pc'[c] \in {"loop", "finish", "execute"}
                    /\ pc'[c] = "execute" /\ cmd'[c] \in Finishing => active'[c] = 0
                    /\ gos'[c] + Pending(c)' + left' <= MaxCommands
  BY DEF LoopInv
<1>1. /\ pc[c] \in {"hello", "loop", "finish", "execute", "bye"} => boot[c] = "ready"
      /\ active[c] # 0 => pc[c] \in {"loop", "finish", "execute"}
      /\ pc[c] = "execute" /\ cmd[c] \in Finishing => active[c] = 0
      /\ gos[c] + Pending(c) + left <= MaxCommands
  BY <1>0 DEF LoopInv
<1>n. gos[c] \in Nat /\ left \in Nat /\ MaxCommands \in Nat /\ Pending(c) \in {0, 1}
  BY <1>0, SizeAssumption DEF TalkType, Pending
<1>2. boot[c] = "ready" => boot'[c] = "ready"
  BY LeaseKept
<1>3. CASE LoopFrame(c)
  <2>1. Pending(c)' = Pending(c)
    BY <1>3 DEF Pending, LoopFrame
  <2>2. gos'[c] + Pending(c)' + left' <= MaxCommands
    BY <1>1, <1>n, <1>3, <2>1 DEF LoopFrame
  <2> QED
    BY <1>1, <1>2, <1>3, <2>2 DEF LoopFrame
<1>4. CASE pc[c] \in Silent /\ pc'[c] \in Silent \cup {"closed"} /\ UNCHANGED talkVars
  <2>1. Pending(c)' = 0 /\ Pending(c) = 0
    BY <1>4 DEF Pending, Silent
  <2> QED
    BY <1>1, <1>4, <2>1 DEF Silent
<1>5. CASE OpenSession(c) \/ Hello(c) \/ Bye(c)
  <2>1. Pending(c)' = 0 /\ Pending(c) = 0 /\ UNCHANGED talkVars /\ pc[c] \in {"boot", "hello", "bye"}
    BY <1>0, <1>5 DEF Pending, OpenSession, Hello, Bye, StageType
  <2>2. pc'[c] \in {"hello", "loop", "bye"} => boot[c] = "ready"
    BY <1>0, <1>1, <1>5 DEF OpenSession, Hello, Bye, StageType
  <2>3. active'[c] = 0 /\ pc'[c] # "execute"
    BY <1>0, <1>1, <1>5, <2>1 DEF OpenSession, Hello, Bye, StageType
  <2>4. pc'[c] \in {"hello", "loop", "bye", "closed"}
    BY <1>0, <1>5 DEF OpenSession, Hello, Bye, StageType
  <2> QED
    BY <1>1, <1>2, <2>1, <2>2, <2>3, <2>4
<1>6. CASE Poll(c) \/ Finish(c) \/ Leave(c)
  <2>1. /\ pc[c] \in {"loop", "finish"} /\ UNCHANGED <<cmd, gos, left>> /\ active'[c] = 0
        /\ pc'[c] = pc[c] \/ (pc[c] = "finish" /\ pc'[c] = "execute") \/ pc'[c] = "bye"
    BY <1>0, <1>6 DEF Poll, Finish, Leave, Answer, StageType, TalkType
  <2>2. Pending(c)' \in {0, Pending(c)}
    BY <2>1 DEF Pending
  <2>3. gos'[c] + Pending(c)' + left' <= MaxCommands
    BY <1>1, <1>n, <2>1, <2>2
  <2> QED
    BY <1>1, <1>2, <2>1, <2>3
<1>7. CASE Execute(c)
  <2>1. pc'[c] = "loop" /\ pc[c] = "execute" /\ left' = left /\ Pending(c)' = 0
    BY <1>0, <1>7, ExecuteTalks DEF StageType, Pending
  <2>2. gos'[c] <= gos[c] + Pending(c) /\ gos'[c] \in Nat
    <3>1. CASE UNCHANGED <<active, gos, replies>>
      BY <1>0, <3>1 DEF TalkType, Pending
    <3>2. CASE cmd[c] = "go" /\ gos' = [gos EXCEPT ![c] = @ + 1]
      BY <1>0, <2>1, <3>2 DEF TalkType, Pending
    <3> QED
      BY <1>7, <3>1, <3>2, ExecuteTalks
  <2>3. gos'[c] + Pending(c)' + left' <= MaxCommands
    BY <1>1, <1>n, <2>1, <2>2
  <2> QED
    BY <1>1, <1>2, <2>1, <2>3
<1>8. ASSUME NEW k \in Commands, Receive(c, k)
      PROVE  /\ pc'[c] \in {"hello", "loop", "finish", "execute", "bye"} => boot'[c] = "ready"
             /\ active'[c] # 0 => pc'[c] \in {"loop", "finish", "execute"}
             /\ pc'[c] = "execute" /\ cmd'[c] \in Finishing => active'[c] = 0
             /\ gos'[c] + Pending(c)' + left' <= MaxCommands
  <2>1. /\ pc[c] = "loop" /\ cmd'[c] = k /\ left' = left - 1 /\ UNCHANGED <<active, gos>> /\ left > 0
        /\ pc'[c] = IF EndsActive(k) /\ active[c] # 0 THEN "finish" ELSE "execute"
    BY <1>0, <1>8 DEF Receive, StageType, TalkType
  <2>2. Pending(c) = 0 /\ Pending(c)' \in {0, 1}
    BY <2>1 DEF Pending
  <2>3. gos'[c] + Pending(c)' + left' <= MaxCommands
    BY <1>1, <1>n, <2>1, <2>2
  <2> QED
    BY <1>1, <1>2, <2>1, <2>3 DEF EndsActive
<1> QED
  BY <1>3, <1>4, <1>5, <1>6, <1>7, <1>8, LoopChange

LEMMA TalkTypeStep ==
  ASSUME FullInv, [Next]_vars
  PROVE  TalkType'
<1> USE Tasks, SizeAssumption DEF talkVars
<1>0. TalkType /\ LoopInv
  BY DEF FullInv, EngineInv
<1>1. ASSUME UNCHANGED talkVars PROVE TalkType'
  BY <1>0, <1>1 DEF TalkType
<1>2. ASSUME NEW c \in Conn, Poll(c) \/ Finish(c) PROVE TalkType'
  <2>1. active[c] \in 1..MaxCommands /\ replies[c] \in Seq(1..MaxCommands)
    BY <1>0, <1>2 DEF TalkType, Poll, Finish, Answer
  <2>2. Append(replies[c], active[c]) \in Seq(1..MaxCommands)
    BY <2>1, AppendProperties
  <2>3. /\ active' = [active EXCEPT ![c] = 0] /\ UNCHANGED <<cmd, left, gos>>
        /\ replies' = [replies EXCEPT ![c] = Append(replies[c], active[c])]
    BY <1>2 DEF Poll, Finish, Answer
  <2> QED
    BY <1>0, <2>2, <2>3 DEF TalkType
<1>3. ASSUME NEW c \in Conn, Leave(c) PROVE TalkType'
  BY <1>0, <1>3 DEF TalkType, Leave
<1>4. ASSUME NEW c \in Conn, Execute(c) PROVE TalkType'
  <2>1. cmd[c] = "go" => gos[c] + 1 \in 1..MaxCommands
    <3>1. pc[c] = "execute" /\ gos[c] + Pending(c) + left <= MaxCommands
      BY <1>0, <1>4, ExecuteTalks DEF LoopInv
    <3>2. gos[c] \in Nat /\ left \in Nat
      BY <1>0 DEF TalkType
    <3> QED
      BY <3>1, <3>2 DEF Pending
  <2>2. cmd[c] = "go" => Append(replies[c], gos[c] + 1) \in Seq(1..MaxCommands)
    BY <1>0, <2>1, AppendProperties DEF TalkType
  <2>3. cmd' \in [Conn -> AllCommands] /\ left' \in 0..MaxCommands
    BY <1>0, <1>4, ExecuteTalks DEF TalkType, AllCommands
  <2>4. active' \in [Conn -> 0..MaxCommands] /\ gos' \in [Conn -> 0..MaxCommands]
        /\ replies' \in [Conn -> Seq(1..MaxCommands)]
    <3>1. CASE UNCHANGED <<active, gos, replies>>
      BY <1>0, <3>1 DEF TalkType
    <3>2. CASE cmd[c] = "go" /\ gos' = [gos EXCEPT ![c] = @ + 1]
      <4>1. gos' \in [Conn -> 0..MaxCommands]
        BY <1>0, <2>1, <3>2 DEF TalkType
      <4>2. ASSUME active' = [active EXCEPT ![c] = gos[c] + 1], UNCHANGED replies
            PROVE  active' \in [Conn -> 0..MaxCommands] /\ replies' \in [Conn -> Seq(1..MaxCommands)]
        BY <1>0, <2>1, <3>2, <4>2 DEF TalkType
      <4>3. ASSUME replies' = [replies EXCEPT ![c] = Append(@, gos[c] + 1)], UNCHANGED active
            PROVE  active' \in [Conn -> 0..MaxCommands] /\ replies' \in [Conn -> Seq(1..MaxCommands)]
        BY <1>0, <2>2, <3>2, <4>3 DEF TalkType
      <4> QED
        BY <1>4, <3>1, <3>2, <4>1, <4>2, <4>3, ExecuteTalks
    <3> QED
      BY <1>4, <3>1, <3>2, ExecuteTalks
  <2> QED
    BY <2>3, <2>4 DEF TalkType
<1>5. ASSUME NEW c \in Conn, NEW k \in Commands, Receive(c, k) PROVE TalkType'
  BY <1>0, <1>5, CommandAssumption DEF TalkType, Receive
<1>6. ASSUME NEW t \in Task, BootStep(t) \/ BootPanics(t) PROVE UNCHANGED talkVars
  BY <1>6 DEF BootStep, BootPanics, Load, Rewind, Reset
<1>7. ASSUME NEW t \in Req, RequestStep(t) \/ RequestCancelled(t) PROVE UNCHANGED talkVars
  BY <1>7 DEF RequestStep, RequestCancelled, RequestAcquire, RequestFailed, RequestSearch, RequestAnswered
<1>8. ASSUME NEW c \in Conn, SessionStep(c) \/ GrowIdle(c) \/ Bye(c) \/ Hello(c) PROVE UNCHANGED talkVars
  BY <1>8 DEF SessionStep, GrowIdle, Bye, Hello, TakePermit, SessionAcquire, SessionFailed, OpenSession,
     TakeEngine, ReleasePermit
<1>9. ASSUME NEW e \in Engine, SearchEnds(e) \/ SearchPanics(e) PROVE UNCHANGED talkVars
  BY <1>9 DEF SearchEnds, SearchPanics, SearchOver
<1>10. CASE SweepStep \/ UNCHANGED vars
  BY <1>1, <1>10 DEF SweepStep, SweepStart, SweepRead, SweepDestroy, SweepDestroyed, vars
<1> QED
  BY <1>1, <1>2, <1>3, <1>4, <1>5, <1>6, <1>7, <1>8, <1>9, <1>10 DEF Next, TalkStep

\* Answers are the numbers of the `go` commands, counted.
LEMMA CountedAppend ==
  ASSUME NEW s \in Seq(Nat), s = [i \in 1..Len(s) |-> i]
  PROVE  /\ Append(s, Len(s) + 1) = [i \in 1..Len(Append(s, Len(s) + 1)) |-> i]
         /\ Len(Append(s, Len(s) + 1)) = Len(s) + 1
<1> DEFINE r == Append(s, Len(s) + 1)
<1>1. /\ r \in Seq(Nat) /\ Len(r) = Len(s) + 1 /\ Len(s) \in Nat
      /\ \A i \in 1..Len(s) : r[i] = s[i]
      /\ r[Len(s) + 1] = Len(s) + 1
  BY AppendProperties, LenProperties
<1>2. \A i \in 1..Len(r) : r[i] = i
  BY <1>1
<1>3. r = [i \in 1..Len(r) |-> r[i]]
  BY <1>1, LenProperties
<1> QED
  BY <1>1, <1>2, <1>3

LEMMA ReplyStep ==
  ASSUME FullInv, [Next]_vars
  PROVE  ReplyInv'
<1> USE Tasks DEF Goto, talkVars
<1>0. StageType /\ TalkType /\ LoopInv /\ ReplyInv
  BY DEF FullInv, IInv, StageInv, EngineInv
<1> DEFINE Counted(s) == s = [i \in 1..Len(s) |-> i]
           Numbered(c) == /\ active[c] \in {0, gos[c]} /\ Counted(replies[c])
                          /\ Len(replies[c]) = gos[c] - (IF active[c] = 0 THEN 0 ELSE 1)
<1> SUFFICES ASSUME NEW c \in Conn
             PROVE  /\ pc'[c] \in {"new", "acquire", "boot", "hello"} => gos'[c] = 0 /\ replies'[c] = <<>>
                    /\ pc'[c] \in {"loop", "finish", "execute"} => Numbered(c)'
  BY Zenon DEF ReplyInv
<1>1. /\ pc[c] \in {"new", "acquire", "boot", "hello"} => gos[c] = 0 /\ replies[c] = <<>>
      /\ pc[c] \in {"loop", "finish", "execute"} => Numbered(c)
      /\ gos[c] \in Nat /\ active[c] \in Nat /\ replies[c] \in Seq(Nat)
      /\ active[c] # 0 => pc[c] \in {"loop", "finish", "execute"}
      /\ pc[c] = "execute" /\ cmd[c] = "go" => active[c] = 0
  <2>1. replies[c] \in Seq(Nat)
    <3>1. replies[c] \in Seq(1..MaxCommands)
      BY <1>0 DEF TalkType
    <3>2. Len(replies[c]) \in Nat /\ replies[c] \in [1..Len(replies[c]) -> 1..MaxCommands]
      BY <3>1, LenProperties
    <3>3. replies[c] \in [1..Len(replies[c]) -> Nat]
      BY <3>2
    <3> QED
      BY <3>2, <3>3, SeqDef
  <2>2. /\ gos[c] \in Nat /\ active[c] \in Nat
        /\ active[c] # 0 => pc[c] \in {"loop", "finish", "execute"}
        /\ pc[c] = "execute" /\ cmd[c] = "go" => active[c] = 0
    BY <1>0 DEF TalkType, LoopInv, Finishing
  <2>3. /\ pc[c] \in {"new", "acquire", "boot", "hello"} => gos[c] = 0 /\ replies[c] = <<>>
        /\ pc[c] \in {"loop", "finish", "execute"} => Numbered(c)
    BY <1>0, Zenon DEF ReplyInv
  <2> QED
    BY <2>1, <2>2, <2>3
<1>2. ASSUME active'[c] = active[c], gos'[c] = gos[c], replies'[c] = replies[c] PROVE Numbered(c)' = Numbered(c)
  BY <1>2
<1>3. CASE LoopFrame(c)
  BY <1>1, <1>2, <1>3 DEF LoopFrame
<1>4. CASE pc[c] \in Silent /\ pc'[c] \in Silent \cup {"closed"} /\ UNCHANGED talkVars
  BY <1>1, <1>4 DEF Silent
<1>5. CASE OpenSession(c) \/ Bye(c)
  BY <1>0, <1>1, <1>5 DEF OpenSession, Bye, StageType
<1>6. CASE Hello(c)
  <2>1. pc[c] = "hello" /\ pc'[c] \in {"loop", "bye"} /\ UNCHANGED talkVars
    BY <1>0, <1>6 DEF Hello, StageType
  <2>2. gos[c] = 0 /\ replies[c] = <<>> /\ active[c] = 0
    BY <1>1, <2>1
  <2>3. Numbered(c)
    BY <2>2, EmptySeq
  <2> QED
    BY <1>2, <2>1, <2>3
<1>7. CASE Poll(c) \/ Finish(c)
  <2>1. /\ active[c] # 0 /\ replies'[c] = Append(replies[c], active[c]) /\ active'[c] = 0
        /\ gos'[c] = gos[c] /\ pc[c] \in {"loop", "finish"} /\ pc'[c] \in {"loop", "execute"}
    BY <1>0, <1>7 DEF Poll, Finish, Answer, StageType, TalkType
  <2>2. /\ active[c] = gos[c] /\ Counted(replies[c]) /\ Len(replies[c]) = gos[c] - 1
    BY <1>1, <2>1
  <2>3. replies'[c] = Append(replies[c], Len(replies[c]) + 1)
    BY <1>1, <2>1, <2>2
  <2>4. Counted(replies'[c]) /\ Len(replies'[c]) = Len(replies[c]) + 1
    BY <1>1, <2>2, <2>3, CountedAppend
  <2> QED
    BY <1>1, <2>1, <2>2, <2>4
<1>8. CASE Execute(c)
  <2>1. pc[c] = "execute" /\ pc'[c] = "loop"
    BY <1>0, <1>8, ExecuteTalks DEF StageType
  <2>2. CASE UNCHANGED <<active, gos, replies>>
    BY <1>1, <1>2, <2>1, <2>2
  <2>3. CASE cmd[c] = "go" /\ gos' = [gos EXCEPT ![c] = @ + 1]
             /\ active' = [active EXCEPT ![c] = gos[c] + 1] /\ UNCHANGED replies
    <3>1. active[c] = 0 /\ active'[c] = gos[c] + 1 /\ gos'[c] = gos[c] + 1
      BY <1>0, <1>1, <2>1, <2>3 DEF TalkType
    <3> QED
      BY <1>1, <2>1, <2>3, <3>1
  <2>4. CASE cmd[c] = "go" /\ gos' = [gos EXCEPT ![c] = @ + 1]
             /\ replies' = [replies EXCEPT ![c] = Append(@, gos[c] + 1)] /\ UNCHANGED active
    <3>1. /\ active[c] = 0 /\ gos'[c] = gos[c] + 1 /\ Len(replies[c]) = gos[c] /\ Counted(replies[c])
          /\ replies'[c] = Append(replies[c], Len(replies[c]) + 1)
      BY <1>0, <1>1, <2>1, <2>4 DEF TalkType
    <3>2. Counted(replies'[c]) /\ Len(replies'[c]) = Len(replies[c]) + 1
      BY <1>1, <3>1, CountedAppend
    <3> QED
      BY <1>1, <2>1, <2>4, <3>1, <3>2
  <2> QED
    BY <1>8, <2>2, <2>3, <2>4, ExecuteTalks
<1>9. CASE Leave(c)
  BY <1>0, <1>9 DEF Leave, StageType
<1>10. ASSUME NEW k \in Commands, Receive(c, k)
       PROVE  pc'[c] \in {"finish", "execute"} /\ Numbered(c)'
  <2>1. pc[c] = "loop" /\ pc'[c] \in {"finish", "execute"} /\ UNCHANGED <<active, gos, replies>>
    BY <1>0, <1>10 DEF Receive, StageType
  <2> QED
    BY <1>1, <1>2, <2>1
<1> QED
  BY <1>3, <1>4, <1>5, <1>6, <1>7, <1>8, <1>9, <1>10, LoopChange

LEMMA SetupTypeStep ==
  ASSUME FullInv, [Next]_vars
  PROVE  SetupType'
<1>0. SetupType /\ lease \in [Task -> 0..MaxEngines]
  BY DEF FullInv, EngineInv, IInv, PoolInv, PoolType
<1>1. CASE UNCHANGED setupVars
  BY <1>0, <1>1 DEF SetupType, setupVars
<1>2. ASSUME NEW t \in Task, Renews(t) PROVE SetupType'
  BY <1>0, <1>2 DEF SetupType, Renews, Position
<1>3. ASSUME NEW t \in Task, Sets(t) PROVE SetupType'
  BY <1>0, <1>3 DEF SetupType, Sets, Engine, NoEngine
<1>4. ASSUME NEW t \in Task, Rewind(t) PROVE SetupType'
  BY <1>0, <1>4 DEF SetupType, Rewind, Position
<1> QED
  BY <1>1, <1>2, <1>3, <1>4, SetupChange

LEMMA SearchTypeStep ==
  ASSUME FullInv, [Next]_vars
  PROVE  SearchType'
<1> USE Tasks DEF searchVars
<1>0. /\ SearchType /\ lease \in [Task -> 0..MaxEngines]
      /\ \A t \in Task : SearchOf(lease[t]) \subseteq Task
  BY DEF FullInv, EngineInv, SearchType, IInv, PoolInv, PoolType, SearchOf, Engine, NoEngine
<1>1. runs' \in [Engine -> Task \cup {Nobody}]
  BY <1>0, RunsChange DEF SearchType, Starts, SearchOver
<1>2. ASSUME NEW t \in Task, BootStep(t) \/ BootPanics(t)
      PROVE  UNCHANGED <<limit, finished>> /\ stop' \subseteq Task
  BY <1>0, <1>2 DEF BootStep, BootPanics, Load, Rewind, Reset, BootFails, DropLease, StoppedBy, SearchType
<1>3. ASSUME NEW t \in Req, RequestStep(t) \/ RequestCancelled(t)
      PROVE  /\ limit' \in [Task -> {"limited", "ponder", "infinite"}]
             /\ finished' \subseteq finished /\ stop' \subseteq Task
  BY <1>0, <1>3 DEF RequestStep, RequestCancelled, RequestAcquire, RequestFailed, RequestSearch,
       RequestAnswered, DropLease, StoppedBy, StartSearch, SearchType
<1>4. ASSUME NEW c \in Conn, SessionStep(c) \/ GrowIdle(c) \/ Bye(c)
      PROVE  UNCHANGED <<limit, finished>> /\ stop' \subseteq Task
  BY <1>0, <1>4 DEF SessionStep, GrowIdle, Bye, TakePermit, SessionAcquire, SessionFailed, OpenSession,
     TakeEngine, ReleasePermit, DropLease, StoppedBy, SearchType
<1>5. ASSUME NEW c \in Conn, TalkStep(c) \/ Leave(c)
      PROVE  /\ limit' \in [Task -> {"limited", "ponder", "infinite"}]
             /\ finished' \subseteq finished /\ stop' \subseteq Task
  <2>1. finished' \subseteq finished /\ stop' \subseteq Task
    BY <1>0, <1>5 DEF TalkStep, Leave, Hello, Poll, Finish, Answer, Execute, SetPosition, SetOption, Go,
       PonderHit, NothingMore, Receive, StartSearch, Cancelled, SearchType
  <2>2. limit' \in [Task -> {"limited", "ponder", "infinite"}]
    BY <1>0, <1>5 DEF TalkStep, Leave, Hello, Poll, Finish, Answer, Execute, SetPosition, SetOption, Go,
       PonderHit, NothingMore, Receive, StartSearch, SearchType
  <2> QED
    BY <2>1, <2>2
<1>6. ASSUME NEW e \in Engine, SearchEnds(e) \/ SearchPanics(e)
      PROVE  /\ limit' \in [Task -> {"limited", "ponder", "infinite"}]
             /\ finished' \subseteq Task /\ stop' \subseteq Task
  BY <1>0, <1>6 DEF SearchEnds, SearchPanics, SearchOver, SearchType
<1>7. CASE SweepStep \/ UNCHANGED vars
  BY <1>0, <1>1, <1>7 DEF SweepStep, SweepStart, SweepRead, SweepDestroy, SweepDestroyed, vars, SearchType
<1> QED
  BY <1>0, <1>1, <1>2, <1>3, <1>4, <1>5, <1>6, <1>7 DEF Next, SearchType

\* What the sweep and the cached model are.
SweepType ==
  /\ network \in {"unset", "ok", "bad"}
  /\ idle \subseteq Conn /\ todo \subseteq Conn /\ expired \subseteq Conn
  /\ victim \in Conn \cup {Nobody}

LEMMA SweepTypeStep ==
  ASSUME SweepType, [Next]_vars
  PROVE  SweepType'
<1> USE Tasks DEF SweepType, poolVars, sweepVars
<1>1. ASSUME NEW t \in Task, BootStep(t) \/ BootPanics(t) PROVE SweepType'
  BY <1>1 DEF BootStep, BootPanics, Load, Rewind, Reset
<1>2. ASSUME NEW t \in Req, RequestStep(t) \/ RequestCancelled(t) PROVE SweepType'
  BY <1>2 DEF RequestStep, RequestCancelled, RequestAcquire, RequestFailed, RequestSearch,
     RequestAnswered, Acquire
<1>3. ASSUME NEW c \in Conn, SessionStep(c) \/ GrowIdle(c) \/ Bye(c) PROVE SweepType'
  BY <1>3 DEF SessionStep, GrowIdle, Bye, TakePermit, SessionAcquire, SessionFailed, OpenSession,
     TakeEngine, ReleasePermit, Acquire
<1>4. ASSUME NEW c \in Conn, TalkStep(c) \/ Leave(c) PROVE SweepType'
  BY <1>4 DEF TalkStep, Leave, Hello, Poll, Finish, Answer, Execute, SetPosition, SetOption, Go,
       PonderHit, NothingMore, Receive, Touch
<1>5. ASSUME NEW e \in Engine, SearchEnds(e) \/ SearchPanics(e) PROVE SweepType'
  BY <1>5 DEF SearchEnds, SearchPanics, SearchOver
<1>6. CASE SweepStep \/ UNCHANGED vars
  BY <1>6 DEF SweepStep, SweepStart, SweepRead, SweepDestroy, SweepDestroyed, vars
<1> QED
  BY <1>1, <1>2, <1>3, <1>4, <1>5, <1>6 DEF Next

LEMMA EngineInvariance == Spec => [](FullInv /\ SweepType)
<1>1. Init => EngineInv /\ SweepType
  <2> SUFFICES ASSUME Init PROVE EngineInv /\ SweepType
    OBVIOUS
  <2> USE Tasks, SizeAssumption, TaskAssumption DEF Init
  <2>1. SearchType /\ SetupType /\ SweepType
    BY DEF SearchType, SetupType, SweepType, Position
  <2>2. <<>> \in Seq(1..MaxCommands)
    BY EmptySeq
  <2>3. TalkType
    BY <2>2 DEF TalkType, AllCommands
  <2>4. LoopInv
    BY DEF LoopInv, Pending
  <2>5. RunsInv /\ FinishedInv /\ OwnRun /\ SetupInv
    BY DEF RunsInv, FinishedInv, OwnRun, SetupInv, OwnSetup, Leased, Task
  <2>6. ReplyInv
    BY DEF ReplyInv
  <2> QED
    BY <2>1, <2>3, <2>4, <2>5, <2>6 DEF EngineInv
<1>2. FullInv /\ [Next]_vars => EngineInv'
  BY SearchTypeStep, SetupTypeStep, TalkTypeStep, LoopStep, RunsStep, FinishedStep, OwnRunStep,
     SetupStep, ReplyStep DEF EngineInv
<1>3. FullInv /\ SweepType /\ [Next]_vars => (FullInv /\ SweepType)'
  BY <1>2, Inductive, SweepTypeStep DEF FullInv
<1>4. Init => FullInv /\ SweepType
  BY <1>1, InitIInv DEF FullInv
<1> QED
  BY <1>3, <1>4, PTL DEF Spec

-----------------------------------------------------------------------------
\* No engine has two owners (pool.rs: acquire, Drop for EngineLease), whatever
\* initialisation fails, panics or is abandoned and whoever destroys a session.
THEOREM EnginesHaveOneOwner == Spec => []OneOwner
<1>1. IInv => OneOwner
  BY DEF IInv, PoolInv
<1> QED
  BY <1>1, Invariance, PTL

\* Engines and reservations are counted exactly, and never exceed max_engines.
THEOREM CapacityIsConserved == Spec => []CapacityConserved
<1>1. IInv => CapacityConserved
  BY DEF IInv, PoolInv
<1> QED
  BY <1>1, Invariance, PTL

\* Permits are counted exactly, and no session holds an engine without one
\* (session.rs: create_session, destroy_session).
THEOREM PermitsAreConserved == Spec => []PermitsConserved
<1>1. IInv => PermitsConserved
  BY Tasks DEF IInv, StageInv, SessionInv, PermitCount, PermitsConserved
<1> QED
  BY <1>1, Invariance, PTL
\* The type invariant: among it, no more engines than max_engines, permits than
\* max_sessions, or `go` commands than commands sent.
THEOREM TypeCorrect == Spec => []TypeOK
<1>1. FullInv /\ SweepType => TypeOK
  <2> SUFFICES ASSUME FullInv, SweepType PROVE TypeOK
    OBVIOUS
  <2>1. total \in 0..MaxEngines
    BY SizeAssumption DEF FullInv, IInv, PoolInv, PoolType, CapacityConserved
  <2>2. permits \in 0..MaxSessions
    <3>1. IsFiniteSet(holds)
      BY FS_Subset, TaskAssumption DEF FullInv, IInv, StageInv, StageType
    <3>2. Cardinality(holds) \in Nat
      BY <3>1, FS_CardinalityType
    <3> QED
      BY <3>2, SizeAssumption DEF FullInv, IInv, PermitCount, StageInv, StageType
  <2> QED
    BY <2>1, <2>2 DEF TypeOK, FullInv, IInv, PoolInv, PoolType, StageInv, StageType, EngineInv,
       SearchType, SetupType, TalkType, SweepType
<1> QED
  BY <1>1, EngineInvariance, PTL

\* Whoever gave an engine back, and on whichever path, told its search to stop
\* (pool.rs: Drop for EngineLease).
THEOREM PooledEnginesStop == Spec => []PooledIsStopped
<1>1. FullInv => PooledIsStopped
  <2> SUFFICES ASSUME FullInv, NEW i \in DOMAIN available,
                      NEW t \in SearchOf(available[i])
               PROVE  t \in stop
    BY DEF PooledIsStopped
  <2>0. OneOwner /\ RunsInv /\ SearchType /\ available \in Seq(Engine)
    BY DEF FullInv, EngineInv, IInv, PoolInv, PoolType
  <2>1. available[i] \in Engine
    BY <2>0
  <2>2. t \in Task /\ runs[available[i]] = t
    BY <2>0, <2>1 DEF SearchOf, SearchType
  <2>3. lease[t] # available[i]
    BY <2>0, <2>1, <2>2 DEF OneOwner, Leased, Engine, NoEngine
  <2> QED
    BY <2>0, <2>1, <2>2, <2>3 DEF RunsInv
<1> QED
  BY <1>1, EngineInvariance, PTL

\* A task finds its own setup in its engine, whoever had it before
\* (engine_blocking.rs: reset; session.rs and http.rs: the commands).
THEOREM SetupsAreOwn == Spec => []OwnSetup
<1>1. FullInv => OwnSetup
  BY DEF FullInv, EngineInv, SetupInv
<1> QED
  BY <1>1, EngineInvariance, PTL

\* A connection's `go` commands are answered once each and in order (ws.rs).
THEOREM GosAreAnsweredInOrder == Spec => []AnsweredInOrder
<1>1. FullInv => AnsweredInOrder
  BY DEF FullInv, EngineInv, ReplyInv, AnsweredInOrder
<1> QED
  BY <1>1, EngineInvariance, PTL

\* While a search runs the options of its engine stay, and its position too
\* unless its task has given the engine up: only the next lease's new_game goes
\* ahead of the join (core.rs: new_game; ws.rs: the active search is finished
\* first; pool.rs: the options are set after the join).
THEOREM OwnersAreUndisturbed == Spec => OwnersUndisturbed
<1>1. FullInv /\ [Next]_vars =>
        [\A e \in Engine : runs[e] # Nobody =>
           /\ pos'[e] # pos[e] => lease[runs[e]] # e /\ runs[e] \in stop
           /\ opts'[e] = opts[e]]_vars
  <2> SUFFICES ASSUME FullInv, [Next]_vars, NEW e \in Engine, runs[e] # Nobody
               PROVE  /\ pos'[e] # pos[e] => lease[runs[e]] # e /\ runs[e] \in stop
                      /\ opts'[e] = opts[e]
    OBVIOUS
  <2>0. /\ SetupType /\ SearchType /\ OwnRun /\ RunsInv /\ OneOwner /\ LeaseInv
        /\ lease \in [Task -> 0..MaxEngines]
    BY DEF FullInv, EngineInv, IInv, PoolInv, PoolType, StageInv
  <2>1. /\ runs[e] \in Task /\ boot[runs[e]] = "ready" /\ Begun(runs[e])
        /\ lease[runs[e]] = e \/ runs[e] \in stop
    BY <2>0 DEF SearchType, RunsInv
  <2>2. CASE UNCHANGED setupVars
    BY <2>2 DEF setupVars
  <2>3. ASSUME NEW t \in Task, Rewind(t)
        PROVE  /\ pos'[e] # pos[e] => lease[runs[e]] # e /\ runs[e] \in stop
               /\ opts'[e] = opts[e]
    <3>1. boot[t] = "reset" /\ lease[t] # NoEngine /\ t # runs[e]
      BY <2>0, <2>1, <2>3 DEF Rewind, LeaseInv
    <3>2. lease[t] = e => lease[runs[e]] # e
      BY <2>0, <2>1, <3>1 DEF OneOwner, Leased
    <3>3. UNCHANGED opts /\ (pos'[e] # pos[e] => lease[t] = e)
      BY <2>0, <2>3 DEF Rewind, SetupType
    <3> QED
      BY <2>1, <3>2, <3>3
  <2>4. ASSUME NEW t \in Task, Renews(t) PROVE UNCHANGED pos /\ opts'[e] = opts[e]
    BY <2>0, <2>4 DEF Renews, SetupType
  <2>5. ASSUME NEW t \in Task, Sets(t) PROVE pos'[e] = pos[e] /\ opts'[e] = opts[e]
    <3>1. lease[t] # e
      BY <2>0, <2>1, <2>5 DEF Sets, OwnRun, Leased
    <3> QED
      BY <2>0, <2>5, <3>1 DEF Sets, SetupType
  <2> QED
    BY <2>2, <2>3, <2>4, <2>5, SetupChange
<1> QED
  BY <1>1, EngineInvariance, PTL DEF Spec, OwnersUndisturbed
==============================================================================
