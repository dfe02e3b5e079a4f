--------------------------- MODULE UciLoop_proofs ---------------------------
(***************************************************************************)
(* Proofs about UciLoop, for any set of lines, any number of them, any      *)
(* meaning of the words and any capacity of the channel: every search is    *)
(* answered once and in order, `readyok` follows the bestmove of a search   *)
(* that was stopped before, and a search gets the position and the limits   *)
(* that the lines before its `go` ask for.                                  *)
(*                                                                          *)
(* A step is first summed up as one of a few changes (Steps); the invariants*)
(* are proved of the changes.                                               *)
(***************************************************************************)
EXTENDS UciLoop, TLAPS

OutKinds == {"error", "bestmove", "perft", "uciok", "readyok", "display", "eval"}
Messages == [kind : OutKinds, line : Nat]
Positive == Nat \ {0}
Overhead == <<"move", "overhead">>
Names == Plain \union {"error", "debug", "position", "go", "setoption", "bench"}

\* The line takes part: it is not passed over and not answered by the reader.
IsCommand(n) == ~IsBlank(typed[n]) /\ Kind(n) # "error"

\* The main loop has a line, or will take another one.
Live == pc \in {"poll", "recv"} \/ (cmd # 0 /\ pc \in {"wait", "act"})
Executing == pc \in {"wait", "act"}

TypeInv ==
  /\ started \in 0..MaxSearches
  /\ typed \in Seq(AllLines)
  /\ read \in 0..Len(typed)
  /\ queue \in Seq(Positive)
  /\ cmd \in Nat
  /\ active \in {0, started}
  /\ asked = [s \in Search |-> asked[s]] /\ \A s \in Search : asked[s].line \in Nat
  /\ options = [n \in DOMAIN options |-> options[n]] /\ Overhead \in DOMAIN options
  /\ out \in Seq(Messages)

\* Where the main loop may hold a search.
LoopInv ==
  /\ pc \in {"poll", "recv", "wait", "act", "exit"}
  /\ pc = "wait" => active # 0
  /\ pc = "exit" => active = 0
  /\ pc = "act" /\ (cmd = 0 \/ Kind(cmd) \in Stopping) => active = 0

\* The channel holds the commands read and not yet taken, in their order.
QueueInv ==
  Live =>
    /\ cmd <= read
    /\ Executing => IsCommand(cmd)
    /\ \A i \in 1..Len(queue) : queue[i] \in (cmd + 1)..read /\ IsCommand(queue[i])
    /\ \A i, j \in 1..Len(queue) : i < j => queue[i] < queue[j]
    /\ \A n \in (cmd + 1)..read : IsCommand(n) => \E i \in 1..Len(queue) : queue[i] = n

-----------------------------------------------------------------------------
(***************************************************************************)
(* What a step does.                                                        *)
(***************************************************************************)
Idles ==
  /\ UNCHANGED <<started, typed, read, queue, cmd, active, position, options, asked, out>>
  /\ \/ pc' = pc
     \/ pc = "poll" /\ pc' = "recv"
     \/ pc = "recv" /\ pc' = "poll"

Reads ==
  /\ read < Len(typed) /\ read' = read + 1
  /\ \/ queue' = Append(queue, read + 1) /\ IsCommand(read + 1)
     \/ queue' = queue /\ (IsCommand(read + 1) => pc = "exit")
  /\ \/ out' = out
     \/ out' = Append(out, Message("error", read + 1))
  /\ UNCHANGED <<started, typed, mainVars>>

Reports ==
  /\ active # 0
  /\ \E mid : /\ mid \in {out, Append(out, Message("error", asked[active].line))}
              /\ out' = Append(mid, Message("bestmove", asked[active].line))
  /\ active' = 0
  /\ \/ pc = "poll" /\ pc' = "recv"
     \/ pc = "wait" /\ pc' = "act"
  /\ UNCHANGED <<started, typed, read, queue, cmd, position, options, asked>>

\* Begin, as far as the application's own state goes.
Begins(stopping) ==
  /\ pc = "recv"
  /\ pc' = IF stopping /\ active # 0 THEN "wait" ELSE "act"
  /\ UNCHANGED <<started, typed, read, active, position, options, asked, out>>

Receives ==
  /\ queue # <<>> /\ queue' = Tail(queue) /\ cmd' = Head(queue)
  /\ Begins(Kind(Head(queue)) \in Stopping)

ReceivesEnd ==
  /\ queue = <<>> /\ queue' = queue /\ cmd' = 0
  /\ Begins(TRUE)

Executes ==
  /\ pc = "act" /\ pc' = "poll" /\ cmd # 0
  /\ UNCHANGED <<typed, read, queue, cmd>>

Starts ==
  /\ Executes
  /\ Kind(cmd) = "go" /\ ~AsksPerft(cmd) /\ Accepts(Args(cmd), position)
  /\ started' = started + 1 /\ started + 1 \in Search /\ active' = started + 1
  /\ asked' = [asked EXCEPT ![started + 1] =
                 [line |-> cmd, position |-> position,
                  limits |-> convert_limits(Args(cmd), options[Overhead])]]
  /\ UNCHANGED <<position, options, out>>

\* A command that prints at most one line and asks the engine nothing.
Says1 ==
  /\ Executes
  /\ UNCHANGED <<started, active, asked>>
  /\ \/ out' = out
     \/ \E kind \in OutKinds \ {"bestmove"} :
          out' = Append(out, Message(kind, cmd)) /\ (kind = "readyok" => Kind(cmd) = "isready")

SaysOnly ==
  /\ Says1 /\ UNCHANGED <<position, options>>
  /\ Kind(cmd) \notin {"ucinewgame"}
  /\ Kind(cmd) = "position" => ~set_position(Args(cmd))
  /\ Kind(cmd) = "setoption" => ~Settable(Args(cmd).name, Args(cmd).value)

SetsPosition ==
  /\ Says1 /\ UNCHANGED options
  /\ \/ Kind(cmd) = "ucinewgame" /\ position' = StartPosition
     \/ Kind(cmd) = "position" /\ set_position(Args(cmd)) /\ position' = Args(cmd)

SetsOption ==
  /\ Says1 /\ UNCHANGED position
  /\ Kind(cmd) = "setoption" /\ Settable(Args(cmd).name, Args(cmd).value)
  /\ options' = set(options, Args(cmd).name, Args(cmd).value)

Quits ==
  /\ pc = "act" /\ pc' = "exit" /\ (cmd = 0 \/ Kind(cmd) = "quit")
  /\ UNCHANGED <<started, typed, read, queue, cmd, active, position, options, asked, out>>

Change ==
  \/ Idles \/ Reads \/ Reports \/ Receives \/ ReceivesEnd
  \/ Starts \/ SaysOnly \/ SetsPosition \/ SetsOption \/ Quits

-----------------------------------------------------------------------------
\* What the engine adds to its own state no one else changes, and every step
\* of the application is one of these changes.
LEMMA Steps == ASSUME TypeInv, LoopInv, [Next]_vars PROVE Change
<1> USE DEF vars, engineVars, guiVars, readerVars, mainVars
<1>1. CASE UNCHANGED vars
  BY <1>1 DEF Change, Idles
<1>2. CASE Close
  BY <1>2 DEF Close, Change, Idles
<1>3. CASE Reader
  <2>1. CASE ReadCommand
    <3>1. read < Len(typed) /\ read' = read + 1 /\ IsCommand(read + 1)
      BY <2>1 DEF ReadCommand, Upcoming, IsCommand
    <3>2. (pc # "exit" /\ queue' = Append(queue, read + 1)) \/ (pc = "exit" /\ queue' = queue)
      BY <2>1 DEF ReadCommand
    <3> QED BY <2>1, <3>1, <3>2 DEF ReadCommand, Change, Reads
  <2>2. CASE ReadUnparsable
    <3>1. read < Len(typed) /\ read' = read + 1 /\ ~IsCommand(read + 1)
      BY <2>2 DEF ReadUnparsable, Upcoming, IsCommand
    <3> QED BY <2>2, <3>1 DEF ReadUnparsable, Change, Reads
  <2>3. CASE ReadBlank
    <3>1. read < Len(typed) /\ read' = read + 1 /\ ~IsCommand(read + 1)
      BY <2>3 DEF ReadBlank, Upcoming, IsCommand
    <3> QED BY <2>3, <3>1 DEF ReadBlank, Change, Reads
  <2>4. CASE ReadEnd
    BY <2>4 DEF ReadEnd, Change, Idles
  <2> QED BY <1>3, <2>1, <2>2, <2>3, <2>4 DEF Reader
<1>4. CASE EngineStep
  BY <1>4 DEF EngineStep, E!End, Change, Idles
<1>5. CASE PollActive \/ ReceiveTimeout \/ StopReturns
  <2>1. ASSUME NEW next, Answer(next), active # 0,
               (pc = "poll" /\ next = "recv") \/ (pc = "wait" /\ next = "act")
        PROVE  Reports
    <3> DEFINE line == asked[active].line
               mid == IF status[active] = "failed" THEN Append(out, Message("error", line)) ELSE out
    <3>1. out' = Append(mid, Message("bestmove", line))
      <4>1. CASE status[active] = "failed"
        BY <2>1, <4>1 DEF Answer, Report, TypeInv, Message, OutKinds
      <4>2. CASE status[active] # "failed"
        BY <2>1, <4>2 DEF Answer, Report, TypeInv, Message, OutKinds
      <4> QED BY <4>1, <4>2
    <3>2. mid \in {out, Append(out, Message("error", line))}
      OBVIOUS
    <3>3. started' = started
      BY <2>1 DEF Answer, E!Tell
    <3> HIDE DEF mid
    <3> QED BY <2>1, <3>1, <3>2, <3>3 DEF Answer, Reports
  <2>2. CASE PollActive
    BY <2>2, <2>1 DEF PollActive, Change, Idles
  <2>3. CASE ReceiveTimeout
    BY <2>3 DEF ReceiveTimeout, Change, Idles
  <2>4. CASE StopReturns
    BY <2>4, <2>1 DEF StopReturns, LoopInv, Change
  <2> QED BY <1>5, <2>2, <2>3, <2>4
<1>6. CASE ReceiveCommand \/ ReceiveDisconnected
  <2>1. ASSUME NEW n, NEW stopping \in BOOLEAN, Begin(n, stopping), pc = "recv"
        PROVE  Begins(stopping) /\ cmd' = n
    BY <2>1 DEF Begin, Begins, E!AskStop
  <2>2. CASE ReceiveCommand
    <3> DEFINE first == Head(queue)
               stops == Kind(Head(queue)) \in Stopping
    <3>0. stops \in BOOLEAN /\ Begin(first, stops) /\ pc = "recv"
      BY <2>2 DEF ReceiveCommand
    <3> HIDE DEF first, stops
    <3>1. Begins(stops) /\ cmd' = first
      BY <2>1, <3>0
    <3> USE DEF first, stops
    <3> QED BY <2>2, <3>1 DEF ReceiveCommand, Receives, Change
  <2>3. CASE ReceiveDisconnected
    BY <2>3, <2>1 DEF ReceiveDisconnected, ReceivesEnd, Change
  <2> QED BY <1>6, <2>2, <2>3
<1>7. CASE Act
  <2> USE DEF Done, Is, Prints, Executes, OutKinds
  <2>1. CASE ActGo
    BY <2>1 DEF ActGo, E!Start, Starts, Change, Overhead, Search
  <2>2. CASE ActGoRejected
    BY <2>2 DEF ActGoRejected, SaysOnly, Says1, Change
  <2>3. CASE ActPerft
    BY <2>3 DEF ActPerft, SaysOnly, Says1, Change
  <2>4. CASE ActPosition
    BY <2>4 DEF ActPosition, SaysOnly, SetsPosition, Says1, Change
  <2>5. CASE ActNewGame
    BY <2>5 DEF ActNewGame, SetsPosition, Says1, Change
  <2>6. CASE ActSetOption
    BY <2>6 DEF ActSetOption, SaysOnly, SetsOption, Says1, Change
  <2>7. CASE ActPonderHit
    BY <2>7 DEF ActPonderHit, E!PonderHit, SaysOnly, Says1, Change
  <2>8. CASE ActPrint
    BY <2>8 DEF ActPrint, Answers, SaysOnly, Says1, Change
  <2>9. CASE ActNothing
    BY <2>9 DEF ActNothing, SaysOnly, Says1, Change
  <2>10. CASE ActQuit
    BY <2>10 DEF ActQuit, Quits, Change
  <2> QED BY <1>7, <2>1, <2>2, <2>3, <2>4, <2>5, <2>6, <2>7, <2>8, <2>9, <2>10 DEF Act
<1> QED BY <1>1, <1>2, <1>3, <1>4, <1>5, <1>6, <1>7 DEF Next, MainLoop

-----------------------------------------------------------------------------
\* A line of the input is one of the lines; the parser's result has a name.
LEMMA InputLines == ASSUME NEW input \in Inputs PROVE input \in Seq(AllLines)
<1>1. PICK m \in 0..MaxLines : input \in [1..m -> AllLines]
  BY DEF Inputs, BoundedSeq, SeqOf
<1> QED BY <1>1

LEMMA ParsedNames == ASSUME NEW words \in AllLines, words # <<>> PROVE Parsed[words].name \in Names
<1>1. Parsed[words] = parse_command(words)
  BY DEF Parsed
<1>2. \A args : parse_debug(args).name \in {"debug", "error"}
  BY DEF parse_debug, Command, Failure
<1>3. \A args : parse_position(args).name \in {"position", "error"}
  BY DEF parse_position, Command, Failure
<1>4. \A args : parse_go(args).name \in {"go", "error"}
  BY DEF parse_go, Command, Failure
<1>5. \A args : parse_set_option(args).name \in {"setoption", "error"}
  BY DEF parse_set_option, Command, Failure
<1>6. \A args : parse_bench(args).name \in {"bench", "error"}
  BY DEF parse_bench, Command, Failure
<1>7. \A name, args : Command(name, args).name = name
  BY DEF Command
<1>8. Failure.name = "error"
  BY DEF Command, Failure
<1> DEFINE name == Lower(words[1])
<1>9. name \in Plain => parse_command(words) = Command(name, <<>>)
  BY DEF parse_command, Plain
<1>10. name \notin Plain => parse_command(words) \in
         {parse_debug(Tail(words)), parse_position(Tail(words)), parse_go(Tail(words)),
          parse_set_option(Tail(words)), parse_bench(Tail(words)), Failure}
  BY DEF parse_command
<1> QED BY <1>1, <1>2, <1>3, <1>4, <1>5, <1>6, <1>7, <1>8, <1>9, <1>10 DEF Names

\* A command that stops the active search is one that Stops names.
LEMMA StopsAreStopping ==
  ASSUME typed \in Seq(AllLines), NEW n \in 1..Len(typed)
  PROVE  Stops(n) <=> IsCommand(n) /\ Kind(n) \in Stopping
<1>1. CASE typed[n] = <<>>
  BY <1>1 DEF Stops, IsCommand, IsBlank
<1>2. CASE typed[n] # <<>>
  <2>1. Kind(n) \in Names
    BY <1>2, ParsedNames DEF Kind
  <2> QED BY <1>2, <2>1 DEF Stops, IsCommand, IsBlank, Names, Plain, Stopping
<1> QED BY <1>1, <1>2

-----------------------------------------------------------------------------
LEMMA DefaultOverhead ==
  /\ EngineOptions = [n \in DOMAIN EngineOptions |-> EngineOptions[n]]
  /\ Overhead \in DOMAIN EngineOptions /\ EngineOptions[Overhead] = 10
<1> DEFINE spin == CHOOSE s \in Spins : s.name = Overhead
<1>1. \E s \in Spins : s.name = Overhead
  BY DEF Spins, Overhead
<1>2. Overhead \notin Checks
  BY DEF Checks, Overhead
<1>3. \A s \in Spins : s.name = Overhead => s.default = 10
  BY DEF Spins, Overhead
<1>4. spin.default = 10
  BY <1>1, <1>3
<1> QED BY <1>1, <1>2, <1>4 DEF EngineOptions

LEMMA TypeInit == Init => TypeInv /\ LoopInv
<1> SUFFICES ASSUME Init PROVE TypeInv /\ LoopInv
  OBVIOUS
<1>1. typed \in Seq(AllLines)
  BY InputLines DEF Init
<1>2. started = 0
  BY DEF Init, E!Init
<1>3. \A s \in Search : asked[s] = NotAsked
  BY DEF Init
<1> QED BY <1>1, <1>2, <1>3, DefaultOverhead, BoundsAssumption
        DEF Init, TypeInv, LoopInv, NotAsked, OutKinds

LEMMA Printed ==
  ASSUME NEW o \in Seq(Messages), NEW kind \in OutKinds, NEW line \in Nat
  PROVE  Append(o, Message(kind, line)) \in Seq(Messages)
<1>1. Message(kind, line) \in Messages
  BY DEF Message, Messages
<1> QED BY <1>1

LEMMA TypeStep == ASSUME TypeInv, LoopInv, [Next]_vars PROVE TypeInv'
<1> USE DEF TypeInv, LoopInv, mainVars
<1>1. Change
  BY Steps
<1>2. CASE Idles
  BY <1>2 DEF Idles
<1> "error" \in OutKinds /\ "bestmove" \in OutKinds
  BY DEF OutKinds
<1>3. CASE Reads
  <2>1. read + 1 \in Nat /\ read + 1 \in 0..Len(typed)
    BY <1>3 DEF Reads
  <2>2. out' \in Seq(Messages)
    BY <1>3, <2>1, Printed DEF Reads
  <2>3. queue' \in Seq(Positive)
    <3>1. read + 1 \in Positive
      BY <1>3 DEF Reads, Positive
    <3>2. queue' = queue \/ queue' = Append(queue, read + 1)
      BY <1>3 DEF Reads
    <3>3. queue \in Seq(Positive)
      OBVIOUS
    <3> QED BY ONLY <3>1, <3>2, <3>3
  <2> QED BY <1>3, <2>1, <2>2, <2>3 DEF Reads
<1>4. CASE Reports
  <2>1. PICK mid : /\ mid \in {out, Append(out, Message("error", asked[active].line))}
                   /\ out' = Append(mid, Message("bestmove", asked[active].line))
    BY <1>4 DEF Reports
  <2>2. asked[active].line \in Nat
    BY <1>4, BoundsAssumption DEF Reports, Search, E!Search
  <2>3. out' \in Seq(Messages)
    <3>1. mid \in Seq(Messages)
      BY <2>1, <2>2, Printed
    <3> QED BY <2>1, <2>2, <3>1, Printed
  <2> QED BY <1>4, <2>3 DEF Reports
<1>5. CASE Receives
  <2>1. queue' \in Seq(Positive) /\ cmd' \in Nat
    BY <1>5 DEF Receives, Positive
  <2> QED BY <1>5, <2>1 DEF Receives, Begins
<1>10. CASE ReceivesEnd
  BY <1>10 DEF ReceivesEnd, Begins
<1>6. CASE Starts
  <2>1. asked' = [s \in Search |-> asked'[s]]
    BY <1>6 DEF Starts
  <2>2. \A s \in Search : asked'[s].line \in Nat
    BY <1>6 DEF Starts, Executes
  <2>3. started' \in 0..MaxSearches /\ active' \in {0, started'}
    BY <1>6, BoundsAssumption DEF Starts, Search, E!Search
  <2> QED BY <1>6, <2>1, <2>2, <2>3 DEF Starts, Executes
<1>7. CASE SaysOnly \/ SetsPosition \/ SetsOption
  <2>1. Says1
    BY <1>7 DEF SaysOnly, SetsPosition, SetsOption
  <2>2. out' \in Seq(Messages)
    BY <2>1, Printed DEF Says1
  <2>3. options' = [n \in DOMAIN options' |-> options'[n]] /\ Overhead \in DOMAIN options'
    BY <1>7 DEF SaysOnly, SetsPosition, SetsOption, set
  <2> QED BY <2>1, <2>2, <2>3 DEF Says1, Executes
<1>8. CASE Quits
  BY <1>8 DEF Quits
<1> QED BY <1>1, <1>2, <1>3, <1>4, <1>5, <1>6, <1>7, <1>8, <1>10 DEF Change

LEMMA LoopStep == ASSUME TypeInv, LoopInv, [Next]_vars PROVE LoopInv'
<1> USE DEF LoopInv, mainVars, Kind
<1>1. Change
  BY Steps
<1>2. CASE Idles
  BY <1>2 DEF Idles
<1>3. CASE Reads
  BY <1>3 DEF Reads
<1>4. CASE Reports
  BY <1>4 DEF Reports
<1>5. CASE Receives
  <2>1. typed' = typed /\ active' = active /\ cmd' = Head(queue)
    BY <1>5 DEF Receives, Begins
  <2>2. pc' \in {"wait", "act"} /\ (pc' = "wait" => active # 0)
    BY <1>5 DEF Receives, Begins
  <2>3. cmd' \in Nat /\ (pc' = "act" => active = 0 \/ Kind(Head(queue)) \notin Stopping)
    BY <1>5 DEF Receives, Begins, TypeInv, Positive
  <2>4. cmd' # 0
    BY <1>5 DEF Receives, TypeInv, Positive
  <2> QED BY <2>1, <2>2, <2>3, <2>4
<1>9. CASE ReceivesEnd
  BY <1>9 DEF ReceivesEnd, Begins
<1>6. CASE Starts
  BY <1>6 DEF Starts, Executes
<1>7. CASE SaysOnly \/ SetsPosition \/ SetsOption
  BY <1>7 DEF SaysOnly, SetsPosition, SetsOption, Says1, Executes
<1>8. CASE Quits
  BY <1>8 DEF Quits, Stopping
<1> QED BY <1>1, <1>2, <1>3, <1>4, <1>5, <1>6, <1>7, <1>8, <1>9 DEF Change

-----------------------------------------------------------------------------
\* The output only grows, and a new `readyok` answers the line being executed.
LEMMA OutputGrows ==
  ASSUME TypeInv, Change
  PROVE  /\ Len(out) \in Nat /\ Len(out') \in Nat /\ Len(out) <= Len(out')
         /\ \A k \in 1..Len(out) : out'[k] = out[k]
         /\ \A k \in (Len(out) + 1)..Len(out') : out'[k].kind = "readyok" =>
              Executes /\ UNCHANGED <<started, active, asked>> /\ out'[k].line = cmd
<1> USE DEF TypeInv
<1>1. ASSUME NEW o \in Seq(Messages), NEW m
      PROVE  /\ Len(Append(o, m)) = Len(o) + 1 /\ Append(o, m)[Len(o) + 1] = m
             /\ \A k \in 1..Len(o) : Append(o, m)[k] = o[k]
  OBVIOUS
<1>2. CASE out' = out
  BY <1>2
<1>3. CASE Reads
  <2>1. CASE out' = Append(out, Message("error", read + 1))
    BY <2>1, <1>1 DEF Message
  <2> QED BY <1>2, <1>3, <2>1 DEF Reads
<1>4. CASE Reports
  <2> DEFINE e == Message("error", asked[active].line)
             b == Message("bestmove", asked[active].line)
  <2>1. e.kind = "error" /\ b.kind = "bestmove"
    BY DEF Message
  <2>2. e \in Messages
    BY <1>4, BoundsAssumption DEF Reports, Messages, Message, OutKinds, Search, E!Search
  <2>3. PICK mid : mid \in {out, Append(out, e)} /\ out' = Append(mid, b)
    BY <1>4 DEF Reports
  <2> HIDE DEF e, b
  <2>4. mid \in Seq(Messages) /\ Len(out') = Len(mid) + 1 /\ out'[Len(mid) + 1] = b
    <3>0. out \in Seq(Messages)
      OBVIOUS
    <3>1. mid \in Seq(Messages)
      BY ONLY <2>2, <2>3, <3>0
    <3> QED BY ONLY <1>1, <2>3, <3>1
  <2>5. CASE mid = out
    BY <2>1, <2>3, <2>4, <2>5, <1>1
  <2>6. CASE mid = Append(out, e)
    BY <2>1, <2>3, <2>4, <2>6, <1>1
  <2> QED BY <2>3, <2>5, <2>6
<1>5. CASE SaysOnly \/ SetsPosition \/ SetsOption
  <2>1. Says1
    BY <1>5 DEF SaysOnly, SetsPosition, SetsOption
  <2>2. ASSUME NEW kind, out' = Append(out, Message(kind, cmd))
        PROVE  /\ Len(out') = Len(out) + 1 /\ out'[Len(out) + 1].line = cmd
               /\ \A k \in 1..Len(out) : out'[k] = out[k]
    BY <2>2, <1>1 DEF Message
  <2>3. CASE out' # out
    <3>1. PICK kind : out' = Append(out, Message(kind, cmd))
      BY <2>1, <2>3 DEF Says1
    <3>2. \A k \in (Len(out) + 1)..Len(out') : out'[k].line = cmd
      BY <2>2, <3>1
    <3> QED BY <2>1, <2>2, <3>1, <3>2 DEF Says1
  <2> QED BY <1>2, <2>3
<1>6. CASE Idles \/ Receives \/ ReceivesEnd \/ Starts \/ Quits
  BY <1>2, <1>6 DEF Idles, Receives, ReceivesEnd, Begins, Starts, Quits
<1> QED BY <1>3, <1>4, <1>5, <1>6 DEF Change

\* Executing a command, and leaving the loop.
LEMMA ExecutesOrQuits ==
  ASSUME Starts \/ SaysOnly \/ SetsPosition \/ SetsOption PROVE Executes
BY DEF Starts, SaysOnly, SetsPosition, SetsOption, Says1

-----------------------------------------------------------------------------
LEMMA QueueInit == Init => QueueInv
BY DEF Init, QueueInv, Live, Executing

LEMMA QueueStep == ASSUME TypeInv, LoopInv, QueueInv, [Next]_vars PROVE QueueInv'
<1> USE DEF Live, Executing
<1>1. Change
  BY Steps
<1>2. typed' = typed
  BY <1>1 DEF Change, Idles, Reads, Reports, Receives, ReceivesEnd, Begins, Starts, SaysOnly,
              SetsPosition, SetsOption, Says1, Executes, Quits
<1>3. \A n : IsCommand(n)' = IsCommand(n)
  BY <1>2 DEF IsCommand, IsBlank, Kind
<1>4. ASSUME UNCHANGED <<queue, read, cmd>>, Live' => Live, Executing' /\ Live' => Executing
      PROVE  QueueInv'
  BY <1>3, <1>4 DEF QueueInv
<1>5. CASE Idles
  BY <1>4, <1>5 DEF Idles
<1>6. CASE Reports
  BY <1>4, <1>6 DEF Reports
<1>7. CASE Starts \/ SaysOnly \/ SetsPosition \/ SetsOption
  BY <1>4, <1>7, ExecutesOrQuits DEF Executes
<1>8. CASE ReceivesEnd \/ Quits
  BY <1>8 DEF ReceivesEnd, Begins, Quits, QueueInv
<1>9. CASE Reads
  <2> SUFFICES ASSUME Live' PROVE QueueInv'
    BY DEF QueueInv
  <2>1. Live /\ cmd' = cmd /\ pc' = pc /\ read' = read + 1 /\ pc # "exit" /\ read \in Nat /\ cmd \in Nat
    BY <1>9 DEF Reads, mainVars, TypeInv
  <2>2. queue \in Seq(Positive)
    BY DEF TypeInv
  <2>3. CASE queue' = Append(queue, read + 1) /\ IsCommand(read + 1)
    <3>1. Len(queue') = Len(queue) + 1 /\ queue'[Len(queue) + 1] = read + 1 /\ Len(queue) \in Nat
      BY <2>2, <2>3
    <3>2. \A i \in 1..Len(queue) : queue'[i] = queue[i]
      BY <2>2, <2>3
    <3>3. \A i \in 1..Len(queue') : i \in 1..Len(queue) \/ i = Len(queue) + 1
      BY <3>1
    <3>4. \A i \in 1..Len(queue') : queue'[i] \in (cmd + 1)..read' /\ IsCommand(queue'[i])
      BY <2>1, <2>3, <3>1, <3>2, <3>3 DEF QueueInv
    <3>5. \A i, j \in 1..Len(queue') : i < j => queue'[i] < queue'[j]
      BY <2>1, <3>1, <3>2, <3>3 DEF QueueInv
    <3>6. ASSUME NEW n \in (cmd + 1)..read', IsCommand(n)
          PROVE  \E i \in 1..Len(queue') : queue'[i] = n
      BY <2>1, <3>1, <3>2, <3>6 DEF QueueInv
    <3> QED BY <1>3, <2>1, <3>4, <3>5, <3>6 DEF QueueInv
  <2>4. CASE queue' = queue /\ (IsCommand(read + 1) => pc = "exit")
    BY <1>3, <2>1, <2>4 DEF QueueInv
  <2> QED BY <1>9, <2>3, <2>4 DEF Reads
<1>10. CASE Receives
  <2>1. Live /\ queue \in Seq(Positive) /\ queue # <<>> /\ read' = read /\ read \in Nat /\ cmd \in Nat
    BY <1>10 DEF Receives, Begins, TypeInv
  <2>8. \A i \in 1..Len(queue) : queue[i] \in (cmd + 1)..read /\ IsCommand(queue[i])
    BY <2>1 DEF QueueInv
  <2>9. \A i, j \in 1..Len(queue) : i < j => queue[i] < queue[j]
    BY <2>1 DEF QueueInv
  <2>10. \A n \in (cmd + 1)..read : IsCommand(n) => \E i \in 1..Len(queue) : queue[i] = n
    BY <2>1 DEF QueueInv
  <2> HIDE DEF Live, Executing
  <2>2. cmd' = queue[1] /\ 1 \in 1..Len(queue) /\ Len(queue') = Len(queue) - 1 /\ Len(queue) \in Nat
    BY <1>10, <2>1 DEF Receives
  <2>3. \A i \in 1..Len(queue') : queue'[i] = queue[i + 1]
    BY <1>10, <2>1 DEF Receives
  <2>4. cmd' \in (cmd + 1)..read /\ IsCommand(cmd')
    BY <2>2, <2>8
  <2>5. ASSUME NEW i \in 1..Len(queue')
        PROVE  i + 1 \in 1..Len(queue) /\ queue'[i] \in (cmd' + 1)..read' /\ IsCommand(queue'[i])
    <3>1. i + 1 \in 1..Len(queue) /\ 1 < i + 1 /\ i + 1 \in Nat
      BY <2>2
    <3>2. queue[1] < queue[i + 1] /\ queue'[i] = queue[i + 1]
      BY <2>2, <2>3, <2>9, <3>1
    <3>3. queue[i + 1] \in (cmd + 1)..read /\ IsCommand(queue[i + 1])
      BY <2>8, <3>1
    <3> QED BY <2>1, <2>2, <2>4, <3>1, <3>2, <3>3
  <2>6. \A i, j \in 1..Len(queue') : i < j => queue'[i] < queue'[j]
    <3> SUFFICES ASSUME NEW i \in 1..Len(queue'), NEW j \in 1..Len(queue'), i < j
                 PROVE  queue'[i] < queue'[j]
      OBVIOUS
    <3>1. i + 1 \in 1..Len(queue) /\ j + 1 \in 1..Len(queue) /\ i + 1 < j + 1
      BY <2>2
    <3> QED BY <2>3, <2>9, <3>1
  <2>14. PICK first \in Int : first = cmd' /\ cmd + 1 <= first /\ first <= read
    BY <2>1, <2>4
  <2>7. ASSUME NEW n \in (first + 1)..read, IsCommand(n)
        PROVE  \E i \in 1..Len(queue') : queue'[i] = n
    <3>0. n \in (cmd + 1)..read
      <4>1. cmd \in Nat /\ read \in Nat /\ cmd + 1 <= first
        BY <2>1, <2>14
      <4> QED BY ONLY <4>1
    <3>1. PICK i \in 1..Len(queue) : queue[i] = n
      BY ONLY <2>7, <2>10, <3>0
    <3>2. i # 1
      BY <2>2, <2>14, <3>1
    <3>3. i - 1 \in 1..Len(queue') /\ queue'[i - 1] = queue[i]
      BY <2>2, <2>3, <3>2
    <3> QED BY <3>1, <3>3
  <2>11. \A i \in 1..Len(queue') : queue'[i] \in (cmd' + 1)..read' /\ IsCommand(queue'[i])
    BY <2>5
  <2>12. \A n \in (cmd' + 1)..read' : IsCommand(n) => \E i \in 1..Len(queue') : queue'[i] = n
    BY <2>1, <2>7, <2>14
  <2>13. cmd' <= read'
    BY <2>1, <2>4
  <2> QED BY <1>3, <2>4, <2>6, <2>11, <2>12, <2>13 DEF QueueInv
<1> QED BY <1>1, <1>5, <1>6, <1>7, <1>8, <1>9, <1>10 DEF Change

-----------------------------------------------------------------------------
(***************************************************************************)
(* Answers: the first n searches of a are answered in the output o, once    *)
(* each and in their order, and it answers no others.                       *)
(***************************************************************************)
AnsweredIn(o, n, a) ==
  \E at \in [1..n -> 1..Len(o)] :
    /\ \A s \in 1..n : o[at[s]] = Message("bestmove", a[s].line)
    /\ \A s, t \in 1..n : s < t => at[s] < at[t]
    /\ \A k \in 1..Len(o) : o[k].kind = "bestmove" => \E s \in 1..n : at[s] = k

AnswerInv == AnsweredIn(out, IF active = 0 THEN started ELSE started - 1, asked)

LEMMA OtherOutput ==
  ASSUME NEW o \in Seq(Messages), NEW n \in Nat, NEW a, AnsweredIn(o, n, a),
         NEW m, m.kind # "bestmove"
  PROVE  AnsweredIn(Append(o, m), n, a)
<1> DEFINE p == Append(o, m)
<1>1. PICK at \in [1..n -> 1..Len(o)] :
        /\ \A s \in 1..n : o[at[s]] = Message("bestmove", a[s].line)
        /\ \A s, t \in 1..n : s < t => at[s] < at[t]
        /\ \A k \in 1..Len(o) : o[k].kind = "bestmove" => \E s \in 1..n : at[s] = k
  BY DEF AnsweredIn
<1>2. Len(p) = Len(o) + 1 /\ p[Len(o) + 1] = m /\ Len(o) \in Nat
  OBVIOUS
<1>3. \A k \in 1..Len(o) : p[k] = o[k]
  OBVIOUS
<1> HIDE DEF p
<1>4. at \in [1..n -> 1..Len(p)]
  BY <1>2
<1>5. \A s \in 1..n : p[at[s]] = Message("bestmove", a[s].line)
  BY <1>1, <1>3
<1>6. \A k \in 1..Len(p) : p[k].kind = "bestmove" => \E s \in 1..n : at[s] = k
  <2> SUFFICES ASSUME NEW k \in 1..Len(p), p[k].kind = "bestmove" PROVE \E s \in 1..n : at[s] = k
    OBVIOUS
  <2>1. k \in 1..Len(o)
    BY <1>2
  <2> QED BY <1>1, <1>3, <2>1
<1>7. AnsweredIn(p, n, a)
  BY <1>1, <1>4, <1>5, <1>6 DEF AnsweredIn
<1> QED BY <1>7 DEF p

LEMMA NextAnswer ==
  ASSUME NEW o \in Seq(Messages), NEW n \in Nat, NEW a, AnsweredIn(o, n, a)
  PROVE  AnsweredIn(Append(o, Message("bestmove", a[n + 1].line)), n + 1, a)
<1> DEFINE m == Message("bestmove", a[n + 1].line)
           p == Append(o, m)
<1>1. PICK at \in [1..n -> 1..Len(o)] :
        /\ \A s \in 1..n : o[at[s]] = Message("bestmove", a[s].line)
        /\ \A s, t \in 1..n : s < t => at[s] < at[t]
        /\ \A k \in 1..Len(o) : o[k].kind = "bestmove" => \E s \in 1..n : at[s] = k
  BY DEF AnsweredIn
<1> HIDE DEF m
<1>2. Len(p) = Len(o) + 1 /\ p[Len(o) + 1] = m /\ Len(o) \in Nat
  OBVIOUS
<1>3. \A k \in 1..Len(o) : p[k] = o[k]
  OBVIOUS
<1> HIDE DEF p
<1> DEFINE next == [s \in 1..(n + 1) |-> IF s = n + 1 THEN Len(o) + 1 ELSE at[s]]
<1>4. next \in [1..(n + 1) -> 1..Len(p)]
  BY <1>2
<1>5. \A s \in 1..(n + 1) : s = n + 1 \/ s \in 1..n
  OBVIOUS
<1>6. next[n + 1] = Len(o) + 1 /\ n + 1 \in 1..(n + 1)
  OBVIOUS
<1>7. \A s \in 1..n : next[s] = at[s] /\ at[s] \in 1..Len(o)
  OBVIOUS
<1> HIDE DEF next
<1>8. \A s \in 1..(n + 1) : p[next[s]] = Message("bestmove", a[s].line)
  BY <1>1, <1>2, <1>3, <1>5, <1>6, <1>7 DEF m
<1>9. \A s, t \in 1..(n + 1) : s < t => next[s] < next[t]
  <2> SUFFICES ASSUME NEW s \in 1..(n + 1), NEW t \in 1..(n + 1), s < t PROVE next[s] < next[t]
    OBVIOUS
  <2>1. s \in 1..n
    OBVIOUS
  <2>2. CASE t = n + 1
    BY <1>2, <1>6, <1>7, <2>1, <2>2
  <2>3. CASE t \in 1..n
    BY <1>1, <1>7, <2>1, <2>3
  <2> QED BY <1>5, <2>2, <2>3
<1>10. \A k \in 1..Len(p) : p[k].kind = "bestmove" => \E s \in 1..(n + 1) : next[s] = k
  <2> SUFFICES ASSUME NEW k \in 1..Len(p), p[k].kind = "bestmove"
               PROVE \E s \in 1..(n + 1) : next[s] = k
    OBVIOUS
  <2>1. CASE k = Len(o) + 1
    BY <1>6, <2>1
  <2>2. CASE k \in 1..Len(o)
    <3>1. PICK s \in 1..n : at[s] = k
      BY <1>1, <1>3, <2>2
    <3> QED BY <1>7, <3>1
  <2> QED BY <1>2, <2>1, <2>2
<1>11. AnsweredIn(p, n + 1, a)
  BY <1>4, <1>8, <1>9, <1>10 DEF AnsweredIn
<1> QED BY <1>11 DEF p, m

LEMMA AnswerInit == Init => AnswerInv
<1> SUFFICES ASSUME Init PROVE AnswerInv
  OBVIOUS
<1>1. started = 0 /\ active = 0 /\ out = <<>>
  BY DEF Init, E!Init
<1> DEFINE at == [s \in {} |-> 1]
<1>2. at \in [1..0 -> 1..Len(out)]
  BY <1>1
<1> QED BY <1>1, <1>2 DEF AnswerInv, AnsweredIn

LEMMA AnswerStep == ASSUME TypeInv, LoopInv, AnswerInv, [Next]_vars PROVE AnswerInv'
<1>1. Change
  BY Steps
<1> DEFINE n == IF active = 0 THEN started ELSE started - 1
<1>2. n \in Nat /\ out \in Seq(Messages) /\ AnsweredIn(out, n, asked)
  BY DEF AnswerInv, TypeInv
<1>3. ASSUME UNCHANGED <<started, active, asked>>,
             out' = out \/ \E m : out' = Append(out, m) /\ m.kind # "bestmove"
      PROVE  AnswerInv'
  <2>1. AnsweredIn(out', n, asked)
    <3>1. CASE out' = out
      BY <1>2, <3>1
    <3>2. CASE \E m : out' = Append(out, m) /\ m.kind # "bestmove"
      BY <1>2, <3>2, OtherOutput
    <3> QED BY <1>3, <3>1, <3>2
  <2> QED BY <1>3, <2>1 DEF AnswerInv
<1>4. CASE Idles \/ Receives \/ ReceivesEnd \/ Quits
  BY <1>3, <1>4 DEF Idles, Receives, ReceivesEnd, Begins, Quits
<1>5. CASE Reads
  <2>1. Message("error", read + 1).kind # "bestmove"
    BY DEF Message
  <2> QED BY <1>3, <1>5, <2>1 DEF Reads, mainVars
<1>6. CASE SaysOnly \/ SetsPosition \/ SetsOption
  <2>1. Says1
    BY <1>6 DEF SaysOnly, SetsPosition, SetsOption
  <2>2. \A kind \in OutKinds \ {"bestmove"} : Message(kind, cmd).kind # "bestmove"
    BY DEF Message
  <2> QED BY <1>3, <2>1, <2>2 DEF Says1
<1>7. CASE Starts
  <2>1. active = 0
    BY <1>7 DEF Starts, Executes, LoopInv, Stopping
  <2>2. out' = out /\ active' # 0 /\ started' = started + 1 /\ started \in Nat
    BY <1>7, <2>1 DEF Starts, TypeInv
  <2>3. \A s \in 1..started : asked'[s] = asked[s]
    BY <1>7, <2>2, BoundsAssumption DEF Starts, TypeInv, Search, E!Search
  <2>4. AnsweredIn(out, started, asked)
    BY <1>2, <2>1
  <2>5. AnsweredIn(out', started, asked')
    BY <2>2, <2>3, <2>4 DEF AnsweredIn
  <2> QED BY <2>2, <2>5 DEF AnswerInv
<1>8. CASE Reports
  <2>1. active = started /\ started \in Nat \ {0} /\ n = started - 1 /\ n + 1 = started
    BY <1>8 DEF Reports, TypeInv
  <2> DEFINE e == Message("error", asked[active].line)
  <2>2. PICK mid : mid \in {out, Append(out, e)}
                   /\ out' = Append(mid, Message("bestmove", asked[active].line))
    BY <1>8 DEF Reports
  <2>3. e \in Messages /\ e.kind # "bestmove"
    BY <2>1, BoundsAssumption DEF TypeInv, Messages, Message, OutKinds, Search, E!Search
  <2> HIDE DEF e, n
  <2>4. mid \in Seq(Messages)
    BY ONLY <1>2, <2>2, <2>3
  <2>5. AnsweredIn(mid, n, asked)
    <3>1. CASE mid = out
      BY <1>2, <3>1
    <3>2. CASE mid = Append(out, e)
      BY <1>2, <2>3, <3>2, OtherOutput
    <3> QED BY <2>2, <3>1, <3>2
  <2>6. AnsweredIn(Append(mid, Message("bestmove", asked[n + 1].line)), n + 1, asked)
    BY <1>2, <2>4, <2>5, NextAnswer
  <2>7. AnsweredIn(out', started, asked)
    BY <2>1, <2>2, <2>6
  <2> QED BY <1>8, <2>7 DEF Reports, AnswerInv
<1> QED BY <1>1, <1>4, <1>5, <1>6, <1>7, <1>8 DEF Change

-----------------------------------------------------------------------------
(***************************************************************************)
(* Stops.                                                                   *)
(***************************************************************************)
\* While a search is held, no line that was taken since its `go` stops it,
\* but for the one that the loop now waits for; a `readyok` answers a line
\* that was taken.
StopInv ==
  Live =>
    /\ \A k \in 1..Len(out) : out[k].kind = "readyok" => out[k].line <= cmd
    /\ active # 0 => \A n \in (asked[active].line + 1)..cmd : Stops(n) => n = cmd /\ pc = "wait"

LEMMA StopInit == Init => StopInv
BY DEF Init, StopInv

\* Between the line taken last and the one at the head of the channel there
\* is no command.
LEMMA NothingSkipped ==
  ASSUME TypeInv, QueueInv, Receives
  PROVE  /\ cmd' \in Nat /\ cmd < cmd' /\ cmd' <= read
         /\ \A n \in (cmd + 1)..(cmd' - 1) : ~IsCommand(n)
<1>1. /\ Live /\ queue \in Seq(Positive) /\ cmd' = queue[1] /\ 1 \in 1..Len(queue)
      /\ cmd \in Nat /\ read \in Nat /\ Len(queue) \in Nat
  BY DEF Receives, Begins, TypeInv, Live
<1>2. \A i \in 1..Len(queue) : queue[i] \in (cmd + 1)..read
  BY <1>1 DEF QueueInv
<1>3. \A i, j \in 1..Len(queue) : i < j => queue[i] < queue[j]
  BY <1>1 DEF QueueInv
<1>4. \A n \in (cmd + 1)..read : IsCommand(n) => \E i \in 1..Len(queue) : queue[i] = n
  BY <1>1 DEF QueueInv
<1>5. PICK first \in Nat : first = cmd' /\ first = queue[1] /\ cmd < first /\ first <= read
  BY <1>1, <1>2
<1>6. ASSUME NEW n \in (cmd + 1)..(first - 1), IsCommand(n) PROVE FALSE
  <2>1. n \in (cmd + 1)..read
    <3>1. cmd \in Nat /\ read \in Nat /\ first \in Nat /\ first <= read
      BY <1>1, <1>5
    <3> QED BY ONLY <3>1
  <2>2. PICK i \in 1..Len(queue) : queue[i] = n
    BY <1>4, <1>6, <2>1
  <2>3. i = 1 \/ queue[1] < queue[i]
    BY <1>1, <1>3
  <2> QED BY <1>1, <1>5, <2>2, <2>3
<1> QED BY <1>5, <1>6

LEMMA StopStep == ASSUME TypeInv, LoopInv, QueueInv, StopInv, [Next]_vars PROVE StopInv'
<1>1. Change
  BY Steps
<1> SUFFICES ASSUME Live' PROVE StopInv'
  BY DEF StopInv
<1>2. typed' = typed
  BY <1>1 DEF Change, Idles, Reads, Reports, Receives, ReceivesEnd, Begins, Starts, SaysOnly,
              SetsPosition, SetsOption, Says1, Executes, Quits, mainVars
<1>3. \A n : Stops(n)' = Stops(n)
  BY <1>2 DEF Stops, IsBlank, Kind
<1> DEFINE Lines1 == \A k \in 1..Len(out') : out'[k].kind = "readyok" => out'[k].line <= cmd'
           Held == \A n \in (asked'[active'].line + 1)..cmd' :
                     Stops(n) => n = cmd' /\ pc' = "wait"
<1>4. ASSUME Lines1, active' # 0 => Held PROVE StopInv'
  BY <1>3, <1>4 DEF StopInv
<1>5. cmd \in Nat /\ read \in Nat
  BY DEF TypeInv
<1>6. ASSUME Live, cmd' \in Nat, cmd <= cmd' PROVE Lines1
  <2> SUFFICES ASSUME NEW k \in 1..Len(out'), out'[k].kind = "readyok" PROVE out'[k].line <= cmd'
    OBVIOUS
  <2>1. CASE k \in 1..Len(out)
    <3>1. out'[k] = out[k] /\ out[k].line <= cmd
      BY <1>1, <1>6, <2>1, OutputGrows DEF StopInv
    <3>2. out[k].line \in Nat
      <4>1. out \in Seq(Messages)
        BY DEF TypeInv
      <4>2. out[k] \in Messages
        BY ONLY <2>1, <4>1
      <4> QED BY ONLY <4>2 DEF Messages
    <3> QED BY <1>5, <1>6, <3>1, <3>2
  <2>2. CASE k \in (Len(out) + 1)..Len(out')
    BY <1>1, <1>5, <1>6, <2>2, OutputGrows
  <2> QED BY <1>1, <2>1, <2>2, OutputGrows
<1>7. ASSUME Live, UNCHANGED <<cmd, active, asked>>, pc' = "wait" <=> pc = "wait"
      PROVE  StopInv'
  <2>1. Lines1
    BY <1>5, <1>6, <1>7
  <2>2. active' # 0 => Held
    BY <1>7 DEF StopInv
  <2> QED BY <1>4, <2>1, <2>2
<1>8. CASE Idles
  BY <1>7, <1>8 DEF Idles, Live
<1>9. CASE Reads
  BY <1>7, <1>9 DEF Reads, mainVars, Live
<1>10. CASE SaysOnly \/ SetsPosition \/ SetsOption
  BY <1>7, <1>10 DEF SaysOnly, SetsPosition, SetsOption, Says1, Executes, Live
<1>11. CASE Reports
  <2>1. Live /\ cmd' = cmd /\ active' = 0
    BY <1>11 DEF Reports, Live
  <2> QED BY <1>4, <1>5, <1>6, <2>1
<1>12. CASE Starts
  <2>1. Live /\ cmd' = cmd
    BY <1>12 DEF Starts, Executes, Live
  <2>2. asked'[active'].line = cmd
    BY <1>12 DEF Starts, TypeInv
  <2>3. Held
    BY <1>5, <2>1, <2>2
  <2> QED BY <1>4, <1>5, <1>6, <2>1, <2>3
<1>13. CASE Receives
  <2>1. PICK first \in Nat : first = cmd' /\ cmd < first /\ first <= read
                            /\ \A n \in (cmd + 1)..(first - 1) : ~IsCommand(n)
    BY <1>13, NothingSkipped
  <2>2. Live /\ pc = "recv" /\ active' = active /\ asked' = asked
    BY <1>13 DEF Receives, Begins, Live
  <2>3. active # 0 => pc' = "wait" \/ Kind(first) \notin Stopping
    BY <1>13, <2>1 DEF Receives, Begins
  <2>4. ASSUME active # 0 PROVE Held
    <3>1. asked[active].line \in Nat
      BY <2>4, BoundsAssumption DEF TypeInv, Search, E!Search
    <3>2. ASSUME NEW n \in (asked[active].line + 1)..first, Stops(n)
          PROVE  n = first /\ pc' = "wait"
      <4>1. n \notin (asked[active].line + 1)..cmd
        BY <2>2, <2>4, <3>2 DEF StopInv
      <4>2. n \in (cmd + 1)..first /\ n \in 1..first
        BY ONLY <1>5, <2>1, <3>1, <3>2, <4>1
      <4>3. n \in 1..Len(typed) /\ typed \in Seq(AllLines)
        BY <2>1, <4>2 DEF TypeInv
      <4>4. IsCommand(n) /\ Kind(n) \in Stopping
        BY <3>2, <4>3, StopsAreStopping
      <4>5. n = first
        <5>1. n \notin (cmd + 1)..(first - 1)
          BY ONLY <2>1, <4>4
        <5>2. n \in Nat /\ first \in Nat /\ cmd + 1 <= n /\ n <= first
          BY <1>5, <4>2
        <5> QED BY ONLY <1>5, <5>1, <5>2
      <4> QED BY <2>3, <2>4, <4>4, <4>5
    <3> QED BY <2>1, <2>2, <3>2
  <2> QED BY <1>4, <1>5, <1>6, <2>1, <2>2, <2>4
<1>14. CASE ReceivesEnd \/ Quits
  BY <1>14 DEF ReceivesEnd, Begins, Quits, Live
<1> QED BY <1>1, <1>8, <1>9, <1>10, <1>11, <1>12, <1>13, <1>14 DEF Change

\* The answer of a search that is over stands in the output.
LEMMA AnswerStands ==
  ASSUME TypeInv, AnswerInv, NEW s \in 1..started, s # active
  PROVE  \E b \in 1..Len(out) : out[b] = Message("bestmove", asked[s].line)
<1> DEFINE n == IF active = 0 THEN started ELSE started - 1
<1>1. s \in 1..n
  BY DEF TypeInv
<1> HIDE DEF n
<1>2. AnsweredIn(out, n, asked)
  BY DEF AnswerInv, n
<1> QED BY <1>1, <1>2 DEF AnsweredIn

LEMMA ReadyInit == Init => ReadyAfterBestmove
BY DEF Init, ReadyAfterBestmove

LEMMA ReadyStep ==
  ASSUME TypeInv, LoopInv, QueueInv, AnswerInv, StopInv, ReadyAfterBestmove, [Next]_vars
  PROVE  ReadyAfterBestmove'
<1>1. Change
  BY Steps
<1>2. typed' = typed
  BY <1>1 DEF Change, Idles, Reads, Reports, Receives, ReceivesEnd, Begins, Starts, SaysOnly,
              SetsPosition, SetsOption, Says1, Executes, Quits, mainVars
<1>3. \A n : Stops(n)' = Stops(n)
  BY <1>2 DEF Stops, IsBlank, Kind
<1>4. started \in Nat /\ cmd \in Nat /\ Len(out) \in Nat /\ active \in {0, started}
  BY DEF TypeInv
<1>5. /\ Len(out') \in Nat /\ Len(out) <= Len(out')
      /\ \A k \in 1..Len(out) : out'[k] = out[k]
      /\ \A k \in (Len(out) + 1)..Len(out') : out'[k].kind = "readyok" =>
           Executes /\ UNCHANGED <<started, active, asked>> /\ out'[k].line = cmd
  BY <1>1, OutputGrows
\* Only a start changes what was asked, and it asks nothing of earlier lines.
<1>6. \/ UNCHANGED <<started, asked>>
      \/ /\ Starts /\ started' = started + 1 /\ asked'[started + 1].line = cmd /\ out' = out
         /\ \A s \in 1..started : asked'[s] = asked[s]
  <2>1. CASE Starts
    BY <2>1, BoundsAssumption DEF Starts, TypeInv, Search, E!Search
  <2>2. CASE ~Starts
    BY <1>1, <2>2 DEF Change, Idles, Reads, Reports, Receives, ReceivesEnd, Begins, SaysOnly,
              SetsPosition, SetsOption, Says1, Executes, Quits, mainVars
  <2> QED BY <2>1, <2>2
<1> SUFFICES ASSUME NEW k \in 1..Len(out'), out'[k].kind = "readyok",
                    NEW s \in 1..started',
                    NEW n \in (asked'[s].line + 1)..(out'[k].line - 1), Stops(n)
             PROVE  \E b \in 1..(k - 1) : out'[b] = Message("bestmove", asked'[s].line)
  BY <1>3 DEF ReadyAfterBestmove
<1>7. CASE k \in 1..Len(out) /\ s \in 1..started
  <2>1. asked'[s] = asked[s]
    BY <1>6, <1>7
  <2>2. PICK b \in 1..(k - 1) : out[b] = Message("bestmove", asked[s].line)
    BY <1>5, <1>7, <2>1 DEF ReadyAfterBestmove
  <2>3. b \in 1..Len(out)
    BY <1>4, <1>7
  <2> QED BY <1>5, <2>1, <2>2, <2>3
<1>8. CASE k \in 1..Len(out) /\ s \notin 1..started
  <2>1. Starts /\ asked'[s].line = cmd
    BY <1>4, <1>6, <1>8
  <2>2. Live /\ out'[k].line = out[k].line /\ out[k].line <= cmd
    BY <1>5, <1>8, <2>1 DEF StopInv, Live, Starts, Executes
  <2>3. out[k].line \in Nat
    <3>1. out \in Seq(Messages)
      BY DEF TypeInv
    <3>2. out[k] \in Messages
      BY ONLY <1>8, <3>1
    <3> QED BY ONLY <3>2 DEF Messages
  <2> QED BY <1>4, <2>1, <2>2, <2>3
<1>9. CASE k \in (Len(out) + 1)..Len(out')
  <2>1. Executes /\ UNCHANGED <<started, active, asked>> /\ out'[k].line = cmd
    BY <1>5, <1>9
  <2>2. s # active
    <3> SUFFICES ASSUME s = active PROVE FALSE
      OBVIOUS
    <3>1. Live /\ active # 0 /\ pc # "wait"
      BY <2>1 DEF Live, Executes
    <3>2. n \in (asked[active].line + 1)..(cmd - 1)
      BY <2>1
    <3>3. n \in (asked[active].line + 1)..cmd
      <4>1. asked[active].line \in Nat
        BY <3>1, BoundsAssumption DEF TypeInv, Search, E!Search
      <4> QED BY ONLY <1>4, <3>2, <4>1
    <3> QED BY <3>1, <3>3 DEF StopInv
  <2>3. PICK b \in 1..Len(out) : out[b] = Message("bestmove", asked[s].line)
    BY <2>1, <2>2, AnswerStands
  <2>4. b \in 1..(k - 1)
    BY <1>4, <1>5, <1>9
  <2> QED BY <1>5, <2>1, <2>3, <2>4
<1> QED BY <1>4, <1>5, <1>7, <1>8, <1>9

-----------------------------------------------------------------------------
(***************************************************************************)
(* What a search gets.                                                      *)
(***************************************************************************)
\* The first line that has not been executed.
NextLine == IF Executing THEN cmd ELSE cmd + 1

\* The position and the overhead are what the lines executed make them.
TextAt(n, p, v) == PositionBefore(n, p) /\ v \in Overheads /\ OverheadBefore(n, v)
TextInv ==
  Live => \A n, p, v : n = NextLine /\ p = position /\ v = options[Overhead] => TextAt(n, p, v)

\* Lines that do not replace the position, and lines that do not set the
\* overhead, leave it.
LEMMA PositionKept ==
  ASSUME NEW n \in Nat, NEW k \in Nat, n <= k, \A m \in n..(k - 1) : ~Replaces(m)
  PROVE  \A p : PositionBefore(n, p) => PositionBefore(k, p)
<1> TAKE p
<1> HAVE PositionBefore(n, p)
<1>1. CASE p = StartPosition /\ \A m \in 1..(n - 1) : ~Replaces(m)
  <2>1. \A m \in 1..(k - 1) : m \in 1..(n - 1) \/ m \in n..(k - 1)
    OBVIOUS
  <2> QED BY <1>1, <2>1 DEF PositionBefore
<1>2. CASE \E m \in 1..(n - 1) :
             Replaces(m) /\ p = Replacement(m) /\ \A j \in (m + 1)..(n - 1) : ~Replaces(j)
  <2>1. PICK m \in 1..(n - 1) :
          Replaces(m) /\ p = Replacement(m) /\ \A j \in (m + 1)..(n - 1) : ~Replaces(j)
    BY <1>2
  <2>2. \A j \in (m + 1)..(k - 1) : j \in (m + 1)..(n - 1) \/ j \in n..(k - 1)
    OBVIOUS
  <2>3. m \in 1..(k - 1)
    OBVIOUS
  <2> QED BY <2>1, <2>2, <2>3 DEF PositionBefore
<1> QED BY <1>1, <1>2 DEF PositionBefore

LEMMA OverheadKept ==
  ASSUME NEW n \in Nat, NEW k \in Nat, n <= k, \A m \in n..(k - 1) : ~SetsOverhead(m)
  PROVE  \A v : OverheadBefore(n, v) => OverheadBefore(k, v)
<1> TAKE v
<1> HAVE OverheadBefore(n, v)
<1>1. CASE v = 10 /\ \A m \in 1..(n - 1) : ~SetsOverhead(m)
  <2>1. \A m \in 1..(k - 1) : m \in 1..(n - 1) \/ m \in n..(k - 1)
    OBVIOUS
  <2> QED BY <1>1, <2>1 DEF OverheadBefore
<1>2. CASE \E m \in 1..(n - 1) :
             /\ SetsOverhead(m) /\ v = Numeral[Args(m).value[1]]
             /\ \A j \in (m + 1)..(n - 1) : ~SetsOverhead(j)
  <2>1. PICK m \in 1..(n - 1) :
          /\ SetsOverhead(m) /\ v = Numeral[Args(m).value[1]]
          /\ \A j \in (m + 1)..(n - 1) : ~SetsOverhead(j)
    BY <1>2
  <2>2. \A j \in (m + 1)..(k - 1) : j \in (m + 1)..(n - 1) \/ j \in n..(k - 1)
    OBVIOUS
  <2>3. m \in 1..(k - 1)
    OBVIOUS
  <2> QED BY <2>1, <2>2, <2>3 DEF OverheadBefore
<1> QED BY <1>1, <1>2 DEF OverheadBefore

LEMMA PositionSetBy ==
  ASSUME NEW n \in Nat \ {0}, Replaces(n) PROVE PositionBefore(n + 1, Replacement(n))
<1>1. n \in 1..((n + 1) - 1) /\ \A k \in (n + 1)..((n + 1) - 1) : ~Replaces(k)
  OBVIOUS
<1> QED BY <1>1 DEF PositionBefore

LEMMA OverheadSetBy ==
  ASSUME NEW n \in Nat \ {0}, SetsOverhead(n)
  PROVE  OverheadBefore(n + 1, Numeral[Args(n).value[1]])
<1>1. n \in 1..((n + 1) - 1) /\ \A k \in (n + 1)..((n + 1) - 1) : ~SetsOverhead(k)
  OBVIOUS
<1> QED BY <1>1 DEF OverheadBefore

\* What a command that succeeds in setting the overhead leaves.
LEMMA OverheadSet ==
  ASSUME TypeInv
  PROVE  \A name, value : Settable(name, value) =>
           set(options, name, value)[Overhead]
             = IF LowerAll(name) = Overhead THEN Numeral[value[1]] ELSE options[Overhead]
BY DEF TypeInv, set, Overhead, Checks

LEMMA OverheadInRange ==
  \A name, value : Settable(name, value) /\ LowerAll(name) = Overhead =>
    Numeral[value[1]] \in Overheads
<1> TAKE name, value
<1> HAVE Settable(name, value) /\ LowerAll(name) = Overhead
<1>1. Overhead \notin Checks
  BY DEF Overhead, Checks
<1>2. PICK s \in Spins : s.name = Overhead /\ parse_spin(value, s)
  BY <1>1 DEF Settable
<1>3. s.min = 0 /\ s.max = 5000
  BY <1>2 DEF Spins, Overhead
<1> QED BY <1>2, <1>3 DEF parse_spin, Overheads

LEMMA TextInit == Init => TextInv
<1> SUFFICES ASSUME Init PROVE TextInv
  OBVIOUS
<1>1. position = StartPosition /\ options[Overhead] = 10 /\ NextLine = 1
  BY DefaultOverhead DEF Init, NextLine, Executing
<1>2. TextAt(1, StartPosition, 10)
  BY DEF TextAt, PositionBefore, OverheadBefore, Overheads
<1> QED BY <1>1, <1>2 DEF TextInv

LEMMA TextStep == ASSUME TypeInv, LoopInv, QueueInv, TextInv, [Next]_vars PROVE TextInv'
<1>1. Change
  BY Steps
<1>2. typed' = typed
  BY <1>1 DEF Change, Idles, Reads, Reports, Receives, ReceivesEnd, Begins, Starts, SaysOnly,
              SetsPosition, SetsOption, Says1, Executes, Quits, mainVars
<1>3. \A n, p, v : TextAt(n, p, v)' <=> TextAt(n, p, v)
  BY <1>2 DEF TextAt, PositionBefore, Replaces, Replacement, OverheadBefore, SetsOverhead,
              IsBlank, Kind, Args
<1>4. PICK n0, p0, v0 : n0 = NextLine /\ p0 = position /\ v0 = options[Overhead]
  OBVIOUS
<1>5. Live => TextAt(n0, p0, v0)
  BY <1>4 DEF TextInv
<1>6. cmd \in Nat
  BY DEF TypeInv
<1> SUFFICES ASSUME Live', NEW n1, NEW p1, NEW v1,
                    n1 = NextLine', p1 = position', v1 = options'[Overhead]
             PROVE  TextAt(n1, p1, v1)
  BY <1>3 DEF TextInv
<1>7. ASSUME UNCHANGED <<position, options>>, NextLine' = NextLine, Live
      PROVE  TextAt(n1, p1, v1)
  BY <1>4, <1>5, <1>7
<1>8. CASE Idles
  BY <1>7, <1>8 DEF Idles, Live, NextLine, Executing
<1>9. CASE Reads
  BY <1>7, <1>9 DEF Reads, mainVars, Live, NextLine, Executing
<1>10. CASE Reports
  BY <1>7, <1>10 DEF Reports, Live, NextLine, Executing
<1>11. CASE Receives
  <2>1. PICK first \in Nat : first = cmd' /\ cmd < first /\ first <= read
                            /\ \A n \in (cmd + 1)..(first - 1) : ~IsCommand(n)
    BY <1>11, NothingSkipped
  <2>2. Live /\ NextLine = cmd + 1 /\ NextLine' = cmd' /\ UNCHANGED <<position, options>>
    BY <1>11 DEF Receives, Begins, Live, NextLine, Executing
  <2>3. \A n : ~IsCommand(n) => ~Replaces(n) /\ ~SetsOverhead(n)
    BY DEF IsCommand, Replaces, SetsOverhead
  <2>4. n0 = cmd + 1 /\ n1 = first /\ p1 = p0 /\ v1 = v0
    BY <1>4, <2>1, <2>2
  <2>5. \A n \in n0..(n1 - 1) : ~Replaces(n) /\ ~SetsOverhead(n)
    BY <2>1, <2>3, <2>4
  <2>6. n0 \in Nat /\ n1 \in Nat /\ n0 <= n1
    BY <1>6, <2>1, <2>4
  <2>7. TextAt(n0, p0, v0)
    BY <1>5, <2>2
  <2>8. PositionBefore(n1, p0)
    BY <2>5, <2>6, <2>7, PositionKept DEF TextAt
  <2>9. OverheadBefore(n1, v0)
    BY <2>5, <2>6, <2>7, OverheadKept DEF TextAt
  <2> QED BY <2>4, <2>7, <2>8, <2>9 DEF TextAt
<1>12. CASE Starts \/ SaysOnly \/ SetsPosition \/ SetsOption
  <2>1. Live /\ NextLine = cmd /\ NextLine' = cmd + 1 /\ cmd # 0
    BY <1>12, ExecutesOrQuits DEF Executes, Live, NextLine, Executing
  <2>2. IsCommand(cmd)
    BY <1>12, <2>1, ExecutesOrQuits DEF Executes, Executing, QueueInv
  <2>3. n0 = cmd /\ n1 = n0 + 1 /\ n0 \in Nat \ {0} /\ n0 \in Nat /\ n1 \in Nat /\ n0 <= n1
    BY <1>4, <1>6, <2>1
  <2>4. TextAt(n0, p0, v0) /\ \A m \in n0..(n1 - 1) : m = n0
    BY <1>5, <2>1, <2>3
  <2>5. PositionBefore(n1, p1)
    <3>1. CASE Replaces(n0)
      <4>1. p1 = Replacement(n0)
        BY <1>12, <2>3, <3>1 DEF Replaces, Replacement, Starts, SaysOnly, SetsPosition, SetsOption
      <4> QED BY <2>3, <3>1, <4>1, PositionSetBy
    <3>2. CASE ~Replaces(n0)
      <4>1. p1 = p0
        BY <1>4, <1>12, <2>2, <2>3, <3>2
           DEF Replaces, IsCommand, Starts, SaysOnly, SetsPosition, SetsOption
      <4>2. PositionBefore(n1, p0)
        BY <2>3, <2>4, <3>2, PositionKept DEF TextAt
      <4> QED BY <4>1, <4>2
    <3> QED BY <3>1, <3>2
  <2>6. v1 \in Overheads /\ OverheadBefore(n1, v1)
    <3> DEFINE name == Args(cmd).name
               value == Args(cmd).value
    <3>1. CASE SetsOption
      <4>1. Settable(name, value) /\ options' = set(options, name, value)
        BY <3>1 DEF SetsOption
      <4>2. SetsOverhead(n0) <=> LowerAll(name) = Overhead
        BY <2>2, <2>3, <3>1 DEF SetsOption, SetsOverhead, Overhead, IsCommand
      <4> HIDE DEF name, value
      <4>3. v1 = IF LowerAll(name) = Overhead THEN Numeral[value[1]] ELSE v0
        BY <1>4, <4>1, OverheadSet
      <4>4. CASE SetsOverhead(n0)
        <5>1. v1 = Numeral[value[1]] /\ v1 \in Overheads
          BY <4>1, <4>2, <4>3, <4>4, OverheadInRange
        <5>2. v1 = Numeral[Args(n0).value[1]]
          BY <2>3, <5>1 DEF value
        <5>3. OverheadBefore(n0 + 1, Numeral[Args(n0).value[1]])
          BY <2>3, <4>4, OverheadSetBy
        <5> QED BY <2>3, <5>1, <5>2, <5>3
      <4>5. CASE ~SetsOverhead(n0)
        <5>1. OverheadBefore(n1, v0)
          BY <2>3, <2>4, <4>5, OverheadKept DEF TextAt
        <5> QED BY <2>4, <4>2, <4>3, <4>5, <5>1 DEF TextAt
      <4> QED BY <4>4, <4>5
    <3>2. CASE ~SetsOption
      <4>1. v1 = v0
        BY <1>4, <1>12, <3>2 DEF Starts, SaysOnly, SetsPosition
      <4>2. ~SetsOverhead(n0)
        BY <1>12, <2>3, <3>2 DEF SetsOverhead, Starts, SaysOnly, SetsPosition
      <4>3. OverheadBefore(n1, v0)
        BY <2>3, <2>4, <4>2, OverheadKept DEF TextAt
      <4> QED BY <2>4, <4>1, <4>3 DEF TextAt
    <3> QED BY <3>1, <3>2
  <2> QED BY <2>5, <2>6 DEF TextAt
<1>13. CASE ReceivesEnd \/ Quits
  BY <1>13 DEF ReceivesEnd, Begins, Quits, Live
<1> QED BY <1>1, <1>8, <1>9, <1>10, <1>11, <1>12, <1>13 DEF Change

\* SearchesAsParsed, of values.
AskedInv ==
  \A s, n, p, l : s \in 1..started /\ n = asked[s].line /\ p = asked[s].position /\ l = asked[s].limits
    => AsParsed(n, p, l)

LEMMA AskedMeans == AskedInv <=> SearchesAsParsed
BY DEF AskedInv, SearchesAsParsed

LEMMA AskedInit == Init => AskedInv
BY DEF Init, E!Init, AskedInv

LEMMA AskedStep ==
  ASSUME TypeInv, LoopInv, QueueInv, TextInv, AskedInv, [Next]_vars PROVE AskedInv'
<1>1. Change
  BY Steps
<1>2. typed' = typed
  BY <1>1 DEF Change, Idles, Reads, Reports, Receives, ReceivesEnd, Begins, Starts, SaysOnly,
              SetsPosition, SetsOption, Says1, Executes, Quits, mainVars
<1>3. \A n, p, l : AsParsed(n, p, l)' <=> AsParsed(n, p, l)
  BY <1>2 DEF AsParsed, AsksPerft, PositionBefore, Replaces, Replacement, OverheadBefore,
              SetsOverhead, IsBlank, Kind, Args
<1> SUFFICES ASSUME NEW s, NEW n, NEW p, NEW l, s \in 1..started',
                    n = asked'[s].line, p = asked'[s].position, l = asked'[s].limits
             PROVE  AsParsed(n, p, l)
  BY <1>3 DEF AskedInv
<1>4. CASE Starts /\ s = started + 1
  <2>1. PICK v : v = options[Overhead]
    OBVIOUS
  <2>2. Live /\ Executing /\ NextLine = cmd
    BY <1>4 DEF Starts, Executes, Live, Executing, NextLine
  <2>3. n = cmd /\ p = position /\ l = convert_limits(Args(n), v)
    BY <1>4, <2>1 DEF Starts, TypeInv, Search, E!Search
  <2>4. PositionBefore(n, p) /\ v \in Overheads /\ OverheadBefore(n, v)
    BY <2>1, <2>2, <2>3 DEF TextInv, TextAt
  <2>5. IsCommand(n) /\ cmd <= read
    BY <2>2, <2>3 DEF QueueInv
  <2>6. n \in 1..Len(typed)
    BY <1>4, <2>3, <2>5 DEF TypeInv, Starts, Executes
  <2>7. Kind(n) = "go" /\ ~AsksPerft(n) /\ Accepts(Args(n), p)
    BY <1>4, <2>3 DEF Starts
  <2>8. ~IsBlank(typed[n])
    BY <2>5 DEF IsCommand
  <2>9. \E w \in Overheads : l = convert_limits(Args(n), w) /\ OverheadBefore(n, w)
    BY <2>3, <2>4
  <2> QED BY <2>4, <2>6, <2>7, <2>8, <2>9 DEF AsParsed
<1>5. CASE ~(Starts /\ s = started + 1)
  <2>1. s \in 1..started /\ asked'[s] = asked[s]
    <3>1. CASE Starts
      BY <1>5, <3>1, BoundsAssumption DEF Starts, TypeInv, Search, E!Search
    <3>2. CASE ~Starts
      BY <1>1, <3>2 DEF Change, Idles, Reads, Reports, Receives, ReceivesEnd, Begins, SaysOnly,
              SetsPosition, SetsOption, Says1, Executes, Quits, mainVars
    <3> QED BY <3>1, <3>2
  <2> QED BY <2>1 DEF AskedInv
<1> QED BY <1>4, <1>5

-----------------------------------------------------------------------------
(***************************************************************************)
(* What the words ask for, of lines that mean what they say.                *)
(***************************************************************************)
\* A line replaces the position if it resets it or spells one, and sets the
\* overhead if it spells one.
LEMMA LinesMean ==
  ASSUME LinesMeanWhatTheySay, typed \in Seq(AllLines), NEW n \in 1..Len(typed)
  PROVE  /\ Replaces(n) <=> Resets(n) \/ Spelled(n) # {}
         /\ Replaces(n) => IF Resets(n) THEN Replacement(n) = StartPosition
                                       ELSE Replacement(n) \in Spelled(n)
         /\ SetsOverhead(n) <=> OverheadOf(n) # {}
         /\ SetsOverhead(n) => Numeral[Args(n).value[1]] \in OverheadOf(n)
<1> DEFINE words == typed[n]
<1>1. words \in AllLines
  OBVIOUS
<1>2. CASE words = <<>>
  <2>1. SpelledBy[words] = {} /\ OverheadBy[words] = {}
    BY <1>1, <1>2 DEF LinesMeanWhatTheySay
  <2>2. ~Resets(n)
    BY <1>2 DEF Resets
  <2> QED BY <1>2, <2>1, <2>2 DEF Replaces, SetsOverhead, Spelled, OverheadOf, IsBlank
<1>3. CASE words # <<>>
  <2> DEFINE name == Parsed[words].name
             args == Parsed[words].args
             sets == /\ name = "setoption" /\ Settable(args.name, args.value)
                     /\ LowerAll(args.name) = <<"move", "overhead">>
             places == name = "position" /\ set_position(args)
  <2>1. /\ (name = "ucinewgame") = (words = <<"ucinewgame">>)
        /\ IF places THEN args \in SpelledBy[words] ELSE SpelledBy[words] = {}
        /\ IF sets THEN Numeral[args.value[1]] \in OverheadBy[words] ELSE OverheadBy[words] = {}
    BY <1>1, <1>3 DEF LinesMeanWhatTheySay
  <2>2. /\ Replaces(n) <=> name = "ucinewgame" \/ places
        /\ SetsOverhead(n) <=> sets
        /\ Replacement(n) = IF name = "ucinewgame" THEN StartPosition ELSE args
        /\ Args(n) = args
    BY <1>3 DEF Replaces, SetsOverhead, Replacement, Kind, Args, IsBlank
  <2>3. /\ Resets(n) <=> words = <<"ucinewgame">>
        /\ Spelled(n) = SpelledBy[words] /\ OverheadOf(n) = OverheadBy[words]
    BY DEF Resets, Spelled, OverheadOf
  <2> HIDE DEF words, name, args, sets, places
  <2> QED BY <2>1, <2>2, <2>3
<1> QED BY <1>2, <1>3

\* The last of some lines, if one is above all.
LEMMA LastOf ==
  ASSUME NEW S \in SUBSET Int, NEW m \in S, \A k \in S : k <= m
  PROVE  (CHOOSE x \in S : \A k \in S : k <= x) = m
<1> DEFINE last == CHOOSE x \in S : \A k \in S : k <= x
<1>1. last \in S /\ \A k \in S : k <= last
  OBVIOUS
<1> HIDE DEF last
<1>2. last \in Int /\ m \in Int /\ last <= m /\ m <= last
  BY <1>1
<1>3. last = m
  BY ONLY <1>2
<1> QED BY <1>3 DEF last

LEMMA PositionAsked ==
  ASSUME LinesMeanWhatTheySay, typed \in Seq(AllLines), NEW n \in 1..Len(typed),
         NEW p, PositionBefore(n, p)
  PROVE  p \in LastPosition(n)
<1> DEFINE S == {m \in 1..(n - 1) : Resets(m) \/ Spelled(m) # {}}
<1>1. \A m \in 1..(n - 1) : m \in 1..Len(typed)
  OBVIOUS
<1>2. \A m \in 1..(n - 1) : m \in S <=> Replaces(m)
  BY <1>1, LinesMean
<1>3. CASE p = StartPosition /\ \A m \in 1..(n - 1) : ~Replaces(m)
  <2>1. S = {}
    BY <1>2, <1>3
  <2> QED BY <1>3, <2>1 DEF LastPosition
<1>4. CASE \E m \in 1..(n - 1) :
             Replaces(m) /\ p = Replacement(m) /\ \A k \in (m + 1)..(n - 1) : ~Replaces(k)
  <2>1. PICK m \in 1..(n - 1) :
          Replaces(m) /\ p = Replacement(m) /\ \A k \in (m + 1)..(n - 1) : ~Replaces(k)
    BY <1>4
  <2>2. m \in S /\ S \in SUBSET Int
    BY <1>2, <2>1
  <2>3. \A k \in S : k <= m
    <3> SUFFICES ASSUME NEW k \in S, ~(k <= m) PROVE FALSE
      OBVIOUS
    <3>1. k \in 1..(n - 1) /\ k \in (m + 1)..(n - 1)
      OBVIOUS
    <3> QED BY <1>2, <2>1, <3>1
  <2> DEFINE last == CHOOSE x \in S : \A k \in S : k <= x
  <2> HIDE DEF S
  <2>4. last = m
    BY <2>2, <2>3, LastOf
  <2> HIDE DEF last
  <2>5. LastPosition(n)
          = IF S = {} THEN {StartPosition} ELSE IF Resets(last) THEN {StartPosition} ELSE Spelled(last)
    BY DEF LastPosition, S, last
  <2>6. IF Resets(m) THEN p = StartPosition ELSE p \in Spelled(m)
    BY <1>1, <2>1, LinesMean
  <2> QED BY <2>2, <2>4, <2>5, <2>6
<1> QED BY <1>3, <1>4 DEF PositionBefore

LEMMA OverheadAsked ==
  ASSUME LinesMeanWhatTheySay, typed \in Seq(AllLines), NEW n \in 1..Len(typed),
         NEW v, OverheadBefore(n, v)
  PROVE  v \in LastOverhead(n)
<1> DEFINE S == {m \in 1..(n - 1) : OverheadOf(m) # {}}
<1>1. \A m \in 1..(n - 1) : m \in 1..Len(typed)
  OBVIOUS
<1>2. \A m \in 1..(n - 1) : m \in S <=> SetsOverhead(m)
  BY <1>1, LinesMean
<1>3. CASE v = 10 /\ \A m \in 1..(n - 1) : ~SetsOverhead(m)
  <2>1. S = {}
    BY <1>2, <1>3
  <2> QED BY <1>3, <2>1 DEF LastOverhead
<1>4. CASE \E m \in 1..(n - 1) :
             /\ SetsOverhead(m) /\ v = Numeral[Args(m).value[1]]
             /\ \A k \in (m + 1)..(n - 1) : ~SetsOverhead(k)
  <2>1. PICK m \in 1..(n - 1) :
          /\ SetsOverhead(m) /\ v = Numeral[Args(m).value[1]]
          /\ \A k \in (m + 1)..(n - 1) : ~SetsOverhead(k)
    BY <1>4
  <2>2. m \in S /\ S \in SUBSET Int
    BY <1>2, <2>1
  <2>3. \A k \in S : k <= m
    <3> SUFFICES ASSUME NEW k \in S, ~(k <= m) PROVE FALSE
      OBVIOUS
    <3>1. k \in 1..(n - 1) /\ k \in (m + 1)..(n - 1)
      OBVIOUS
    <3> QED BY <1>2, <2>1, <3>1
  <2> DEFINE last == CHOOSE x \in S : \A k \in S : k <= x
  <2> HIDE DEF S
  <2>4. last = m
    BY <2>2, <2>3, LastOf
  <2> HIDE DEF last
  <2>5. LastOverhead(n) = IF S = {} THEN {10} ELSE OverheadOf(last)
    BY DEF LastOverhead, S, last
  <2>6. v \in OverheadOf(m)
    BY <1>1, <2>1, LinesMean
  <2> QED BY <2>2, <2>4, <2>5, <2>6
<1> QED BY <1>3, <1>4 DEF OverheadBefore

\* What the parser makes of a search's lines is what they say.
LEMMA AskedAsSaid ==
  ASSUME LinesMeanWhatTheySay, TypeInv, SearchesAsParsed PROVE SearchesAsAsked
<1> SUFFICES ASSUME NEW s \in 1..started
             PROVE  LET n == asked[s].line  limits == asked[s].limits IN
                    /\ Says(n, "go")
                    /\ asked[s].position \in LastPosition(n)
                    /\ (\E k \in {"depth", "nodes", "movetime", "wtime", "btime"} : Says(n, k))
                         => IsLimited(limits)
                    /\ limits.infinite = Says(n, "infinite") /\ limits.ponder = Says(n, "ponder")
                    /\ limits.overhead \in LastOverhead(n)
  BY DEF SearchesAsAsked
<1>1. PICK n, p, l : n = asked[s].line /\ p = asked[s].position /\ l = asked[s].limits
  OBVIOUS
<1>2. AsParsed(n, p, l)
  BY <1>1 DEF SearchesAsParsed
<1>3. n \in 1..Len(typed) /\ typed \in Seq(AllLines) /\ typed[n] \in AllLines \ {<<>>}
  BY <1>2 DEF AsParsed, TypeInv, IsBlank
<1>4. PositionBefore(n, p)
  BY <1>2 DEF AsParsed
<1>5. p \in LastPosition(n)
  BY <1>3, <1>4, PositionAsked
<1>6. PICK v \in Overheads : l = convert_limits(Args(n), v) /\ OverheadBefore(n, v)
  BY <1>2 DEF AsParsed
<1>7. v \in LastOverhead(n)
  BY <1>3, <1>6, OverheadAsked
<1> DEFINE args == Args(n)
           first == convert_limits(args, 0)
<1>8. /\ Kind(n) = "go" /\ args.perft = None /\ ~TooLarge(args) /\ ~Invalid(args)
      /\ Kind(n) = Parsed[typed[n]].name /\ args = Parsed[typed[n]].args
  BY <1>2 DEF AsParsed, AsksPerft, Accepts, Kind, Args
<1>9. l.overhead = v /\ l.infinite = first.infinite /\ l.ponder = first.ponder
  BY <1>6 DEF convert_limits
<1>10. IsLimited(l) <=> IsLimited(first)
  BY <1>6 DEF convert_limits, IsLimited
<1> HIDE DEF args, first
<1>11. /\ "go" \in WordsOf[typed[n]]
       /\ (\E k \in {"depth", "nodes", "movetime", "wtime", "btime"} : k \in WordsOf[typed[n]])
            => IsLimited(first)
       /\ first.infinite = ("infinite" \in WordsOf[typed[n]])
       /\ first.ponder = ("ponder" \in WordsOf[typed[n]])
  BY <1>3, <1>8 DEF LinesMeanWhatTheySay, first
<1> QED BY <1>1, <1>5, <1>7, <1>9, <1>10, <1>11 DEF Says

-----------------------------------------------------------------------------
(***************************************************************************)
(* The engine.                                                              *)
(***************************************************************************)
\* Only the search that is held may run, and it was not told of.
EngineInv ==
  /\ status \in [Search -> {"unused", "running", "answered", "failed"}]
  /\ told \in [Search -> {"nothing", "result", "failed"}]
  /\ \A s \in Search : status[s] = "unused" <=> s > started
  /\ \A s \in Search : status[s] = "running" => s = active
  /\ active # 0 => told[active] = "nothing"
  /\ \A s \in Search : s > started => told[s] = "nothing"

\* Each search has a line of its own.
CountInv == Len(typed) <= MaxLines /\ (Live => started < NextLine)

LEMMA EngineInit == Init => EngineInv /\ CountInv
<1> SUFFICES ASSUME Init PROVE EngineInv /\ CountInv
  OBVIOUS
<1>1. started = 0 /\ active = 0 /\ cmd = 0 /\ pc = "poll"
  BY DEF Init, E!Init
<1>2. PICK m \in 0..MaxLines : typed \in [1..m -> AllLines]
  BY DEF Init, Inputs, BoundedSeq, SeqOf
<1>3. Len(typed) <= MaxLines
  BY <1>2, BoundsAssumption
<1>4. EngineInv
  BY <1>1 DEF Init, E!Init, EngineInv, Search, E!Search
<1> QED BY <1>1, <1>3, <1>4 DEF CountInv, NextLine, Executing

LEMMA CountStep == ASSUME TypeInv, LoopInv, QueueInv, CountInv, [Next]_vars PROVE CountInv'
<1>1. Change
  BY Steps
<1>2. typed' = typed
  BY <1>1 DEF Change, Idles, Reads, Reports, Receives, ReceivesEnd, Begins, Starts, SaysOnly,
              SetsPosition, SetsOption, Says1, Executes, Quits, mainVars
<1>3. Len(typed)' <= MaxLines
  BY <1>2 DEF CountInv
<1>4. cmd \in Nat /\ started \in Nat
  BY DEF TypeInv
<1> SUFFICES ASSUME Live' PROVE started' < NextLine'
  BY <1>3 DEF CountInv
<1>5. CASE Idles \/ Reads \/ Reports
  <2>1. Live /\ started' = started /\ NextLine' = NextLine
    BY <1>5 DEF Idles, Reads, Reports, mainVars, Live, NextLine, Executing
  <2> QED BY <2>1 DEF CountInv
<1>6. CASE Receives
  <2>1. cmd' \in Nat /\ cmd < cmd'
    BY <1>6, NothingSkipped
  <2>2. Live /\ started' = started /\ NextLine = cmd + 1 /\ NextLine' = cmd'
    BY <1>6 DEF Receives, Begins, Live, NextLine, Executing
  <2> QED BY <1>4, <2>1, <2>2 DEF CountInv
<1>7. CASE Starts \/ SaysOnly \/ SetsPosition \/ SetsOption
  <2>1. Live /\ NextLine = cmd /\ NextLine' = cmd + 1
    BY <1>7, ExecutesOrQuits DEF Executes, Live, NextLine, Executing
  <2>2. started' \in {started, started + 1}
    BY <1>7 DEF Starts, SaysOnly, SetsPosition, SetsOption, Says1
  <2> QED BY <1>4, <2>1, <2>2 DEF CountInv
<1>8. CASE ReceivesEnd \/ Quits
  BY <1>8 DEF ReceivesEnd, Begins, Quits, Live
<1> QED BY <1>1, <1>5, <1>6, <1>7, <1>8 DEF Change

LEMMA EngineStepInv == ASSUME TypeInv, LoopInv, EngineInv, [Next]_vars PROVE EngineInv'
<1> USE DEF EngineInv, Search, engineVars
<1>1. ASSUME UNCHANGED <<started, status, told, active>> PROVE EngineInv'
  BY <1>1
<1>2. CASE UNCHANGED vars \/ Close \/ Reader \/ ReceiveTimeout
  BY <1>1, <1>2 DEF vars, mainVars, Close, Reader, ReadCommand, ReadUnparsable, ReadBlank,
                    ReadEnd, ReceiveTimeout
<1>3. CASE EngineStep
  <2>1. PICK s \in Search : E!End(s)
    BY <1>3 DEF EngineStep
  <2>2. UNCHANGED <<started, told, active>>
    BY <1>3, <2>1 DEF EngineStep, E!End, mainVars
  <2>3. status[s] = "running" /\ \E v \in {"answered", "failed"} : status' = [status EXCEPT ![s] = v]
    BY <2>1 DEF E!End, E!Running
  <2> QED BY <2>2, <2>3
<1>4. CASE PollActive \/ StopReturns
  <2>1. ASSUME NEW next, Answer(next), active # 0, Finished(active) PROVE EngineInv'
    <3>1. active' = 0 /\ started' = started /\ status' = status
      BY <2>1 DEF Answer, E!Tell
    <3>2. \E v \in {"result", "failed"} : told' = [told EXCEPT ![active] = v]
      BY <2>1 DEF Answer, E!Tell
    <3>3. active = started /\ started \in Nat
      BY <2>1 DEF TypeInv
    <3>4. \A s \in Search : status'[s] = "running" => s = active'
      BY <2>1, <3>1 DEF Finished
    <3>5. \A s \in Search : s \in Int
      BY BoundsAssumption DEF E!Search
    <3>6. \A s \in Search : s > started => told'[s] = told[s]
      BY <3>2, <3>3, <3>5
    <3>7. told' \in [Search -> {"nothing", "result", "failed"}]
      BY <3>2
    <3> QED BY <3>1, <3>4, <3>6, <3>7
  <2>2. CASE StopReturns
    BY <2>1, <2>2 DEF StopReturns, LoopInv
  <2>3. CASE PollActive
    BY <1>1, <2>1, <2>3 DEF PollActive
  <2> QED BY <1>4, <2>2, <2>3
<1>5. CASE ReceiveCommand \/ ReceiveDisconnected
  <2>1. ASSUME NEW n, NEW stopping, Begin(n, stopping) PROVE EngineInv'
    BY <1>1, <2>1 DEF Begin, E!AskStop
  <2>2. CASE ReceiveCommand
    <3> DEFINE first == Head(queue)
               stops == Kind(Head(queue)) \in Stopping
    <3>1. Begin(first, stops)
      BY <2>2 DEF ReceiveCommand
    <3> HIDE DEF first, stops
    <3> QED BY <2>1, <3>1
  <2>3. CASE ReceiveDisconnected
    BY <2>1, <2>3 DEF ReceiveDisconnected
  <2> QED BY <1>5, <2>2, <2>3
<1>6. CASE ActGo
  <2>1. pc = "act" /\ cmd # 0 /\ Kind(cmd) = "go"
    BY <1>6 DEF ActGo, Is, Done
  <2>2. active = 0
    BY <2>1 DEF LoopInv, Stopping
  <2>3. /\ started + 1 \in E!Search /\ started' = started + 1 /\ told' = told
        /\ status' = [status EXCEPT ![started + 1] = "running"] /\ active' = started + 1
    BY <1>6 DEF ActGo, E!Start
  <2>4. started \in Nat /\ \A s \in Search : s \in Int
    BY BoundsAssumption DEF TypeInv, E!Search
  <2>5. \A s \in Search : s > started + 1 => s > started /\ s # started + 1
    BY <2>4
  <2>6. \A s \in Search : s # started + 1 => (s > started <=> s > started + 1)
    BY <2>4
  <2>7. status'[started + 1] = "running" /\ ~(started + 1 > started + 1) /\ started + 1 > started
    BY <2>3, <2>4
  <2>8. \A s \in Search : s # started + 1 => status'[s] = status[s]
    BY <2>3
  <2>9. \A s \in Search : status'[s] = "unused" <=> s > started'
    BY <2>3, <2>6, <2>7, <2>8
  <2>10. \A s \in Search : status'[s] = "running" => s = active'
    <3>1. \A s \in Search : status[s] # "running"
      BY <2>2, BoundsAssumption DEF E!Search
    <3> QED BY <2>3, <2>8, <3>1
  <2>11. \A s \in Search : s > started' => told'[s] = "nothing"
    BY <2>3, <2>5
  <2>12. active' # 0 => told'[active'] = "nothing"
    BY <2>3, <2>7
  <2>13. status' \in [Search -> {"unused", "running", "answered", "failed"}]
    BY <2>3
  <2> QED BY <2>3, <2>9, <2>10, <2>11, <2>12, <2>13
<1>7. CASE Act /\ ~ActGo
  BY <1>1, <1>7 DEF Act, ActGoRejected, ActPerft, ActPosition, ActNewGame, ActSetOption,
                    ActPonderHit, ActPrint, ActNothing, ActQuit, E!PonderHit
<1> QED BY <1>2, <1>3, <1>4, <1>5, <1>6, <1>7 DEF Next, MainLoop

-----------------------------------------------------------------------------
(***************************************************************************)
(* The theorems.                                                            *)
(***************************************************************************)
IInv ==
  /\ TypeInv /\ LoopInv /\ QueueInv
  /\ AnswerInv /\ StopInv /\ ReadyAfterBestmove
  /\ TextInv /\ AskedInv
  /\ EngineInv /\ CountInv

\* The invariant of the loop, the channel and the reader thread.
THEOREM LoopInvariant == Spec => []IInv
<1>1. Init => IInv
  BY TypeInit, QueueInit, AnswerInit, StopInit, ReadyInit, TextInit, AskedInit, EngineInit
     DEF IInv
<1>2. IInv /\ [Next]_vars => IInv'
  BY TypeStep, LoopStep, QueueStep, AnswerStep, StopStep, ReadyStep, TextStep, AskedStep,
     EngineStepInv, CountStep DEF IInv
<1> QED BY <1>1, <1>2, PTL DEF Spec

\* Every accepted `go` is answered by exactly one `bestmove`, in the order of
\* the searches, whatever the polling of the main loop, its stopping commands
\* and the end of the input do (poll_active, stop_active, output_result).
THEOREM AnswersInOrder == Spec => []AnsweredOnceInOrder
<1>1. IInv => AnsweredOnceInOrder
  BY DEF IInv, AnswerInv, AnsweredIn, LoopInv, AnsweredOnceInOrder, Answered
<1> QED BY <1>1, LoopInvariant, PTL

\* The promise of docs/architecture.md: when a command between a `go` and an
\* `isready` stops the search, its bestmove precedes the readyok.
THEOREM ReadyFollowsBestmove == Spec => []ReadyAfterBestmove
<1>1. IInv => ReadyAfterBestmove
  BY DEF IInv
<1> QED BY <1>1, LoopInvariant, PTL

\* A search gets what the lines before its `go` parse to, however the reader,
\* the channel and the main loop run (spawn_reader, main, handle_go).
THEOREM SearchesGetWhatWasParsed == Spec => []SearchesAsParsed
<1>1. IInv => SearchesAsParsed
  BY AskedMeans DEF IInv
<1> QED BY <1>1, LoopInvariant, PTL

\* If the parser makes of the GUI's lines what they spell, a search gets what
\* they ask for, in their own words.
THEOREM SearchesGetWhatWasAsked == LinesMeanWhatTheySay => (Spec => []SearchesAsAsked)
<1> SUFFICES ASSUME LinesMeanWhatTheySay PROVE Spec => []SearchesAsAsked
  OBVIOUS
<1>1. IInv => SearchesAsAsked
  BY AskedMeans, AskedAsSaid DEF IInv
<1> QED BY <1>1, LoopInvariant, PTL

\* A `go` finds the engine idle, and the application waits for a search, or
\* stops it, only while it owes an answer (stop_active before every go).
THEOREM CallsFindTheEngineReady == Spec => []CallsAreAccepted
<1>1. IInv => CallsAreAccepted
  <2> SUFFICES ASSUME IInv PROVE CallsAreAccepted
    OBVIOUS
  <2>0. TypeInv /\ LoopInv /\ QueueInv /\ EngineInv /\ CountInv
    BY DEF IInv
  <2>1. ASSUME pc = "act", cmd # 0, Kind(cmd) = "go"
        PROVE  started < MaxSearches /\ \A s \in Search : ~E!Running(s)
    <3>1. active = 0
      BY <2>0, <2>1 DEF LoopInv, Stopping
    <3>2. \A s \in Search : ~E!Running(s)
      BY <2>0, <3>1 DEF EngineInv, E!Running, Search, E!Search
    <3>3. Live /\ NextLine = cmd
      BY <2>1 DEF Live, NextLine, Executing
    <3>4. started < cmd /\ cmd <= read /\ Len(typed) <= MaxLines
      BY <2>0, <3>3 DEF CountInv, QueueInv
    <3>5. started \in Nat /\ cmd \in Nat /\ read \in Nat /\ Len(typed) \in Nat /\ read <= Len(typed)
      BY <2>0 DEF TypeInv
    <3> QED BY <3>2, <3>4, <3>5, BoundsAssumption
  <2>2. active # 0 => status[active] # "unused" /\ told[active] = "nothing"
    <3> SUFFICES ASSUME active # 0 PROVE status[active] # "unused" /\ told[active] = "nothing"
      OBVIOUS
    <3>1. active = started /\ active \in Search
      BY <2>0, BoundsAssumption DEF TypeInv, Search, E!Search
    <3> QED BY <2>0, <3>1, BoundsAssumption DEF EngineInv, Search, E!Search
  <2> QED BY <2>1, <2>2 DEF CallsAreAccepted
<1> QED BY <1>1, LoopInvariant, PTL
=============================================================================
