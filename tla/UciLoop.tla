------------------------------ MODULE UciLoop ------------------------------
(***************************************************************************)
(* The native UCI application (pikarust-app/src/bin/pikarust.rs): a reader  *)
(* thread that parses standard input into a bounded channel, and the main   *)
(* loop that polls the active search and executes the commands.  The engine *)
(* behind it is the abstract SearchService, which SearchPool implements.    *)
(*                                                                          *)
(* Input lines are numbered as the GUI writes them; what they mean is in    *)
(* UciCommands.  Output messages carry the line they answer.                *)
(*                                                                          *)
(* An operator Name_Change is a variant of Name with a plausible bug, which *)
(* a property must notice; no specification uses one.                       *)
(***************************************************************************)
EXTENDS UciCommands

CONSTANTS
  MaxSearches,  \* bound: searches the engine starts
  MaxLines,     \* bound: lines the GUI writes
  Capacity,     \* the channel's capacity (64 in the code)
  Lines,        \* the lines this GUI writes
  FirstLines,   \* bound: more of them, which it only begins with
  Unreadable    \* the line among them, if any, that is not UTF-8

ASSUME BoundsAssumption   == MaxLines \in Nat /\ MaxSearches \in Nat /\ MaxSearches >= MaxLines
ASSUME CapacityAssumption == Capacity \in Nat \ {0}
ASSUME UnreadableAssumption == Unreadable # <<>>

AllLines == Lines \union FirstLines
Inputs ==
  {input \in BoundedSeq(AllLines, MaxLines) : \A i \in 2..Len(input) : input[i] \in Lines}

\* The reader's parse of each line.
Parsed == [words \in AllLines \ {<<>>} |-> parse_command(words)]

LineNo == 1..MaxLines

VARIABLES
  started, status, endless, stopped, told,   \* the engine
  typed,     \* the lines the GUI writes
  closed,    \* it has closed its end after them
  read,      \* number of lines the reader thread has taken
  reading,   \* the reader thread runs (its sender is alive)
  queue,     \* the command channel: line numbers
  pc,        \* where the main loop is
  cmd,       \* the line being executed, 0 for the end of input
  active,    \* the search whose handle is held, 0 for none
  position, options,  \* the engine's
  asked,     \* per search: its `go` line, the position and the limits it got
  out        \* standard output

E == INSTANCE SearchService

engineVars == <<started, status, endless, stopped, told>>
guiVars    == <<typed, closed>>
readerVars == <<read, reading>>
mainVars   == <<pc, cmd, active, position, options, asked>>
vars == <<engineVars, guiVars, readerVars, queue, mainVars, out>>

Search == E!Search
Message(kind, line) == [kind |-> kind, line |-> line]
StartPosition == [fen |-> START_FEN, moves |-> <<>>]
NotAsked == [line |-> 0, position |-> StartPosition, limits |-> convert_limits(GoParams, 0)]
Kind(n) == Parsed[typed[n]].name
Args(n) == Parsed[typed[n]].args

Init ==
  /\ E!Init
  /\ typed \in Inputs /\ closed = FALSE
  /\ read = 0 /\ reading = TRUE /\ queue = <<>>
  /\ pc = "poll" /\ cmd = 0 /\ active = 0
  /\ position = StartPosition /\ options = EngineOptions
  /\ asked = [s \in Search |-> NotAsked]
  /\ out = <<>>

-----------------------------------------------------------------------------
\* The GUI.  A line it writes late, or after it has seen an answer, is one
\* that the reader thread reads late.  It may close its end after the last,
\* or when nobody reads any more.
Close ==
  /\ ~closed /\ (reading => read = Len(typed)) /\ closed' = TRUE
  /\ UNCHANGED <<engineVars, typed, readerVars, queue, mainVars, out>>

-----------------------------------------------------------------------------
\* The reader thread: a command goes to the channel (blocking while it is
\* full), a line that does not parse is answered at once, a blank one is
\* passed over, and after `quit`, at the end of input, at a line that cannot be
\* read (an I/O error, or no UTF-8) or when the main loop is gone the thread
\* ends.
HasRoom == Len(queue) < Capacity
Upcoming == reading /\ read < Len(typed) /\ typed[read + 1] # Unreadable
IsBlank(words) == words = <<>>

ReadCommand ==
  /\ Upcoming /\ ~IsBlank(typed[read + 1]) /\ Kind(read + 1) # "error"
  /\ \/ /\ pc # "exit" /\ HasRoom
        /\ queue' = Append(queue, read + 1)
        /\ reading' = (Kind(read + 1) # "quit")
     \/ /\ pc = "exit"
        /\ reading' = FALSE
        /\ UNCHANGED queue
  /\ read' = read + 1
  /\ UNCHANGED <<engineVars, guiVars, mainVars, out>>

ReadUnparsable ==
  /\ Upcoming /\ ~IsBlank(typed[read + 1]) /\ Kind(read + 1) = "error"
  /\ read' = read + 1
  /\ out' = Append(out, Message("error", read + 1))
  /\ UNCHANGED <<engineVars, guiVars, reading, queue, mainVars>>

ReadBlank ==
  /\ Upcoming /\ IsBlank(typed[read + 1])
  /\ read' = read + 1
  /\ UNCHANGED <<engineVars, guiVars, reading, queue, mainVars, out>>

ReadEnd ==
  /\ reading
  /\ IF read = Len(typed) THEN closed ELSE typed[read + 1] = Unreadable
  /\ reading' = FALSE
  /\ UNCHANGED <<engineVars, guiVars, read, queue, mainVars, out>>

-----------------------------------------------------------------------------
(***************************************************************************)
(* The main loop: "poll" looks at the active search, "recv" waits for a     *)
(* command (a millisecond while a search is active), "wait" is stop_active  *)
(* blocked in wait_result, "act" executes the command.                      *)
(***************************************************************************)
Finished(s) == status[s] \in {"answered", "failed"}

\* output_result, or the error and the null move of a failed search.
Report(s) ==
  out' = out \o (IF status[s] = "failed" THEN <<Message("error", asked[s].line)>> ELSE <<>>)
             \o <<Message("bestmove", asked[s].line)>>

Answer(next) ==
  /\ E!Tell(active)
  /\ Report(active)
  /\ active' = 0 /\ pc' = next
  /\ UNCHANGED <<guiVars, readerVars, queue, cmd, position, options, asked>>

PollActive_Blocking ==
  /\ pc = "poll"
  /\ \/ active # 0 /\ Finished(active) /\ Answer("recv")
     \/ /\ active = 0
        /\ pc' = "recv"
        /\ UNCHANGED <<engineVars, guiVars, readerVars, queue, cmd, active, position,
                       options, asked, out>>

PollActive ==
  /\ pc = "poll"
  /\ \/ active # 0 /\ Finished(active) /\ Answer("recv")
     \/ /\ active # 0 => ~Finished(active)
        /\ pc' = "recv"
        /\ UNCHANGED <<engineVars, guiVars, readerVars, queue, cmd, active, position,
                       options, asked, out>>

\* The commands that begin with stop_active.
Stopping_NotStop == {"go", "position", "ucinewgame", "setoption", "eval", "quit"}
Stopping == {"go", "position", "ucinewgame", "setoption", "eval", "stop", "quit"}

\* Begin line n; 0 is the end of input, after which the loop stops the
\* active search as `quit` does.
Begin(n, stopping) ==
  /\ cmd' = n
  /\ IF stopping /\ active # 0
       THEN E!AskStop(active) /\ pc' = "wait"
       ELSE UNCHANGED engineVars /\ pc' = "act"
  /\ UNCHANGED <<guiVars, readerVars, active, position, options, asked, out>>

ReceiveCommand ==
  /\ pc = "recv" /\ queue # <<>>
  /\ queue' = Tail(queue)
  /\ Begin(Head(queue), Kind(Head(queue)) \in Stopping)

ReceiveTimeout ==
  /\ pc = "recv" /\ queue = <<>> /\ reading /\ active # 0
  /\ pc' = "poll"
  /\ UNCHANGED <<engineVars, guiVars, readerVars, queue, cmd, active, position,
                 options, asked, out>>

ReceiveDisconnected_Abandon ==
  /\ pc = "recv" /\ queue = <<>> /\ ~reading
  /\ UNCHANGED queue
  /\ Begin(0, FALSE)

ReceiveDisconnected_AsTimeout ==
  /\ pc = "recv" /\ queue = <<>> /\ ~reading
  /\ pc' = "poll"
  /\ UNCHANGED <<engineVars, guiVars, readerVars, queue, cmd, active, position,
                 options, asked, out>>

ReceiveDisconnected ==
  /\ pc = "recv" /\ queue = <<>> /\ ~reading
  /\ UNCHANGED queue
  /\ Begin(0, TRUE)

StopReturns ==
  /\ pc = "wait" /\ Finished(active)
  /\ Answer("act")

\* Executing a command.
Done(next) ==
  /\ pc = "act" /\ pc' = next
  /\ UNCHANGED <<guiVars, readerVars, queue, cmd>>

Is(kinds) == cmd # 0 /\ Kind(cmd) \in kinds
Prints(kind) == out' = Append(out, Message(kind, cmd))
AsksPerft(n) == Args(n).perft # None

\* Whether the search may end before it is stopped (SearchPool: Endless) also
\* depends on the number of its root moves.
Endless(limits, roots) ==
  /\ roots > 0
  /\ \/ limits.infinite /\ ~limits.timed /\ ~limits.budget
     \/ limits.ponder /\ ~(limits.timed /\ roots = 1)

ActGo ==
  /\ Is({"go"}) /\ ~AsksPerft(cmd) /\ Accepts(Args(cmd), position)
  /\ Done("poll")
  /\ LET limits == convert_limits(Args(cmd), options[<<"move", "overhead">>]) IN
     /\ \E roots \in 0..2 : E!Start(Endless(limits, roots))
     /\ asked' = [asked EXCEPT ![started + 1] =
                    [line |-> cmd, position |-> position, limits |-> limits]]
  /\ active' = started + 1
  /\ UNCHANGED <<position, options, out>>

ActGoRejected ==
  /\ Is({"go"}) /\ ~AsksPerft(cmd) /\ ~Accepts(Args(cmd), position)
  /\ Done("poll")
  /\ Prints("error")
  /\ UNCHANGED <<engineVars, active, position, options, asked>>

ActPerft ==
  /\ Is({"go"}) /\ AsksPerft(cmd)
  /\ Done("poll")
  /\ Prints(IF perft_accepts(Args(cmd).perft) THEN "perft" ELSE "error")
  /\ UNCHANGED <<engineVars, active, position, options, asked>>

ActPosition_Early ==
  /\ Is({"position"})
  /\ Done("poll")
  /\ LET root == [Args(cmd) EXCEPT !.moves = <<>>] IN
     IF set_position(Args(cmd))
       THEN position' = Args(cmd) /\ UNCHANGED out
       ELSE position' = (IF set_position(root) THEN root ELSE position) /\ Prints("error")
  /\ UNCHANGED <<engineVars, active, options, asked>>

\* A position is replaced only when it and all its moves are legal.
ActPosition ==
  /\ Is({"position"})
  /\ Done("poll")
  /\ IF set_position(Args(cmd))
       THEN position' = Args(cmd) /\ UNCHANGED out
       ELSE UNCHANGED position /\ Prints("error")
  /\ UNCHANGED <<engineVars, active, options, asked>>

ActNewGame ==
  /\ Is({"ucinewgame"})
  /\ Done("poll")
  /\ position' = StartPosition
  /\ UNCHANGED <<engineVars, active, options, asked, out>>

\* Other threads or another hash size rebuild the pool (SearchPool), which
\* does not search now.
ActSetOption ==
  /\ Is({"setoption"})
  /\ Done("poll")
  /\ IF Settable(Args(cmd).name, Args(cmd).value)
       THEN options' = set(options, Args(cmd).name, Args(cmd).value) /\ UNCHANGED out
       ELSE UNCHANGED options /\ Prints("error")
  /\ UNCHANGED <<engineVars, active, position, asked>>

\* A ponderhit leaves an infinite search infinite.
ActPonderHit ==
  /\ Is({"ponderhit"})
  /\ Done("poll")
  /\ IF active # 0 /\ ~(asked[active].limits.infinite /\ endless[active])
       THEN E!PonderHit(active) ELSE UNCHANGED engineVars
  /\ UNCHANGED <<active, position, options, asked, out>>

\* The commands that only print; `eval` also stops the search.
Answers == [uci |-> "uciok", isready |-> "readyok", d |-> "display", eval |-> "eval",
            bench |-> "error", flip |-> "error"]
ActPrint ==
  /\ Is(DOMAIN Answers)
  /\ Done("poll")
  /\ Prints(Answers[Kind(cmd)])
  /\ UNCHANGED <<engineVars, active, position, options, asked>>

\* The work of `stop` was done by stop_active.
ActNothing ==
  /\ Is({"stop", "debug"})
  /\ Done("poll")
  /\ UNCHANGED <<engineVars, active, position, options, asked, out>>

ActQuit ==
  /\ cmd = 0 \/ Is({"quit"})
  /\ Done("exit")
  /\ UNCHANGED <<engineVars, active, position, options, asked, out>>

EngineStep ==
  /\ \E s \in Search : E!End(s)
  /\ UNCHANGED <<guiVars, readerVars, queue, mainVars, out>>

-----------------------------------------------------------------------------
Reader == ReadCommand \/ ReadUnparsable \/ ReadBlank \/ ReadEnd
Act ==
  \/ ActGo \/ ActGoRejected \/ ActPerft \/ ActPosition \/ ActNewGame \/ ActSetOption
  \/ ActPonderHit \/ ActPrint \/ ActNothing \/ ActQuit
MainLoop ==
  \/ PollActive \/ ReceiveCommand \/ ReceiveTimeout \/ ReceiveDisconnected
  \/ StopReturns \/ Act

Next == Close \/ Reader \/ MainLoop \/ EngineStep

Spec == Init /\ [][Next]_vars

\* Both threads run, and the engine ends a search it was asked to stop
\* (ImplementsService of SearchPool; one runs at a time).  Nothing is assumed
\* of the GUI.
Fairness ==
  /\ WF_vars(Reader)
  /\ WF_vars(MainLoop)
  /\ WF_vars(\E s \in Search : stopped[s] /\ E!End(s) /\ EngineStep)

FairSpec == Spec /\ Fairness

-----------------------------------------------------------------------------
\* The searches that must have been answered by now.
Answered == 1..(IF active = 0 THEN started ELSE started - 1)

\* Every accepted `go` is answered by exactly one `bestmove`, in the order of
\* the searches, and before the next search starts or the program exits:
\* however the polling, the stopping commands and the end of input interleave.
\* at[s] is where the output answers search s.
AnsweredOnceInOrder ==
  /\ \E at \in [Answered -> 1..Len(out)] :
       /\ \A s \in Answered : out[at[s]] = Message("bestmove", asked[s].line)
       /\ \A s, t \in Answered : s < t => at[s] < at[t]
       /\ \A k \in 1..Len(out) : out[k].kind = "bestmove" => \E s \in Answered : at[s] = k
  /\ pc = "exit" => active = 0

\* Line n stops a search under way.
Stops(n) == ~IsBlank(typed[n]) /\
  Kind(n) \notin {"error", "isready", "ponderhit", "uci", "d", "debug", "bench", "flip"}

\* docs/architecture.md: the native application emits "the stopped search's
\* final `bestmove` before `readyok`".  If a command that stops the search
\* comes between a `go` and an `isready`, the readyok comes after that go's
\* bestmove.
ReadyAfterBestmove ==
  \A k \in 1..Len(out) : out[k].kind = "readyok" =>
    \A s \in 1..started :
      (\E n \in (asked[s].line + 1)..(out[k].line - 1) : Stops(n))
        => \E b \in 1..(k - 1) : out[b] = Message("bestmove", asked[s].line)

-----------------------------------------------------------------------------
(***************************************************************************)
(* What a line asks for, read off its words without the parser.             *)
(***************************************************************************)
WordsOf == [words \in AllLines |-> {Lower(words[i]) : i \in DOMAIN words}]
Says(n, word) == word \in WordsOf[typed[n]]

\* The lines that spell a playable position.
Spellings(p) ==
  {prefix \o suffix :
     prefix \in {<<"position", "fen">> \o p.fen}
                 \union (IF p.fen = START_FEN THEN {<<"position", "startpos">>} ELSE {}),
     suffix \in {<<"moves">> \o p.moves} \union (IF p.moves = <<>> THEN {<<>>} ELSE {})}
SpelledBy == [words \in AllLines |-> {p \in Playable : words \in Spellings(p)}]
Spelled(n) == SpelledBy[typed[n]]
Resets(n) == typed[n] = <<"ucinewgame">>

\* The position line n would search.
LastPosition(n) ==
  LET lines == {m \in 1..(n - 1) : Resets(m) \/ Spelled(m) # {}}
      last == CHOOSE m \in lines : \A k \in lines : k <= m
  IN  IF lines = {} THEN {StartPosition} ELSE IF Resets(last) THEN {StartPosition} ELSE Spelled(last)

\* The overhead a line sets (or nothing), and what the lines before n leave.
OverheadBy ==
  [words \in AllLines |->
     {v \in {Numeral[w] : w \in DOMAIN Numeral} \intersect 0..5000 :
        \E w \in DOMAIN Numeral :
          /\ Numeral[w] = v
          /\ LowerAll(words) = <<"setoption", "name", "move", "overhead", "value", w>>}]
OverheadOf(n) == OverheadBy[typed[n]]
LastOverhead(n) ==
  LET lines == {m \in 1..(n - 1) : OverheadOf(m) # {}}
      last == CHOOSE m \in lines : \A k \in lines : k <= m
  IN  IF lines = {} THEN {10} ELSE OverheadOf(last)

IsLimited(limits) == limits.depth > 0 \/ limits.timed \/ limits.budget

\* A search gets what was asked for: the position of the last line before
\* its `go` that spells a playable one, whatever rejected, unparsable and
\* overtaken lines came between, a limit if its line names one (core.rs: "`go
\* wtime 0 btime 0` cannot become an unbounded search"), infinity and
\* pondering only if its line says so, and the overhead last set.
SearchesAsAsked ==
  \A s \in 1..started :
    LET n == asked[s].line  limits == asked[s].limits IN
    /\ Says(n, "go")
    /\ asked[s].position \in LastPosition(n)
    /\ (\E k \in {"depth", "nodes", "movetime", "wtime", "btime"} : Says(n, k)) => IsLimited(limits)
    /\ limits.infinite = Says(n, "infinite") /\ limits.ponder = Says(n, "ponder")
    /\ limits.overhead \in LastOverhead(n)

\* The same, as the parser reads the lines: the search's line is an accepted
\* `go`, its position is the one the last line before that replaced it with
\* (or the first one), and the overhead is the one set last.
Replaces(n) ==
  /\ ~IsBlank(typed[n])
  /\ \/ Kind(n) = "ucinewgame"
     \/ Kind(n) = "position" /\ set_position(Args(n))
Replacement(n) == IF Kind(n) = "ucinewgame" THEN StartPosition ELSE Args(n)
PositionBefore(n, p) ==
  \/ p = StartPosition /\ \A m \in 1..(n - 1) : ~Replaces(m)
  \/ \E m \in 1..(n - 1) :
       Replaces(m) /\ p = Replacement(m) /\ \A k \in (m + 1)..(n - 1) : ~Replaces(k)

SetsOverhead(n) ==
  /\ ~IsBlank(typed[n]) /\ Kind(n) = "setoption" /\ Settable(Args(n).name, Args(n).value)
  /\ LowerAll(Args(n).name) = <<"move", "overhead">>
Overheads == 0..5000
OverheadBefore(n, v) ==
  \/ v = 10 /\ \A m \in 1..(n - 1) : ~SetsOverhead(m)
  \/ \E m \in 1..(n - 1) :
       /\ SetsOverhead(m) /\ v = Numeral[Args(m).value[1]]
       /\ \A k \in (m + 1)..(n - 1) : ~SetsOverhead(k)

AsParsed(n, p, limits) ==
  /\ n \in 1..Len(typed) /\ ~IsBlank(typed[n]) /\ Kind(n) = "go" /\ ~AsksPerft(n)
  /\ Accepts(Args(n), p) /\ PositionBefore(n, p)
  /\ \E v \in Overheads : limits = convert_limits(Args(n), v) /\ OverheadBefore(n, v)

SearchesAsParsed ==
  \A s \in 1..started : AsParsed(asked[s].line, asked[s].position, asked[s].limits)

\* Of the lines this GUI writes the parser makes what they spell.
LinesMeanWhatTheySay ==
  /\ <<>> \in AllLines => SpelledBy[<<>>] = {} /\ OverheadBy[<<>>] = {}
  /\ \A words \in AllLines \ {<<>>} :
    LET name == Parsed[words].name  args == Parsed[words].args IN
    /\ name = "go" => "go" \in WordsOf[words]
    /\ name = "go" /\ args.perft = None /\ ~TooLarge(args) /\ ~Invalid(args) =>
         LET limits == convert_limits(args, 0) IN
         /\ (\E k \in {"depth", "nodes", "movetime", "wtime", "btime"} : k \in WordsOf[words])
              => IsLimited(limits)
         /\ limits.infinite = ("infinite" \in WordsOf[words])
         /\ limits.ponder = ("ponder" \in WordsOf[words])
    /\ (name = "ucinewgame") = (words = <<"ucinewgame">>)
    /\ IF name = "position" /\ set_position(args)
         THEN args \in SpelledBy[words] ELSE SpelledBy[words] = {}
    /\ IF name = "setoption" /\ Settable(args.name, args.value)
           /\ LowerAll(args.name) = <<"move", "overhead">>
         THEN Numeral[args.value[1]] \in OverheadBy[words] ELSE OverheadBy[words] = {}

\* The loop never starts a search while one runs, so that `go` does not wait
\* for the pool, and it stops and asks only for a search that was not told yet.
CallsAreAccepted ==
  /\ pc = "act" /\ cmd # 0 /\ Kind(cmd) = "go" =>
       started < MaxSearches /\ \A s \in Search : ~E!Running(s)
  /\ active # 0 => status[active] # "unused" /\ told[active] = "nothing"

\* `isready` is answered even while an endless search runs, unless the GUI
\* wrote `quit` or an unreadable line before it.
IsReadyIsAnswered ==
  \A n \in LineNo :
    (/\ n <= Len(typed) /\ typed[n] = <<"isready">>
     /\ \A m \in 1..n : typed[m] \notin {<<"quit">>, Unreadable})
      ~> \E k \in 1..Len(out) : out[k] = Message("readyok", n)

\* Closing standard input ends the program, whatever it was searching, and so
\* does whatever else ends the reader thread.
ClosedExits == closed \/ ~reading ~> pc = "exit"
=============================================================================
