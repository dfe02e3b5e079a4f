---------------------------- MODULE UciCommands ----------------------------
(***************************************************************************)
(* What a line of input means to the native application: the parser of      *)
(* uci-rs (parser.rs), the conversion and validation of search limits       *)
(* (pikarust.rs, engine/core.rs) and the options (engine/options.rs).       *)
(*                                                                          *)
(* A line is the sequence of its words; a name or value that the code joins *)
(* with spaces stays the sequence it was joined from.                       *)
(***************************************************************************)
EXTENDS Integers, Sequences, SequencesExt

CONSTANTS
  Folded,          \* words with capitals: what they are in lower case
  Numeral,         \* words that are numbers: their values
  MAX_I32, MAX_U32, MAX_I64, MAX_U64,
  MAX_PLY,
  START_FEN,
  Playable         \* the lines of play [fen, moves] that the rules allow

\* Every beginning of a line of play is one.
ASSUME PlayableAssumption ==
  /\ [fen |-> START_FEN, moves |-> <<>>] \in Playable
  /\ \A p \in Playable : p.moves # <<>> => [p EXCEPT !.moves = Front(@)] \in Playable

Lower(word) == IF word \in DOMAIN Folded THEN Folded[word] ELSE word
None == -1
Parses(word, max) == word \in DOMAIN Numeral /\ Numeral[word] \in 0..max

-----------------------------------------------------------------------------
\* A command is its name and what the name is followed by.
Command(name, args) == [name |-> name, args |-> args]
Failure == Command("error", <<>>)

Plain == {"uci", "isready", "ucinewgame", "stop", "quit", "ponderhit", "flip", "d", "eval"}

parse_debug(words) ==
  IF words # <<>> /\ Lower(words[1]) \in {"on", "off"} THEN Command("debug", <<>>) ELSE Failure

\* The words before the first one that is the keyword, and those after it.
At(words, keyword) == SelectInSeq(words, LAMBDA w : Lower(w) = keyword)
Before(words, keyword) ==
  IF At(words, keyword) = 0 THEN words ELSE SubSeq(words, 1, At(words, keyword) - 1)
After(words, keyword) ==
  IF At(words, keyword) = 0 THEN <<>> ELSE SubSeq(words, At(words, keyword) + 1, Len(words))

extract_fen(words) == Before(words, "moves")
extract_moves(words) == After(words, "moves")

parse_position(words) ==
  IF words = <<>> THEN Failure
  ELSE LET rest == Tail(words) IN
    CASE Lower(words[1]) = "startpos" ->
           Command("position", [fen |-> START_FEN, moves |-> extract_moves(rest)])
      [] Lower(words[1]) = "fen" /\ extract_fen(rest) # <<>> ->
           Command("position", [fen |-> extract_fen(rest), moves |-> extract_moves(rest)])
      [] OTHER -> Failure

\* `setoption name N.. value V..`; a missing value is an empty one
\* (handle_set_option).
parse_set_option(words) ==
  IF words = <<>> \/ Lower(words[1]) # "name" \/ Before(Tail(words), "value") = <<>> THEN Failure
  ELSE Command("setoption",
         [name |-> Before(Tail(words), "value"), value |-> After(Tail(words), "value")])

-----------------------------------------------------------------------------
Longs  == {"wtime", "btime", "winc", "binc", "nodes", "movetime"}
Shorts == {"movestogo", "depth", "perft"}
Flags  == {"infinite", "ponder"}
GoKeywords == Longs \union Shorts \union Flags \union {"searchmoves"}

GoParams ==
  [wtime |-> None, btime |-> None, winc |-> None, binc |-> None, nodes |-> None,
   movetime |-> None, movestogo |-> None, depth |-> None, perft |-> None,
   infinite |-> FALSE, ponder |-> FALSE, searchmoves |-> <<>>]

\* `go` is read word by word: what was read so far, and the keyword whose value
\* (or, for searchmoves, whose moves) the next word may be; "error" when a value
\* was not a number.
Numbers == Longs \union Shorts
ReadGoKeyword(state, word) ==
  LET k == Lower(word) IN
  IF k \in Flags THEN [params |-> [state.params EXCEPT ![k] = TRUE], keyword |-> "none"]
  ELSE IF k \in GoKeywords THEN [state EXCEPT !.keyword = k]
  ELSE IF state.keyword = "searchmoves"
         THEN [state EXCEPT !.params.searchmoves = Append(@, word)]
  ELSE state

ReadGoWord(state, word) ==
  IF state.keyword = "error" THEN state
  ELSE IF state.keyword \notin Numbers THEN ReadGoKeyword(state, word)
  ELSE IF Parses(word, IF state.keyword \in Longs THEN MAX_U64 ELSE MAX_U32)
         THEN [params |-> [state.params EXCEPT ![state.keyword] = Numeral[word]],
               keyword |-> "none"]
  ELSE [state EXCEPT !.keyword = "error"]

\* A keyword that still waits for its number fails as well.
parse_go(words) ==
  LET end == FoldLeft(ReadGoWord, [params |-> GoParams, keyword |-> "none"], words)
  IN  IF end.keyword \in {"none", "searchmoves"} THEN Command("go", end.params) ELSE Failure

\* The parameters of `bench` are checked, and the command is then refused.
ReadBenchWord(keyword, word) ==
  IF keyword = "error" THEN keyword
  ELSE IF keyword # "none" THEN IF Parses(word, MAX_U32) THEN "none" ELSE "error"
  ELSE IF Lower(word) \in {"depth", "threads", "hash"} THEN Lower(word) ELSE "none"
parse_bench(words) ==
  IF FoldLeft(ReadBenchWord, "none", words) = "none" THEN Command("bench", <<>>) ELSE Failure

parse_command(words) ==
  LET name == Lower(words[1]) IN
  CASE name \in Plain       -> Command(name, <<>>)
    [] name = "debug"       -> parse_debug(Tail(words))
    [] name = "position"    -> parse_position(Tail(words))
    [] name = "go"          -> parse_go(Tail(words))
    [] name = "setoption"   -> parse_set_option(Tail(words))
    [] name = "bench"       -> parse_bench(Tail(words))
    [] OTHER -> Failure

-----------------------------------------------------------------------------
\* Engine::set_position and try_go: one illegal move, and nothing is done.
IsLegal(position, move) == [position EXCEPT !.moves = Append(@, move)] \in Playable
set_position(args) == args \in Playable

\* A limit that does not fit the signed integer it is converted to.
TooLarge(p) ==
  \/ \E k \in Longs \ {"nodes"} : p[k] > MAX_I64
  \/ \E k \in {"depth", "movestogo"} : p[k] > MAX_I32
\* SearchLimits::validate.
Invalid(p) ==
  \/ p.depth # None /\ p.depth \notin 1..(MAX_PLY - 1)
  \/ \E k \in {"nodes", "movetime", "movestogo"} : p[k] = 0
Accepts(p, position) ==
  /\ ~TooLarge(p) /\ ~Invalid(p)
  /\ \A i \in 1..Len(p.searchmoves) : IsLegal(position, Lower(p.searchmoves[i]))

AtLeast(x, y) == IF x < y THEN y ELSE x

\* Without a clock, 0; else at least a millisecond, on a side that was left
\* out as well.
Clock(p, side) ==
  IF \A k \in {"wtime", "btime"} : p[k] = None THEN 0 ELSE AtLeast(p[side], 1)

\* convert_limits, as far as it decides how the search ends: the limits of
\* SearchPool's requests.
convert_limits(p, overhead) ==
  [depth |-> AtLeast(p.depth, 0),
   timed |-> Clock(p, "wtime") > 0 \/ Clock(p, "btime") > 0,
   budget |-> p.movetime > 0 \/ p.nodes > 0,
   infinite |-> p.infinite, ponder |-> p.ponder, overhead |-> overhead]

perft_accepts(depth) == depth \in 0..10 /\ depth <= MAX_I32

-----------------------------------------------------------------------------
Spins ==
  { [name |-> <<"hash">>, min |-> 1, max |-> 65536, default |-> 16],
    [name |-> <<"threads">>, min |-> 1, max |-> 1024, default |-> 1],
    [name |-> <<"multipv">>, min |-> 1, max |-> 1, default |-> 1],
    [name |-> <<"move", "overhead">>, min |-> 0, max |-> 5000, default |-> 10] }
Checks == {<<"ponder">>, <<"uci_showwdl">>}

\* The values options start with; a check is 0 or 1.
EngineOptions ==
  [n \in Checks \union {s.name : s \in Spins} |->
     IF n \in Checks THEN 0 ELSE (CHOOSE s \in Spins : s.name = n).default]

LowerAll(words) == [i \in DOMAIN words |-> Lower(words[i])]
parse_spin(value, s) ==
  Len(value) = 1 /\ value[1] \in DOMAIN Numeral /\ Numeral[value[1]] \in s.min..s.max
parse_check(value) == LowerAll(value) \in {<<"true">>, <<"false">>}

\* EngineOptions::set, and whether it succeeds.
Settable(name, value) ==
  \/ \E s \in Spins : s.name = LowerAll(name) /\ parse_spin(value, s)
  \/ LowerAll(name) \in Checks /\ parse_check(value)
set(options, name, value) ==
  [options EXCEPT ![LowerAll(name)] =
     IF LowerAll(name) \notin Checks THEN Numeral[value[1]]
     ELSE IF LowerAll(value) = <<"true">> THEN 1 ELSE 0]
=============================================================================
