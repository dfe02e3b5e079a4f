----------------------------- MODULE MCUciLoop -----------------------------
(***************************************************************************)
(* An instance of UciLoop for TLC.  Every kind of line occurs, those that   *)
(* stop or start nothing and those that differ in their words only as the   *)
(* first line.  Integers of 32 bits reach 7 (15 unsigned) and integers of   *)
(* 64 bits 31 (63).  From the start "m" may be played and then "r"; from    *)
(* another position, "f w", only "m".                                       *)
(***************************************************************************)
EXTENDS UciLoop

MCFolded == [GO |-> "go", Move |-> "move", Overhead |-> "overhead", M |-> "m"]
MCNumeral == ("0" :> 0) @@ ("1" :> 1) @@ ("9" :> 9) @@ ("20" :> 20) @@ ("40" :> 40)

MCStart == <<"start", "w">>
MCPlayable ==
  {[fen |-> MCStart, moves |-> ms] : ms \in {<<>>, <<"m">>, <<"m", "r">>}}
    \union {[fen |-> <<"f", "w">>, moves |-> ms] : ms \in {<<>>, <<"m">>}}

\* Bytes that are not UTF-8; parsed as words they would be an error.
MCUnreadable == <<"0xff">>

MCLines ==
  { <<"go", "wtime", "0", "btime", "0">>,
    <<"go", "infinite">>,
    <<"GO", "ponder", "depth", "1", "searchmoves", "M">>,
    <<"position", "startpos", "moves", "m">>,
    <<"stop">>, <<"ponderhit">>, <<"isready">>, <<"quit">>,
    <<"go", "nodes">>, MCUnreadable }

MCFirstLines ==
  { <<>>,
    <<"eval">>, <<"ucinewgame">>, <<"go", "perft", "1">>, <<"go", "movetime", "40">>,
    <<"position", "fen", "f", "w", "moves", "m", "r">>,
    <<"go", "nodes", "40", "searchmoves", "m", "infinite">>,
    <<"position", "fen", "f", "w">>,
    <<"setoption", "name", "Move", "Overhead", "value", "20">>,
    <<"setoption", "name", "Hash", "value", "0">> }

\* What the theorem SearchesGetWhatWasAsked asks of the lines holds of these.
ASSUME MCLinesAssumption == LinesMeanWhatTheySay
=============================================================================
