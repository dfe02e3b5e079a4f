---------------------------- MODULE MCWebClient ----------------------------
(* Two FEN records, one with either side to move, and one without kings. *)
EXTENDS WebClient

MCStart == [name |-> "start", first |-> "w"]
MCRefused == {[name |-> "kingless", first |-> "w"]}
MCFens == {MCStart, [name |-> "study", first |-> "b"]} \cup MCRefused
=============================================================================
