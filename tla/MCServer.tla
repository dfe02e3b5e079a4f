------------------------------ MODULE MCServer ------------------------------
(***************************************************************************)
(* Instances of Server for TLC.                                             *)
(***************************************************************************)
EXTENDS Server, TLC

CONSTANTS c1, c2, r1

\* "stop" and "other", which only end a search or touch the session, are left
\* to the smaller instance.
MCCommands   == {"position", "go", "ucinewgame", "ponderhit", "setoption"}
LiveCommands == {"go", "position", "stop", "other"}

Symmetry == Permutations(Conn)
=============================================================================
