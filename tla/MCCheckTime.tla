---------------------------- MODULE MCCheckTime ----------------------------
(***************************************************************************)
(* Instances of CheckTime for TLC: a counter of -32..31 stands for an i32.  *)
(***************************************************************************)
EXTENDS CheckTime

\* Node limits whose share takes every value of the counter, and more.
MCAny == 0..300
=============================================================================
