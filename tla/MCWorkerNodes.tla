---------------------------- MODULE MCWorkerNodes ----------------------------
(***************************************************************************)
(* An instance of WorkerNodes: two workers, an entry of -2..2, a counter of *)
(* -8..7, and products of a bonus that wrap at 2^17 as an i32 does at 2^31: *)
(* a penalty of 3 comes out of its product as a bonus.  A table of a worker *)
(* keeps entries of -1..1 or -2..2.                                         *)
(***************************************************************************)
EXTENDS WorkerNodes

MCFitting == {0, 3, 15}
MCBonuses == {-3, 2}
MCCleared == -1
MCTableLimits ==
  [main |-> 2, lowPly |-> 1, capture |-> 1, pawn |-> 1, ttMove |-> 1,
   correction |-> 2, contCorrection |-> 1]
MCTableCleared ==
  [main |-> -1, lowPly |-> 0, capture |-> -1, pawn |-> -1, ttMove |-> 0,
   correction |-> -1, contCorrection |-> 1]
=============================================================================
