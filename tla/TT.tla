-------------------------------- MODULE TT --------------------------------
(***************************************************************************)
(* The transposition table (search/tt.rs) as one worker sees it: a cluster *)
(* of entries, probed by key, saved through the writer a probe returns.    *)
(* Keys and moves are the caller's values; different positions have        *)
(* different keys.  An entry's stores are one step here; what a probe may  *)
(* see of other workers' half-made stores is left to the module that uses  *)
(* the table.  The evaluation of the position, which an entry repeats, and *)
(* table identities, which no search outlives, are left out.               *)
(***************************************************************************)
EXTENDS Integers

CONSTANTS
  CLUSTER_SIZE,  \* entries of a cluster
  Generations,   \* GENERATION_MASK + 1
  DepthSlack,    \* 4: how much shallower a write may be and still replace
  AgeableDepth,  \* 5: kept decisive entries of this depth age
  NONE           \* Move::NONE, and the key of an entry never written

ASSUME TableAssumption ==
  /\ CLUSTER_SIZE \in Nat \ {0} /\ Generations \in Nat \ {0}
  /\ DepthSlack \in Nat /\ AgeableDepth \in Nat

DEPTH_QS == 0
DEPTH_UNSEARCHED == -2
DEPTH_NONE == -3

Slots == 1 .. CLUSTER_SIZE
EmptyEntry(none) ==
  [key |-> NONE, depth8 |-> 0, gen |-> 0, bound |-> "none", pv |-> FALSE,
   move |-> NONE, value |-> none]

is_occupied(e) == e.depth8 # 0
relative_age(e, generation) == (generation - e.gen) % Generations
Depth(e) == e.depth8 + DEPTH_NONE
IsLower(bound) == bound \in {"lower", "exact"}
IsUpper(bound) == bound \in {"upper", "exact"}

(* Is the old entry overwritten?  new: key, value, pv, bound, depth, move.  *)
PvBonus(new) == IF new.pv THEN 2 ELSE 0
Overwrites(old, new, generation) ==
  \/ new.bound = "exact" \/ new.key # old.key
  \/ new.depth - DEPTH_NONE + PvBonus(new) > old.depth8 - DepthSlack
  \/ relative_age(old, generation) # 0
(* A move is kept unless there is a new one, or another position's. *)
MoveSaved(old, new) == IF new.move # NONE \/ new.key # old.key THEN new.move ELSE old.move
penalized(e) == [e EXCEPT !.depth8 = IF @ = 0 THEN 0 ELSE @ - 1]
Ages(old, decisive) == Depth(old) >= AgeableDepth /\ old.bound # "exact" /\ decisive
saved(old, new, generation, decisive) ==
  IF Overwrites(old, new, generation)
  THEN [key |-> new.key, depth8 |-> new.depth - DEPTH_NONE, gen |-> generation, bound |-> new.bound,
        pv |-> new.pv, move |-> MoveSaved(old, new), value |-> new.value]
  ELSE IF Ages(old, decisive) THEN [penalized(old) EXCEPT !.move = MoveSaved(old, new)]
  ELSE [old EXCEPT !.move = MoveSaved(old, new)]
(* A writer saves into the slot of its probe, whatever is there by now. *)
write(cluster, slot, new, generation, decisive) ==
  [cluster EXCEPT ![slot] = saved(@, new, generation, decisive)]

(* The first entry with the key, or else the one that is worth least. *)
Matching(cluster, key) == {i \in Slots : cluster[i].key = key}
Worth(e, generation) == e.depth8 - 8 * relative_age(e, generation)
Least(cluster, generation, i) ==
  \A j \in Slots :
    \/ Worth(cluster[i], generation) < Worth(cluster[j], generation)
    \/ Worth(cluster[i], generation) = Worth(cluster[j], generation) /\ i <= j
SlotFor(cluster, key, generation) ==
  IF Matching(cluster, key) # {}
  THEN CHOOSE i \in Matching(cluster, key) : \A j \in Matching(cluster, key) : i <= j
  ELSE CHOOSE i \in Slots : Least(cluster, generation, i)
found(cluster, key, generation) ==
  Matching(cluster, key) # {} /\ is_occupied(cluster[SlotFor(cluster, key, generation)])
=============================================================================
