---------------------------- MODULE Accumulators ----------------------------
(***************************************************************************)
(* The stack of accumulators a search worker keeps beside its position     *)
(* (crates/pikarust-core/src/nnue/accumulator.rs, feature_transformer.rs;  *)
(* Worker::evaluate_pos and push_acc_for_move of search/search.rs).  Entry *)
(* k + 1 of each sequence is entry k of the Vec; entries above size are    *)
(* what earlier lines left there.                                          *)
(***************************************************************************)
EXTENDS Features

NoDiff == [kind |-> "None"]
NewEntry ==
  [acc |-> [c \in Colors |-> NoTally], computed |-> [c \in Colors |-> FALSE], diff |-> NoDiff]
NewStack(capacity) ==
  [psq |-> [i \in 1 .. capacity |-> NewEntry], threat |-> [i \in 1 .. capacity |-> NewEntry],
   size |-> 0]

(* The sums of an entry that is pushed again stay; its flags and its        *)
(* difference do not.                                                       *)
Unset_DiffOnly(e) == [e EXCEPT !.diff = NoDiff]
Unset(e) == [e EXCEPT !.computed = [c \in Colors |-> FALSE], !.diff = NoDiff]
push(st) ==
  LET top == st.size + 2
      grown(s) == IF top > Len(s) THEN Append(s, NewEntry) ELSE s
  IN  [psq |-> [grown(st.psq) EXCEPT ![top] = Unset(@)],
       threat |-> [grown(st.threat) EXCEPT ![top] = Unset(@)],
       size |-> st.size + 1]
pop(st) == [st EXCEPT !.size = @ - 1]
Top(st) == st.size + 1
(* A new search; what the old one left above the root stays. *)
reset(st) == [st EXCEPT !.size = 0, !.psq[1] = NewEntry, !.threat[1] = NewEntry]

-----------------------------------------------------------------------------
(* push_acc_for_move: which sides the move makes the half-KA sums useless   *)
(* for, the move itself, and the differences it leaves on the stack.        *)

BucketAfterCapture(p, them, captured) ==
  AttackBucket(count_type(p, them, "rook") - (IF Type(captured) = "rook" THEN 1 ELSE 0),
               count_type(p, them, "knight") + count_type(p, them, "cannon")
                 - (IF Type(captured) \in {"knight", "cannon"} THEN 1 ELSE 0))
RefreshSides(p, m, after) ==
  LET them == Other(p.side_to_move)
      captured == piece_on(p, To(m))
  IN  [c \in Colors |->
         \/ Type(piece_on(p, From(m))) = "king"
         \/ /\ c = them /\ Type(captured) \in {"rook", "knight", "cannon"}
            /\ BucketAfterCapture(p, them, captured) # make_attack_bucket(p, them)
         \/ Mirror(p, c) # Mirror(after, c)]

PieceOfMove(p, m, after) ==
  [kind |-> "DirtyPiece", pc |-> piece_on(p, From(m)), from |-> From(m), to |-> To(m),
   captured |-> piece_on(p, To(m)), requires_refresh |-> RefreshSides(p, m, after)]
set_psq_diff(st, dirty) == [st EXCEPT !.psq[Top(st)].diff = dirty]
set_threat_diff(st, dirty) == [st EXCEPT !.threat[Top(st)].diff = dirty]
push_acc_for_move(p, st, m) ==
  LET after == Moved(p, m)
      noted == set_psq_diff(push(st), PieceOfMove(p, m, after))
  IN  set_threat_diff(noted, ThreatsOfMove(p, m, after))

-----------------------------------------------------------------------------
(* Evaluation.                                                              *)

FreshPsq(p, c) == Adjust(NoTally, append_active_indices(p, c), {})
FreshThreats(p, c) == TallyOf(threat_active_indices(p, c))
Computed(e) == e.computed[White] /\ e.computed[Black]
Evaluated(e, sums) == [e EXCEPT !.acc = sums, !.computed = [c \in Colors |-> TRUE]]

update_psq_accumulator_incremental(p, prev, dirty) ==
  [c \in Colors |->
     IF dirty.requires_refresh[c] \/ ~prev.computed[c] THEN FreshPsq(p, c)
     ELSE Adjust(prev.acc[c], append_changed_indices(p, c, dirty, TRUE),
                 append_changed_indices(p, c, dirty, FALSE))]

evaluate_pos(p, st) ==
  LET top == Top(st)
      current == st.psq[top]
      prev == st.psq[top - 1]
      sums == IF st.size > 0 /\ Computed(prev) /\ current.diff.kind = "DirtyPiece"
              THEN update_psq_accumulator_incremental(p, prev, current.diff)
              ELSE [c \in Colors |-> FreshPsq(p, c)]
  IN  [st EXCEPT !.psq[top] = IF Computed(@) THEN @ ELSE Evaluated(@, sums),
                 !.threat[top] = IF Computed(@) THEN @
                                 ELSE Evaluated(@, [c \in Colors |-> FreshThreats(p, c)])]

(* The lazy evaluation of the threats of one side: from the last entry that *)
(* is computed forward to the top, or from the top, computed afresh, back   *)
(* to the last entry whose sums the later differences still fit.            *)
Step(c, mirror, e, base, diff, forward) ==
  IF diff.kind = "DirtyThreats"
  THEN [e EXCEPT !.acc[c] = Adjust(base.acc[c], threat_changed_indices(c, mirror, diff, forward),
                                   threat_changed_indices(c, mirror, diff, ~forward)),
                 !.computed[c] = TRUE]
  ELSE e

Usable(e, c) == e.computed[c] \/ (e.diff.kind = "DirtyThreats" /\ e.diff.requires_refresh[c])
LastUsable(s, top, c) ==
  CHOOSE i \in 1 .. top : /\ i = 1 \/ Usable(s[i], c)
                          /\ \A j \in i + 1 .. top : ~Usable(s[j], c)
ThreatEntries(p, s, top, c, mirror, last) ==
  LET forward[i \in last .. top] ==
        IF i = last THEN s[i] ELSE Step(c, mirror, s[i], forward[i - 1], s[i].diff, TRUE)
      backward[k \in 0 .. top - last] ==
        IF k = 0 THEN [s[top] EXCEPT !.acc[c] = FreshThreats(p, c), !.computed[c] = TRUE]
        ELSE Step(c, mirror, s[top - k], backward[k - 1], s[top - k + 1].diff, FALSE)
  IN  [i \in DOMAIN s |-> IF i \notin last .. top THEN s[i]
                          ELSE IF s[last].computed[c] THEN forward[i] ELSE backward[top - i]]
evaluate_threat_side(p, st, c) ==
  LET top == Top(st)
  IN  [st EXCEPT !.threat = ThreatEntries(p, @, top, c, Mirror(p, c), LastUsable(@, top, c))]
=============================================================================
