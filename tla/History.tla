------------------------------ MODULE History ------------------------------
(***************************************************************************)
(* The histories (pikarust-core/src/search/history.rs, history_update.rs):  *)
(* what the workers of a pool learn about moves.  The continuation history, *)
(* of a move after another, is read and written by all workers without a    *)
(* lock; an update loads an entry and stores it again, two relaxed          *)
(* operations with anything in between, and a worker rebuilt after a panic  *)
(* fills the table anew while its siblings still search (thread.rs).  The   *)
(* other tables a worker has for itself.                                    *)
(*                                                                          *)
(* The state is that of one shared entry, which a chain of updates may meet *)
(* at several of the offsets it looks back, and of one entry of any one of  *)
(* the tables that one worker, Owner, has for itself; entries do not affect *)
(* each other otherwise.                                                    *)
(*                                                                          *)
(* An operator Name_Change is a variant of Name with a plausible bug, which *)
(* a property must notice; no specification uses one.                       *)
(***************************************************************************)
EXTENDS Integers

CONSTANTS
  Workers, Owner,             \* Owner: the worker whose own entry is looked at
  Limit,       \* CONTINUATION_HISTORY_LIMIT (30000)
  Reach,       \* how many offsets an update looks back (6, or 2 in check)
  FirstBonus,  \* added at the first offset (83)
  Bonuses,     \* the bonuses and penalties the search hands in
  Width,       \* half the number of values of an i32 (2^31): products wrap
  Cleared,     \* what clearing fills the table with (-440)
  TableLimits, TableCleared,  \* the same of a worker's own tables
  Fresh        \* what a search fills the low-ply table with (99)

Tables == {"main", "lowPly", "capture", "pawn", "ttMove", "correction", "contCorrection"}

\* What the theorems assume of the constants.
WellFormed ==
  /\ Owner \in Workers
  /\ Limit \in Nat \ {0} /\ Reach \in 1..6 /\ FirstBonus \in Int /\ Bonuses \subseteq Int
  /\ Width \in Nat \ {0} /\ Cleared \in (-Limit)..Limit
  /\ TableLimits \in [Tables -> Nat \ {0}]
  /\ \A t \in Tables : TableCleared[t] \in (-TableLimits[t])..TableLimits[t]
  /\ Fresh \in 0..TableLimits["lowPly"]

VARIABLES
  entry,   \* the shared entry
  update,  \* per worker: the update it is in the middle of
  own      \* the entry of Owner's: its table and value
vars == <<entry, update, own>>

Values == (-Limit)..Limit

-----------------------------------------------------------------------------
\* Rust's division, towards zero, by a positive number.
Quotient(a, b) == IF a < 0 THEN -((-a) \div b) ELSE a \div b
Abs(x) == IF x < 0 THEN -x ELSE x
Clamp(x, limit) == IF x < -limit THEN -limit ELSE IF x > limit THEN limit ELSE x
Cut(x) == ((x + Width) % (2 * Width)) - Width

\* The bonus, less what the entry has already: it cannot leave its limits.
update_entry(value, bonus, limit) ==
  value + Clamp(bonus, limit) - Quotient(value * Abs(Clamp(bonus, limit)), limit)

CONTHIST_BONUSES == <<538, 319, 146, 260, 64, 221>>
CMHC_MULTIPLIERS == <<98, 100, 101, 100, 116, 119, 129>>
adjusted_bonus(bonus, i, positive) ==
  Quotient(Cut(bonus * CONTHIST_BONUSES[i] * CMHC_MULTIPLIERS[positive + 1]), 65536)
    + (IF i < 2 THEN FirstBonus ELSE 0)

\* What the correction histories move the static evaluation of a position by,
\* in 1/131072: of: the entries its keys lead to; after: those its last move
\* leads to, after the moves 2, 4 and 6 plies back, or <<>> before any move.
correction_value(of, after) ==
  4136 * of.pawn + 3448 * of.minor + 7512 * (of.white + of.black)
    + (IF after = <<>> THEN 90287 ELSE 8006 * (after[1] + after[2]) + 6403 * after[3])

-----------------------------------------------------------------------------
\* at: the offset reached.  step: what comes next there: "get" looks whether
\* the entry is positive, "load" and "store" are PieceToHistory::update.
Idle == [step |-> "idle", at |-> 1, bonus |-> 0, positive |-> 0, value |-> 0]

ClearedOwn(t) == [table |-> t, value |-> TableCleared[t]]

Init ==
  /\ entry = Cleared /\ update = [w \in Workers |-> Idle]
  /\ \E t \in Tables : own = ClearedOwn(t)

\* update_continuation_histories begins: quiet moves, refuted moves, a move
\* that was searched again.
Begin(w) ==
  /\ update[w].step = "idle"
  /\ \E b \in Bonuses : update' = [update EXCEPT ![w] = [Idle EXCEPT !.step = "get", !.bonus = b]]
  /\ UNCHANGED <<entry, own>>

\* The next offset, or the end.
Onward(u) == IF u.at < Reach THEN [u EXCEPT !.at = @ + 1, !.step = "get", !.value = 0] ELSE Idle

\* No move was made that many plies ago, or it leads to another entry; the
\* latter counts if it is positive.
Elsewhere(w) ==
  /\ update[w].step = "get"
  /\ \E p \in {update[w].positive, update[w].positive + 1} :
       update' = [update EXCEPT ![w] = Onward([@ EXCEPT !.positive = p])]
  /\ UNCHANGED <<entry, own>>

Get(w) ==
  /\ update[w].step = "get"
  /\ update' = [update EXCEPT ![w].step = "load", ![w].positive = IF entry > 0 THEN @ + 1 ELSE @]
  /\ UNCHANGED <<entry, own>>

Load(w) ==
  /\ update[w].step = "load"
  /\ update' = [update EXCEPT ![w].step = "store", ![w].value = entry]
  /\ UNCHANGED <<entry, own>>

\* Whatever has become of the entry since it was loaded is overwritten.
Computed(u) == update_entry(u.value, adjusted_bonus(u.bonus, u.at, u.positive), Limit)
Stored_Added(u, e) == e + (Computed(u) - u.value)
Stored(u, e) == Computed(u)
Store(w) ==
  /\ update[w].step = "store"
  /\ entry' = Stored(update[w], entry)
  /\ update' = [update EXCEPT ![w] = Onward(@)]
  /\ UNCHANGED own

\* Worker::clear of the worker that replaces w, whose search has panicked:
\* its update, if it was in one, is gone, and so is what it knew.
Recover(w) ==
  /\ entry' = Cleared
  /\ update' = [update EXCEPT ![w] = Idle]
  /\ own' = IF w = Owner THEN ClearedOwn(own.table) ELSE own

-----------------------------------------------------------------------------
(***************************************************************************)
(* The tables of Owner, which it updates before and after, never within, an *)
(* update of the shared one.  A bonus is weighted differently for each.     *)
(***************************************************************************)
Own(bonus) ==
  /\ own' = [own EXCEPT !.value = update_entry(@, bonus, TableLimits[own.table])]
  /\ UNCHANGED <<entry, update>>

\* A quiet move; its share of the continuation history is a Begin.
update_quiet_histories(b) ==
  \/ own.table = "main" /\ Own(b)
  \/ own.table = "lowPly" /\ Own(Quotient(b * 700, 1024))
  \/ own.table = "pawn" /\ Own(Quotient(b * (IF b > -7 THEN 913 ELSE 561), 1024))
\* The best move if it captures, and the captures that were refuted.
update_captures(b) ==
  own.table = "capture" /\ \E share \in {1469, 1467} : Own(Quotient(b * share, 1024))
\* The parent's move, for what it has led to.
update_parent(b) == own.table \in {"main", "pawn", "capture"} /\ Own(b)
update_tt_move(b) == own.table = "ttMove" /\ Own(b)
update_correction_history(b) ==
  \/ own.table = "correction" /\ \E share \in {128, 146, 125} : Own(Quotient(b * share, 128))
  \/ own.table = "contCorrection" /\ \E share \in {131, 63, 35} : Own(Quotient(b * share, 128))

\* What iterative_deepening does to the tables before its first iteration.
scale(value, num, den) == Quotient(value * num, den)
Age ==
  /\ \/ own.table = "lowPly" /\ own' = [own EXCEPT !.value = Fresh]
     \/ own.table = "main" /\ own' = [own EXCEPT !.value = scale(@, 747, 1024)]
  /\ UNCHANGED <<entry, update>>

LearnOwn ==
  /\ update[Owner].step = "idle"
  /\ \/ Age
     \/ \E b \in Bonuses :
          \/ update_quiet_histories(b) \/ update_captures(b) \/ update_parent(b)
          \/ update_tt_move(b) \/ update_correction_history(b)

Next ==
  \/ \E w \in Workers :
       Begin(w) \/ Elsewhere(w) \/ Get(w) \/ Load(w) \/ Store(w) \/ Recover(w)
  \/ LearnOwn

Spec == Init /\ [][Next]_vars

-----------------------------------------------------------------------------
Updates ==
  [step : {"idle", "get", "load", "store"}, at : 1..Reach, bonus : Bonuses \cup {0}, positive : 0..6,
   value : Values]
TypeOK ==
  /\ entry \in Values /\ update \in [Workers -> Updates]
  /\ own \in [table : Tables, value : Int]

\* No entry leaves the limits of its table.  The shared one does not,
\* whatever is loaded, stored and cleared in between, and although the
\* products the bonuses are weighted with may wrap: the search adds several
\* entries and multiplies them, and a 16-bit entry beyond its limit would
\* come back with the other sign.  (update_entry, PieceToHistory::update,
\* fill, update_field.)
OwnValues == (-TableLimits[own.table])..TableLimits[own.table]
HistoriesBounded == entry \in Values /\ own.value \in OwnValues
=============================================================================
