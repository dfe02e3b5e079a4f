--------------------------- MODULE History_proofs ---------------------------
(***************************************************************************)
(* Proofs about History: for any number of workers, any limit, any bonuses, *)
(* any width of the products.                                               *)
(***************************************************************************)
EXTENDS History, TLAPS

\* What a quotient of natural numbers is.
LEMMA DivFloor ==
  ASSUME NEW x \in Nat, NEW n \in Nat \ {0}
  PROVE  /\ x \div n \in Nat
         /\ (x \div n) * n <= x
         /\ x < (x \div n) * n + n
  OBVIOUS

\* The products in the lemma below.
LEMMA ProductNat == ASSUME NEW x \in Nat, NEW y \in Nat PROVE x * y \in Nat
  OBVIOUS
LEMMA ProductMonotone ==
  ASSUME NEW x \in Int, NEW y \in Int, NEW n \in Nat, x <= y PROVE x * n <= y * n
  OBVIOUS

\* Taking w * a / n from w + a keeps it within n: (n - w) * (n - a) >= 0.
LEMMA ShareKeepsBound ==
  ASSUME NEW n \in Nat \ {0}, NEW w \in 0..n, NEW a \in 0..n
  PROVE  (w * a) \div n \in 0..w /\ w + a - ((w * a) \div n) <= n
<1> DEFINE q == (w * a) \div n
<1>1. w * a \in Nat
  BY ProductNat
<1>2. q \in Nat /\ q * n <= w * a /\ w * a < q * n + n
  BY <1>1, DivFloor
<1> HIDE DEF q
<1>3. q <= w
  <2>1. SUFFICES ASSUME w + 1 <= q PROVE FALSE
    BY <1>2
  <2>2. (w + 1) * n <= q * n
    BY <1>2, <2>1, ProductMonotone
  <2>3. a * w <= n * w
    BY ProductMonotone
  <2> QED
    BY <1>2, <2>2, <2>3
<1>4. w + a - q <= n
  <2>1. SUFFICES ASSUME q <= w + a - n - 1 PROVE FALSE
    BY <1>2
  <2>2. q * n <= (w + a - n - 1) * n
    BY <1>2, <2>1, ProductMonotone
  <2>3. w * a < (w + a - n) * n
    BY <1>2, <2>2
  <2>4. (n - w) * (n - a) \in Nat
    BY ProductNat
  <2> QED
    BY <2>3, <2>4
<1> QED
  BY <1>2, <1>3, <1>4 DEF q

\* An updated entry is within its limit again, whatever the bonus: every
\* table, private or shared, and its limit.
LEMMA UpdateKeepsBound ==
  ASSUME NEW limit \in Nat \ {0}, NEW v \in (-limit)..limit, NEW bonus \in Int
  PROVE  update_entry(v, bonus, limit) \in (-limit)..limit
<1> DEFINE c == Clamp(bonus, limit)
           a == Abs(c)
<1>1. c \in (-limit)..limit
  BY DEF Clamp
<1>2. update_entry(v, bonus, limit) = v + c - Quotient(v * a, limit)
  BY DEF update_entry
<1> HIDE DEF c
<1>3. a \in 0..limit /\ c \in (-a)..a
  BY <1>1 DEF Abs
<1> HIDE DEF a
<1>4. CASE v >= 0
  <2>1. v \in 0..limit
    BY <1>4
  <2>2. v * a \in Nat
    BY <1>3, <2>1, ProductNat
  <2>3. Quotient(v * a, limit) = (v * a) \div limit
    BY <2>2 DEF Quotient
  <2>4. (v * a) \div limit \in 0..v /\ v + a - ((v * a) \div limit) <= limit
    BY <1>3, <2>1, ShareKeepsBound
  <2> QED
    BY <1>1, <1>2, <1>3, <2>1, <2>3, <2>4
<1>5. CASE v < 0
  <2> DEFINE w == -v
             q == (w * a) \div limit
  <2>1. w \in 0..limit
    BY <1>5
  <2>2. q \in 0..w /\ w + a - q <= limit
    BY <1>3, <2>1, ShareKeepsBound
  <2>3. Quotient(v * a, limit) = -q
    <3>1. v * a = -(w * a)
      BY <1>3
    <3>2. w * a \in Nat
      BY <1>3, <2>1, ProductNat
    <3>3. CASE w * a = 0
      <4>1. v * a = 0
        BY <3>1, <3>3
      <4>2. 0 \div limit = 0
        OBVIOUS
      <4> QED
        BY <3>3, <4>1, <4>2 DEF Quotient
    <3>4. CASE w * a # 0
      <4>1. v * a < 0 /\ -(v * a) = w * a
        BY <1>3, <3>1, <3>2, <3>4
      <4> QED
        BY <4>1 DEF Quotient
    <3> QED
      BY <3>3, <3>4
  <2> HIDE DEF q
  <2> QED
    BY <1>1, <1>2, <1>3, <2>1, <2>2, <2>3
<1> QED
  BY <1>4, <1>5

-----------------------------------------------------------------------------
\* Every number an update can hold in the middle.
Chains ==
  [step : {"idle", "get", "load", "store"}, at : 1..Reach, bonus : Int, positive : 0..6, value : Values]
InOrder(u) == u.positive <= u.at /\ (u.step = "get" => u.positive < u.at)

\* The entries and all that has been loaded of the shared one are within the
\* limit, and an update has not counted more positive entries than it has
\* looked at.
OwnInv == own \in [table : Tables, value : Int] /\ own.value \in OwnValues
HistoryInv ==
  /\ entry \in Values
  /\ OwnInv
  /\ update \in [Workers -> Chains]
  /\ \A w \in Workers : InOrder(update[w])

\* A product cut to its width, and what is made of it, are integers.
LEMMA AdjustedIsInt ==
  ASSUME WellFormed, NEW b \in Int, NEW i \in 1..6, NEW n \in 0..6 PROVE adjusted_bonus(b, i, n) \in Int
<1> DEFINE product == b * CONTHIST_BONUSES[i] * CMHC_MULTIPLIERS[n + 1]
<1>1. CONTHIST_BONUSES[i] \in Int /\ CMHC_MULTIPLIERS[n + 1] \in Int
  BY DEF CONTHIST_BONUSES, CMHC_MULTIPLIERS
<1>2. product \in Int
  BY <1>1
<1>3. 2 * Width \in Nat \ {0}
  BY DEF WellFormed
<1> HIDE DEF product
<1>4. Cut(product) \in Int
  BY <1>2, <1>3 DEF Cut, WellFormed
<1>5. \A x \in Int : Quotient(x, 65536) \in Int
  BY DEF Quotient
<1> QED
  BY <1>4, <1>5 DEF adjusted_bonus, product, WellFormed

LEMMA IdleIsChain == ASSUME WellFormed PROVE Idle \in Chains /\ InOrder(Idle) /\ Idle.positive < Idle.at
<1>1. 0 \in Values /\ 1 \in 1..Reach
  BY DEF WellFormed, Values
<1> QED
  BY <1>1 DEF Idle, Chains, InOrder

LEMMA OnwardIsChain ==
  ASSUME WellFormed, NEW u \in Chains, u.positive <= u.at
  PROVE  Onward(u) \in Chains /\ InOrder(Onward(u))
<1>1. Reach \in 1..6 /\ 0 \in Values
  BY DEF WellFormed, Values
<1>2. CASE u.at < Reach
  <2>1. Onward(u) = [u EXCEPT !.at = u.at + 1, !.step = "get", !.value = 0]
    BY <1>2 DEF Onward
  <2>2. u.at + 1 \in 1..Reach /\ u.positive < u.at + 1 /\ u.positive <= u.at + 1
    BY <1>1, <1>2 DEF Chains
  <2>3. Onward(u) \in Chains
    BY <1>1, <2>1, <2>2 DEF Chains
  <2>4. Onward(u).at = u.at + 1 /\ Onward(u).positive = u.positive
    BY <2>1 DEF Chains
  <2> QED
    BY <2>2, <2>3, <2>4 DEF InOrder
<1>3. CASE ~(u.at < Reach)
  BY <1>1, <1>3, IdleIsChain DEF Onward
<1> QED
  BY <1>2, <1>3

-----------------------------------------------------------------------------
\* An entry that has been filled anew is within the limit of its table.
LEMMA ClearedKeepsBound ==
  ASSUME WellFormed, NEW t \in Tables, own' = ClearedOwn(t) PROVE OwnInv'
<1>1. TableCleared[t] \in (-TableLimits[t])..TableLimits[t] /\ TableLimits[t] \in Nat \ {0}
  BY DEF WellFormed
<1> QED
  BY <1>1 DEF ClearedOwn, OwnInv, OwnValues

\* A share of a bonus is a number.
LEMMA QuotientIsInt ==
  ASSUME NEW a \in Int, NEW b \in Nat \ {0} PROVE Quotient(a, b) \in Int
  BY DEF Quotient

\* An update of an entry of Owner's, whatever the bonus.
LEMMA OwnKeepsBound ==
  ASSUME WellFormed, OwnInv, NEW b \in Int, Own(b) PROVE OwnInv'
<1>1. own.table \in Tables /\ TableLimits[own.table] \in Nat \ {0}
  BY DEF OwnInv, WellFormed
<1>2. own.value \in (-TableLimits[own.table])..TableLimits[own.table]
  BY DEF OwnInv, OwnValues
<1> DEFINE v == update_entry(own.value, b, TableLimits[own.table])
<1>3. v \in (-TableLimits[own.table])..TableLimits[own.table]
  BY <1>1, <1>2, UpdateKeepsBound
<1>4. own' = [own EXCEPT !.value = v]
  BY DEF Own
<1> HIDE DEF v
<1>5. own'.table = own.table /\ own'.value = v /\ own' \in [table : Tables, value : Int]
  BY <1>1, <1>3, <1>4 DEF OwnInv
<1> QED
  BY <1>3, <1>5 DEF OwnInv, OwnValues

\* Ageing takes an entry towards zero.
LEMMA ScaleKeepsBound ==
  ASSUME NEW n \in Nat, NEW v \in (-n)..n PROVE scale(v, 747, 1024) \in (-n)..n
  BY DEF scale, Quotient

LEMMA LearnOwnKeeps ==
  ASSUME WellFormed, OwnInv, LearnOwn PROVE OwnInv' /\ UNCHANGED <<entry, update>>
<1>1. CASE Age
  <2>1. TableLimits[own.table] \in Nat \ {0} /\ Fresh \in 0..TableLimits["lowPly"]
    BY DEF OwnInv, WellFormed
  <2>2. CASE own.table = "lowPly" /\ own' = [own EXCEPT !.value = Fresh]
    <3>1. own'.table = own.table /\ own'.value = Fresh /\ own' \in [table : Tables, value : Int]
      BY <2>1, <2>2 DEF OwnInv
    <3> QED
      BY <1>1, <2>1, <2>2, <3>1 DEF Age, OwnInv, OwnValues
  <2>3. CASE own.table = "main" /\ own' = [own EXCEPT !.value = scale(@, 747, 1024)]
    <3> DEFINE v == scale(own.value, 747, 1024)
    <3>1. v \in OwnValues
      BY <2>1, ScaleKeepsBound DEF OwnInv, OwnValues
    <3> HIDE DEF v
    <3>2. own' = [own EXCEPT !.value = v]
      BY <2>3 DEF v
    <3>3. own'.table = own.table /\ own'.value = v /\ own' \in [table : Tables, value : Int]
      BY <2>1, <3>1, <3>2 DEF OwnInv, OwnValues
    <3> QED
      BY <1>1, <3>1, <3>3 DEF Age, OwnInv, OwnValues
  <2> QED
    BY <1>1, <2>2, <2>3 DEF Age
<1>2. ASSUME NEW b \in Bonuses,
             update_quiet_histories(b) \/ update_captures(b) \/ update_parent(b)
               \/ update_tt_move(b) \/ update_correction_history(b)
      PROVE  OwnInv' /\ UNCHANGED <<entry, update>>
  <2>1. b \in Int
    BY DEF WellFormed
  <2>2. \A n \in Int : Quotient(b * n, 1024) \in Int /\ Quotient(b * n, 128) \in Int
    BY <2>1, QuotientIsInt
  <2>3. PICK c \in Int : Own(c)
    <3>1. CASE update_quiet_histories(b)
      BY <2>1, <2>2, <3>1 DEF update_quiet_histories
    <3>2. CASE update_captures(b)
      BY <2>2, <3>2 DEF update_captures
    <3>3. CASE update_correction_history(b)
      BY <2>2, <3>3 DEF update_correction_history
    <3>4. CASE update_parent(b) \/ update_tt_move(b)
      BY <2>1, <3>4 DEF update_parent, update_tt_move
    <3> QED
      BY <1>2, <3>1, <3>2, <3>3, <3>4
  <2> QED
    BY <2>3, OwnKeepsBound DEF Own
<1> QED
  BY <1>1, <1>2 DEF LearnOwn

LEMMA HistoryInit == ASSUME WellFormed, Init PROVE HistoryInv
<1>1. PICK t \in Tables : own = ClearedOwn(t)
  BY DEF Init
<1>2. TableCleared[t] \in (-TableLimits[t])..TableLimits[t] /\ TableLimits[t] \in Nat \ {0}
  BY DEF WellFormed
<1>3. OwnInv
  BY <1>1, <1>2 DEF ClearedOwn, OwnInv, OwnValues
<1> QED
  BY <1>3, IdleIsChain DEF WellFormed, Init, HistoryInv, Values

LEMMA HistoryStep == ASSUME WellFormed, HistoryInv, [Next]_vars PROVE HistoryInv'
<1>0. UNCHANGED own => OwnInv'
  BY DEF HistoryInv, OwnInv, OwnValues
<1>1. ASSUME NEW w \in Workers, Begin(w) PROVE HistoryInv'
  <2>1. PICK b \in Bonuses : update' = [update EXCEPT ![w] = [Idle EXCEPT !.step = "get", !.bonus = b]]
    BY <1>1 DEF Begin
  <2> DEFINE u == [Idle EXCEPT !.step = "get", !.bonus = b]
  <2>2. b \in Int
    BY DEF WellFormed
  <2>3. u \in Chains /\ InOrder(u)
    BY <2>2, IdleIsChain DEF Chains, InOrder
  <2>4. update' = [update EXCEPT ![w] = u]
    BY <2>1
  <2> HIDE DEF u
  <2> QED
    BY <1>0, <1>1, <2>3, <2>4 DEF Begin, HistoryInv
<1>2. ASSUME NEW w \in Workers, Elsewhere(w) PROVE HistoryInv'
  <2>1. PICK p \in {update[w].positive, update[w].positive + 1} :
          update' = [update EXCEPT ![w] = Onward([@ EXCEPT !.positive = p])]
    BY <1>2 DEF Elsewhere
  <2> DEFINE u == [update[w] EXCEPT !.positive = p]
  <2>2. u \in Chains /\ u.positive <= u.at
    BY <1>2, <2>1 DEF Elsewhere, HistoryInv, InOrder, Chains, WellFormed
  <2>3. Onward(u) \in Chains /\ InOrder(Onward(u))
    BY <2>2, OnwardIsChain
  <2>4. update' = [update EXCEPT ![w] = Onward(u)]
    BY <2>1
  <2> HIDE DEF u
  <2> QED
    BY <1>0, <1>2, <2>3, <2>4 DEF Elsewhere, HistoryInv
<1>3. ASSUME NEW w \in Workers, Get(w) PROVE HistoryInv'
  <2> DEFINE p == IF entry > 0 THEN update[w].positive + 1 ELSE update[w].positive
             u == [update[w] EXCEPT !.step = "load", !.positive = p]
  <2>1. update[w] \in Chains /\ update[w].positive < update[w].at
    BY <1>3 DEF Get, HistoryInv, InOrder
  <2>2. p \in 0..6 /\ p <= update[w].at
    BY <2>1 DEF Chains, WellFormed
  <2>3. update' = [update EXCEPT ![w] = u]
    BY <1>3 DEF Get
  <2> HIDE DEF p
  <2>4. u \in Chains /\ InOrder(u)
    BY <2>1, <2>2 DEF Chains, InOrder
  <2> HIDE DEF u
  <2> QED
    BY <1>0, <1>3, <2>3, <2>4 DEF Get, HistoryInv
<1>4. ASSUME NEW w \in Workers, Load(w) PROVE HistoryInv'
  <2> DEFINE u == [update[w] EXCEPT !.step = "store", !.value = entry]
  <2>1. u \in Chains /\ InOrder(u)
    BY DEF HistoryInv, Chains, InOrder
  <2>2. update' = [update EXCEPT ![w] = u]
    BY <1>4 DEF Load
  <2> HIDE DEF u
  <2> QED
    BY <1>0, <1>4, <2>1, <2>2 DEF Load, HistoryInv
<1>5. ASSUME NEW w \in Workers, Store(w) PROVE HistoryInv'
  <2> DEFINE u == update[w]
             bonus == adjusted_bonus(u.bonus, u.at, u.positive)
  <2>1. u \in Chains /\ u.positive <= u.at
    BY DEF HistoryInv, InOrder
  <2>2. bonus \in Int
    <3>1. u.bonus \in Int /\ u.at \in 1..6 /\ u.positive \in 0..6
      BY <2>1 DEF Chains, WellFormed
    <3> QED
      BY <3>1, AdjustedIsInt
  <2>3. entry' = update_entry(u.value, bonus, Limit)
    BY <1>5 DEF Store, Stored, Computed
  <2>4. u.value \in (-Limit)..Limit
    BY <2>1 DEF Chains, Values
  <2> HIDE DEF bonus
  <2>5. entry' \in Values
    BY <2>2, <2>3, <2>4, UpdateKeepsBound DEF WellFormed, Values
  <2>6. Onward(u) \in Chains /\ InOrder(Onward(u))
    BY <2>1, OnwardIsChain
  <2>7. update' = [update EXCEPT ![w] = Onward(u)]
    BY <1>5 DEF Store
  <2> HIDE DEF u
  <2> QED
    BY <1>0, <1>5, <2>5, <2>6, <2>7 DEF Store, HistoryInv
<1>6. ASSUME NEW w \in Workers, Recover(w) PROVE HistoryInv'
  <2>1. OwnInv'
    BY <1>0, <1>6, ClearedKeepsBound DEF Recover, HistoryInv, OwnInv
  <2> QED
    BY <1>6, <2>1, IdleIsChain DEF Recover, HistoryInv, WellFormed, Values
<1>7. CASE LearnOwn
  BY <1>7, LearnOwnKeeps DEF HistoryInv
<1>8. CASE UNCHANGED vars
  BY <1>0, <1>8 DEF vars, HistoryInv
<1> QED
  BY <1>1, <1>2, <1>3, <1>4, <1>5, <1>6, <1>7, <1>8 DEF Next

\* The shared entry keeps within its limits for any number of workers that
\* update, clear and overwrite it as they like, and so do those of a worker's
\* own tables, for any limits and any bonuses the search hands in, products
\* that wrap included.  (update_entry and its callers.)
THEOREM HistoriesStayBounded == ASSUME WellFormed PROVE Spec => []HistoriesBounded
<1>1. Init => HistoryInv
  BY HistoryInit
<1>2. HistoryInv /\ [Next]_vars => HistoryInv'
  BY HistoryStep
<1>3. HistoryInv => HistoriesBounded
  BY DEF HistoryInv, OwnInv, HistoriesBounded
<1> QED
  BY <1>1, <1>2, <1>3, PTL DEF Spec

-----------------------------------------------------------------------------
\* What the correction entries move the static evaluation by is in proportion
\* to their limit, whatever they have learnt: with entries of at most 1024 it
\* fits an i32 forty times, and is less than 352 points.  (correction_value,
\* to_corrected_static_eval.)
THEOREM CorrectionBounded ==
  ASSUME NEW n \in Nat,
         NEW of \in [{"pawn", "minor", "white", "black"} -> (-n)..n],
         NEW after \in {<<>>} \cup [1..3 -> (-n)..n]
  PROVE  correction_value(of, after) \in (-45023 * n)..(45023 * n + 90287)
<1> DEFINE keys == 4136 * of["pawn"] + 3448 * of["minor"] + 7512 * (of["white"] + of["black"])
           moves == IF after = <<>> THEN 90287 ELSE 8006 * (after[1] + after[2]) + 6403 * after[3]
<1>1. keys \in (-22608 * n)..(22608 * n)
  <2>1. of["pawn"] \in (-n)..n /\ of["minor"] \in (-n)..n /\ of["white"] \in (-n)..n /\ of["black"] \in (-n)..n
    OBVIOUS
  <2> DEFINE p == of["pawn"]
             m == of["minor"]
             w == of["white"]
             b == of["black"]
  <2>2. p \in (-n)..n /\ m \in (-n)..n /\ w \in (-n)..n /\ b \in (-n)..n
    BY <2>1
  <2> HIDE DEF p, m, w, b
  <2>3. 4136 * p + 3448 * m + 7512 * (w + b) \in (-22608 * n)..(22608 * n)
    BY <2>2
  <2> QED
    BY <2>3 DEF p, m, w, b
<1>2. moves \in (-22415 * n)..(22415 * n + 90287)
  <2>1. CASE after = <<>>
    <3>1. moves = 90287
      BY <2>1
    <3> HIDE DEF moves
    <3> QED
      BY <3>1
  <2>2. CASE after # <<>>
    <3> DEFINE x == after[1]
               y == after[2]
               z == after[3]
    <3>1. x \in (-n)..n /\ y \in (-n)..n /\ z \in (-n)..n
      BY <2>2
    <3>2. moves = 8006 * (x + y) + 6403 * z
      BY <2>2
    <3> HIDE DEF x, y, z, moves
    <3> QED
      BY <3>1, <3>2
  <2> QED
    BY <2>1, <2>2
<1>3. correction_value(of, after) = keys + moves
  BY DEF correction_value
<1> HIDE DEF keys, moves
<1> QED
  BY <1>1, <1>2, <1>3
=============================================================================
