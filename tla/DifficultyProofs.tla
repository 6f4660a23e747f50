-------------------------- MODULE DifficultyProofs --------------------------
(***************************************************************************)
(* The properties of module Difficulty, for every interval, factor,        *)
(* spacing, maximum and compact form that meet its assumptions, and for    *)
(* every branch: the bounds MaxTime, MaxLevel and MaxImports are arbitrary.*)
(***************************************************************************)
EXTENDS Difficulty, Recursion

(* The walk of work_required_testnet stops at the least of its stops. *)
LEMMA FirstIsLeast ==
  ASSUME NEW S \in SUBSET Nat, S # {}
  PROVE  First(S) \in S /\ \A j \in S : First(S) <= j
BY Zenon, LeastNat DEF First

(* Multiplication keeps the order. *)
LEMMA MulMono ==
  ASSUME NEW a \in Nat, NEW b \in Nat, NEW c \in Nat, a <= b
  PROVE  a * c \in Nat /\ b * c \in Nat /\ a * c <= b * c
<1>1. PICK d \in Nat : b = a + d
  BY b - a \in Nat, b = a + (b - a)
<1>2. b * c = a * c + d * c /\ d * c \in Nat /\ a * c \in Nat
  BY <1>1
<1> QED
  BY <1>2

(* What a quotient of naturals is. *)
LEMMA DivFacts ==
  ASSUME NEW a \in Nat, NEW n \in Nat \ {0}
  PROVE  /\ a \div n \in Nat
         /\ n * (a \div n) <= a
         /\ a < n * ((a \div n) + 1)
OBVIOUS

(* A quotient is at most b if what is divided is at most n times b. *)
LEMMA DivAtMost ==
  ASSUME NEW a \in Nat, NEW b \in Nat, NEW n \in Nat \ {0}, a <= n * b
  PROVE  a \div n <= b
<1> DEFINE q == a \div n
<1>1. q \in Nat /\ n * q <= a
  BY Zenon, DivFacts
<1>2. ASSUME q >= b + 1 PROVE FALSE
  <2>1. (b + 1) * n <= q * n
    BY <1>1, <1>2, MulMono
  <2>2. (b + 1) * n = n * b + n /\ q * n = n * q
    BY <1>1
  <2> QED
    BY <1>1, <2>1, <2>2
<1> QED
  BY <1>1, <1>2

(* And at least b if it is at least n times b. *)
LEMMA DivAtLeast ==
  ASSUME NEW a \in Nat, NEW b \in Nat, NEW n \in Nat \ {0}, n * b <= a
  PROVE  b <= a \div n
<1> DEFINE q == a \div n
<1>1. q \in Nat /\ a < n * (q + 1)
  BY Zenon, DivFacts
<1>2. ASSUME q + 1 <= b PROVE FALSE
  <2>1. (q + 1) * n <= b * n
    BY <1>1, <1>2, MulMono
  <2>2. (q + 1) * n = n * (q + 1) /\ b * n = n * b
    BY <1>1
  <2> QED
    BY <1>1, <2>1, <2>2
<1> QED
  BY <1>1, <1>2

(* The shortest timespan is the factor's share of the intended one, the     *)
(* longest the factor's multiple.                                           *)
LEMMA Timespans ==
  /\ TARGET_TIMESPAN_SECONDS \in Nat \ {0}
  /\ MIN_TIMESPAN \in Nat /\ MAX_TIMESPAN \in Nat
  /\ TARGET_TIMESPAN_SECONDS = RETARGETING_FACTOR * MIN_TIMESPAN
  /\ MIN_TIMESPAN <= TARGET_TIMESPAN_SECONDS
  /\ TARGET_TIMESPAN_SECONDS <= MAX_TIMESPAN
<1> DEFINE T == TARGET_TIMESPAN_SECONDS
           F == RETARGETING_FACTOR
<1>1. F \in Nat \ {0} /\ T % F = 0
  BY Zenon, ConstantsAssumption
<1>2. T \in Nat \ {0}
  BY ConstantsAssumption DEF TARGET_TIMESPAN_SECONDS
<1>3. MIN_TIMESPAN \in Nat /\ T = F * MIN_TIMESPAN
  BY <1>1, <1>2 DEF MIN_TIMESPAN
<1>4. 1 * MIN_TIMESPAN <= F * MIN_TIMESPAN /\ 1 * T <= F * T /\ F * T \in Nat
  BY <1>1, <1>2, <1>3, MulMono
<1>5. MAX_TIMESPAN = F * T
  BY <1>1, <1>2 DEF MAX_TIMESPAN
<1> QED
  BY <1>2, <1>3, <1>4, <1>5

(* retarget_timespan is within the two, whatever the times. *)
LEMMA TimespanInRange ==
  ASSUME NEW s \in Nat, NEW t \in Nat
  PROVE  retarget_timespan(s, t) \in MIN_TIMESPAN .. MAX_TIMESPAN
<1> DEFINE v == t - s
<1>1. v \in Int
  OBVIOUS
<1> HIDE DEF v
<1>2. range_constrain(v, MIN_TIMESPAN, MAX_TIMESPAN) \in MIN_TIMESPAN .. MAX_TIMESPAN
  BY <1>1, Timespans DEF range_constrain
<1> QED
  BY Zenon, <1>2 DEF retarget_timespan, v

-----------------------------------------------------------------------------
(* The retarget of a target b that is within the maximum.                   *)

(* The product of work_required_retarget fits 256 bits, so that neither the *)
(* multiplication nor what follows it overflows.                            *)
LEMMA ProductFits ==
  ASSUME NEW n \in Networks, NEW b \in Nat, b <= Compact[MaxDifficulty[n]],
         NEW ts \in MIN_TIMESPAN .. MAX_TIMESPAN
  PROVE  b * ts \in Nat /\ b * ts < Limit
<1> DEFINE m == Compact[MaxDifficulty[n]]
<1>1. m \in Nat /\ m * MAX_TIMESPAN < Limit
  BY MaximumAssumption, CompactAssumption DEF Target
<1>2. ts \in Nat /\ ts <= MAX_TIMESPAN
  BY Timespans
<1>3. b * ts <= m * ts /\ b * ts \in Nat
  BY Zenon, <1>1, <1>2, MulMono
<1>4. ts * m <= MAX_TIMESPAN * m
  BY Zenon, <1>1, <1>2, Timespans, MulMono
<1>5. m * ts = ts * m /\ m * MAX_TIMESPAN = MAX_TIMESPAN * m
  BY <1>1, <1>2, Timespans
<1>6. m * ts \in Nat /\ m * MAX_TIMESPAN \in Nat /\ Limit \in Nat
  BY <1>1, <1>2, Timespans, CompactAssumption
<1> HIDE DEF m
<1> QED
  BY <1>1, <1>3, <1>4, <1>5, <1>6

(* The quotient is within the factor of b, up and down. *)
LEMMA QuotientIsBounded ==
  ASSUME NEW b \in Nat, NEW ts \in MIN_TIMESPAN .. MAX_TIMESPAN
  PROVE  LET q == (b * ts) \div TARGET_TIMESPAN_SECONDS
         IN  /\ q \in Nat
             /\ q <= b * ts
             /\ q <= RETARGETING_FACTOR * b
             /\ b \div RETARGETING_FACTOR <= q
<1> DEFINE T == TARGET_TIMESPAN_SECONDS
           F == RETARGETING_FACTOR
           M == MIN_TIMESPAN
           p == b * ts
           c == b \div F
<1>1. /\ T \in Nat \ {0} /\ F \in Nat \ {0} /\ M \in Nat /\ T = F * M
      /\ ts \in Nat /\ M <= ts /\ ts <= MAX_TIMESPAN /\ MAX_TIMESPAN = T * F
  BY Timespans, ConstantsAssumption DEF MAX_TIMESPAN
<1>2. p \in Nat /\ p = ts * b
  BY <1>1
<1>3. c \in Nat /\ F * c <= b
  BY Zenon, <1>1, DivFacts
<1> HIDE DEF T, F, M, p, c
<1>4. p \div T \in Nat
  BY Zenon, <1>1, <1>2, DivFacts
<1>5. p \div T <= p
  <2>1. 1 * p <= T * p
    BY <1>1, <1>2, MulMono
  <2> QED
    BY <1>1, <1>2, <2>1, DivAtMost
<1>6. p \div T <= F * b
  <2>1. ts * b <= (T * F) * b
    BY <1>1, MulMono
  <2>2. (T * F) * b = T * (F * b) /\ F * b \in Nat
    BY <1>1
  <2>3. p <= T * (F * b)
    BY Zenon, <1>2, <2>1, <2>2
  <2> QED
    BY Zenon, <1>1, <1>2, <2>2, <2>3, DivAtMost
<1>7. c <= p \div T
  <2>1. (F * c) * M <= b * M /\ M * b <= ts * b
    BY <1>1, <1>3, MulMono
  <2>2. (F * c) * M = T * c /\ b * M = M * b
    BY <1>1, <1>3
  <2>3. T * c <= p
    BY <1>1, <1>2, <1>3, <2>1, <2>2
  <2> QED
    BY Zenon, <1>1, <1>2, <1>3, <2>3, DivAtLeast
<1> QED
  BY Zenon, <1>4, <1>5, <1>6, <1>7 DEF T, F, p, c
-----------------------------------------------------------------------------

(* Every header of the branch is within the maximum of the network. *)
AllAccepted == \A k \in DOMAIN chain : chain[k].bits <= max_difficulty_compact

(* The inductive invariant. *)
IInv == TypeOK /\ AllAccepted /\ PeriodHasOneTarget /\ RetargetIsBounded

(* The parent of the header to come. *)
LEMMA ParentFacts ==
  ASSUME TypeOK, AllAccepted
  PROVE  /\ Level \in DOMAIN chain /\ DOMAIN chain = 1 .. Level /\ Level \in Nat \ {0}
         /\ \A k \in 1 .. Level : chain[k] \in Header /\ chain[k].bits <= max_difficulty_compact
         /\ Parent \in Header /\ Parent.bits <= max_difficulty_compact
         /\ max_difficulty_compact \in Target /\ Target \subseteq Nat
<1>1. max_difficulty_compact \in Target /\ Target \subseteq Nat
  BY CompactAssumption, MaximumAssumption DEF TypeOK, max_difficulty_compact, Target
<1> QED
  BY <1>1 DEF TypeOK, AllAccepted, Level, Parent

(* What work_required_retarget gives. *)
LEMMA RetargetFacts ==
  ASSUME TypeOK, AllAccepted, NEW s \in Nat
  PROVE  /\ RetargetProduct(s) < Limit
         /\ work_required_retarget(s) \in Target
         /\ work_required_retarget(s) <= max_difficulty_compact
         /\ work_required_retarget(s) <= RETARGETING_FACTOR * Parent.bits
         /\ work_required_retarget(s) >= Compact[Parent.bits \div RETARGETING_FACTOR]
<1> DEFINE b == Parent.bits
           ts == retarget_timespan(s, Parent.time)
           F == RETARGETING_FACTOR
           m == max_difficulty_compact
           q == (b * ts) \div TARGET_TIMESPAN_SECONDS
           c == b \div F
<1>1. b \in Nat /\ b <= m /\ Parent.time \in Nat /\ m \in Target /\ m \in Nat
  BY Zenon, ParentFacts DEF Header
<1>2. ts \in MIN_TIMESPAN .. MAX_TIMESPAN
  BY Zenon, <1>1, TimespanInRange
<1>3. b * ts \in Nat /\ b * ts < Limit
  <2> HIDE DEF b, ts
  <2> QED
    BY Zenon, <1>1, <1>2, ProductFits DEF TypeOK, max_difficulty_compact
<1>4. q \in Nat /\ q <= b * ts /\ q <= F * b /\ c <= q
  <2> HIDE DEF b, ts
  <2> QED
    BY Zenon, <1>1, <1>2, QuotientIsBounded
<1>5. Limit \in Nat /\ F \in Nat \ {0} /\ c \in Nat /\ c <= b /\ F * b \in Nat
  <2>1. Limit \in Nat /\ F \in Nat \ {0}
    BY Zenon, CompactAssumption, ConstantsAssumption
  <2>2. c \in Nat /\ F * c <= b /\ F * b \in Nat
    BY SMTT(60), <1>1, <2>1, DivFacts
  <2>3. 1 * c <= F * c
    BY <2>1, <2>2, MulMono
  <2> QED
    BY <1>1, <2>1, <2>2, <2>3
<1>6. work_required_retarget(s) = IF q > m THEN m ELSE Compact[q]
  BY Zenon DEF work_required_retarget, RetargetProduct
<1>7. RetargetProduct(s) = b * ts
  BY Zenon DEF RetargetProduct
<1> HIDE DEF b, ts, F, m, q, c
<1>8. q \in Target /\ c \in Target
  BY <1>1, <1>3, <1>4, <1>5 DEF Target
<1>9. /\ Compact[q] \in Target /\ Compact[q] \in Nat /\ Compact[q] <= q
      /\ Compact[c] \in Nat /\ Compact[c] <= c /\ Compact[c] <= Compact[q]
  BY <1>4, <1>8, CompactAssumption DEF Target
<1>10. CASE q > m
  BY <1>1, <1>3, <1>4, <1>5, <1>6, <1>7, <1>9, <1>10 DEF b, F, m, c
<1>11. CASE ~(q > m)
  BY <1>1, <1>3, <1>4, <1>5, <1>6, <1>7, <1>9, <1>11 DEF b, F, m, c
<1> QED
  BY Zenon, <1>10, <1>11

(* Where the walk of work_required_testnet stops is a header of the branch, *)
(* and none above it stops it.                                              *)
LEMMA WalkFacts ==
  ASSUME TypeOK, AllAccepted, NEW h, h = Level + 1, Stops(h) # {}
  PROVE  \E p \in 1 .. Level :
           /\ Back(First(Stops(h))) = chain[p]
           /\ chain[p].bits # max_difficulty_compact \/ is_retarget_height(p)
           /\ \A i \in p + 1 .. Level :
                chain[i].bits = max_difficulty_compact /\ ~is_retarget_height(i)
<1> DEFINE f == First(Stops(h))
<1>0. Level \in Nat \ {0} /\ RETARGETING_INTERVAL \in Nat \ {0}
  BY Zenon, ParentFacts, ConstantsAssumption
<1>1. Walked \subseteq Nat /\ (\A i \in Walked : i < Level)
      /\ \A i \in Walked : \A j \in Nat : j <= i => j \in Walked
  BY <1>0 DEF Walked
<1>2. Stops(h) \subseteq Walked
  BY Zenon DEF Stops
<1>3. f \in Stops(h) /\ \A j \in Stops(h) : f <= j
  BY Zenon, <1>1, <1>2, FirstIsLeast
<1> HIDE DEF f
<1>4. f \in Nat /\ f < Level /\ f \in Walked
  BY Zenon, <1>1, <1>2, <1>3
<1> DEFINE p == Level - f
<1>5. p \in 1 .. Level /\ h - f - 1 = p
  BY <1>0, <1>4
<1>6. chain[p].bits # max_difficulty_compact \/ is_retarget_height(p)
  BY Zenon, <1>3, <1>5 DEF Stops, Back
<1>7. ASSUME NEW i \in p + 1 .. Level
      PROVE  chain[i].bits = max_difficulty_compact /\ ~is_retarget_height(i)
  <2> DEFINE j == Level - i
  <2>1. j \in Nat /\ j < f /\ Level - j = i /\ h - j - 1 = i
    BY <1>0, <1>4, <1>5
  <2>2. j \in Walked /\ j \notin Stops(h)
    BY <1>1, <1>3, <1>4, <2>1
  <2> HIDE DEF j
  <2> QED
    BY Zenon, <2>1, <2>2 DEF Stops, Back
<1>8. Back(f) = chain[p]
  BY Zenon DEF Back
<1> HIDE DEF p
<1> QED
  BY Zenon, <1>5, <1>6, <1>7, <1>8 DEF f

(* What work_required asks for is a target within the maximum. *)
LEMMA PreparedFacts ==
  ASSUME TypeOK, AllAccepted, NEW time \in Nat, NEW s \in Nat
  PROVE  Prepared(time, s) \in Target /\ Prepared(time, s) <= max_difficulty_compact
<1> DEFINE h == Level + 1
           m == max_difficulty_compact
<1>1. h # 0 /\ m \in Target /\ m <= m
  BY ParentFacts
<1>2. work_required_retarget(s) \in Target /\ work_required_retarget(s) <= m
  BY Zenon, RetargetFacts
<1>3. Parent.bits \in Target /\ Parent.bits <= m
  BY Zenon, ParentFacts DEF Header
<1>4. work_required_testnet(time, h) \in Target /\ work_required_testnet(time, h) <= m
  <2>1. CASE time > Parent.time + DOUBLE_SPACING_SECONDS \/ Stops(h) = {}
    BY Zenon, <1>1, <2>1 DEF work_required_testnet
  <2>2. CASE ~(time > Parent.time + DOUBLE_SPACING_SECONDS \/ Stops(h) = {})
    <3>1. PICK p \in 1 .. Level : Back(First(Stops(h))) = chain[p]
      BY Zenon, <2>2, WalkFacts
    <3>2. chain[p].bits \in Target /\ chain[p].bits <= m
      BY Zenon, ParentFacts DEF Header
    <3> QED
      BY Zenon, <2>2, <3>1, <3>2 DEF work_required_testnet
  <2> QED
    BY Zenon, <2>1, <2>2
<1> QED
  BY Zenon, <1>1, <1>2, <1>3, <1>4 DEF Prepared, work_required

(* A header on top of the branch keeps the invariant if it is within the    *)
(* maximum and, when it was mined by the rule, moves the target at a        *)
(* retarget only, and there by the factor at most.                          *)
LEMMA AppendKeeps ==
  ASSUME IInv, UNCHANGED <<network, now>>,
         NEW h \in Header, chain' = Append(chain, h), h.bits <= max_difficulty_compact,
         h.mined /\ is_retarget_height(Level + 1) =>
           /\ h.bits <= RETARGETING_FACTOR * Parent.bits
           /\ h.bits >= Compact[Parent.bits \div RETARGETING_FACTOR],
         h.mined /\ ~is_retarget_height(Level + 1) =>
           \A i \in 1 .. Level : MinedAfter(i, Level) =>
             \/ chain[i].bits = h.bits
             \/ network = "Testnet" /\ (LateBlock(i) \/ h.bits = max_difficulty_compact)
  PROVE  IInv'
<1> DEFINE n == Level
<1>1. TypeOK /\ AllAccepted /\ n \in Nat \ {0} /\ DOMAIN chain = 1 .. n /\ Len(chain) = n
  BY Zenon, ParentFacts DEF IInv, Level
<1>2. chain \in Seq(Header) /\ chain' \in Seq(Header) /\ Len(chain') = n + 1
  BY <1>1 DEF TypeOK
<1>3. /\ DOMAIN chain' = 1 .. n + 1
      /\ \A k \in 1 .. n : chain'[k] = chain[k]
      /\ chain'[n + 1] = h
  BY <1>1, <1>2
<1>4. max_difficulty_compact' = max_difficulty_compact
  BY Zenon DEF max_difficulty_compact
<1> HIDE DEF n
<1>5. TypeOK'
  BY <1>1, <1>2 DEF TypeOK
<1>6. AllAccepted'
  BY <1>1, <1>3, <1>4 DEF AllAccepted
<1>7. PeriodHasOneTarget'
  <2> SUFFICES ASSUME NEW i \in 1 .. n + 1, NEW j \in 1 .. n + 1, i < j, MinedAfter(i, j)'
               PROVE  \/ chain'[i].bits = chain'[j].bits
                      \/ network = "Testnet" /\ (LateBlock(i)' \/ chain'[j].bits = max_difficulty_compact)
    BY ZenonT(60), <1>3, <1>4 DEF PeriodHasOneTarget
  <2>1. i \in 1 .. n /\ chain'[i] = chain[i]
    BY <1>1, <1>3
  <2>2. LateBlock(i)' <=> LateBlock(i)
    BY Zenon, <2>1, <1>4 DEF LateBlock, is_retarget_height
  <2>3. CASE j = n + 1
    <3>1. h.mined /\ ~is_retarget_height(n + 1) /\ MinedAfter(i, n)
      BY <1>1, <1>3, <2>1, <2>3 DEF MinedAfter, is_retarget_height
    <3> QED
      BY Zenon, <1>3, <2>1, <2>2, <2>3, <3>1 DEF n
  <2>4. CASE j # n + 1
    <3>1. j \in 1 .. n /\ chain'[j] = chain[j] /\ MinedAfter(i, j)
      BY <1>1, <1>3, <2>1, <2>4 DEF MinedAfter, is_retarget_height
    <3> QED
      BY Zenon, <1>1, <2>1, <2>2, <3>1 DEF IInv, PeriodHasOneTarget
  <2> QED
    BY Zenon, <2>3, <2>4
<1>8. RetargetIsBounded'
  <2> SUFFICES ASSUME NEW k \in 1 .. n + 1, k > 1, chain'[k].mined, is_retarget_height(k)
               PROVE  /\ chain'[k].bits <= RETARGETING_FACTOR * chain'[k - 1].bits
                      /\ chain'[k].bits >= Compact[chain'[k - 1].bits \div RETARGETING_FACTOR]
    BY Zenon, <1>3 DEF RetargetIsBounded, is_retarget_height
  <2>1. k - 1 \in 1 .. n /\ chain'[k - 1] = chain[k - 1]
    BY <1>1, <1>3
  <2>2. CASE k = n + 1
    BY <1>1, <1>3, <2>1, <2>2 DEF n, Parent
  <2>3. CASE k # n + 1
    <3>1. k \in 1 .. n /\ chain'[k] = chain[k]
      BY <1>1, <1>3, <2>3
    <3> QED
      BY Zenon, <1>1, <2>1, <3>1 DEF IInv, RetargetIsBounded
  <2> QED
    BY Zenon, <2>2, <2>3
<1> QED
  BY Zenon, <1>5, <1>6, <1>7, <1>8 DEF IInv

(* A header mined between two retargets has a target of its period. *)
LEMMA MineKeepsPeriod ==
  ASSUME IInv, NEW time \in Nat, NEW s \in Nat, ~is_retarget_height(Level + 1),
         NEW i \in 1 .. Level, MinedAfter(i, Level)
  PROVE  \/ chain[i].bits = Prepared(time, s)
         \/ /\ network = "Testnet"
            /\ LateBlock(i) \/ Prepared(time, s) = max_difficulty_compact
<1> DEFINE n == Level
           h == Level + 1
<1>1. TypeOK /\ AllAccepted /\ PeriodHasOneTarget /\ n \in Nat \ {0} /\ DOMAIN chain = 1 .. n
  BY Zenon, ParentFacts DEF IInv
<1>2. Prepared(time, s) = IF network = "Testnet" THEN work_required_testnet(time, h) ELSE chain[n].bits
  BY <1>1 DEF Prepared, work_required, Parent
<1>3. CASE network # "Testnet"
  <2>1. CASE i = n
    BY Zenon, <1>2, <1>3, <2>1
  <2>2. CASE i # n
    BY <1>1, <1>2, <1>3, <2>2 DEF PeriodHasOneTarget
  <2> QED
    BY Zenon, <2>1, <2>2
<1>4. CASE network = "Testnet"
  <2>1. CASE time > Parent.time + DOUBLE_SPACING_SECONDS \/ Stops(h) = {}
    BY Zenon, <1>2, <1>4, <2>1 DEF work_required_testnet
  <2>2. CASE ~(time > Parent.time + DOUBLE_SPACING_SECONDS \/ Stops(h) = {})
    <3>1. PICK p \in 1 .. n :
            /\ Back(First(Stops(h))) = chain[p]
            /\ chain[p].bits # max_difficulty_compact \/ is_retarget_height(p)
            /\ \A k \in p + 1 .. n : chain[k].bits = max_difficulty_compact /\ ~is_retarget_height(k)
      BY Zenon, <1>1, <2>2, WalkFacts
    <3>2. Prepared(time, s) = chain[p].bits
      BY Zenon, <1>2, <1>4, <2>2, <3>1 DEF work_required_testnet
    <3>3. CASE p = i
      BY Zenon, <3>2, <3>3
    <3>4. CASE p < i
      <4>1. i \in p + 1 .. n
        BY <1>1, <3>4
      <4> QED
        BY Zenon, <1>4, <3>1, <4>1 DEF LateBlock
    <3>5. CASE i < p
      <4>1. MinedAfter(i, p) /\ ~is_retarget_height(p)
        BY <1>1, <3>5 DEF MinedAfter
      <4>2. \/ chain[i].bits = chain[p].bits
            \/ LateBlock(i) \/ chain[p].bits = max_difficulty_compact
        BY Zenon, <1>1, <3>5, <4>1 DEF PeriodHasOneTarget
      <4> QED
        BY Zenon, <1>4, <3>1, <3>2, <4>1, <4>2
    <3> QED
      BY <1>1, <3>3, <3>4, <3>5
  <2> QED
    BY Zenon, <2>1, <2>2
<1> QED
  BY Zenon, <1>3, <1>4

(* The genesis header has the maximum as its target. *)
LEMMA InitIInv == Init => IInv
<1> SUFFICES ASSUME Init PROVE IInv
  OBVIOUS
<1> DEFINE g == [time |-> 0, bits |-> max_difficulty_compact, mined |-> TRUE]
<1>1. max_difficulty_compact \in Target /\ max_difficulty_compact \in Nat
  BY CompactAssumption, MaximumAssumption DEF Init, max_difficulty_compact, Target
<1>2. g \in Header /\ g.bits = max_difficulty_compact
  BY Zenon, <1>1 DEF Header
<1>3. chain = <<g>>
  BY Zenon DEF Init
<1> HIDE DEF g
<1>4. chain \in Seq(Header) /\ Len(chain) = 1 /\ DOMAIN chain = {1} /\ chain[1] = g
  BY <1>2, <1>3
<1>5. TypeOK
  BY <1>4, ConstantsAssumption DEF TypeOK, Init
<1>6. AllAccepted
  BY <1>1, <1>2, <1>4 DEF AllAccepted
<1>7. PeriodHasOneTarget /\ RetargetIsBounded
  BY <1>4 DEF PeriodHasOneTarget, RetargetIsBounded
<1> QED
  BY Zenon, <1>5, <1>6, <1>7 DEF IInv

(* Mine: prepare_header on any branch, with any header at the reference     *)
(* level.                                                                   *)
LEMMA MineIInv ==
  ASSUME IInv, NEW s \in 0 .. MaxTime, Mine(s)
  PROVE  IInv'
<1> DEFINE h == [time |-> now, bits |-> Prepared(now, s), mined |-> TRUE]
<1>1. TypeOK /\ AllAccepted /\ s \in Nat /\ now \in Nat
  BY ConstantsAssumption DEF IInv, TypeOK
<1>2. Prepared(now, s) \in Target /\ Prepared(now, s) <= max_difficulty_compact
  BY Zenon, <1>1, PreparedFacts
<1>3. h \in Header /\ h.bits = Prepared(now, s) /\ h.mined
  BY Zenon, <1>1, <1>2 DEF Header
<1>4. ASSUME is_retarget_height(Level + 1)
      PROVE  /\ h.bits <= RETARGETING_FACTOR * Parent.bits
             /\ h.bits >= Compact[Parent.bits \div RETARGETING_FACTOR]
  <2>1. Prepared(now, s) = work_required_retarget(s)
    BY <1>1, <1>4, ParentFacts DEF Prepared, work_required
  <2> QED
    BY Zenon, <1>1, <1>3, <2>1, RetargetFacts
<1>5. ASSUME ~is_retarget_height(Level + 1), NEW i \in 1 .. Level, MinedAfter(i, Level)
      PROVE  \/ chain[i].bits = h.bits
             \/ network = "Testnet" /\ (LateBlock(i) \/ h.bits = max_difficulty_compact)
  BY Zenon, <1>1, <1>3, <1>5, MineKeepsPeriod
<1>6. chain' = Append(chain, h) /\ UNCHANGED <<network, now>>
  BY Zenon DEF Mine
<1> HIDE DEF h
<1> QED
  BY Zenon, <1>2, <1>3, <1>4, <1>5, <1>6, AppendKeeps

(* Import: verify_header of a header that another node made. *)
LEMMA ImportIInv ==
  ASSUME IInv, NEW time \in 0 .. MaxTime, NEW bits \in Target, Import(time, bits)
  PROVE  IInv'
<1> DEFINE h == [time |-> time, bits |-> Compact[bits], mined |-> FALSE]
<1>1. h \in Header /\ ~h.mined /\ h.bits = Compact[bits]
  BY CompactAssumption, ConstantsAssumption DEF Header
<1>2. chain' = Append(chain, h) /\ UNCHANGED <<network, now>> /\ h.bits <= max_difficulty_compact
  BY Zenon DEF Import, is_valid_proof_of_work
<1> HIDE DEF h
<1> QED
  BY Zenon, <1>1, <1>2, AppendKeeps

(* Rollback: a shorter branch is a prefix of one that had the properties. *)
LEMMA RollbackIInv ==
  ASSUME IInv, NEW level \in 0 .. Level - 2, Rollback(level)
  PROVE  IInv'
<1> DEFINE n == level + 1
<1>1. TypeOK /\ AllAccepted /\ Level \in Nat /\ DOMAIN chain = 1 .. Level /\ Len(chain) = Level
  BY Zenon, ParentFacts DEF IInv, Level
<1>2. n \in Nat \ {0} /\ 1 .. n \subseteq 1 .. Level
  BY <1>1
<1>3. /\ chain' \in Seq(Header) /\ Len(chain') = n /\ DOMAIN chain' = 1 .. n
      /\ \A k \in 1 .. n : chain'[k] = chain[k]
  BY <1>1, <1>2 DEF Rollback, TypeOK
<1>4. max_difficulty_compact' = max_difficulty_compact /\ UNCHANGED <<network, now>>
  BY Zenon DEF Rollback, max_difficulty_compact
<1> HIDE DEF n
<1>5. TypeOK'
  BY <1>1, <1>2, <1>3, <1>4 DEF TypeOK
<1>6. AllAccepted'
  BY Zenon, <1>1, <1>2, <1>3, <1>4 DEF AllAccepted
<1>7. PeriodHasOneTarget'
  <2> SUFFICES ASSUME NEW i \in 1 .. n, NEW j \in 1 .. n, i < j, MinedAfter(i, j)'
               PROVE  \/ chain'[i].bits = chain'[j].bits
                      \/ network = "Testnet" /\ (LateBlock(i)' \/ chain'[j].bits = max_difficulty_compact)
    BY Zenon, <1>3, <1>4 DEF PeriodHasOneTarget
  <2>1. MinedAfter(i, j) /\ chain'[i] = chain[i] /\ chain'[j] = chain[j]
    BY <1>2, <1>3 DEF MinedAfter, is_retarget_height
  <2>2. LateBlock(i)' <=> LateBlock(i)
    BY Zenon, <2>1, <1>4 DEF LateBlock, is_retarget_height
  <2> QED
    BY Zenon, <1>1, <1>2, <2>1, <2>2 DEF IInv, PeriodHasOneTarget
<1>8. RetargetIsBounded'
  <2> SUFFICES ASSUME NEW k \in 1 .. n, k > 1, chain'[k].mined, is_retarget_height(k)
               PROVE  /\ chain'[k].bits <= RETARGETING_FACTOR * chain'[k - 1].bits
                      /\ chain'[k].bits >= Compact[chain'[k - 1].bits \div RETARGETING_FACTOR]
    BY Zenon, <1>3 DEF RetargetIsBounded, is_retarget_height
  <2>1. k - 1 \in 1 .. n /\ chain'[k - 1] = chain[k - 1] /\ chain'[k] = chain[k]
    BY <1>2, <1>3
  <2> QED
    BY Zenon, <1>1, <1>2, <2>1 DEF IInv, RetargetIsBounded
<1> QED
  BY Zenon, <1>5, <1>6, <1>7, <1>8 DEF IInv

(* A step that leaves the branch alone. *)
LEMMA SameBranch ==
  ASSUME IInv, UNCHANGED <<network, chain>>, now' \in 0 .. MaxTime
  PROVE  IInv'
BY DEF IInv, TypeOK, AllAccepted, PeriodHasOneTarget, RetargetIsBounded, MinedAfter, LateBlock,
       max_difficulty_compact, is_retarget_height

LEMMA NextIInv == IInv /\ [Next]_vars => IInv'
<1> SUFFICES ASSUME IInv, [Next]_vars PROVE IInv'
  OBVIOUS
<1>1. CASE \E s \in 0 .. MaxTime : Mine(s)
  BY Zenon, <1>1, MineIInv
<1>2. CASE \E time \in 0 .. MaxTime, bits \in Target : Import(time, bits)
  BY Zenon, <1>2, ImportIInv
<1>3. CASE \E level \in 0 .. Level - 2 : Rollback(level)
  BY Zenon, <1>3, RollbackIInv
<1>4. CASE \E time \in now .. MaxTime : Tick(time)
  <2>1. now' \in 0 .. MaxTime /\ UNCHANGED <<network, chain>>
    BY <1>4, ConstantsAssumption DEF Tick, IInv, TypeOK
  <2> QED
    BY Zenon, <2>1, SameBranch
<1>5. CASE UNCHANGED vars
  <2>1. now' \in 0 .. MaxTime /\ UNCHANGED <<network, chain>>
    BY Zenon, <1>5 DEF vars, IInv, TypeOK
  <2> QED
    BY Zenon, <2>1, SameBranch
<1> QED
  BY Zenon, <1>1, <1>2, <1>3, <1>4, <1>5 DEF Next

LEMMA Invariance == Spec => []IInv
BY InitIInv, NextIInv, PTL DEF Spec

(* The branch and the clock have their types: a target that was computed,   *)
(* stored and read back is always one of 256 bits.                          *)
THEOREM TypeCorrect == Spec => []TypeOK
<1>1. IInv => TypeOK
  BY Zenon DEF IInv
<1> QED
  BY <1>1, Invariance, PTL

(* The target work_required asks for never overflows and is one that        *)
(* verify_header accepts, on every branch that verify_header lets grow.     *)
THEOREM MinersAreAccepted == Spec => []PreparedIsAccepted
<1>1. IInv => PreparedIsAccepted
  <2> SUFFICES ASSUME IInv, NEW time \in 0 .. MaxTime, NEW s \in 0 .. MaxTime
               PROVE  RetargetProduct(s) < Limit /\ is_valid_proof_of_work(Prepared(time, s))
    BY Zenon DEF PreparedIsAccepted
  <2>1. TypeOK /\ AllAccepted /\ time \in Nat /\ s \in Nat
    BY ConstantsAssumption DEF IInv
  <2> QED
    BY Zenon, <2>1, RetargetFacts, PreparedFacts DEF is_valid_proof_of_work
<1> QED
  BY <1>1, Invariance, PTL

(* Headers mined on top of one another between two retargets keep the       *)
(* target of the period, work_required_testnet's late blocks excepted.      *)
THEOREM PeriodsKeepTheirTarget == Spec => []PeriodHasOneTarget
<1>1. IInv => PeriodHasOneTarget
  BY Zenon DEF IInv
<1> QED
  BY <1>1, Invariance, PTL

(* work_required_retarget moves the target by the factor at most.           *)
THEOREM RetargetsAreBounded == Spec => []RetargetIsBounded
<1>1. IInv => RetargetIsBounded
  BY Zenon DEF IInv
<1> QED
  BY <1>1, Invariance, PTL

=============================================================================
