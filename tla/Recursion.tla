----------------------------- MODULE Recursion ------------------------------
(***************************************************************************)
(* Induction over the naturals and definition by recursion in the form the *)
(* proofs of this project use them: without operator parameters, as the    *)
(* least member of a set of naturals and the iterates of a step that is a  *)
(* function.                                                               *)
(***************************************************************************)
EXTENDS Integers, TLAPS, WellFoundedInduction

(* A set of naturals that is not empty has a least member. *)
LEMMA LeastNat ==
  ASSUME NEW T \in SUBSET Nat, T # {}
  PROVE  \E x \in T : \A y \in T : x <= y
<1>1. IsWellFoundedOn({ss \in Nat \X Nat : ss[1] < ss[2]}, Nat)
  BY NatLessThanWellFounded, Zenon DEF OpToRel
<1>2. PICK x \in T : \A y \in T : ~(<<y, x>> \in {ss \in Nat \X Nat : ss[1] < ss[2]})
  BY Zenon, <1>1, WFMin
<1>3. \A y \in T : ~(y < x)
  BY Zenon, <1>2
<1> QED
  BY <1>3

(* What holds of 0, and of i if it holds of i - 1, holds up to n. *)
LEMMA UpTo ==
  ASSUME NEW n \in Nat, NEW S, 0 \in S, \A i \in 1 .. n : i - 1 \in S => i \in S
  PROVE  \A i \in 0 .. n : i \in S
<1> DEFINE T == {i \in 0 .. n : i \notin S}
<1> SUFFICES ASSUME T # {} PROVE FALSE
  OBVIOUS
<1>0. T \in SUBSET Nat
  OBVIOUS
<1>1. PICK x \in T : \A y \in T : x <= y
  <2> HIDE DEF T
  <2> QED
    BY <1>0, LeastNat
<1>2. x \in 1 .. n /\ x - 1 \in 0 .. n
  BY <1>1
<1>3. x - 1 \in S
  BY <1>1, <1>2
<1> QED
  BY <1>1, <1>2, <1>3

(* The steps 1 to n from C to C, and what they make of base one after the   *)
(* other.                                                                   *)
StepsOf(C, n) == [C \X (1 .. n) -> C]
IsRun(f, C, base, n, step) ==
  /\ f \in [0 .. n -> C]
  /\ f[0] = base
  /\ \A i \in 1 .. n : f[i] = step[<<f[i - 1], i>>]

LEMMA Iterates ==
  ASSUME NEW C, NEW base \in C, NEW n \in Nat, NEW step \in StepsOf(C, n)
  PROVE  \E f : IsRun(f, C, base, n, step)
<1> USE DEF StepsOf
<1> DEFINE Good(f, m) == f[0] = base /\ \A i \in 1 .. m : f[i] = step[<<f[i - 1], i>>]
           S == {m \in 0 .. n : \E f \in [0 .. m -> C] : Good(f, m)}
<1>1. 0 \in S
  <2>1. PICK f : f = [i \in 0 .. 0 |-> base]
    BY Zenon
  <2>2. f \in [0 .. 0 -> C] /\ Good(f, 0)
    BY <2>1
  <2> QED
    BY <2>2
<1>2. ASSUME NEW m \in 1 .. n, m - 1 \in S PROVE m \in S
  <2>1. PICK f \in [0 .. m - 1 -> C] : Good(f, m - 1)
    BY <1>2
  <2> DEFINE v == step[<<f[m - 1], m>>]
             g == [i \in 0 .. m |-> IF i = m THEN v ELSE f[i]]
  <2>2. v \in C
    OBVIOUS
  <2>3. g \in [0 .. m -> C]
    BY <2>2
  <2>4. g[m] = v /\ \A i \in 0 .. m - 1 : g[i] = f[i]
    OBVIOUS
  <2> HIDE DEF g
  <2>5. Good(g, m)
    <3>1. g[0] = base
      BY <2>1, <2>4
    <3>2. ASSUME NEW i \in 1 .. m PROVE g[i] = step[<<g[i - 1], i>>]
      <4>1. g[i - 1] = f[i - 1]
        BY <2>4
      <4>2. CASE i = m
        BY <2>4, <4>1, <4>2
      <4>3. CASE i # m
        <5>1. i \in 1 .. m - 1 /\ g[i] = f[i]
          BY <2>4, <4>3
        <5> QED
          BY <2>1, <4>1, <5>1
      <4> QED
        BY <4>2, <4>3
    <3> QED
      BY <3>1, <3>2
  <2> QED
    BY <2>3, <2>5
<1>3. n \in S
  <2> HIDE DEF S
  <2> QED
    BY <1>1, <1>2, UpTo
<1> QED
  BY <1>3 DEF IsRun

(* The same with a set for each round: the steps lead from C[i - 1] to C[i], *)
(* and a function that takes them ends in C[n].                             *)
States(C, n) == UNION {C[i] : i \in 0 .. n}
IsPath(f, C, base, n, step) ==
  /\ f = [i \in 0 .. n |-> f[i]]
  /\ f[0] = base
  /\ \A i \in 1 .. n : f[i - 1] \in C[i - 1] /\ f[i] = step[<<f[i - 1], i>>]

LEMMA Paths ==
  ASSUME NEW n \in Nat, NEW C, NEW base \in C[0], NEW step,
         \A i \in 1 .. n : \A x \in C[i - 1] : step[<<x, i>>] \in C[i]
  PROVE  \E f : IsPath(f, C, base, n, step)
<1> DEFINE U == States(C, n)
           Go(x, i) == IF x \in C[i - 1] THEN step[<<x, i>>] ELSE base
           total == [z \in U \X (1 .. n) |-> Go(z[1], z[2])]
<1>1. \A i \in 0 .. n : C[i] \subseteq U
  BY Zenon DEF States
<1>2. base \in U /\ \A i \in 1 .. n : i \in 0 .. n /\ i - 1 \in 0 .. n
  <2>1. 0 \in 0 .. n /\ \A i \in 1 .. n : i \in 0 .. n /\ i - 1 \in 0 .. n
    OBVIOUS
  <2> QED
    BY Zenon, <1>1, <2>1
<1> HIDE DEF U
<1>3. total \in StepsOf(U, n)
  <2>1. \A x \in U, i \in 1 .. n : Go(x, i) \in U
    BY Zenon, <1>1, <1>2
  <2> HIDE DEF Go
  <2> QED
    BY Zenon, <2>1 DEF StepsOf
<1>4. PICK f : IsRun(f, U, base, n, total)
  <2> HIDE DEF total
  <2> QED
    BY Zenon, <1>2, <1>3, Iterates
<1> DEFINE S == {i \in 0 .. n : f[i] \in C[i]}
<1>5. ASSUME NEW i \in 1 .. n, f[i - 1] \in C[i - 1] PROVE f[i] = step[<<f[i - 1], i>>]
  <2>1. f[i - 1] \in U /\ f[i] = total[<<f[i - 1], i>>]
    BY Zenon, <1>1, <1>2, <1>4, <1>5 DEF IsRun
  <2>2. total[<<f[i - 1], i>>] = Go(f[i - 1], i)
    BY Zenon, <2>1
  <2> QED
    BY Zenon, <1>5, <2>1, <2>2
<1>6. \A i \in 0 .. n : i \in S
  <2>1. 0 \in S
    BY <1>4 DEF IsRun
  <2>2. ASSUME NEW i \in 1 .. n, i - 1 \in S PROVE i \in S
    BY Zenon, <1>2, <1>5, <2>2
  <2> HIDE DEF S
  <2> QED
    BY Zenon, <2>1, <2>2, UpTo
<1>7. \A i \in 0 .. n : f[i] \in C[i]
  BY Zenon, <1>6
<1>8. f = [i \in 0 .. n |-> f[i]] /\ f[0] = base
  BY Zenon, <1>4 DEF IsRun
<1>9. \A i \in 1 .. n : f[i - 1] \in C[i - 1] /\ f[i] = step[<<f[i - 1], i>>]
  BY Zenon, <1>2, <1>5, <1>7
<1> QED
  BY Zenon, <1>8, <1>9 DEF IsPath

LEMMA PathEnds ==
  ASSUME NEW n \in Nat, NEW C, NEW h, h[0] \in C[0],
         \A i \in 1 .. n : h[i - 1] \in C[i - 1] => h[i] \in C[i]
  PROVE  h[n] \in C[n]
<1> DEFINE S == {i \in 0 .. n : h[i] \in C[i]}
<1>1. 0 \in S
  OBVIOUS
<1>2. \A i \in 1 .. n : i \in 0 .. n
  OBVIOUS
<1>3. \A i \in 1 .. n : i - 1 \in S => i \in S
  BY Zenon, <1>2
<1>4. \A i \in 0 .. n : i \in S
  <2> HIDE DEF S
  <2> QED
    BY Zenon, <1>1, <1>3, UpTo
<1>5. n \in 0 .. n
  OBVIOUS
<1> QED
  BY Zenon, <1>4, <1>5
=============================================================================
