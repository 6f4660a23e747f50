---------------------------- MODULE TxPoolLemmas ----------------------------
(***************************************************************************)
(* What the operations of TxPool leave of a pool, up to add_txs_locked and *)
(* promote_executable.  A pool is good when the lists of an account hold   *)
(* its own transactions and no nonce twice, the slot counter is exact,     *)
(* every queue has a heartbeat and what the lookup knows is in a list.     *)
(* Each operation is shown to leave a good pool good, in the order in      *)
(* which they call each other.  The loops of the model are paths in the    *)
(* sense of Recursion.                                                     *)
(***************************************************************************)
EXTENDS TxPool, Recursion, FiniteSetTheorems

-----------------------------------------------------------------------------
(* Maps from accounts to lists. *)

Maps == UNION {[A -> SUBSET Tx] : A \in SUBSET Account}
NonceMaps == UNION {[A -> Nat] : A \in SUBSET Account}

\* The lists of n are those of m but for that of a.
SameBut(m, n, a) == \A b : b # a => At(n, b) = At(m, b)

LEMMA AtType == ASSUME NEW m \in Maps, NEW a PROVE At(m, a) \in SUBSET Tx
BY DEF Maps, At

LEMMA AtOf == ASSUME NEW m, NEW a PROVE a \notin DOMAIN m => At(m, a) = {}
BY DEF At

LEMMA MapDomain == ASSUME NEW m \in Maps PROVE DOMAIN m \subseteq Account
BY DEF Maps

LEMMA WithMap ==
    ASSUME NEW m \in Maps, NEW a \in Account, NEW v \in SUBSET Tx
    PROVE  /\ With(m, a, v) \in Maps
           /\ DOMAIN With(m, a, v) = DOMAIN m \cup {a}
           /\ At(With(m, a, v), a) = v
           /\ SameBut(m, With(m, a, v), a)
<1>1. PICK A \in SUBSET Account : m \in [A -> SUBSET Tx]
  BY DEF Maps
<1>2. DOMAIN m = A
  BY <1>1
<1>3. With(m, a, v) \in [A \cup {a} -> SUBSET Tx]
  BY <1>1 DEF With
<1>4. A \cup {a} \in SUBSET Account
  OBVIOUS
<1>5. With(m, a, v) \in Maps
  BY Zenon, <1>3, <1>4 DEF Maps
<1>6. At(With(m, a, v), a) = v
  BY Zenon DEF With, At
<1>7. ASSUME NEW b, b # a PROVE At(With(m, a, v), b) = At(m, b)
  BY <1>7 DEF With, At
<1>8. DOMAIN With(m, a, v) = DOMAIN m \cup {a}
  BY DEF With
<1> QED
  BY Zenon, <1>5, <1>6, <1>7, <1>8 DEF SameBut

LEMMA WithNonce ==
    ASSUME NEW m \in NonceMaps, NEW a \in Account, NEW v \in Nat
    PROVE  With(m, a, v) \in NonceMaps
<1>1. PICK A \in SUBSET Account : m \in [A -> Nat]
  BY DEF NonceMaps
<1>2. With(m, a, v) \in [A \cup {a} -> Nat]
  BY <1>1 DEF With
<1>3. A \cup {a} \in SUBSET Account
  OBVIOUS
<1> QED
  BY Zenon, <1>2, <1>3 DEF NonceMaps

LEMMA WithoutMap ==
    ASSUME NEW m \in Maps, NEW a
    PROVE  /\ Without(m, a) \in Maps
           /\ DOMAIN Without(m, a) = DOMAIN m \ {a}
           /\ At(Without(m, a), a) = {}
           /\ SameBut(m, Without(m, a), a)
<1>1. PICK A \in SUBSET Account : m \in [A -> SUBSET Tx]
  BY DEF Maps
<1>2. Without(m, a) \in [A \ {a} -> SUBSET Tx] /\ A \ {a} \in SUBSET Account
  BY <1>1 DEF Without, Restrict
<1>3. Without(m, a) \in Maps
  BY Zenon, <1>2 DEF Maps
<1>4. DOMAIN Without(m, a) = DOMAIN m \ {a}
  BY DEF Without, Restrict
<1>5. ASSUME NEW b PROVE At(Without(m, a), b) = IF b = a THEN {} ELSE At(m, b)
  BY DEF Without, Restrict, At
<1> QED
  BY Zenon, <1>3, <1>4, <1>5 DEF SameBut

\* A heartbeat that is taken away.
LEMMA BeatRemoved ==
    ASSUME NEW s \in Seq(Account), NEW a, IsInjective(s)
    PROVE  /\ WithoutBeat(s, a) \in Seq(Account)
           /\ IsInjective(WithoutBeat(s, a))
           /\ Range(WithoutBeat(s, a)) = Range(s) \ {a}
<1>1. CASE a \in Range(s)
  <2> DEFINE n == Len(s)
             k == CHOOSE i \in DOMAIN s : s[i] = a
             r == [i \in 1 .. n - 1 |-> s[IF i < k THEN i ELSE i + 1]]
  <2>1. WithoutBeat(s, a) = r
    BY Zenon, <1>1 DEF WithoutBeat
  <2>2. n \in Nat /\ DOMAIN s = 1 .. n /\ \A i \in 1 .. n : s[i] \in Account
    OBVIOUS
  <2>3. k \in 1 .. n /\ s[k] = a
    <3>1. \E i \in DOMAIN s : s[i] = a
      BY Zenon, <1>1 DEF Range
    <3>2. k \in DOMAIN s /\ s[k] = a
      BY Zenon, <3>1
    <3> QED
      BY Zenon, <2>2, <3>2
  <2> HIDE DEF k, n
  <2>4. \A i \in 1 .. n - 1 : r[i] = IF i < k THEN s[i] ELSE s[i + 1]
    OBVIOUS
  <2>5. r \in Seq(Account) /\ DOMAIN r = 1 .. n - 1
    <3>1. n - 1 \in Nat /\ \A i \in 1 .. n - 1 : i \in 1 .. n /\ i + 1 \in 1 .. n
      BY <2>3, <2>2
    <3>2. \A i \in 1 .. n - 1 : r[i] \in Account
      BY <2>2, <2>4, <3>1
    <3>3. r \in [1 .. n - 1 -> Account]
      BY Zenon, <3>2
    <3> QED
      BY <3>1, <3>3
  <2> HIDE DEF r
  <2>6. IsInjective(r)
    <3>1. \A i, j \in 1 .. n : s[i] = s[j] => i = j
      BY Zenon, <2>2 DEF IsInjective
    <3>2. \A i, j \in 1 .. n - 1 : r[i] = r[j] => i = j
      BY <2>3, <2>2, <2>4, <3>1
    <3> QED
      BY Zenon, <2>5, <3>2 DEF IsInjective
  <2>7. \A x \in Range(r) : x \in Range(s) \ {a}
    <3> SUFFICES ASSUME NEW i \in 1 .. n - 1 PROVE r[i] \in Range(s) /\ r[i] # a
      BY <2>5 DEF Range
    <3>1. PICK j \in 1 .. n : r[i] = s[j] /\ j # k
      BY <2>3, <2>2, <2>4
    <3> QED
      BY <2>3, <2>2, <3>1 DEF Range, IsInjective
  <2>8. \A x \in Range(s) \ {a} : x \in Range(r)
    <3> SUFFICES ASSUME NEW j \in 1 .. n, s[j] # a PROVE s[j] \in Range(r)
      BY <2>2 DEF Range
    <3>1. j # k
      BY <2>3
    <3>2. PICK i \in 1 .. n - 1 : r[i] = s[j]
      <4>1. CASE j < k
        BY <2>3, <2>2, <2>4, <4>1
      <4>2. CASE j > k
        <5>1. j - 1 \in 1 .. n - 1 /\ ~(j - 1 < k) /\ (j - 1) + 1 = j
          BY <2>3, <2>2, <4>2
        <5> QED
          BY <2>4, <5>1
      <4> QED
        BY <2>3, <2>2, <3>1, <4>1, <4>2
    <3> QED
      BY <2>5, <3>2 DEF Range
  <2> QED
    BY <2>1, <2>5, <2>6, <2>7, <2>8 DEF r
<1>2. CASE a \notin Range(s)
  <2>1. WithoutBeat(s, a) = s
    BY Zenon, <1>2 DEF WithoutBeat
  <2>2. Range(s) = Range(s) \ {a}
    BY <1>2
  <2> QED
    BY Zenon, <2>1, <2>2
<1> QED
  BY <1>1, <1>2

\* A heartbeat that is added.
LEMMA BeatAdded ==
    ASSUME NEW s \in Seq(Account), NEW a \in Account, IsInjective(s), a \notin Range(s)
    PROVE  /\ Append(s, a) \in Seq(Account)
           /\ IsInjective(Append(s, a))
           /\ Range(Append(s, a)) = Range(s) \cup {a}
<1> DEFINE n == Len(s)
           r == Append(s, a)
<1>1. n \in Nat /\ DOMAIN s = 1 .. n
  OBVIOUS
<1>2. r \in Seq(Account) /\ DOMAIN r = 1 .. n + 1 /\ r[n + 1] = a /\ \A i \in 1 .. n : r[i] = s[i]
  OBVIOUS
<1>3. \A i \in 1 .. n : s[i] # a
  BY <1>1 DEF Range
<1> HIDE DEF n, r
<1>4. IsInjective(r)
  BY <1>1, <1>2, <1>3 DEF IsInjective
<1>5. Range(r) = Range(s) \cup {a}
  <2>1. \A x \in Range(r) : x \in Range(s) \cup {a}
    BY <1>1, <1>2 DEF Range
  <2>2. \A x \in Range(s) : x \in Range(r)
    <3> SUFFICES ASSUME NEW i \in 1 .. n PROVE s[i] \in Range(r)
      BY <1>1 DEF Range
    <3>1. i \in 1 .. n + 1 /\ r[i] = s[i]
      BY <1>1, <1>2
    <3> QED
      BY <1>2, <3>1 DEF Range
  <2>3. a \in Range(r)
    <3>1. n + 1 \in 1 .. n + 1
      BY <1>1
    <3> QED
      BY <1>2, <3>1 DEF Range
  <2> QED
    BY <2>1, <2>2, <2>3
<1> QED
  BY <1>2, <1>4, <1>5 DEF r

-----------------------------------------------------------------------------
(* Loops and listings *)

\* s lists the members of S, each once.
Enumerates(s, S) ==
    /\ s \in Seq(S)
    /\ \A i, j \in 1 .. Len(s) : s[i] = s[j] => i = j
    /\ \A x \in S : \E i \in 1 .. Len(s) : s[i] = x

LEMMA ListingEnumerates ==
    ASSUME NEW S, IsFiniteSet(S), NEW pick, \A R \in SUBSET S : R # {} => pick[R] \in R
    PROVE  Enumerates(Listing(S, pick), S)
<1> DEFINE n == Cardinality(S)
           C == SUBSET S
           step == [x \in C \X (1 .. n) |-> x[1] \ {pick[x[1]]}]
           Body(f) == [i \in 0 .. n |-> IF i = 0 THEN S ELSE f[i - 1] \ {pick[f[i - 1]]}]
           rest == CHOOSE f : f = Body(f)
           s == [i \in 1 .. n |-> pick[rest[i - 1]]]
<1>1. Listing(S, pick) = s
  BY Zenon DEF Listing
<1>2. n \in Nat
  BY Zenon, FS_CardinalityType
<1>3. S \in C /\ step \in StepsOf(C, n)
  BY DEF StepsOf
<1>4. PICK f : IsRun(f, C, S, n, step)
  <2> HIDE DEF step, C, n
  <2> QED
    BY Zenon, <1>2, <1>3, Iterates
<1>5. f = Body(f)
  <2>1. \A i \in 1 .. n : f[i] = f[i - 1] \ {pick[f[i - 1]]}
    <3> SUFFICES ASSUME NEW i \in 1 .. n PROVE f[i] = f[i - 1] \ {pick[f[i - 1]]}
      OBVIOUS
    <3>1. f[i - 1] \in C
      BY <1>2, <1>4 DEF IsRun
    <3>2. f[i] = step[<<f[i - 1], i>>]
      BY Zenon, <1>4 DEF IsRun
    <3> QED
      BY Zenon, <3>1, <3>2
  <2> QED
    BY <1>2, <1>4, <2>1 DEF IsRun
<1>6. rest = Body(rest)
  BY Zenon, <1>5
<1> HIDE DEF rest
<1>7. rest[0] = S /\ \A i \in 1 .. n : rest[i] = rest[i - 1] \ {pick[rest[i - 1]]}
  <2>1. \A i \in 0 .. n : Body(rest)[i] = IF i = 0 THEN S ELSE rest[i - 1] \ {pick[rest[i - 1]]}
    BY Zenon
  <2>2. \A i \in 0 .. n : rest[i] = IF i = 0 THEN S ELSE rest[i - 1] \ {pick[rest[i - 1]]}
    <3> HIDE DEF Body
    <3> QED
      BY Zenon, <1>6, <2>1
  <2> HIDE DEF n
  <2>3. 0 \in 0 .. n /\ \A i \in 1 .. n : i \in 0 .. n /\ i # 0
    BY <1>2
  <2> QED
    BY Zenon, <2>2, <2>3
<1> DEFINE Left(i) == rest[i] \in SUBSET S /\ IsFiniteSet(rest[i]) /\ Cardinality(rest[i]) = n - i
           Rounds == {i \in 0 .. n : Left(i)}
<1>8. 0 \in Rounds
  <2>1. n - 0 = n /\ 0 \in 0 .. n
    BY <1>2
  <2> QED
    BY Zenon, <1>7, <2>1
<1>9. ASSUME NEW i \in 1 .. n, i - 1 \in Rounds PROVE i \in Rounds
  <2> DEFINE R == rest[i - 1]
  <2>1. R \in SUBSET S /\ IsFiniteSet(R) /\ Cardinality(R) = n - (i - 1)
    BY <1>9
  <2>2. rest[i] = R \ {pick[R]}
    BY Zenon, <1>7
  <2> HIDE DEF R, n
  <2>3. Cardinality(R) # 0
    BY <1>2, <2>1
  <2>4. R # {}
    BY Zenon, <2>3, FS_EmptySet
  <2>5. pick[R] \in R
    BY Zenon, <2>1, <2>4
  <2>6. IsFiniteSet(R \ {pick[R]}) /\ Cardinality(R \ {pick[R]}) = Cardinality(R) - 1
    BY Zenon, <2>1, <2>5, FS_RemoveElement
  <2>7. Left(i)
    BY <1>2, <2>1, <2>2, <2>6
  <2> QED
    BY <1>2, <2>7
<1>10. \A i \in 0 .. n : Left(i)
  <2>1. \A i \in 0 .. n : i \in Rounds
    <3> HIDE DEF Rounds, n
    <3> QED
      BY Zenon, <1>2, <1>8, <1>9, UpTo
  <2> QED
    BY Zenon, <2>1
<1> HIDE DEF n
<1>11. \A i \in 1 .. n : rest[i - 1] \in SUBSET S /\ pick[rest[i - 1]] \in rest[i - 1]
  <2> SUFFICES ASSUME NEW i \in 1 .. n PROVE rest[i - 1] \in SUBSET S /\ pick[rest[i - 1]] \in rest[i - 1]
    OBVIOUS
  <2>1. i - 1 \in 0 .. n /\ n - (i - 1) # 0
    BY <1>2
  <2>2. Left(i - 1)
    BY Zenon, <1>10, <2>1
  <2>3. rest[i - 1] # {}
    BY Zenon, <2>1, <2>2, FS_EmptySet
  <2> QED
    BY Zenon, <2>2, <2>3
<1>12. \A i \in 1 .. n : s[i] = pick[rest[i - 1]]
  OBVIOUS
<1>13. s \in Seq(S) /\ Len(s) = n
  BY <1>2, <1>11
<1> HIDE DEF s
<1>14. ASSUME NEW i \in 1 .. n PROVE \A j \in 0 .. n : j >= i => s[i] \notin rest[j]
  <2> DEFINE T == {j \in 0 .. n : j >= i => s[i] \notin rest[j]}
  <2>1. 0 \in T
    BY <1>2
  <2>2. ASSUME NEW j \in 1 .. n, j - 1 \in T PROVE j \in T
    <3>1. rest[j] = rest[j - 1] \ {pick[rest[j - 1]]}
      BY Zenon, <1>7
    <3>2. CASE j = i
      <4>1. s[i] = pick[rest[j - 1]]
        BY Zenon, <1>12, <3>2
      <4> QED
        BY <1>2, <3>1, <4>1
    <3>3. CASE j > i
      <4>1. j - 1 >= i /\ j - 1 \in 0 .. n
        BY <1>2, <3>3
      <4>2. s[i] \notin rest[j - 1]
        BY Zenon, <2>2, <4>1
      <4> QED
        BY <1>2, <3>1, <4>2
    <3>4. CASE j < i
      BY <1>2, <3>4
    <3> QED
      BY <1>2, <3>2, <3>3, <3>4
  <2>3. \A j \in 0 .. n : j \in T
    <3> HIDE DEF T
    <3> QED
      BY Zenon, <1>2, <2>1, <2>2, UpTo
  <2> QED
    BY Zenon, <2>3
<1>15. ASSUME NEW i \in 1 .. n, NEW j \in 1 .. n, i < j PROVE s[i] # s[j]
  <2>1. j - 1 \in 0 .. n /\ j - 1 >= i
    BY <1>2, <1>15
  <2>2. s[i] \notin rest[j - 1]
    BY Zenon, <1>14, <2>1
  <2>3. s[j] \in rest[j - 1]
    BY Zenon, <1>11, <1>12
  <2> QED
    BY Zenon, <2>2, <2>3
<1>16. ASSUME NEW x \in S PROVE \E i \in 1 .. n : s[i] = x
  <2> DEFINE T == {j \in 0 .. n : x \in rest[j] \/ \E i \in 1 .. n : s[i] = x}
  <2>1. 0 \in T
    BY <1>2, <1>7
  <2>2. ASSUME NEW j \in 1 .. n, j - 1 \in T PROVE j \in T
    <3>1. rest[j] = rest[j - 1] \ {pick[rest[j - 1]]} /\ s[j] = pick[rest[j - 1]]
      BY Zenon, <1>7, <1>12
    <3>2. j \in 0 .. n
      BY <1>2
    <3> QED
      BY Zenon, <2>2, <3>1, <3>2
  <2>3. \A j \in 0 .. n : j \in T
    <3> HIDE DEF T
    <3> QED
      BY Zenon, <1>2, <2>1, <2>2, UpTo
  <2>4. n \in 0 .. n /\ n - n = 0
    BY <1>2
  <2>5. IsFiniteSet(rest[n]) /\ Cardinality(rest[n]) = 0
    BY Zenon, <1>10, <2>4
  <2>6. rest[n] = {}
    BY Zenon, <2>5, FS_EmptySet
  <2> QED
    BY Zenon, <2>3, <2>4, <2>6
<1>17. \A i, j \in 1 .. n : s[i] = s[j] => i = j
  <2> SUFFICES ASSUME NEW i \in 1 .. n, NEW j \in 1 .. n, i # j PROVE s[i] # s[j]
    OBVIOUS
  <2>1. i < j \/ j < i
    BY <1>2
  <2> QED
    BY Zenon, <1>15, <2>1
<1> QED
  BY Zenon, <1>1, <1>13, <1>16, <1>17 DEF Enumerates

\* What comes first exists: a finite set has members with the least and with
\* the greatest key.
LEMMA LeastExists ==
    ASSUME NEW R, R # {}, NEW key, \A x \in R : key[x] \in Nat
    PROVE  Least(R, key) # {} /\ Least(R, key) \in SUBSET R
<1> DEFINE K == {key[x] : x \in R}
<1>1. K \in SUBSET Nat /\ K # {}
  OBVIOUS
<1>2. \E k \in K : \A l \in K : k <= l
  <2> HIDE DEF K
  <2> QED
    BY Zenon, <1>1, LeastNat
<1> QED
  BY <1>2 DEF Least

LEMMA GreatestExists ==
    ASSUME NEW R, R # {}, IsFiniteSet(R), NEW key, \A x \in R : key[x] \in Nat
    PROVE  Greatest(R, key) # {} /\ Greatest(R, key) \in SUBSET R
<1> DEFINE Above(x) == {y \in R : key[y] > key[x]}
           K == {Cardinality(Above(x)) : x \in R}
<1>1. \A x \in R : IsFiniteSet(Above(x)) /\ Cardinality(Above(x)) \in Nat
  <2> SUFFICES ASSUME NEW x \in R PROVE IsFiniteSet(Above(x)) /\ Cardinality(Above(x)) \in Nat
    OBVIOUS
  <2>1. Above(x) \in SUBSET R
    OBVIOUS
  <2> HIDE DEF Above
  <2>2. IsFiniteSet(Above(x))
    BY Zenon, <2>1, FS_Subset
  <2> QED
    BY Zenon, <2>2, FS_CardinalityType
<1>2. K \in SUBSET Nat /\ K # {}
  <2> HIDE DEF Above
  <2> QED
    BY Zenon, <1>1
<1>3. PICK x \in R : \A y \in R : Cardinality(Above(x)) <= Cardinality(Above(y))
  <2>1. \E k \in K : \A l \in K : k <= l
    <3> HIDE DEF K
    <3> QED
      BY Zenon, <1>2, LeastNat
  <2> HIDE DEF Above
  <2> QED
    BY Zenon, <2>1
<1>4. ASSUME NEW y \in R, key[y] > key[x] PROVE FALSE
  <2>1. Above(y) \in SUBSET Above(x) /\ y \in Above(x) /\ y \notin Above(y)
    BY <1>4
  <2> HIDE DEF Above
  <2>2. Above(y) # Above(x)
    BY Zenon, <2>1
  <2>3. Cardinality(Above(y)) <= Cardinality(Above(x)) /\ Cardinality(Above(y)) # Cardinality(Above(x))
    BY Zenon, <1>1, <2>1, <2>2, FS_Subset
  <2> QED
    BY <1>1, <1>3, <2>3
<1>5. x \in Greatest(R, key)
  BY <1>4 DEF Greatest
<1> QED
  BY <1>5 DEF Greatest

LEMMA SomeMember == ASSUME NEW S, S # {} PROVE Some(S) \in S
BY Zenon DEF Some

LEMMA SubsetsFinite ==
    ASSUME NEW S \in SUBSET Tx
    PROVE  /\ IsFiniteSet(S)
           /\ \A R \in SUBSET S : IsFiniteSet(R) /\ \A t \in R : Nonce[t] \in Nat /\ Fee[t] \in Nat
<1>1. \A R \in SUBSET Tx : IsFiniteSet(R)
  BY Zenon, TxAssumption, FS_Subset
<1> QED
  BY <1>1, TxAssumption

LEMMA ByNonceLists == ASSUME NEW S \in SUBSET Tx PROVE Enumerates(ByNonce(S), S)
<1> DEFINE pick == [R \in SUBSET S |-> Some(Least(R, Nonce))]
<1>1. IsFiniteSet(S)
  BY Zenon, SubsetsFinite
<1>2. ASSUME NEW R \in SUBSET S, R # {} PROVE pick[R] \in R
  <2>1. \A t \in R : Nonce[t] \in Nat
    BY Zenon, SubsetsFinite
  <2>2. Least(R, Nonce) # {} /\ Least(R, Nonce) \in SUBSET R
    BY Zenon, <1>2, <2>1, LeastExists
  <2> QED
    BY Zenon, <2>2, SomeMember
<1> HIDE DEF pick
<1>3. Enumerates(Listing(S, pick), S)
  BY Zenon, <1>1, <1>2, ListingEnumerates
<1> QED
  BY Zenon, <1>3 DEF ByNonce, pick

LEMMA HighestFirstLists == ASSUME NEW S \in SUBSET Tx PROVE Enumerates(HighestFirst(S), S)
<1> DEFINE pick == [R \in SUBSET S |-> Some(Greatest(R, Nonce))]
<1>1. IsFiniteSet(S)
  BY Zenon, SubsetsFinite
<1>2. ASSUME NEW R \in SUBSET S, R # {} PROVE pick[R] \in R
  <2>1. IsFiniteSet(R) /\ \A t \in R : Nonce[t] \in Nat
    BY Zenon, SubsetsFinite
  <2>2. Greatest(R, Nonce) # {} /\ Greatest(R, Nonce) \in SUBSET R
    BY Zenon, <1>2, <2>1, GreatestExists
  <2> QED
    BY Zenon, <2>2, SomeMember
<1> HIDE DEF pick
<1>3. Enumerates(Listing(S, pick), S)
  BY Zenon, <1>1, <1>2, ListingEnumerates
<1> QED
  BY Zenon, <1>3 DEF HighestFirst, pick

LEMMA ByFeeLists == ASSUME NEW S \in SUBSET Tx PROVE Enumerates(ByFee(S), S)
<1> DEFINE pick == [R \in SUBSET S |-> Some(Greatest(Greatest(R, Fee), Nonce))]
<1>1. IsFiniteSet(S)
  BY Zenon, SubsetsFinite
<1>2. ASSUME NEW R \in SUBSET S, R # {} PROVE pick[R] \in R
  <2> DEFINE T == Greatest(R, Fee)
  <2>1. IsFiniteSet(R) /\ \A t \in R : Fee[t] \in Nat
    BY Zenon, SubsetsFinite
  <2>2. T # {} /\ T \in SUBSET R
    BY Zenon, <1>2, <2>1, GreatestExists
  <2> HIDE DEF T
  <2>3. T \in SUBSET S
    BY Zenon, <2>2
  <2>4. IsFiniteSet(T) /\ \A t \in T : Nonce[t] \in Nat
    BY Zenon, <2>3, SubsetsFinite
  <2>5. Greatest(T, Nonce) # {} /\ Greatest(T, Nonce) \in SUBSET T
    BY Zenon, <2>2, <2>4, GreatestExists
  <2>6. Some(Greatest(T, Nonce)) \in R
    BY Zenon, <2>2, <2>5, SomeMember
  <2> QED
    BY Zenon, <2>6 DEF T
<1> HIDE DEF pick
<1>3. Enumerates(Listing(S, pick), S)
  BY Zenon, <1>1, <1>2, ListingEnumerates
<1> QED
  BY Zenon, <1>3 DEF ByFee, pick

-----------------------------------------------------------------------------
(* What holds of a pool *)

Pools ==
    [pending : Maps, queue : Maps, nonces : NonceMaps, local : SUBSET Tx, remote : SUBSET Tx,
     slots : Int, priced : SUBSET Tx, locals : SUBSET Account, beats : Seq(Account),
     changes : Nat, state : Block \cup {NoBlock}]

\* The lists of one account: its own transactions, and no nonce twice.
OneAccount(a, pending, queued) ==
    /\ \A t \in pending \cup queued : From[t] = a
    /\ \A t, u \in pending \cup queued : Nonce[t] = Nonce[u] => t = u
    /\ pending \cap queued = {}

ListsApart(p) == \A a \in Account : OneAccount(a, At(p.pending, a), At(p.queue, a))
Counted(p) == p.slots = Cardinality(Known(p)) /\ p.local \cap p.remote = {}
Beating(p) == DOMAIN p.queue \subseteq Range(p.beats) /\ IsInjective(p.beats)
Held(p) == {t \in Tx : t \in At(p.pending, From[t]) \cup At(p.queue, From[t])}
Covered(p) == Known(p) \subseteq Held(p)
Good(p) == p \in Pools /\ ListsApart(p) /\ Counted(p) /\ Beating(p) /\ Covered(p)

Unmined(p) ==
    p.state # NoBlock => \A t \in Held(p) : Nonce[t] >= StateNonce[p.state][From[t]]

\* q is p with less in it.
Less(p, q) == Good(q) /\ q.state = p.state /\ Known(q) \subseteq Known(p) /\ Held(q) \subseteq Held(p)

\* q is p but for the nonces, the prices and the counters.
Alike(p, q) ==
    /\ q \in Pools /\ q.pending = p.pending /\ q.queue = p.queue /\ q.beats = p.beats
    /\ q.state = p.state /\ q.local = p.local /\ q.remote = p.remote /\ q.slots = p.slots

\* q is p with other transactions in the lookup.
SameLists(p, q) ==
    q.pending = p.pending /\ q.queue = p.queue /\ q.beats = p.beats /\ q.state = p.state

LEMMA LessTransitive == ASSUME NEW p, NEW q, NEW r, Less(p, q), Less(q, r) PROVE Less(p, r)
BY Zenon DEF Less

LEMMA LessReflexive == ASSUME NEW p, Good(p) PROVE Less(p, p)
BY Zenon DEF Less

LEMMA LessUnmined == ASSUME NEW p, NEW q, Less(p, q), Unmined(p) PROVE Unmined(q)
BY Zenon DEF Less, Unmined

LEMMA AlikeGood == ASSUME NEW p, NEW q, Good(p), Alike(p, q) PROVE Less(p, q) /\ Held(q) = Held(p)
<1>1. Known(q) = Known(p) /\ Held(q) = Held(p)
  BY Zenon DEF Alike, Known, Held
<1>2. Good(q)
  BY Zenon, <1>1 DEF Alike, Good, ListsApart, Counted, Beating, Covered
<1> QED
  BY Zenon, <1>1, <1>2 DEF Less, Alike

LEMMA FiniteKnown ==
    ASSUME NEW p \in Pools
    PROVE  Known(p) \in SUBSET Tx /\ IsFiniteSet(Known(p)) /\ Cardinality(Known(p)) \in Nat
<1>1. Known(p) \in SUBSET Tx
  BY DEF Pools, Known
<1>2. IsFiniteSet(Known(p))
  BY Zenon, <1>1, SubsetsFinite
<1> QED
  BY Zenon, <1>1, <1>2, FS_CardinalityType

\* TxLookup::remove.
LEMMA LookupRemoves ==
    ASSUME NEW p \in Pools, NEW ts, Counted(p)
    PROVE  /\ LookupRemove(p, ts) \in Pools /\ Counted(LookupRemove(p, ts))
           /\ Known(LookupRemove(p, ts)) = Known(p) \ ts
           /\ SameLists(p, LookupRemove(p, ts)) /\ LookupRemove(p, ts).locals = p.locals
<1> DEFINE q == LookupRemove(p, ts)
           k == Cardinality(ts \cap Known(p))
<1>1. /\ q.local = p.local \ ts /\ q.remote = p.remote \ ts /\ q.slots = p.slots - k
      /\ SameLists(p, q) /\ q.locals = p.locals
  BY DEF LookupRemove, Pools, SameLists
<1>2. k \in Nat
  <2>1. IsFiniteSet(ts \cap Known(p))
    BY Zenon, FiniteKnown, FS_Intersection
  <2> QED
    BY Zenon, <2>1, FS_CardinalityType
<1>3. q \in Pools
  <2> HIDE DEF k
  <2>1. p.slots - k \in Int
    BY <1>2 DEF Pools
  <2>2. q = [p EXCEPT !.local = p.local \ ts, !.remote = p.remote \ ts, !.slots = p.slots - k]
    BY Zenon DEF LookupRemove, k
  <2> HIDE DEF q
  <2> QED
    BY Zenon, <2>1, <2>2 DEF Pools
<1> HIDE DEF q, k
<1>4. Known(q) = Known(p) \ ts
  BY <1>1 DEF Known
<1>5. q.local \cap q.remote = {}
  BY <1>1 DEF Counted
<1>6. Cardinality(Known(p) \ ts) = Cardinality(Known(p)) - k
  <2>1. Cardinality(Known(p) \ ts) = Cardinality(Known(p)) - Cardinality(Known(p) \cap ts)
    BY Zenon, FiniteKnown, FS_Difference
  <2>2. Known(p) \cap ts = ts \cap Known(p)
    OBVIOUS
  <2> QED
    BY Zenon, <2>1, <2>2 DEF k
<1>7. Counted(q)
  BY Zenon, <1>1, <1>4, <1>5, <1>6 DEF Counted
<1> QED
  BY Zenon, <1>1, <1>3, <1>4, <1>7 DEF q

\* TxPricedList::remove.
LEMMA PricedRemoves == ASSUME NEW p \in Pools, NEW ts PROVE Alike(p, PricedRemove(p, ts)) /\ PricedRemove(p, ts).locals = p.locals
BY DEF PricedRemove, Pools, Alike

LEMMA AlikeCounted == ASSUME NEW p, NEW q, Alike(p, q) PROVE (Counted(p) => Counted(q)) /\ Known(q) = Known(p)
BY Zenon DEF Alike, Counted, Known

LEMMA Forgets ==
    ASSUME NEW p \in Pools, NEW ts, Counted(p)
    PROVE  /\ Forget(p, ts) \in Pools /\ Counted(Forget(p, ts))
           /\ Known(Forget(p, ts)) = Known(p) \ ts
           /\ SameLists(p, Forget(p, ts)) /\ Forget(p, ts).locals = p.locals
<1> DEFINE q == LookupRemove(p, ts)
           r == PricedRemove(q, ts)
<1>1. /\ q \in Pools /\ Counted(q) /\ Known(q) = Known(p) \ ts /\ SameLists(p, q) /\ q.locals = p.locals
  BY Zenon, LookupRemoves
<1> HIDE DEF q
<1>2. Alike(q, r) /\ r.locals = q.locals
  BY Zenon, <1>1, PricedRemoves
<1> HIDE DEF r
<1>3. Counted(r) /\ Known(r) = Known(q)
  BY Zenon, <1>1, <1>2, AlikeCounted
<1>4. r \in Pools /\ SameLists(p, r) /\ r.locals = p.locals
  BY Zenon, <1>1, <1>2 DEF Alike, SameLists
<1>5. Forget(p, ts) = r
  BY Zenon DEF Forget, q, r
<1> QED
  BY Zenon, <1>1, <1>3, <1>4, <1>5

\* TxLookup::add, then TxPricedList::put.
LEMMA LookupAdds ==
    ASSUME NEW p \in Pools, NEW t \in Tx, NEW isLocal \in BOOLEAN, Counted(p), t \notin Known(p)
    PROVE  LET q == PricedPut(LookupAdd(p, t, isLocal), t, isLocal)
           IN  /\ q \in Pools /\ Counted(q) /\ Known(q) = Known(p) \cup {t}
               /\ SameLists(p, q) /\ q.locals = p.locals
<1> DEFINE r == LookupAdd(p, t, isLocal)
           q == PricedPut(r, t, isLocal)
<1>1. /\ r.local = (IF isLocal THEN p.local \cup {t} ELSE p.local)
      /\ r.remote = (IF isLocal THEN p.remote ELSE p.remote \cup {t})
      /\ r.slots = p.slots + 1 /\ SameLists(p, r) /\ r.locals = p.locals
  BY DEF LookupAdd, Pools, SameLists
<1>2. r \in Pools
  <2> DEFINE l == IF isLocal THEN p.local \cup {t} ELSE p.local
             m == IF isLocal THEN p.remote ELSE p.remote \cup {t}
  <2>1. l \in SUBSET Tx /\ m \in SUBSET Tx /\ p.slots + 1 \in Int
    BY DEF Pools
  <2>2. r = [p EXCEPT !.local = l, !.remote = m, !.slots = p.slots + 1]
    BY Zenon DEF LookupAdd
  <2> HIDE DEF l, m, r
  <2> QED
    BY Zenon, <2>1, <2>2 DEF Pools
<1> HIDE DEF r
<1>3. Known(r) = Known(p) \cup {t}
  BY <1>1 DEF Known
<1>4. r.local \cap r.remote = {}
  BY <1>1 DEF Counted, Known
<1>5. Cardinality(Known(p) \cup {t}) = Cardinality(Known(p)) + 1
  BY Zenon, FiniteKnown, FS_AddElement
<1>6. Counted(r)
  BY Zenon, <1>1, <1>3, <1>4, <1>5 DEF Counted
<1>7. Alike(r, q) /\ q.locals = r.locals
  <2>1. CASE q = r
    BY Zenon, <1>2, <2>1 DEF Alike
  <2>2. CASE q = [r EXCEPT !.priced = r.priced \cup {t}]
    <3> HIDE DEF q
    <3> QED
      BY <1>2, <2>2 DEF Alike, Pools
  <2>3. q = r \/ q = [r EXCEPT !.priced = r.priced \cup {t}]
    BY Zenon DEF PricedPut
  <2> QED
    BY Zenon, <2>1, <2>2, <2>3
<1> HIDE DEF q
<1>8. Counted(q) /\ Known(q) = Known(r)
  BY Zenon, <1>6, <1>7, AlikeCounted
<1>9. q \in Pools /\ SameLists(p, q) /\ q.locals = p.locals
  BY Zenon, <1>1, <1>7 DEF Alike, SameLists
<1>10. /\ q \in Pools /\ Counted(q) /\ Known(q) = Known(p) \cup {t}
       /\ SameLists(p, q) /\ q.locals = p.locals
  BY Zenon, <1>3, <1>8, <1>9
<1> QED
  BY Zenon, <1>10 DEF q, r

\* TxLookup::remote_to_locals.
LEMMA MakesLocal ==
    ASSUME NEW p, Good(p), NEW a \in Account
    PROVE  /\ Good(MakeLocal(p, a)) /\ MakeLocal(p, a).state = p.state
           /\ Held(MakeLocal(p, a)) = Held(p) /\ Known(MakeLocal(p, a)) = Known(p)
<1> DEFINE own == {t \in p.remote : From[t] \in p.locals \cup {a}}
           q == [p EXCEPT !.locals = p.locals \cup {a}, !.remote = p.remote \ own, !.local = p.local \cup own]
           r == PricedRemove(q, own)
<1>1. own \subseteq p.remote
  OBVIOUS
<1>2. MakeLocal(p, a) = r
  BY Zenon DEF MakeLocal
<1> HIDE DEF own
<1>3. q \in Pools /\ SameLists(p, q) /\ q.slots = p.slots /\ q.remote = p.remote \ own /\ q.local = p.local \cup own
  BY Zenon, <1>1 DEF Good, Pools, SameLists
<1> HIDE DEF q
<1>4. Known(q) = Known(p) /\ q.local \cap q.remote = {}
  BY <1>1, <1>3 DEF Known, Good, Counted
<1>5. Held(q) = Held(p)
  BY Zenon, <1>3 DEF Held, SameLists
<1>6. Good(q)
  BY Zenon, <1>3, <1>4, <1>5 DEF Good, ListsApart, Counted, Beating, Covered, SameLists
<1>7. Alike(q, r)
  BY Zenon, <1>3, PricedRemoves
<1>8. Less(q, r) /\ Held(r) = Held(q) /\ Known(r) = Known(q)
  BY Zenon, <1>6, <1>7, AlikeGood, AlikeCounted
<1> HIDE DEF r
<1> QED
  BY Zenon, <1>2, <1>3, <1>4, <1>5, <1>8 DEF Less, SameLists

\* TxNoncer.
LEMMA NonceSets ==
    ASSUME NEW p \in Pools, NEW a \in Account, NEW n \in Nat
    PROVE  Alike(p, NonceSet(p, a, n))
<1>1. With(p.nonces, a, n) \in NonceMaps
  BY Zenon, WithNonce DEF Pools
<1>2. NonceSet(p, a, n) = [p EXCEPT !.nonces = With(p.nonces, a, n)]
  BY Zenon DEF NonceSet
<1> QED
  BY <1>1, <1>2 DEF Alike, Pools

LEMMA NonceGets ==
    ASSUME live \in Block, NEW p \in Pools, NEW a \in Account
    PROVE  NonceGet(p, a) \in Nat /\ AccountNonce(p, a) \in Nat
<1>1. StateOf(p) \in Block
  BY Zenon DEF StateOf, Pools
<1>2. AccountNonce(p, a) \in Nat
  BY Zenon, <1>1, TxChainAssumption DEF AccountNonce
<1>3. ASSUME a \in DOMAIN p.nonces PROVE p.nonces[a] \in Nat
  <2>1. p.nonces \in NonceMaps
    BY Zenon DEF Pools
  <2> QED
    BY <1>3, <2>1 DEF NonceMaps
<1> QED
  BY Zenon, <1>2, <1>3 DEF NonceGet

LEMMA LowestNonce ==
    ASSUME NEW list \in SUBSET Tx, list # {}
    PROVE  Lowest(list) \in Nat
<1>1. \A t \in list : Nonce[t] \in Nat
  BY TxAssumption
<1>2. Some(Least(list, Nonce)) \in list
  <2>1. Least(list, Nonce) # {} /\ Least(list, Nonce) \in SUBSET list
    BY Zenon, <1>1, LeastExists
  <2> QED
    BY Zenon, <2>1, SomeMember
<1> QED
  BY Zenon, <1>1, <1>2 DEF Lowest

LEMMA NonceLowers ==
    ASSUME live \in Block, NEW p \in Pools, NEW a \in Account, NEW n \in Nat
    PROVE  Alike(p, NonceSetIfLower(p, a, n))
<1>1. NonceGet(p, a) \in Nat
  BY Zenon, NonceGets
<1> QED
  BY Zenon, <1>1, NonceSets DEF NonceSetIfLower

-----------------------------------------------------------------------------
(* Queueing: enqueue_tx for transactions that are known already. *)

\* What a call that goes well returns.
Oks == [p : Pools, r : {"ok"}]

\* q is p with S queued for a.
Requeued(p, q, a, S) ==
    /\ q \in Pools /\ Beating(q) /\ q.pending = p.pending /\ q.state = p.state
    /\ q.local = p.local /\ q.remote = p.remote /\ q.slots = p.slots
    /\ At(q.queue, a) = At(p.queue, a) \cup S
    /\ SameBut(p.queue, q.queue, a)

LEMMA ForgetNothing == ASSUME NEW p \in Pools PROVE Alike(p, Forget(p, {})) /\ Forget(p, {}).locals = p.locals
<1> DEFINE q == LookupRemove(p, {})
<1>1. Cardinality({} \cap Known(p)) = 0
  <2>1. {} \cap Known(p) = {}
    OBVIOUS
  <2> QED
    BY Zenon, <2>1, FS_EmptySet
<1>2. p.local \ {} = p.local /\ p.remote \ {} = p.remote /\ p.slots - 0 = p.slots
  BY DEF Pools
<1>3. q = [p EXCEPT !.local = p.local, !.remote = p.remote, !.slots = p.slots]
  BY Zenon, <1>1, <1>2 DEF LookupRemove
<1> HIDE DEF q
<1>4. q = p
  BY Zenon, <1>3 DEF Pools
<1> QED
  BY Zenon, <1>4, PricedRemoves DEF Forget, q

\* The heartbeat an account gets with its first queued transaction.
LEMMA FirstBeat ==
    ASSUME NEW s \in Seq(Account), NEW a \in Account, IsInjective(s)
    PROVE  LET r == IF a \in Range(s) THEN s ELSE Append(s, a)
           IN  r \in Seq(Account) /\ IsInjective(r) /\ Range(r) = Range(s) \cup {a}
<1>1. CASE a \in Range(s)
  BY Zenon, <1>1
<1>2. CASE a \notin Range(s)
  BY Zenon, <1>2, BeatAdded
<1> QED
  BY Zenon, <1>1, <1>2

LEMMA EnqueueOne ==
    ASSUME NEW p \in Pools, Beating(p), NEW a \in Account, NEW t \in Tx, From[t] = a,
           SameNonce(At(p.queue, a), t) = {}
    PROVE  Enqueue(p, t) \in Oks /\ Requeued(p, Enqueue(p, t).p, a, {t})
<1> DEFINE list == At(p.queue, a)
           m == With(p.queue, a, list \cup {t})
           q == [p EXCEPT !.queue = m]
           r == Forget(q, {})
           s == [r EXCEPT !.beats = IF a \in Range(r.beats) THEN r.beats ELSE Append(r.beats, a)]
<1>1. p.queue \in Maps /\ p.beats \in Seq(Account) /\ IsInjective(p.beats) /\ DOMAIN p.queue \subseteq Range(p.beats)
  BY Zenon DEF Pools, Beating
<1>2. list \in SUBSET Tx
  BY Zenon, <1>1, AtType
<1>3. Added(list, t) = list \cup {t} /\ AddResult(list, t) = "ok"
  BY DEF Added, AddResult
<1>4. Enqueue(p, t) = Ok(s)
  BY Zenon, <1>3 DEF Enqueue, EnqueueTx
<1> HIDE DEF list
<1>5. /\ m \in Maps /\ DOMAIN m = DOMAIN p.queue \cup {a} /\ At(m, a) = list \cup {t}
      /\ SameBut(p.queue, m, a)
  <2> DEFINE v == list \cup {t}
  <2>1. v \in SUBSET Tx
    BY Zenon, <1>2
  <2>2. m = With(p.queue, a, v)
    OBVIOUS
  <2> HIDE DEF v, m
  <2>3. m \in Maps /\ DOMAIN m = DOMAIN p.queue \cup {a} /\ At(m, a) = v /\ SameBut(p.queue, m, a)
    BY Zenon, <1>1, <2>1, <2>2, WithMap
  <2> QED
    BY Zenon, <2>3 DEF v
<1> HIDE DEF m
<1>6. /\ q \in Pools /\ q.queue = m /\ q.pending = p.pending /\ q.local = p.local /\ q.remote = p.remote
      /\ q.slots = p.slots /\ q.state = p.state /\ q.beats = p.beats
  BY <1>5 DEF Pools
<1> HIDE DEF q
<1>7. Alike(q, r)
  BY Zenon, <1>6, ForgetNothing
<1> HIDE DEF r
<1>8. /\ r \in Pools /\ r.queue = m /\ r.pending = p.pending /\ r.local = p.local /\ r.remote = p.remote
      /\ r.slots = p.slots /\ r.state = p.state /\ r.beats = p.beats
  BY Zenon, <1>6, <1>7 DEF Alike
<1> DEFINE beats == IF a \in Range(p.beats) THEN p.beats ELSE Append(p.beats, a)
<1>9. beats \in Seq(Account) /\ IsInjective(beats) /\ Range(beats) = Range(p.beats) \cup {a}
  BY Zenon, <1>1, FirstBeat
<1>10. s = [r EXCEPT !.beats = beats]
  BY Zenon, <1>8
<1> HIDE DEF beats, s
<1>11. /\ s \in Pools /\ s.queue = m /\ s.pending = p.pending /\ s.local = p.local /\ s.remote = p.remote
       /\ s.slots = p.slots /\ s.state = p.state /\ s.beats = beats
  BY Zenon, <1>8, <1>9, <1>10 DEF Pools
<1>12. Beating(s)
  BY Zenon, <1>1, <1>5, <1>9, <1>11 DEF Beating
<1>13. Requeued(p, s, a, {t})
  BY Zenon, <1>5, <1>11, <1>12 DEF Requeued, list
<1>14. Ok(s) \in Oks /\ Ok(s).p = s
  BY <1>11 DEF Ok, Oks
<1> QED
  BY Zenon, <1>4, <1>13, <1>14

\* S can be put in the list of a one by one.
Movable(list, a, S) ==
    /\ \A t \in S : From[t] = a
    /\ \A t, u \in S : Nonce[t] = Nonce[u] => t = u
    /\ \A t \in S, u \in list : Nonce[t] # Nonce[u]

LEMMA RequeuedTwice ==
    ASSUME NEW p, NEW q, NEW r, NEW a, NEW S, NEW T, Requeued(p, q, a, S), Requeued(q, r, a, T)
    PROVE  Requeued(p, r, a, S \cup T)
<1>1. At(r.queue, a) = At(p.queue, a) \cup (S \cup T)
  BY Zenon DEF Requeued
<1>2. SameBut(p.queue, r.queue, a)
  BY Zenon DEF Requeued, SameBut
<1> QED
  BY Zenon, <1>1, <1>2 DEF Requeued

LEMMA EnqueuesAll ==
    ASSUME NEW p \in Pools, Beating(p), NEW a \in Account, NEW S \in SUBSET Tx, Movable(At(p.queue, a), a, S)
    PROVE  EnqueueAll(p, S) \in Oks /\ Requeued(p, EnqueueAll(p, S).p, a, S)
<1> DEFINE s == ByNonce(S)
           upto(i) == {s[j] : j \in 1 .. i}
<1> DEFINE n == Len(s)
           C == [i \in 0 .. n |-> {x \in Oks : Requeued(p, x.p, a, upto(i))}]
           start == Ok(p)
           Step(x, i) == IF x.r = "ok" THEN Enqueue(x.p, s[i]) ELSE x
           Body(f) == [i \in 0 .. n |-> IF i = 0 THEN start ELSE Step(f[i - 1], i)]
           run == CHOOSE f : f = Body(f)
<1>1. EnqueueAll(p, S) = run[n]
  BY Zenon DEF EnqueueAll, InOrder, Then
<1>2. n \in Nat
  <2>1. s \in Seq(S)
    BY Zenon, ByNonceLists DEF Enumerates
  <2> QED
    BY <2>1
<1>3. start \in C[0]
  <2>1. 0 \in 0 .. n /\ upto(0) = {}
    BY <1>2
  <2>2. Requeued(p, p, a, {}) /\ Ok(p) \in Oks /\ Ok(p).p = p
    BY DEF Oks, Ok, Requeued, SameBut
  <2> HIDE DEF upto, n, s
  <2> QED
    BY Zenon, <2>1, <2>2
<1>4. \A i \in 1 .. n : \A x \in C[i - 1] : Step(x, i) \in C[i]
  <2> SUFFICES ASSUME NEW i \in 1 .. n, NEW x \in Oks, Requeued(p, x.p, a, upto(i - 1))
               PROVE  Step(x, i) \in Oks /\ Requeued(p, Step(x, i).p, a, upto(i))
    <3>1. \A i \in 1 .. n : i - 1 \in 0 .. n /\ i \in 0 .. n
      BY <1>2
    <3> HIDE DEF n, Step, upto, s
    <3> QED
      BY Zenon, <3>1
  <2>1. s \in Seq(S) /\ \A k, l \in 1 .. Len(s) : s[k] = s[l] => k = l
    BY Zenon, ByNonceLists DEF Enumerates
  <2>2. s[i] \in S /\ s[i] \in Tx /\ From[s[i]] = a
    BY <2>1 DEF Movable
  <2>3. upto(i) = upto(i - 1) \cup {s[i]}
    <3>1. 1 .. i = (1 .. (i - 1)) \cup {i}
      OBVIOUS
    <3> QED
      BY Zenon, <3>1
  <2>4. \A u \in upto(i - 1) : u \in S /\ u # s[i]
    BY <2>1
  <2>5. x.r = "ok" /\ x.p \in Pools /\ Beating(x.p) /\ At(x.p.queue, a) = At(p.queue, a) \cup upto(i - 1)
    BY Zenon DEF Oks, Requeued
  <2>6. SameNonce(At(x.p.queue, a), s[i]) = {}
    <3> HIDE DEF upto, s
    <3> QED
      BY Zenon, <2>2, <2>4, <2>5 DEF SameNonce, Movable
  <2> DEFINE y == Enqueue(x.p, s[i])
  <2>7. Step(x, i) = y
    BY Zenon, <2>5
  <2> HIDE DEF upto, s, n
  <2>8. y \in Oks /\ Requeued(x.p, y.p, a, {s[i]})
    BY Zenon, <2>2, <2>5, <2>6, EnqueueOne
  <2> HIDE DEF y, Step
  <2>9. Requeued(p, y.p, a, upto(i))
    BY <2>3, <2>8, RequeuedTwice
  <2> QED
    BY Zenon, <2>7, <2>8, <2>9
<1>5. run[n] \in C[n]
  <2> HIDE DEF n, C, start, Step, s, upto
  <2> DEFINE step == [z \in States(C, n) \X (1 .. n) |-> Step(z[1], z[2])]
  <2>1. 0 \in 0 .. n /\ \A i \in 1 .. n : i \in 0 .. n /\ i - 1 \in 0 .. n /\ i # 0
    BY <1>2
  <2>2. \A i \in 1 .. n : \A x \in C[i - 1] : step[<<x, i>>] = Step(x, i)
    <3>1. \A i \in 1 .. n : C[i - 1] \subseteq States(C, n)
      BY Zenon, <2>1 DEF States
    <3> QED
      BY Zenon, <3>1
  <2>3. PICK f : IsPath(f, C, start, n, step)
    <3> HIDE DEF step
    <3> QED
      BY Zenon, <1>2, <1>3, <1>4, <2>2, Paths
  <2>4. f = Body(f)
    <3> HIDE DEF step
    <3>1. \A i \in 0 .. n : i = 0 \/ i \in 1 .. n
      BY <1>2
    <3>2. \A i \in 0 .. n : f[i] = IF i = 0 THEN start ELSE Step(f[i - 1], i)
      BY Zenon, <2>2, <2>3, <3>1 DEF IsPath
    <3> QED
      BY Zenon, <2>3, <3>2 DEF IsPath
  <2>5. run = Body(run)
    BY Zenon, <2>4
  <2> HIDE DEF run
  <2>6. \A i \in 0 .. n : run[i] = IF i = 0 THEN start ELSE Step(run[i - 1], i)
    <3>1. \A i \in 0 .. n : Body(run)[i] = IF i = 0 THEN start ELSE Step(run[i - 1], i)
      BY Zenon
    <3> HIDE DEF Body
    <3> QED
      BY Zenon, <2>5, <3>1
  <2>7. run[0] \in C[0] /\ \A i \in 1 .. n : run[i - 1] \in C[i - 1] => run[i] \in C[i]
    BY Zenon, <1>3, <1>4, <2>1, <2>6
  <2> QED
    BY Zenon, <1>2, <2>7, PathEnds
<1>6. upto(n) = S
  <2>1. s \in Seq(S) /\ \A u \in S : \E i \in 1 .. Len(s) : s[i] = u
    BY Zenon, ByNonceLists DEF Enumerates
  <2>2. \A i \in 1 .. n : s[i] \in S
    BY <2>1
  <2> HIDE DEF s
  <2> QED
    BY Zenon, <2>1, <2>2
<1>7. n \in 0 .. n
  BY <1>2
<1>8. run[n] \in Oks /\ Requeued(p, run[n].p, a, upto(n))
  <2> HIDE DEF n, run, upto
  <2> QED
    BY Zenon, <1>5, <1>7
<1> HIDE DEF n, run, upto
<1> QED
  BY Zenon, <1>1, <1>6, <1>8

-----------------------------------------------------------------------------
(* promote_tx for queued transactions. *)

\* q is p with S pending for a.
Promoted(p, q, a, S) ==
    /\ q \in Pools /\ Beating(q) /\ q.queue = p.queue /\ q.state = p.state
    /\ q.local = p.local /\ q.remote = p.remote /\ q.slots = p.slots
    /\ At(q.pending, a) = At(p.pending, a) \cup S
    /\ SameBut(p.pending, q.pending, a)

LEMMA PromotedTwice ==
    ASSUME NEW p, NEW q, NEW r, NEW a, NEW S, NEW T, Promoted(p, q, a, S), Promoted(q, r, a, T)
    PROVE  Promoted(p, r, a, S \cup T)
<1>1. At(r.pending, a) = At(p.pending, a) \cup (S \cup T)
  BY Zenon DEF Promoted
<1>2. SameBut(p.pending, r.pending, a)
  BY Zenon DEF Promoted, SameBut
<1> QED
  BY Zenon, <1>1, <1>2 DEF Promoted

LEMMA PromoteTxOne ==
    ASSUME NEW p \in Pools, Beating(p), NEW a \in Account, NEW t \in Tx, From[t] = a,
           SameNonce(At(p.pending, a), t) = {}
    PROVE  PromoteTx(p, t) \in Oks /\ Promoted(p, PromoteTx(p, t).p, a, {t})
<1> DEFINE list == At(p.pending, a)
           m == With(p.pending, a, list \cup {t})
           q == [p EXCEPT !.pending = m]
           r == NonceSet(Forget(q, {}), a, Nonce[t] + 1)
           s == [r EXCEPT !.beats = Append(WithoutBeat(r.beats, a), a)]
<1>1. p.pending \in Maps /\ p.beats \in Seq(Account) /\ IsInjective(p.beats) /\ DOMAIN p.queue \subseteq Range(p.beats)
  BY Zenon DEF Pools, Beating
<1>2. list \in SUBSET Tx
  BY Zenon, <1>1, AtType
<1>3. Added(list, t) = list \cup {t} /\ AddResult(list, t) = "ok"
  BY DEF Added, AddResult
<1>4. PromoteTx(p, t) = Ok(s)
  <2>1. AddResult(list, t) # "panic" /\ AddResult(list, t) # "error"
    BY <1>3
  <2> QED
    BY Zenon, <1>3, <2>1 DEF PromoteTx
<1> HIDE DEF list
<1>5. m \in Maps /\ At(m, a) = list \cup {t} /\ SameBut(p.pending, m, a)
  <2> DEFINE v == list \cup {t}
  <2>1. v \in SUBSET Tx
    BY Zenon, <1>2
  <2>2. m = With(p.pending, a, v)
    OBVIOUS
  <2> HIDE DEF v, m
  <2>3. m \in Maps /\ At(m, a) = v /\ SameBut(p.pending, m, a)
    BY Zenon, <1>1, <2>1, <2>2, WithMap
  <2> QED
    BY Zenon, <2>3 DEF v
<1> HIDE DEF m
<1>6. /\ q \in Pools /\ q.pending = m /\ q.queue = p.queue /\ q.local = p.local /\ q.remote = p.remote
      /\ q.slots = p.slots /\ q.state = p.state /\ q.beats = p.beats
  BY <1>5 DEF Pools
<1> HIDE DEF q
<1>7. Alike(q, Forget(q, {})) /\ Alike(Forget(q, {}), r)
  <2>1. Nonce[t] + 1 \in Nat
    BY TxAssumption
  <2>2. Alike(q, Forget(q, {})) /\ Forget(q, {}) \in Pools
    BY Zenon, <1>6, ForgetNothing DEF Alike
  <2> QED
    BY Zenon, <2>1, <2>2, NonceSets
<1> HIDE DEF r
<1>8. /\ r \in Pools /\ r.pending = m /\ r.queue = p.queue /\ r.local = p.local /\ r.remote = p.remote
      /\ r.slots = p.slots /\ r.state = p.state /\ r.beats = p.beats
  BY Zenon, <1>6, <1>7 DEF Alike
<1> DEFINE kept == WithoutBeat(p.beats, a)
           beats == Append(kept, a)
<1>9. beats \in Seq(Account) /\ IsInjective(beats) /\ Range(beats) = (Range(p.beats) \ {a}) \cup {a}
  <2>1. kept \in Seq(Account) /\ IsInjective(kept) /\ Range(kept) = Range(p.beats) \ {a}
    BY Zenon, <1>1, BeatRemoved
  <2> HIDE DEF kept
  <2>2. a \notin Range(kept)
    BY Zenon, <2>1
  <2> QED
    BY Zenon, <2>1, <2>2, BeatAdded
<1>10. s = [r EXCEPT !.beats = beats]
  BY Zenon, <1>8
<1> HIDE DEF beats, s
<1>11. /\ s \in Pools /\ s.pending = m /\ s.queue = p.queue /\ s.local = p.local /\ s.remote = p.remote
       /\ s.slots = p.slots /\ s.state = p.state /\ s.beats = beats
  BY Zenon, <1>8, <1>9, <1>10 DEF Pools
<1>12. Beating(s)
  BY Zenon, <1>1, <1>9, <1>11 DEF Beating
<1>13. Promoted(p, s, a, {t})
  BY Zenon, <1>5, <1>11, <1>12 DEF Promoted, list
<1>14. Ok(s) \in Oks /\ Ok(s).p = s
  BY <1>11 DEF Ok, Oks
<1> QED
  BY Zenon, <1>4, <1>13, <1>14

LEMMA PromotesAll ==
    ASSUME NEW p \in Pools, Beating(p), NEW a \in Account, NEW S \in SUBSET Tx, Movable(At(p.pending, a), a, S)
    PROVE  PromoteAll(p, S) \in Oks /\ Promoted(p, PromoteAll(p, S).p, a, S)
<1> DEFINE s == ByNonce(S)
           upto(i) == {s[j] : j \in 1 .. i}
<1> DEFINE n == Len(s)
           C == [i \in 0 .. n |-> {x \in Oks : Promoted(p, x.p, a, upto(i))}]
           start == Ok(p)
           Step(x, i) == IF x.r = "ok" THEN PromoteTx(x.p, s[i]) ELSE x
           Body(f) == [i \in 0 .. n |-> IF i = 0 THEN start ELSE Step(f[i - 1], i)]
           run == CHOOSE f : f = Body(f)
<1>1. PromoteAll(p, S) = run[n]
  BY Zenon DEF PromoteAll, InOrder, Then
<1>2. n \in Nat
  <2>1. s \in Seq(S)
    BY Zenon, ByNonceLists DEF Enumerates
  <2> QED
    BY <2>1
<1>3. start \in C[0]
  <2>1. 0 \in 0 .. n /\ upto(0) = {}
    BY <1>2
  <2>2. Promoted(p, p, a, {}) /\ Ok(p) \in Oks /\ Ok(p).p = p
    BY DEF Oks, Ok, Promoted, SameBut
  <2> HIDE DEF upto, n, s
  <2> QED
    BY Zenon, <2>1, <2>2
<1>4. \A i \in 1 .. n : \A x \in C[i - 1] : Step(x, i) \in C[i]
  <2> SUFFICES ASSUME NEW i \in 1 .. n, NEW x \in Oks, Promoted(p, x.p, a, upto(i - 1))
               PROVE  Step(x, i) \in Oks /\ Promoted(p, Step(x, i).p, a, upto(i))
    <3>1. \A i \in 1 .. n : i - 1 \in 0 .. n /\ i \in 0 .. n
      BY <1>2
    <3> HIDE DEF n, Step, upto, s
    <3> QED
      BY Zenon, <3>1
  <2>1. s \in Seq(S) /\ \A k, l \in 1 .. Len(s) : s[k] = s[l] => k = l
    BY Zenon, ByNonceLists DEF Enumerates
  <2>2. s[i] \in S /\ s[i] \in Tx /\ From[s[i]] = a
    BY <2>1 DEF Movable
  <2>3. upto(i) = upto(i - 1) \cup {s[i]}
    <3>1. 1 .. i = (1 .. (i - 1)) \cup {i}
      OBVIOUS
    <3> QED
      BY Zenon, <3>1
  <2>4. \A u \in upto(i - 1) : u \in S /\ u # s[i]
    BY <2>1
  <2>5. x.r = "ok" /\ x.p \in Pools /\ Beating(x.p) /\ At(x.p.pending, a) = At(p.pending, a) \cup upto(i - 1)
    BY Zenon DEF Oks, Promoted
  <2>6. SameNonce(At(x.p.pending, a), s[i]) = {}
    <3> HIDE DEF upto, s
    <3> QED
      BY Zenon, <2>2, <2>4, <2>5 DEF SameNonce, Movable
  <2> DEFINE y == PromoteTx(x.p, s[i])
  <2>7. Step(x, i) = y
    BY Zenon, <2>5
  <2> HIDE DEF upto, s, n
  <2>8. y \in Oks /\ Promoted(x.p, y.p, a, {s[i]})
    BY Zenon, <2>2, <2>5, <2>6, PromoteTxOne
  <2> HIDE DEF y, Step
  <2>9. Promoted(p, y.p, a, upto(i))
    BY <2>3, <2>8, PromotedTwice
  <2> QED
    BY Zenon, <2>7, <2>8, <2>9
<1>5. run[n] \in C[n]
  <2> HIDE DEF n, C, start, Step, s, upto
  <2> DEFINE step == [z \in States(C, n) \X (1 .. n) |-> Step(z[1], z[2])]
  <2>1. 0 \in 0 .. n /\ \A i \in 1 .. n : i \in 0 .. n /\ i - 1 \in 0 .. n /\ i # 0
    BY <1>2
  <2>2. \A i \in 1 .. n : \A x \in C[i - 1] : step[<<x, i>>] = Step(x, i)
    <3>1. \A i \in 1 .. n : C[i - 1] \subseteq States(C, n)
      BY Zenon, <2>1 DEF States
    <3> QED
      BY Zenon, <3>1
  <2>3. PICK f : IsPath(f, C, start, n, step)
    <3> HIDE DEF step
    <3> QED
      BY Zenon, <1>2, <1>3, <1>4, <2>2, Paths
  <2>4. f = Body(f)
    <3> HIDE DEF step
    <3>1. \A i \in 0 .. n : i = 0 \/ i \in 1 .. n
      BY <1>2
    <3>2. \A i \in 0 .. n : f[i] = IF i = 0 THEN start ELSE Step(f[i - 1], i)
      BY Zenon, <2>2, <2>3, <3>1 DEF IsPath
    <3> QED
      BY Zenon, <2>3, <3>2 DEF IsPath
  <2>5. run = Body(run)
    BY Zenon, <2>4
  <2> HIDE DEF run
  <2>6. \A i \in 0 .. n : run[i] = IF i = 0 THEN start ELSE Step(run[i - 1], i)
    <3>1. \A i \in 0 .. n : Body(run)[i] = IF i = 0 THEN start ELSE Step(run[i - 1], i)
      BY Zenon
    <3> HIDE DEF Body
    <3> QED
      BY Zenon, <2>5, <3>1
  <2>7. run[0] \in C[0] /\ \A i \in 1 .. n : run[i - 1] \in C[i - 1] => run[i] \in C[i]
    BY Zenon, <1>3, <1>4, <2>1, <2>6
  <2> QED
    BY Zenon, <1>2, <2>7, PathEnds
<1>6. upto(n) = S
  <2>1. s \in Seq(S) /\ \A u \in S : \E i \in 1 .. Len(s) : s[i] = u
    BY Zenon, ByNonceLists DEF Enumerates
  <2>2. \A i \in 1 .. n : s[i] \in S
    BY <2>1
  <2> HIDE DEF s
  <2> QED
    BY Zenon, <2>1, <2>2
<1>7. n \in 0 .. n
  BY <1>2
<1>8. run[n] \in Oks /\ Promoted(p, run[n].p, a, upto(n))
  <2> HIDE DEF n, run, upto
  <2> QED
    BY Zenon, <1>5, <1>7
<1> HIDE DEF n, run, upto
<1> QED
  BY Zenon, <1>1, <1>6, <1>8


-----------------------------------------------------------------------------
(* What a step on the lists of one account may do to them. *)

OnlyPending(p, q, m) ==
    /\ q \in Pools /\ q.pending = m /\ q.queue = p.queue /\ q.beats = p.beats /\ q.state = p.state
    /\ q.local = p.local /\ q.remote = p.remote /\ q.slots = p.slots

OnlyQueue(p, q, m) ==
    /\ q \in Pools /\ q.queue = m /\ q.pending = p.pending /\ q.beats = p.beats /\ q.state = p.state
    /\ q.local = p.local /\ q.remote = p.remote /\ q.slots = p.slots

LEMMA PendingSet ==
    ASSUME NEW p \in Pools, NEW m \in Maps PROVE OnlyPending(p, [p EXCEPT !.pending = m], m)
BY DEF Pools, OnlyPending

LEMMA QueueSet ==
    ASSUME NEW p \in Pools, NEW m \in Maps PROVE OnlyQueue(p, [p EXCEPT !.queue = m], m)
BY DEF Pools, OnlyQueue

LEMMA SameLookup ==
    ASSUME NEW p, NEW q, q.local = p.local, q.remote = p.remote, q.slots = p.slots
    PROVE  Known(q) = Known(p) /\ (Counted(p) => Counted(q))
BY Zenon DEF Known, Counted

\* q is p with fewer transactions in the lists of a and in the lookup.
Narrowed(p, q, a) ==
    /\ q \in Pools /\ Counted(q) /\ Beating(q) /\ q.state = p.state /\ Known(q) \subseteq Known(p)
    /\ SameBut(p.pending, q.pending, a) /\ SameBut(p.queue, q.queue, a)
    /\ At(q.pending, a) \cap At(q.queue, a) = {}
    /\ At(q.pending, a) \cup At(q.queue, a) \subseteq At(p.pending, a) \cup At(p.queue, a)
    /\ Known(q) \cap (At(p.pending, a) \cup At(p.queue, a)) \subseteq At(q.pending, a) \cup At(q.queue, a)

LEMMA Fewer ==
    ASSUME NEW a, NEW P, NEW Q, NEW R, NEW S, OneAccount(a, P, Q), R \cup S \subseteq P \cup Q, R \cap S = {}
    PROVE  OneAccount(a, R, S)
<1>1. \A t \in R \cup S : t \in P \cup Q
  BY Zenon
<1> QED
  BY Zenon, <1>1 DEF OneAccount

LEMMA NarrowedLess ==
    ASSUME NEW p, Good(p), NEW q, NEW a \in Account, Narrowed(p, q, a)
    PROVE  Less(p, q)
<1>1. ListsApart(q)
  <2> SUFFICES ASSUME NEW b \in Account PROVE OneAccount(b, At(q.pending, b), At(q.queue, b))
    BY Zenon DEF ListsApart
  <2>1. OneAccount(b, At(p.pending, b), At(p.queue, b))
    BY Zenon DEF Good, ListsApart
  <2>2. CASE b # a
    BY Zenon, <2>1, <2>2 DEF Narrowed, SameBut
  <2>3. CASE b = a
    <3>1. OneAccount(a, At(p.pending, a), At(p.queue, a))
      BY Zenon, <2>1, <2>3
    <3>2. OneAccount(a, At(q.pending, a), At(q.queue, a))
      BY <3>1, Fewer DEF Narrowed
    <3> QED
      BY Zenon, <2>3, <3>2
  <2> QED
    BY Zenon, <2>2, <2>3
<1>2. Held(q) \subseteq Held(p)
  <2> SUFFICES ASSUME NEW t \in Tx, t \in At(q.pending, From[t]) \cup At(q.queue, From[t])
               PROVE  t \in At(p.pending, From[t]) \cup At(p.queue, From[t])
    BY Zenon DEF Held
  <2>1. CASE From[t] = a
    BY Zenon, <2>1 DEF Narrowed
  <2>2. CASE From[t] # a
    BY Zenon, <2>2 DEF Narrowed, SameBut
  <2> QED
    BY Zenon, <2>1, <2>2
<1>3. Covered(q)
  <2> SUFFICES ASSUME NEW t \in Known(q) PROVE t \in Held(q)
    BY Zenon DEF Covered
  <2>1. t \in Tx /\ t \in At(p.pending, From[t]) \cup At(p.queue, From[t])
    BY Zenon DEF Good, Covered, Held, Narrowed
  <2>2. CASE From[t] = a
    BY Zenon, <2>1, <2>2 DEF Narrowed, Held
  <2>3. CASE From[t] # a
    BY Zenon, <2>1, <2>3 DEF Narrowed, SameBut, Held
  <2> QED
    BY Zenon, <2>2, <2>3
<1> QED
  BY Zenon, <1>1, <1>2, <1>3 DEF Less, Good, Narrowed

\* The lists of an account in a good pool.
LEMMA AccountLists ==
    ASSUME NEW p, Good(p), NEW a \in Account
    PROVE  /\ At(p.pending, a) \in SUBSET Tx /\ At(p.queue, a) \in SUBSET Tx
           /\ OneAccount(a, At(p.pending, a), At(p.queue, a))
BY Zenon, AtType DEF Good, Pools, ListsApart

\* A call that succeeds and leaves a good pool with less in it.
LessOk(p, res) == res \in Oks /\ Less(p, res.p)

LEMMA OkLess == ASSUME NEW p, NEW q, Less(p, q) PROVE LessOk(p, Ok(q))
<1>1. q \in Pools
  BY Zenon DEF Less, Good
<1>2. Ok(q) \in Oks /\ Ok(q).p = q
  BY <1>1 DEF Ok, Oks
<1> QED
  BY Zenon, <1>2 DEF LessOk

-----------------------------------------------------------------------------
(* remove_tx *)

\* The higher pending transactions go to the queue.
LEMMA RemovesQueued ==
    ASSUME live \in Block, NEW p, Good(p), NEW t \in Tx, NEW a, a = From[t],
           NEW q \in Pools, Counted(q), Known(q) = Known(p) \ {t}, SameLists(p, q),
           NEW P, P = At(p.pending, a), SameNonce(P, t) = {},
           NEW m \in Maps, At(m, a) = P \ After(P, Nonce[t]), SameBut(p.pending, m, a)
    PROVE  LET y == EnqueueAll([q EXCEPT !.pending = m], After(P, Nonce[t]))
               z == NonceSetIfLower(y.p, a, Nonce[t])
           IN  y.r = "ok" /\ Less(p, z)
<1> DEFINE Q == At(p.queue, a)
           up == After(P, Nonce[t])
           x == [q EXCEPT !.pending = m]
           y == EnqueueAll(x, up)
           z == NonceSetIfLower(y.p, a, Nonce[t])
<1>1. a \in Account /\ Nonce[t] \in Nat
  BY TxAssumption
<1>2. P \in SUBSET Tx /\ Q \in SUBSET Tx /\ OneAccount(a, P, Q)
  BY Zenon, <1>1, AccountLists
<1>3. OnlyPending(q, x, m)
  BY Zenon, PendingSet
<1> HIDE DEF x
<1>4. x \in Pools /\ x.queue = p.queue /\ Beating(x) /\ Counted(x) /\ Known(x) = Known(p) \ {t} /\ x.state = p.state
  <2>1. x \in Pools /\ x.queue = p.queue /\ x.beats = p.beats /\ x.state = p.state
    BY Zenon, <1>3 DEF OnlyPending, SameLists
  <2>2. Known(x) = Known(q) /\ Counted(x)
    BY Zenon, <1>3, SameLookup DEF OnlyPending
  <2> QED
    BY Zenon, <2>1, <2>2 DEF Good, Beating
<1>5. up \in SUBSET P /\ up \in SUBSET Tx
  BY Zenon, <1>2 DEF After
<1> HIDE DEF up, Q
<1>6. Movable(At(x.queue, a), a, up)
  BY Zenon, <1>2, <1>4, <1>5 DEF Movable, OneAccount, Q
<1>7. y \in Oks /\ Requeued(x, y.p, a, up)
  BY Zenon, <1>1, <1>4, <1>5, <1>6, EnqueuesAll
<1> HIDE DEF y
<1>8. Alike(y.p, z) /\ y.r = "ok"
  BY Zenon, <1>1, <1>7, NonceLowers DEF Oks, Requeued
<1> HIDE DEF z
<1>9. At(z.pending, a) = P \ up /\ At(z.queue, a) = Q \cup up /\ SameBut(p.pending, z.pending, a) /\ SameBut(p.queue, z.queue, a)
  BY Zenon, <1>3, <1>4, <1>7, <1>8 DEF Alike, Requeued, OnlyPending, Q, up
<1>10. z \in Pools /\ Beating(z) /\ z.state = p.state
  BY Zenon, <1>4, <1>7, <1>8 DEF Alike, Requeued, Beating
<1>11. Counted(z) /\ Known(z) = Known(p) \ {t}
  <2>1. z.local = x.local /\ z.remote = x.remote /\ z.slots = x.slots
    BY Zenon, <1>7, <1>8 DEF Alike, Requeued
  <2> QED
    BY Zenon, <1>4, <2>1, SameLookup
<1>12. Narrowed(p, z, a)
  <2>1. (P \ up) \cap (Q \cup up) = {} /\ (P \ up) \cup (Q \cup up) = P \cup Q
    BY Zenon, <1>2, <1>5 DEF OneAccount
  <2> QED
    BY Zenon, <1>9, <1>10, <1>11, <2>1 DEF Narrowed, Q
<1>13. Less(p, z)
  BY Zenon, <1>1, <1>12, NarrowedLess
<1> QED
  BY Zenon, <1>8, <1>13 DEF z, y, x, up

\* The transaction goes from the list of its account that holds its nonce.
LEMMA RemovesListed ==
    ASSUME NEW p, Good(p), NEW t \in Known(p), NEW a, a = From[t],
           NEW q \in Pools, Counted(q), Known(q) = Known(p) \ {t}, Beating(q), q.state = p.state,
           SameBut(p.pending, q.pending, a), SameBut(p.queue, q.queue, a),
           At(q.pending, a) = At(p.pending, a) \ SameNonce(At(p.pending, a), t),
           At(q.queue, a) = At(p.queue, a) \ SameNonce(At(p.queue, a), t)
    PROVE  Less(p, q)
<1> DEFINE P == At(p.pending, a)
           Q == At(p.queue, a)
<1>1. t \in Tx /\ t \in P \cup Q
  BY Zenon DEF Good, Covered, Held
<1>2. a \in Account
  BY <1>1, TxAssumption
<1>3. OneAccount(a, P, Q)
  BY Zenon, <1>2, AccountLists
<1> HIDE DEF P, Q
<1>4. SameNonce(P, t) \subseteq {t} /\ SameNonce(Q, t) \subseteq {t}
  BY Zenon, <1>1, <1>3 DEF OneAccount, SameNonce
<1>5. At(q.pending, a) = P \ SameNonce(P, t) /\ At(q.queue, a) = Q \ SameNonce(Q, t)
  BY Zenon DEF P, Q
<1> DEFINE R == At(q.pending, a)
           S == At(q.queue, a)
<1>6. R \cap S = {} /\ R \cup S \subseteq P \cup Q /\ (Known(p) \ {t}) \cap (P \cup Q) \subseteq R \cup S
  <2> HIDE DEF R, S
  <2>1. R = P \ SameNonce(P, t) /\ S = Q \ SameNonce(Q, t)
    BY Zenon, <1>5 DEF R, S
  <2> QED
    BY Zenon, <1>3, <1>4, <2>1 DEF OneAccount
<1>7. Narrowed(p, q, a)
  BY Zenon, <1>6 DEF Narrowed, P, Q
<1> QED
  BY Zenon, <1>2, <1>7, NarrowedLess

\* TxPool::remove_tx succeeds and leaves a good pool with less in it.
LEMMA Removes ==
    ASSUME live \in Block, NEW p, Good(p), NEW t \in Tx, NEW outofbound
    PROVE  LessOk(p, RemoveTx(p, t, outofbound))
<1> DEFINE a == From[t]
           P == At(p.pending, a)
           Q == At(p.queue, a)
           p1 == IF outofbound THEN Forget(p, {t}) ELSE LookupRemove(p, {t})
           kept == P \ After(P, Nonce[t])
           m2 == IF kept = {} THEN Without(p.pending, a) ELSE With(p.pending, a, kept)
           y == EnqueueAll([p1 EXCEPT !.pending = m2], After(P, Nonce[t]))
           p3 == IF a \in DOMAIN p.pending
                 THEN [p1 EXCEPT !.pending = With(p.pending, a, P \ SameNonce(P, t))] ELSE p1
           p4 == [p3 EXCEPT !.queue = With(p.queue, a, Q \ SameNonce(Q, t))]
<1>1. p \in Pools /\ Counted(p) /\ a \in Account /\ p.pending \in Maps /\ p.queue \in Maps
  BY Zenon, TxAssumption DEF Good, Pools
<1>2. P \in SUBSET Tx /\ Q \in SUBSET Tx /\ OneAccount(a, P, Q)
  BY Zenon, <1>1, AccountLists
<1>3. p1 \in Pools /\ Counted(p1) /\ Known(p1) = Known(p) \ {t} /\ SameLists(p, p1)
  <2>1. CASE outofbound
    BY Zenon, <1>1, <2>1, Forgets
  <2>2. CASE ~outofbound
    BY Zenon, <1>1, <2>2, LookupRemoves
  <2> QED
    BY Zenon, <2>1, <2>2
<1>4. p1.pending = p.pending /\ p1.queue = p.queue
  BY Zenon, <1>3 DEF SameLists
<1>5. CASE t \notin Known(p)
  <2>1. RemoveTx(p, t, outofbound) = Ok(p)
    BY Zenon, <1>5 DEF RemoveTx
  <2> QED
    BY Zenon, <2>1, LessReflexive, OkLess
<1>6. CASE t \in Known(p) /\ a \in DOMAIN p.pending /\ SameNonce(P, t) = {}
  <2>1. RemoveTx(p, t, outofbound) = IF y.r = "ok" THEN Ok(NonceSetIfLower(y.p, a, Nonce[t])) ELSE y
    <3> DEFINE list == At(p1.pending, a)
               rest == list \ After(list, Nonce[t])
               x == [p1 EXCEPT !.pending = IF rest = {} THEN Without(p1.pending, a) ELSE With(p1.pending, a, rest)]
               w == EnqueueAll(x, After(list, Nonce[t]))
    <3>1. a \in DOMAIN p1.pending /\ SameNonce(list, t) = {}
      BY Zenon, <1>4, <1>6
    <3>2. RemoveTx(p, t, outofbound) = IF w.r = "ok" THEN Ok(NonceSetIfLower(w.p, a, Nonce[t])) ELSE w
      BY Zenon, <1>6, <3>1 DEF RemoveTx, Then
    <3>3. w = y
      <4> HIDE DEF p1
      <4> QED
        BY Zenon, <1>4
    <3> HIDE DEF w, y
    <3> QED
      BY Zenon, <3>2, <3>3
  <2>2. m2 \in Maps /\ At(m2, a) = kept /\ SameBut(p.pending, m2, a)
    <3>1. kept \in SUBSET Tx
      BY Zenon, <1>2
    <3> HIDE DEF kept
    <3>2. CASE kept = {}
      BY Zenon, <1>1, <3>2, WithoutMap
    <3>3. CASE kept # {}
      BY Zenon, <1>1, <3>1, <3>3, WithMap
    <3> QED
      BY Zenon, <3>2, <3>3
  <2> HIDE DEF p1, m2
  <2>3. y.r = "ok" /\ Less(p, NonceSetIfLower(y.p, a, Nonce[t]))
    <3> HIDE DEF P
    <3> QED
      BY Zenon, <1>3, <1>6, <2>2, RemovesQueued DEF P
  <2> HIDE DEF y
  <2> QED
    BY Zenon, <2>1, <2>3, OkLess
<1>7. CASE t \in Known(p) /\ ~(a \in DOMAIN p.pending /\ SameNonce(P, t) = {})
  <2>1. /\ p3 \in Pools /\ p3.queue = p.queue /\ p3.beats = p.beats /\ p3.state = p.state
        /\ Known(p3) = Known(p) \ {t} /\ Counted(p3)
        /\ SameBut(p.pending, p3.pending, a) /\ At(p3.pending, a) = P \ SameNonce(P, t)
        /\ a \in DOMAIN p.pending => a \in DOMAIN p3.pending
    <3>1. CASE a \in DOMAIN p.pending
      <4> DEFINE v == P \ SameNonce(P, t)
                 m == With(p.pending, a, v)
      <4>1. v \in SUBSET Tx
        BY Zenon, <1>2
      <4> HIDE DEF v
      <4>2. m \in Maps /\ At(m, a) = v /\ SameBut(p.pending, m, a) /\ DOMAIN m = DOMAIN p.pending \cup {a}
        BY Zenon, <1>1, <4>1, WithMap
      <4> HIDE DEF m, p1
      <4>3. p3 = [p1 EXCEPT !.pending = m]
        BY Zenon, <3>1 DEF m, v
      <4> HIDE DEF p3
      <4>4. OnlyPending(p1, p3, m)
        BY Zenon, <1>3, <4>2, <4>3, PendingSet
      <4>5. Known(p3) = Known(p1) /\ Counted(p3)
        BY Zenon, <1>3, <4>4, SameLookup DEF OnlyPending
      <4> QED
        BY Zenon, <1>3, <4>2, <4>4, <4>5 DEF OnlyPending, SameLists, v
    <3>2. CASE a \notin DOMAIN p.pending
      <4>1. P = {} /\ p3 = p1
        BY Zenon, <3>2, AtOf
      <4> HIDE DEF p1, p3
      <4> QED
        BY Zenon, <1>3, <3>2, <4>1 DEF SameLists, SameBut
    <3> QED
      BY Zenon, <3>1, <3>2
  <2>2. t \in P \cup Q
    BY Zenon, <1>7 DEF Good, Covered, Held
  <2>3. CASE SameNonce(Q, t) = {}
    <3>1. RemoveTx(p, t, outofbound) = Ok(p3)
      <4>1. a \in DOMAIN p.queue => DOMAIN p3.pending # {}
        <5>1. t \in P
          BY Zenon, <2>2, <2>3 DEF SameNonce
        <5>2. a \in DOMAIN p.pending
          BY Zenon, <5>1, AtOf
        <5> HIDE DEF p3
        <5> QED
          BY Zenon, <2>1, <5>2
      <4>2. [p3 EXCEPT !.queue = p3.queue] = p3
        <5> HIDE DEF p3
        <5> QED
          BY <2>1 DEF Pools
      <4>3. p3.queue = p.queue
        BY Zenon, <2>1
      <4> QED
        BY Zenon, <1>4, <1>7, <2>3, <4>1, <4>2, <4>3 DEF RemoveTx
    <3> HIDE DEF p3
    <3>2. Beating(p3) /\ At(p3.queue, a) = Q \ SameNonce(Q, t) /\ SameBut(p.queue, p3.queue, a)
      BY Zenon, <2>1, <2>3 DEF Good, Beating, SameBut
    <3>3. Less(p, p3)
      BY Zenon, <1>7, <2>1, <3>2, RemovesListed
    <3> QED
      BY Zenon, <3>1, <3>3, OkLess
  <2>4. CASE SameNonce(Q, t) # {}
    <3>1. a \in DOMAIN p.queue
      BY Zenon, <2>4, AtOf DEF SameNonce
    <3>2. RemoveTx(p, t, outofbound) = Ok(p4)
      <4>1. p3.queue = p.queue
        BY Zenon, <2>1
      <4> QED
        BY Zenon, <1>4, <1>7, <2>4, <3>1, <4>1 DEF RemoveTx
    <3> HIDE DEF p3
    <3> DEFINE v == Q \ SameNonce(Q, t)
               m == With(p.queue, a, v)
    <3>3. v \in SUBSET Tx
      BY Zenon, <1>2
    <3> HIDE DEF v
    <3>4. m \in Maps /\ At(m, a) = v /\ SameBut(p.queue, m, a) /\ DOMAIN m = DOMAIN p.queue \cup {a}
      BY Zenon, <1>1, <3>3, WithMap
    <3> HIDE DEF m
    <3>5. p4 = [p3 EXCEPT !.queue = m]
      BY Zenon DEF m, v
    <3>6. OnlyQueue(p3, p4, m)
      BY Zenon, <2>1, <3>4, <3>5, QueueSet
    <3> HIDE DEF p4
    <3>7. Known(p4) = Known(p3) /\ Counted(p4)
      BY Zenon, <2>1, <3>6, SameLookup DEF OnlyQueue
    <3>8. Beating(p4)
      BY Zenon, <2>1, <3>1, <3>4, <3>6 DEF OnlyQueue, Good, Beating
    <3>9. /\ p4 \in Pools /\ p4.state = p.state /\ SameBut(p.pending, p4.pending, a) /\ SameBut(p.queue, p4.queue, a)
          /\ At(p4.pending, a) = P \ SameNonce(P, t) /\ At(p4.queue, a) = Q \ SameNonce(Q, t)
      BY Zenon, <2>1, <3>4, <3>6 DEF OnlyQueue, v
    <3>10. Less(p, p4)
      BY Zenon, <1>7, <2>1, <3>7, <3>8, <3>9, RemovesListed
    <3> QED
      BY Zenon, <3>2, <3>10, OkLess
  <2> QED
    BY Zenon, <2>3, <2>4
<1> QED
  BY Zenon, <1>5, <1>6, <1>7

-----------------------------------------------------------------------------
(* Loops of remove_tx, and the room add makes. *)

LEMMA LessOkTwice ==
    ASSUME NEW p, NEW q, NEW res, Less(p, q), LessOk(q, res) PROVE LessOk(p, res)
BY Zenon, LessTransitive DEF LessOk

\* A loop of remove_tx.
LEMMA RemovesAll ==
    ASSUME live \in Block, NEW p, Good(p), NEW s \in Seq(Tx), NEW outofbound
    PROVE  LessOk(p, RemoveAll(p, s, outofbound))
<1> DEFINE n == Len(s)
           C == [i \in 0 .. n |-> {x \in Oks : LessOk(p, x)}]
           start == Ok(p)
           Step(x, i) == IF x.r = "ok" THEN RemoveTx(x.p, s[i], outofbound) ELSE x
           Body(f) == [i \in 0 .. n |-> IF i = 0 THEN start ELSE Step(f[i - 1], i)]
           run == CHOOSE f : f = Body(f)
<1>1. RemoveAll(p, s, outofbound) = run[n]
  BY Zenon DEF RemoveAll, InOrder, Then
<1>2. n \in Nat
  OBVIOUS
<1>3. start \in C[0]
  <2>1. 0 \in 0 .. n
    BY <1>2
  <2>2. LessOk(p, Ok(p)) /\ Ok(p) \in Oks
    BY Zenon, LessReflexive, OkLess DEF LessOk
  <2> HIDE DEF n
  <2> QED
    BY Zenon, <2>1, <2>2
<1>4. \A i \in 1 .. n : \A x \in C[i - 1] : Step(x, i) \in C[i]
  <2> SUFFICES ASSUME NEW i \in 1 .. n, NEW x \in Oks, LessOk(p, x)
               PROVE  Step(x, i) \in Oks /\ LessOk(p, Step(x, i))
    <3>1. \A i \in 1 .. n : i - 1 \in 0 .. n /\ i \in 0 .. n
      BY <1>2
    <3> HIDE DEF n, Step
    <3> QED
      BY Zenon, <3>1
  <2>1. s[i] \in Tx
    OBVIOUS
  <2>2. x.r = "ok" /\ Less(p, x.p) /\ Good(x.p)
    BY Zenon DEF Oks, LessOk, Less
  <2>3. LessOk(p, RemoveTx(x.p, s[i], outofbound))
    BY Zenon, <2>1, <2>2, Removes, LessOkTwice
  <2> QED
    BY Zenon, <2>2, <2>3 DEF LessOk
<1>5. run[n] \in C[n]
  <2> HIDE DEF n, C, start, Step
  <2> DEFINE step == [z \in States(C, n) \X (1 .. n) |-> Step(z[1], z[2])]
  <2>1. 0 \in 0 .. n /\ \A i \in 1 .. n : i \in 0 .. n /\ i - 1 \in 0 .. n /\ i # 0
    BY <1>2
  <2>2. \A i \in 1 .. n : \A x \in C[i - 1] : step[<<x, i>>] = Step(x, i)
    <3>1. \A i \in 1 .. n : C[i - 1] \subseteq States(C, n)
      BY Zenon, <2>1 DEF States
    <3> QED
      BY Zenon, <3>1
  <2>3. PICK f : IsPath(f, C, start, n, step)
    <3> HIDE DEF step
    <3> QED
      BY Zenon, <1>2, <1>3, <1>4, <2>2, Paths
  <2>4. f = Body(f)
    <3> HIDE DEF step
    <3>1. \A i \in 0 .. n : i = 0 \/ i \in 1 .. n
      BY <1>2
    <3>2. \A i \in 0 .. n : f[i] = IF i = 0 THEN start ELSE Step(f[i - 1], i)
      BY Zenon, <2>2, <2>3, <3>1 DEF IsPath
    <3> QED
      BY Zenon, <2>3, <3>2 DEF IsPath
  <2>5. run = Body(run)
    BY Zenon, <2>4
  <2> HIDE DEF run
  <2>6. \A i \in 0 .. n : run[i] = IF i = 0 THEN start ELSE Step(run[i - 1], i)
    <3>1. \A i \in 0 .. n : Body(run)[i] = IF i = 0 THEN start ELSE Step(run[i - 1], i)
      BY Zenon
    <3> HIDE DEF Body
    <3> QED
      BY Zenon, <2>5, <3>1
  <2>7. run[0] \in C[0] /\ \A i \in 1 .. n : run[i - 1] \in C[i - 1] => run[i] \in C[i]
    BY Zenon, <1>3, <1>4, <2>1, <2>6
  <2> QED
    BY Zenon, <1>2, <2>7, PathEnds
<1>6. n \in 0 .. n
  BY <1>2
<1> HIDE DEF n, run
<1> QED
  BY Zenon, <1>1, <1>5, <1>6

LEMMA MakesRoom ==
    ASSUME live \in Block, NEW p, Good(p), NEW t, NEW isLocal
    PROVE  /\ MakeRoom(p, t, isLocal).r \in {"ok", "error"}
           /\ Less(p, MakeRoom(p, t, isLocal).p)
<1> DEFINE drop == Discarded(p, p.slots - (GLOBAL_SLOTS + GLOBAL_QUEUE) + 1)
           q == [p EXCEPT !.priced = p.priced \ drop, !.changes = Cardinality(drop)]
<1>1. p \in Pools
  BY Zenon DEF Good
<1>2. drop \in SUBSET Tx /\ Cardinality(drop) \in Nat
  <2>1. drop \in SUBSET p.priced
    BY Zenon DEF Discarded
  <2> HIDE DEF drop
  <2>2. drop \in SUBSET Tx
    BY Zenon, <1>1, <2>1 DEF Pools
  <2>3. IsFiniteSet(drop)
    BY Zenon, <2>2, SubsetsFinite
  <2> QED
    BY Zenon, <2>2, <2>3, FS_CardinalityType
<1>3. MakeRoom(p, t, isLocal) \in {Ok(p), Fail(p), RemoveAll(q, ByFee(drop), FALSE)}
  BY Zenon DEF MakeRoom
<1> HIDE DEF drop
<1>4. Alike(p, q)
  <2>1. p.priced \ drop \in SUBSET Tx
    BY Zenon, <1>1 DEF Pools
  <2> QED
    BY Zenon, <1>1, <1>2, <2>1 DEF Alike, Pools
<1>5. Less(p, q) /\ Good(q)
  BY Zenon, <1>4, AlikeGood DEF Less
<1> HIDE DEF q
<1>6. LessOk(q, RemoveAll(q, ByFee(drop), FALSE))
  <2>1. ByFee(drop) \in Seq(drop)
    BY Zenon, <1>2, ByFeeLists DEF Enumerates
  <2>2. ByFee(drop) \in Seq(Tx)
    <3> DEFINE s == ByFee(drop)
    <3> HIDE DEF s
    <3>1. s \in Seq(Tx)
      BY <1>2, <2>1 DEF s
    <3> QED
      BY Zenon, <3>1 DEF s
  <2> QED
    BY Zenon, <1>5, <2>2, RemovesAll
<1>7. LessOk(p, RemoveAll(q, ByFee(drop), FALSE))
  BY Zenon, <1>5, <1>6, LessOkTwice
<1>8. Fail(p).p = p /\ Fail(p).r = "error"
  BY DEF Fail
<1>9. LessOk(p, Ok(p)) /\ Less(p, p)
  BY Zenon, LessReflexive, OkLess
<1>10. \A x : LessOk(p, x) => x.r = "ok" /\ Less(p, x.p)
  BY Zenon DEF LessOk, Oks
<1> QED
  BY Zenon, <1>3, <1>7, <1>8, <1>9, <1>10


-----------------------------------------------------------------------------
(* add *)

\* q is p with t in it, and maybe with less of the rest.
Takes(p, q, t) == Good(q) /\ q.state = p.state /\ Held(q) \subseteq Held(p) \cup {t}

\* What a call keeps.
Kept(p, q) == Good(q) /\ q.state = p.state /\ (Unmined(p) => Unmined(q))

LEMMA LessKept == ASSUME NEW p, NEW q, Less(p, q) PROVE Kept(p, q)
BY Zenon, LessUnmined DEF Less, Kept

LEMMA KeptTwice == ASSUME NEW p, NEW q, NEW r, Kept(p, q), Kept(q, r) PROVE Kept(p, r)
BY Zenon DEF Kept

LEMMA TakesKept ==
    ASSUME NEW p, NEW q, NEW t \in Tx, Takes(p, q, t), Nonce[t] >= AccountNonce(p, From[t])
    PROVE  Kept(p, q)
<1>1. p.state # NoBlock => Nonce[t] >= StateNonce[p.state][From[t]]
  BY Zenon DEF AccountNonce, StateOf
<1>2. ASSUME Unmined(p), q.state # NoBlock, NEW u \in Held(q)
      PROVE  Nonce[u] >= StateNonce[q.state][From[u]]
  <2>1. q.state = p.state /\ (u \in Held(p) \/ u = t)
    BY Zenon DEF Takes
  <2> QED
    BY Zenon, <1>1, <1>2, <2>1 DEF Unmined
<1>3. Unmined(p) => Unmined(q)
  BY Zenon, <1>2 DEF Unmined
<1> QED
  BY Zenon, <1>3 DEF Takes, Kept

\* x is p with t put in a list of its account, in place of D.
Widened(p, x, a, t, D) ==
    /\ x \in Pools /\ Counted(x) /\ Beating(x) /\ x.state = p.state /\ Known(x) = (Known(p) \ D) \cup {t}
    /\ SameBut(p.pending, x.pending, a) /\ SameBut(p.queue, x.queue, a)
    /\ OneAccount(a, At(x.pending, a), At(x.queue, a))
    /\ At(x.pending, a) \cup At(x.queue, a) = ((At(p.pending, a) \cup At(p.queue, a)) \ D) \cup {t}

LEMMA WidenedTakes ==
    ASSUME NEW p, Good(p), NEW x, NEW t \in Tx, NEW a \in Account, a = From[t], NEW D, Widened(p, x, a, t, D)
    PROVE  Takes(p, x, t)
<1>1. ListsApart(x)
  <2> SUFFICES ASSUME NEW b \in Account PROVE OneAccount(b, At(x.pending, b), At(x.queue, b))
    BY Zenon DEF ListsApart
  <2>1. OneAccount(b, At(p.pending, b), At(p.queue, b))
    BY Zenon DEF Good, ListsApart
  <2>2. CASE b # a
    BY Zenon, <2>1, <2>2 DEF Widened, SameBut
  <2>3. CASE b = a
    BY Zenon, <2>3 DEF Widened
  <2> QED
    BY Zenon, <2>2, <2>3
<1>2. Held(x) \subseteq Held(p) \cup {t}
  <2> SUFFICES ASSUME NEW u \in Tx, u \in At(x.pending, From[u]) \cup At(x.queue, From[u]), u # t
               PROVE  u \in At(p.pending, From[u]) \cup At(p.queue, From[u])
    BY Zenon DEF Held
  <2>1. CASE From[u] = a
    <3>1. u \in At(x.pending, a) \cup At(x.queue, a)
      BY Zenon, <2>1
    <3>2. u \in ((At(p.pending, a) \cup At(p.queue, a)) \ D) \cup {t}
      BY Zenon, <3>1 DEF Widened
    <3> QED
      BY Zenon, <2>1, <3>2
  <2>2. CASE From[u] # a
    BY Zenon, <2>2 DEF Widened, SameBut
  <2> QED
    BY Zenon, <2>1, <2>2
<1>3. Covered(x)
  <2> SUFFICES ASSUME NEW u \in Known(x) PROVE u \in Held(x)
    BY Zenon DEF Covered
  <2>1. CASE u = t
    <3>1. t \in At(x.pending, a) \cup At(x.queue, a)
      BY Zenon DEF Widened
    <3> QED
      BY Zenon, <2>1, <3>1 DEF Held
  <2>2. CASE u # t
    <3>1. u \in Known(p) /\ u \notin D
      <4>1. u \in (Known(p) \ D) \cup {t}
        BY Zenon DEF Widened
      <4> QED
        BY Zenon, <2>2, <4>1
    <3>2. u \in Tx /\ u \in At(p.pending, From[u]) \cup At(p.queue, From[u])
      BY Zenon, <3>1 DEF Good, Covered, Held
    <3>3. CASE From[u] = a
      BY Zenon, <3>1, <3>2, <3>3 DEF Widened, Held
    <3>4. CASE From[u] # a
      BY Zenon, <3>2, <3>4 DEF Widened, SameBut, Held
    <3> QED
      BY Zenon, <3>3, <3>4
  <2> QED
    BY Zenon, <2>1, <2>2
<1> QED
  BY Zenon, <1>1, <1>2, <1>3 DEF Takes, Good, Widened

\* A list after TxList::add.
LEMMA AddedLists ==
    ASSUME NEW t \in Tx, NEW a, a = From[t], NEW P, NEW Q, OneAccount(a, P, Q), SameNonce(P, t) = {}
    PROVE  /\ OneAccount(a, P, Added(Q, t)) /\ OneAccount(a, Added(Q, t), P)
           /\ P \cup Added(Q, t) = ((P \cup Q) \ SameNonce(Q, t)) \cup {t}
<1>1. \A u \in P : Nonce[u] # Nonce[t]
  BY Zenon DEF SameNonce
<1>2. \A u \in Q : u \in SameNonce(Q, t) <=> Nonce[u] = Nonce[t]
  BY Zenon DEF SameNonce
<1>3. SameNonce(Q, t) \subseteq Q /\ SameNonce(Q, t) \cap P = {}
  BY Zenon DEF SameNonce, OneAccount
<1> DEFINE D == SameNonce(Q, t)
           N == (Q \ D) \cup {t}
<1>4. Added(Q, t) = N
  BY Zenon DEF Added
<1>5. P \cup N = ((P \cup Q) \ D) \cup {t}
  <2> HIDE DEF D
  <2> QED
    BY Zenon, <1>3 DEF D
<1>6. \A u \in P \cup N : From[u] = a
  BY Zenon DEF OneAccount
<1>7. P \cap N = {}
  BY Zenon, <1>1 DEF OneAccount
<1>8. \A u, v \in P \cup N : Nonce[u] = Nonce[v] => u = v
  <2>1. \A u \in P \cup N : u = t \/ (u \in P \cup Q /\ Nonce[u] # Nonce[t])
    BY Zenon, <1>1, <1>2
  <2> HIDE DEF N
  <2> QED
    BY Zenon, <2>1 DEF OneAccount
<1> HIDE DEF N
<1> QED
  BY Zenon, <1>4, <1>5, <1>6, <1>7, <1>8 DEF OneAccount, D

\* enqueue_tx for a transaction that is new to the pool.
LEMMA EnqueuesNew ==
    ASSUME NEW p, Good(p), NEW t \in Tx, t \notin Known(p), NEW isLocal \in BOOLEAN,
           SameNonce(At(p.pending, From[t]), t) = {}
    PROVE  LET res == EnqueueTx(p, t, isLocal, TRUE)
           IN  \/ res.r \in {"error", "panic"} /\ res.p = p
               \/ res.r = "ok" /\ Takes(p, res.p, t)
<1> DEFINE a == From[t]
           P == At(p.pending, a)
           Q == At(p.queue, a)
           D == SameNonce(Q, t)
           m == With(p.queue, a, Added(Q, t))
           w == [p EXCEPT !.queue = m]
           p1 == Forget(w, D)
           p2 == PricedPut(LookupAdd(p1, t, isLocal), t, isLocal)
           x == [p2 EXCEPT !.beats = IF a \in Range(p2.beats) THEN p2.beats ELSE Append(p2.beats, a)]
<1>1. p \in Pools /\ Counted(p) /\ p.queue \in Maps /\ p.beats \in Seq(Account) /\ Beating(p)
  BY Zenon DEF Good, Pools
<1>2. a \in Account
  BY TxAssumption
<1>3. P \in SUBSET Tx /\ Q \in SUBSET Tx /\ OneAccount(a, P, Q)
  BY Zenon, <1>2, AccountLists
<1>4. CASE AddResult(Q, t) # "ok"
  <2>1. EnqueueTx(p, t, isLocal, TRUE) = [p |-> p, r |-> AddResult(Q, t)]
    BY Zenon, <1>4 DEF EnqueueTx
  <2>2. AddResult(Q, t) \in {"error", "panic"}
    BY Zenon, <1>4 DEF AddResult
  <2> DEFINE v == AddResult(Q, t)
             res == [p |-> p, r |-> v]
  <2> HIDE DEF v
  <2>3. res.p = p /\ res.r = v
    BY Zenon
  <2> HIDE DEF res
  <2>4. EnqueueTx(p, t, isLocal, TRUE) = res
    BY Zenon, <2>1 DEF res, v
  <2> QED
    BY Zenon, <2>2, <2>3, <2>4 DEF v
<1>5. CASE AddResult(Q, t) = "ok"
  <2>1. EnqueueTx(p, t, isLocal, TRUE) = Ok(x)
    BY Zenon, <1>5 DEF EnqueueTx
  <2>2. m \in Maps /\ DOMAIN m = DOMAIN p.queue \cup {a} /\ At(m, a) = Added(Q, t) /\ SameBut(p.queue, m, a)
    <3>1. Added(Q, t) \in SUBSET Tx
      BY Zenon, <1>3 DEF Added
    <3> HIDE DEF Q
    <3> QED
      BY Zenon, <1>1, <1>2, <3>1, WithMap
  <2> HIDE DEF m
  <2>3. OnlyQueue(p, w, m)
    BY Zenon, <1>1, <2>2, QueueSet
  <2> HIDE DEF w
  <2>4. w \in Pools /\ Known(w) = Known(p) /\ Counted(w)
    BY Zenon, <1>1, <2>3, SameLookup DEF OnlyQueue
  <2>5. p1 \in Pools /\ Counted(p1) /\ Known(p1) = Known(p) \ D /\ SameLists(w, p1)
    BY Zenon, <2>4, Forgets
  <2> HIDE DEF p1, D
  <2>6. p2 \in Pools /\ Counted(p2) /\ Known(p2) = Known(p1) \cup {t} /\ SameLists(p1, p2)
    <3>1. t \notin Known(p1)
      BY Zenon, <2>5
    <3> QED
      BY Zenon, <2>5, <3>1, LookupAdds
  <2> HIDE DEF p2
  <2>7. p2.queue = m /\ p2.pending = p.pending /\ p2.beats = p.beats /\ p2.state = p.state
    BY Zenon, <2>3, <2>5, <2>6 DEF OnlyQueue, SameLists
  <2> DEFINE beats == IF a \in Range(p.beats) THEN p.beats ELSE Append(p.beats, a)
  <2>8. beats \in Seq(Account) /\ IsInjective(beats) /\ Range(beats) = Range(p.beats) \cup {a}
    BY Zenon, <1>1, <1>2, FirstBeat DEF Beating
  <2>9. x = [p2 EXCEPT !.beats = beats]
    BY Zenon, <2>7
  <2> HIDE DEF beats, x
  <2>10. /\ x \in Pools /\ x.queue = m /\ x.pending = p.pending /\ x.beats = beats /\ x.state = p.state
         /\ x.local = p2.local /\ x.remote = p2.remote /\ x.slots = p2.slots
    BY Zenon, <2>6, <2>7, <2>8, <2>9 DEF Pools
  <2>11. Known(x) = (Known(p) \ D) \cup {t} /\ Counted(x)
    BY Zenon, <2>5, <2>6, <2>10, SameLookup
  <2>12. Beating(x)
    BY Zenon, <1>1, <2>2, <2>8, <2>10 DEF Beating
  <2>13. At(x.pending, a) = P /\ At(x.queue, a) = Added(Q, t) /\ SameBut(p.queue, x.queue, a) /\ SameBut(p.pending, x.pending, a)
    BY Zenon, <2>2, <2>10 DEF SameBut
  <2>14. OneAccount(a, P, Added(Q, t)) /\ P \cup Added(Q, t) = ((P \cup Q) \ D) \cup {t}
    <3>1. SameNonce(P, t) = {} /\ D = SameNonce(Q, t)
      BY Zenon DEF D
    <3> HIDE DEF P, Q
    <3>2. OneAccount(a, P, Added(Q, t)) /\ P \cup Added(Q, t) = ((P \cup Q) \ SameNonce(Q, t)) \cup {t}
      BY <1>3, <3>1, AddedLists
    <3> QED
      BY Zenon, <3>1, <3>2
  <2>15. Widened(p, x, a, t, D)
    BY Zenon, <2>10, <2>11, <2>12, <2>13, <2>14 DEF Widened
  <2>16. Takes(p, x, t)
    BY Zenon, <1>2, <2>15, WidenedTakes
  <2>17. Ok(x).p = x /\ Ok(x).r = "ok"
    BY DEF Ok
  <2> QED
    BY Zenon, <2>1, <2>16, <2>17
<1> QED
  BY Zenon, <1>4, <1>5

\* add takes the transaction in place of a pending one of its nonce.
LEMMA Replaces ==
    ASSUME NEW p, Good(p), NEW t \in Tx, t \notin Known(p), NEW isLocal \in BOOLEAN,
           NEW a, a = From[t], NEW P, P = At(p.pending, a), SameNonce(P, t) # {}
    PROVE  LET p1 == Forget([p EXCEPT !.pending = With(p.pending, a, Added(P, t))], SameNonce(P, t))
           IN  Takes(p, PricedPut(LookupAdd(p1, t, isLocal), t, isLocal), t)
<1> DEFINE Q == At(p.queue, a)
           D == SameNonce(P, t)
           m == With(p.pending, a, Added(P, t))
           w == [p EXCEPT !.pending = m]
           p1 == Forget(w, D)
           x == PricedPut(LookupAdd(p1, t, isLocal), t, isLocal)
<1>1. p \in Pools /\ Counted(p) /\ p.pending \in Maps /\ Beating(p)
  BY Zenon DEF Good, Pools
<1>2. a \in Account
  BY TxAssumption
<1>3. P \in SUBSET Tx /\ Q \in SUBSET Tx /\ OneAccount(a, P, Q)
  BY Zenon, <1>2, AccountLists
<1>4. SameNonce(Q, t) = {} /\ OneAccount(a, Q, P)
  <2> HIDE DEF Q
  <2>1. PICK u \in P : Nonce[u] = Nonce[t]
    BY Zenon DEF SameNonce
  <2>2. \A v \in Q : Nonce[v] # Nonce[t]
    <3> SUFFICES ASSUME NEW v \in Q, Nonce[v] = Nonce[t] PROVE FALSE
      BY Zenon
    <3>1. u \in P \cup Q /\ v \in P \cup Q /\ Nonce[u] = Nonce[v]
      BY Zenon, <2>1
    <3>2. u = v
      BY Zenon, <1>3, <3>1 DEF OneAccount
    <3> QED
      BY Zenon, <1>3, <3>2 DEF OneAccount
  <2> QED
    BY Zenon, <1>3, <2>2 DEF SameNonce, OneAccount
<1>5. m \in Maps /\ At(m, a) = Added(P, t) /\ SameBut(p.pending, m, a)
  <2>1. Added(P, t) \in SUBSET Tx
    BY Zenon, <1>3 DEF Added
  <2> QED
    BY Zenon, <1>1, <1>2, <2>1, WithMap
<1> HIDE DEF m
<1>6. OnlyPending(p, w, m)
  BY Zenon, <1>1, <1>5, PendingSet
<1> HIDE DEF w
<1>7. w \in Pools /\ Known(w) = Known(p) /\ Counted(w)
  BY Zenon, <1>1, <1>6, SameLookup DEF OnlyPending
<1>8. p1 \in Pools /\ Counted(p1) /\ Known(p1) = Known(p) \ D /\ SameLists(w, p1)
  <2> HIDE DEF D
  <2> QED
    BY Zenon, <1>7, Forgets
<1> HIDE DEF p1, D
<1>9. x \in Pools /\ Counted(x) /\ Known(x) = (Known(p) \ D) \cup {t} /\ SameLists(p1, x)
  <2>1. t \notin Known(p1)
    BY Zenon, <1>8
  <2>2. x \in Pools /\ Counted(x) /\ Known(x) = Known(p1) \cup {t} /\ SameLists(p1, x)
    BY Zenon, <1>8, <2>1, LookupAdds
  <2> HIDE DEF x
  <2> QED
    BY Zenon, <1>8, <2>2
<1> HIDE DEF x
<1>10. x.pending = m /\ x.queue = p.queue /\ x.beats = p.beats /\ x.state = p.state
  BY Zenon, <1>6, <1>8, <1>9 DEF OnlyPending, SameLists
<1>11. Beating(x) /\ SameBut(p.queue, x.queue, a) /\ SameBut(p.pending, x.pending, a)
  BY Zenon, <1>1, <1>5, <1>10 DEF Beating, SameBut
<1>12. At(x.pending, a) = Added(P, t) /\ At(x.queue, a) = Q
  BY Zenon, <1>5, <1>10
<1>13. OneAccount(a, Added(P, t), Q) /\ Added(P, t) \cup Q = ((P \cup Q) \ D) \cup {t}
  <2> HIDE DEF Q
  <2>1. OneAccount(a, Added(P, t), Q) /\ Q \cup Added(P, t) = ((Q \cup P) \ SameNonce(P, t)) \cup {t}
    BY <1>4, AddedLists
  <2>2. Q \cup Added(P, t) = Added(P, t) \cup Q /\ Q \cup P = P \cup Q
    BY Zenon
  <2> QED
    BY Zenon, <2>1, <2>2 DEF D
<1>14. Widened(p, x, a, t, D)
  BY Zenon, <1>9, <1>10, <1>11, <1>12, <1>13 DEF Widened
<1>15. Takes(p, x, t)
  BY Zenon, <1>2, <1>14, WidenedTakes
<1> QED
  BY Zenon, <1>15 DEF x, p1, w, m, D

\* The results of a call.
Ends(p, res) == res.r \in {"ok", "error", "panic"} /\ Kept(p, res.p)

\* TxPool::add keeps the pool good, whatever comes of it, and adds only what the
\* state has not passed.
LEMMA Adds ==
    ASSUME live \in Block, NEW p, Good(p), NEW t \in Tx, NEW local \in BOOLEAN
    PROVE  Ends(p, Add(p, t, local))
<1> DEFINE a == From[t]
           isLocal == local \/ a \in p.locals
           room == MakeRoom(p, t, isLocal)
           q == room.p
           list == At(q.pending, a)
           q1 == Forget([q EXCEPT !.pending = With(q.pending, a, Added(list, t))], SameNonce(list, t))
           put == PricedPut(LookupAdd(q1, t, isLocal), t, isLocal)
           enq == EnqueueTx(q, t, isLocal, TRUE)
           mine == IF local /\ a \notin enq.p.locals THEN MakeLocal(enq.p, a) ELSE enq.p
           re == SameNonce(At(q.queue, a), t) # {}
           place == IF SameNonce(list, t) = {} THEN IF enq.r = "ok" THEN Placed(mine, re) ELSE enq
                    ELSE IF AddResult(list, t) # "ok" THEN [p |-> q, r |-> AddResult(list, t)]
                    ELSE Placed(put, TRUE)
<1>1. Add(p, t, local) = IF ~Valid(p, t) THEN Fail(p) ELSE IF room.r = "ok" THEN place ELSE room
  BY Zenon DEF Add, Then
<1>2. Kept(p, p) /\ Fail(p).p = p /\ Fail(p).r = "error"
  <2>1. Fail(p).p = p /\ Fail(p).r = "error"
    BY DEF Fail
  <2> QED
    BY Zenon, <2>1 DEF Kept
<1>3. room.r \in {"ok", "error"} /\ Less(p, q)
  BY Zenon, MakesRoom
<1>4. Good(q) /\ Kept(p, q)
  BY Zenon, <1>3, LessKept DEF Less
<1>5. ASSUME Valid(p, t) PROVE Ends(p, place)
  <2> HIDE DEF room
  <2>1. t \notin Known(q) /\ Nonce[t] >= AccountNonce(q, a) /\ isLocal \in BOOLEAN /\ a \in Account
    <3>1. AccountNonce(q, a) = AccountNonce(p, a)
      BY Zenon, <1>3 DEF Less, AccountNonce, StateOf
    <3>2. a \in Account /\ Nonce[t] \in Nat
      BY TxAssumption
    <3>3. AccountNonce(p, a) \in Nat
      BY Zenon, <3>2, NonceGets DEF Good
    <3>4. AccountNonce(p, a) <= Nonce[t] /\ t \notin Known(p)
      BY Zenon, <1>5 DEF Valid
    <3> DEFINE k == AccountNonce(p, a)
    <3> HIDE DEF k, a
    <3>5. Nonce[t] >= k
      BY <3>2, <3>3, <3>4 DEF k
    <3> QED
      BY Zenon, <1>3, <3>1, <3>2, <3>4, <3>5 DEF Less, k
  <2> HIDE DEF q, isLocal
  <2>2. CASE SameNonce(list, t) = {}
    <3>1. (enq.r \in {"error", "panic"} /\ enq.p = q) \/ (enq.r = "ok" /\ Takes(q, enq.p, t))
      BY Zenon, <1>4, <2>1, <2>2, EnqueuesNew
    <3> HIDE DEF enq
    <3>2. CASE enq.r = "ok"
      <4>1. Takes(q, enq.p, t)
        BY <3>1, <3>2
      <4>2. Kept(q, enq.p) /\ Good(enq.p)
        BY Zenon, <2>1, <4>1, TakesKept DEF Kept
      <4>3. Kept(enq.p, mine)
        <5>1. Good(MakeLocal(enq.p, a)) /\ MakeLocal(enq.p, a).state = enq.p.state /\ Held(MakeLocal(enq.p, a)) = Held(enq.p)
          BY Zenon, <2>1, <4>2, MakesLocal
        <5>2. Kept(enq.p, MakeLocal(enq.p, a)) /\ Kept(enq.p, enq.p)
          BY Zenon, <4>2, <5>1 DEF Kept, Unmined
        <5> QED
          BY Zenon, <5>2
      <4> HIDE DEF mine, re
      <4>4. place = Placed(mine, re)
        BY Zenon, <2>2, <3>2
      <4>5. Placed(mine, re).p = mine /\ Placed(mine, re).r = "ok"
        BY DEF Placed
      <4> HIDE DEF place
      <4> QED
        BY Zenon, <1>4, <4>2, <4>3, <4>4, <4>5, KeptTwice DEF Ends
    <3>3. CASE enq.r # "ok"
      <4>1. place = enq /\ enq.r \in {"error", "panic"} /\ enq.p = q
        BY Zenon, <2>2, <3>1, <3>3
      <4> HIDE DEF place
      <4> QED
        BY Zenon, <1>4, <4>1 DEF Ends
    <3> QED
      BY Zenon, <3>2, <3>3
  <2>3. CASE SameNonce(list, t) # {} /\ AddResult(list, t) # "ok"
    <3> DEFINE v == AddResult(list, t)
               res == [p |-> q, r |-> v]
    <3>1. place = res
      BY Zenon, <2>3
    <3>2. v \in {"error", "panic"}
      BY Zenon, <2>3 DEF AddResult
    <3> HIDE DEF v, place
    <3>3. res.p = q /\ res.r = v
      BY Zenon
    <3> HIDE DEF res
    <3> QED
      BY Zenon, <1>4, <3>1, <3>2, <3>3 DEF Ends
  <2>4. CASE SameNonce(list, t) # {} /\ AddResult(list, t) = "ok"
    <3>1. place = Placed(put, TRUE)
      BY Zenon, <2>4
    <3>2. Takes(q, put, t)
      <4> HIDE DEF list
      <4> QED
        BY Zenon, <1>4, <2>1, <2>4, Replaces DEF list
    <3> HIDE DEF put, place
    <3>3. Kept(q, put)
      BY Zenon, <2>1, <3>2, TakesKept
    <3>4. Placed(put, TRUE).p = put /\ Placed(put, TRUE).r = "ok"
      BY DEF Placed
    <3> QED
      BY Zenon, <1>4, <3>1, <3>3, <3>4, KeptTwice DEF Ends
  <2> QED
    BY Zenon, <2>2, <2>3, <2>4
<1>6. Ends(p, Fail(p)) /\ Ends(p, room)
  BY Zenon, <1>2, <1>3, <1>4 DEF Ends
<1> HIDE DEF place, room
<1> QED
  BY Zenon, <1>1, <1>5, <1>6

-----------------------------------------------------------------------------
(* add_txs_locked *)

\* What add_txs_locked has done so far.
Batches == [p : Pools, n : Nat, errors : Nat, r : {"ok", "panic"}, dirty : SUBSET Account]
KeptBatch(p, x) == x \in Batches /\ Kept(p, x.p)

LEMMA NotesOne ==
    ASSUME NEW p, NEW x, KeptBatch(p, x), NEW t \in Tx, NEW res, Ends(x.p, res)
    PROVE  KeptBatch(p, Note(x, t, res))
<1> DEFINE e == IF res.r = "error" THEN 1 ELSE 0
           r == IF res.r = "panic" \/ (res.r = "error" /\ x.n > x.errors) THEN "panic" ELSE "ok"
           d == x.dirty \cup IF res.r = "ok" /\ ~res.replaced THEN {From[t]} ELSE {}
           y == [p |-> res.p, n |-> x.n + 1, errors |-> x.errors + e, r |-> r, dirty |-> d]
<1>1. Note(x, t, res) = y
  BY Zenon DEF Note
<1>2. x.n \in Nat /\ x.errors \in Nat /\ x.dirty \in SUBSET Account
  BY Zenon DEF KeptBatch, Batches
<1>3. From[t] \in Account
  BY TxAssumption
<1>4. d \in SUBSET Account /\ r \in {"ok", "panic"} /\ e \in Nat
  BY <1>2, <1>3
<1>5. Kept(p, res.p) /\ res.p \in Pools
  BY Zenon, KeptTwice DEF KeptBatch, Ends, Kept, Good
<1> HIDE DEF d, r, e
<1>6. x.n + 1 \in Nat /\ x.errors + e \in Nat
  BY <1>2, <1>4
<1>7. y.p = res.p /\ y \in Batches
  BY Zenon, <1>4, <1>5, <1>6 DEF Batches
<1> HIDE DEF y
<1> QED
  BY Zenon, <1>1, <1>5, <1>7 DEF KeptBatch

\* TxPool::add_txs_locked keeps the pool good, whatever comes of each of them.
LEMMA AddsAll ==
    ASSUME live \in Block, NEW p, Good(p), NEW ts \in Seq(Tx), NEW local \in BOOLEAN
    PROVE  KeptBatch(p, AddTxsLocked(p, ts, local))
<1> DEFINE n == Len(ts)
           C == [i \in 0 .. n |-> {x \in Batches : KeptBatch(p, x)}]
           start == [p |-> p, n |-> 0, errors |-> 0, r |-> "ok", dirty |-> {}]
           Step(x, i) == IF x.r = "panic" THEN x ELSE Note(x, ts[i], Add(x.p, ts[i], local))
           Body(f) == [i \in 0 .. n |-> IF i = 0 THEN start ELSE Step(f[i - 1], i)]
           run == CHOOSE f : f = Body(f)
<1>1. AddTxsLocked(p, ts, local) = run[n]
  BY Zenon DEF AddTxsLocked
<1>2. n \in Nat
  OBVIOUS
<1>3. start \in C[0]
  <2>1. 0 \in 0 .. n
    BY <1>2
  <2>2. p \in Pools /\ Kept(p, p)
    BY Zenon DEF Kept, Good
  <2>3. start \in Batches /\ start.p = p
    BY <2>2 DEF Batches
  <2> HIDE DEF n, start
  <2> QED
    BY Zenon, <2>1, <2>2, <2>3 DEF KeptBatch
<1>4. \A i \in 1 .. n : \A x \in C[i - 1] : Step(x, i) \in C[i]
  <2> SUFFICES ASSUME NEW i \in 1 .. n, NEW x \in Batches, KeptBatch(p, x)
               PROVE  Step(x, i) \in Batches /\ KeptBatch(p, Step(x, i))
    <3>1. \A i \in 1 .. n : i - 1 \in 0 .. n /\ i \in 0 .. n
      BY <1>2
    <3> HIDE DEF n, Step
    <3> QED
      BY Zenon, <3>1
  <2>1. ts[i] \in Tx
    OBVIOUS
  <2>2. Good(x.p)
    BY Zenon DEF KeptBatch, Kept
  <2>3. Ends(x.p, Add(x.p, ts[i], local))
    BY Zenon, <2>1, <2>2, Adds
  <2>4. KeptBatch(p, Note(x, ts[i], Add(x.p, ts[i], local)))
    BY Zenon, <2>1, <2>3, NotesOne
  <2>5. KeptBatch(p, Step(x, i))
    BY Zenon, <2>4
  <2> HIDE DEF Step
  <2> QED
    BY Zenon, <2>5 DEF KeptBatch
<1>5. run[n] \in C[n]
  <2> HIDE DEF n, C, start, Step
  <2> DEFINE step == [z \in States(C, n) \X (1 .. n) |-> Step(z[1], z[2])]
  <2>1. 0 \in 0 .. n /\ \A i \in 1 .. n : i \in 0 .. n /\ i - 1 \in 0 .. n /\ i # 0
    BY <1>2
  <2>2. \A i \in 1 .. n : \A x \in C[i - 1] : step[<<x, i>>] = Step(x, i)
    <3>1. \A i \in 1 .. n : C[i - 1] \subseteq States(C, n)
      BY Zenon, <2>1 DEF States
    <3> QED
      BY Zenon, <3>1
  <2>3. PICK f : IsPath(f, C, start, n, step)
    <3> HIDE DEF step
    <3> QED
      BY Zenon, <1>2, <1>3, <1>4, <2>2, Paths
  <2>4. f = Body(f)
    <3> HIDE DEF step
    <3>1. \A i \in 0 .. n : i = 0 \/ i \in 1 .. n
      BY <1>2
    <3>2. \A i \in 0 .. n : f[i] = IF i = 0 THEN start ELSE Step(f[i - 1], i)
      BY Zenon, <2>2, <2>3, <3>1 DEF IsPath
    <3> QED
      BY Zenon, <2>3, <3>2 DEF IsPath
  <2>5. run = Body(run)
    BY Zenon, <2>4
  <2> HIDE DEF run
  <2>6. \A i \in 0 .. n : run[i] = IF i = 0 THEN start ELSE Step(run[i - 1], i)
    <3>1. \A i \in 0 .. n : Body(run)[i] = IF i = 0 THEN start ELSE Step(run[i - 1], i)
      BY Zenon
    <3> HIDE DEF Body
    <3> QED
      BY Zenon, <2>5, <3>1
  <2>7. run[0] \in C[0] /\ \A i \in 1 .. n : run[i - 1] \in C[i - 1] => run[i] \in C[i]
    BY Zenon, <1>3, <1>4, <2>1, <2>6
  <2> QED
    BY Zenon, <1>2, <2>7, PathEnds
<1>6. n \in 0 .. n
  BY <1>2
<1> HIDE DEF n, run
<1> QED
  BY Zenon, <1>1, <1>5, <1>6

-----------------------------------------------------------------------------
(* promote_executable *)

\* No list of the queue has grown.
QueuesLess(p, q) == \A a : At(q.queue, a) \subseteq At(p.queue, a)

\* The queue of a holds nothing that the state has passed.
FreshAt(p, a) == \A t \in At(p.queue, a) : Nonce[t] >= AccountNonce(p, a)

LEMMA FreshLess ==
    ASSUME NEW p, NEW q, NEW a, FreshAt(p, a), QueuesLess(p, q), q.state = p.state PROVE FreshAt(q, a)
BY Zenon DEF FreshAt, QueuesLess, AccountNonce, StateOf

LEMMA QueuesLessTwice ==
    ASSUME NEW p, NEW q, NEW r, QueuesLess(p, q), QueuesLess(q, r) PROVE QueuesLess(p, r)
BY Zenon DEF QueuesLess

\* Parts of one of two lists can be put in the other one.
LEMMA MovableParts ==
    ASSUME NEW a, NEW P, NEW Q, OneAccount(a, P, Q), NEW S \in SUBSET P, NEW T \in SUBSET P, S \cap T = {}
    PROVE  Movable(Q, a, S) /\ Movable(Q \cup S, a, T)
<1>1. \A t \in S \cup T : t \in P \cup Q /\ t \in P
  BY Zenon
<1>2. \A t \in S \cup T, u \in Q : Nonce[t] # Nonce[u]
  BY Zenon, <1>1 DEF OneAccount
<1>3. \A t \in T, u \in S : Nonce[t] # Nonce[u]
  BY Zenon, <1>1 DEF OneAccount
<1>4. \A t \in S \cup T : From[t] = a
  BY Zenon, <1>1 DEF OneAccount
<1>5. \A t, u \in S \cup T : Nonce[t] = Nonce[u] => t = u
  BY Zenon, <1>1 DEF OneAccount
<1>6. S \subseteq S \cup T /\ T \subseteq S \cup T
  BY Zenon
<1> QED
  BY Zenon, <1>2, <1>3, <1>4, <1>5, <1>6 DEF Movable

LEMMA OneAccountSwaps == ASSUME NEW a, NEW P, NEW Q, OneAccount(a, P, Q) PROVE OneAccount(a, Q, P)
BY Zenon DEF OneAccount

\* Lists some of which are dropped, and some of which are moved to the other.
LEMMA PromotedLists ==
    ASSUME NEW a, NEW P, NEW Q, OneAccount(a, P, Q), NEW D \in SUBSET Q, NEW R \in SUBSET (Q \ D)
    PROVE  /\ Movable(P, a, R)
           /\ (P \cup R) \cap (Q \ (D \cup R)) = {}
           /\ (P \cup R) \cup (Q \ (D \cup R)) = (P \cup Q) \ D
<1>1. P \cap Q = {}
  BY Zenon DEF OneAccount
<1>2. (P \cup R) \cap (Q \ (D \cup R)) = {} /\ (P \cup R) \cup (Q \ (D \cup R)) = (P \cup Q) \ D
  BY <1>1
<1>3. Movable(P, a, R)
  <2>1. R \in SUBSET Q /\ {} \in SUBSET Q /\ R \cap {} = {}
    BY Zenon
  <2> QED
    BY Zenon, <2>1, OneAccountSwaps, MovableParts
<1> QED
  BY Zenon, <1>2, <1>3

\* The executable transactions of an account become pending, the stale and the
\* unpayable ones are dropped.
LEMMA PromotesAccount ==
    ASSUME live \in Block, NEW p, Good(p), NEW a \in Account
    PROVE  LET res == PromoteAccount(p, a)
           IN  LessOk(p, res) /\ QueuesLess(p, res.p) /\ FreshAt(res.p, a)
<1> DEFINE P == At(p.pending, a)
           list == At(p.queue, a)
           k == AccountNonce(p, a)
           forward == Below(list, k)
           drops == Unpayable(list \ forward, AccountBalance(p, a))
           ready == {t \in list \ (forward \cup drops) : Nonce[t] >= NonceGet(p, a)}
           D == forward \cup drops
           rest == list \ (forward \cup drops \cup ready)
           m == With(p.queue, a, rest)
           w == [p EXCEPT !.queue = m]
           x == LookupRemove(w, D)
           y == NonceSet(x, a, NonceGet(p, a))
           res == PromoteAll(y, ready)
<1>1. PromoteAccount(p, a) = IF a \notin DOMAIN p.queue THEN Ok(p) ELSE res
  BY Zenon DEF PromoteAccount
<1>2. p \in Pools /\ Counted(p) /\ Beating(p) /\ p.queue \in Maps
  BY Zenon DEF Good, Pools
<1>3. P \in SUBSET Tx /\ list \in SUBSET Tx /\ OneAccount(a, P, list)
  BY Zenon, AccountLists
<1>4. k \in Nat /\ NonceGet(p, a) \in Nat
  BY Zenon, <1>2, NonceGets
<1>5. D \in SUBSET list /\ ready \in SUBSET (list \ D) /\ rest = list \ (D \cup ready) /\ rest \in SUBSET Tx
  <2> HIDE DEF list, k
  <2>1. forward \in SUBSET list /\ drops \in SUBSET list
    BY Zenon DEF Below, Unpayable
  <2> HIDE DEF forward, drops
  <2>2. ready \in SUBSET (list \ D) /\ D \in SUBSET list
    BY Zenon, <2>1
  <2>3. rest = list \ (D \cup ready)
    BY Zenon
  <2> QED
    BY Zenon, <1>3, <2>2, <2>3
<1>6. \A t \in rest : Nonce[t] >= k
  <2> HIDE DEF list, k, drops, ready
  <2> SUFFICES ASSUME NEW t \in rest PROVE Nonce[t] >= k
    OBVIOUS
  <2>1. t \in list /\ t \notin forward
    BY Zenon
  <2>2. Nonce[t] \in Nat
    BY <1>3, <2>1, TxAssumption
  <2>3. ~(Nonce[t] < k)
    BY Zenon, <2>1 DEF Below
  <2> QED
    BY <1>4, <2>2, <2>3
<1> HIDE DEF D, ready, rest, k
<1>7. CASE a \notin DOMAIN p.queue
  <2>1. LessOk(p, Ok(p))
    BY Zenon, LessReflexive, OkLess
  <2>2. Ok(p).p = p
    BY DEF Ok
  <2>3. list = {} /\ QueuesLess(p, p)
    BY Zenon, <1>7, AtOf DEF QueuesLess
  <2> QED
    BY Zenon, <1>1, <1>7, <2>1, <2>2, <2>3 DEF FreshAt
<1>8. CASE a \in DOMAIN p.queue
  <2>1. m \in Maps /\ DOMAIN m = DOMAIN p.queue /\ At(m, a) = rest /\ SameBut(p.queue, m, a)
    <3>1. m \in Maps /\ DOMAIN m = DOMAIN p.queue \cup {a} /\ At(m, a) = rest /\ SameBut(p.queue, m, a)
      <4>1. rest \in SUBSET Tx /\ p.queue \in Maps
        BY Zenon, <1>2, <1>5
      <4> HIDE DEF list
      <4> QED
        BY <4>1, WithMap
    <3> HIDE DEF m
    <3>2. DOMAIN p.queue \cup {a} = DOMAIN p.queue
      BY Zenon, <1>8
    <3> QED
      BY Zenon, <3>1, <3>2
  <2> HIDE DEF m
  <2>2. OnlyQueue(p, w, m)
    BY Zenon, <1>2, <2>1, QueueSet
  <2> HIDE DEF w
  <2>3. w \in Pools /\ Known(w) = Known(p) /\ Counted(w)
    BY Zenon, <1>2, <2>2, SameLookup DEF OnlyQueue
  <2>4. x \in Pools /\ Counted(x) /\ Known(x) = Known(p) \ D /\ SameLists(w, x)
    BY Zenon, <2>3, LookupRemoves
  <2> HIDE DEF x
  <2>5. Alike(x, y)
    BY Zenon, <1>4, <2>4, NonceSets
  <2> HIDE DEF y
  <2>6. y \in Pools /\ Counted(y) /\ Known(y) = Known(p) \ D
    BY Zenon, <2>4, <2>5, AlikeCounted DEF Alike
  <2>7. y.pending = p.pending /\ y.queue = m /\ y.beats = p.beats /\ y.state = p.state
    BY Zenon, <2>2, <2>4, <2>5 DEF OnlyQueue, SameLists, Alike
  <2>8. Beating(y)
    BY Zenon, <1>2, <2>1, <2>7 DEF Beating
  <2>9. /\ Movable(P, a, ready)
        /\ (P \cup ready) \cap rest = {}
        /\ (P \cup ready) \cup rest = (P \cup list) \ D
    <3> HIDE DEF P, list
    <3> QED
      BY <1>3, <1>5, PromotedLists
  <2>10. res \in Oks /\ Promoted(y, res.p, a, ready)
    <3>1. ready \in SUBSET Tx
      BY Zenon, <1>3, <1>5
    <3>2. Movable(At(y.pending, a), a, ready)
      BY Zenon, <2>7, <2>9
    <3> QED
      BY Zenon, <2>6, <2>8, <3>1, <3>2, PromotesAll
  <2> DEFINE q == res.p
  <2> HIDE DEF res
  <2>11. /\ q \in Pools /\ Beating(q) /\ q.queue = m /\ q.state = p.state /\ Known(q) = Known(p) \ D /\ Counted(q)
         /\ At(q.pending, a) = P \cup ready /\ SameBut(p.pending, q.pending, a)
    BY Zenon, <2>6, <2>7, <2>10, SameLookup DEF Promoted
  <2> HIDE DEF q
  <2>12. Narrowed(p, q, a)
    <3>1. At(q.pending, a) = P \cup ready /\ At(q.queue, a) = rest
      BY Zenon, <2>1, <2>11
    <3>2. At(q.pending, a) \cap At(q.queue, a) = {}
      BY Zenon, <2>9, <3>1
    <3>3. At(q.pending, a) \cup At(q.queue, a) = (P \cup list) \ D
      BY Zenon, <2>9, <3>1
    <3>4. /\ At(q.pending, a) \cup At(q.queue, a) \subseteq P \cup list
          /\ Known(q) \cap (P \cup list) \subseteq At(q.pending, a) \cup At(q.queue, a)
      <4> HIDE DEF P, list
      <4> QED
        BY Zenon, <2>11, <3>3
    <3>5. SameBut(p.queue, q.queue, a) /\ Known(q) \subseteq Known(p)
      BY Zenon, <2>1, <2>11
    <3> QED
      BY Zenon, <2>11, <3>2, <3>4, <3>5 DEF Narrowed
  <2>13. LessOk(p, res)
    BY Zenon, <2>10, <2>12, NarrowedLess DEF LessOk, q
  <2>14. QueuesLess(p, q)
    <3>1. rest \subseteq list
      BY Zenon, <1>5
    <3> SUFFICES ASSUME NEW b PROVE At(q.queue, b) \subseteq At(p.queue, b)
      BY Zenon DEF QueuesLess
    <3>2. CASE b = a
      BY Zenon, <2>1, <2>11, <3>1, <3>2
    <3>3. CASE b # a
      BY Zenon, <2>1, <2>11, <3>3 DEF SameBut
    <3> QED
      BY Zenon, <3>2, <3>3
  <2>15. FreshAt(q, a)
    <3>1. AccountNonce(q, a) = k
      BY Zenon, <2>11 DEF AccountNonce, StateOf, k
    <3> QED
      BY Zenon, <1>6, <2>1, <2>11, <3>1 DEF FreshAt
  <2> QED
    BY Zenon, <1>1, <1>8, <2>13, <2>14, <2>15 DEF q
<1> QED
  BY Zenon, <1>7, <1>8


\* The highest nonces of the queue of an account are kept.
LEMMA CapsAccount ==
    ASSUME NEW p, Good(p), NEW a \in Account
    PROVE  Less(p, CapAccount(p, a)) /\ QueuesLess(p, CapAccount(p, a))
<1> DEFINE P == At(p.pending, a)
           list == At(p.queue, a)
           kept == IF a \in p.locals THEN list ELSE Capped(list, ACCOUNT_QUEUE)
           D == list \ kept
           m == With(p.queue, a, kept)
           w == [p EXCEPT !.queue = m]
           x == LookupRemove(w, D)
           y == [x EXCEPT !.queue = Without(x.queue, a), !.beats = WithoutBeat(x.beats, a)]
<1>1. CapAccount(p, a) = IF a \notin DOMAIN p.queue THEN p ELSE IF kept # {} THEN x ELSE y
  BY Zenon DEF CapAccount
<1>2. p \in Pools /\ Counted(p) /\ Beating(p) /\ p.queue \in Maps
  BY Zenon DEF Good, Pools
<1>3. P \in SUBSET Tx /\ list \in SUBSET Tx /\ OneAccount(a, P, list)
  BY Zenon, AccountLists
<1>4. kept \in SUBSET list /\ kept \in SUBSET Tx
  <2> HIDE DEF list
  <2>1. kept \in SUBSET list
    BY Zenon DEF Capped
  <2> HIDE DEF kept
  <2> QED
    BY Zenon, <1>3, <2>1
<1> HIDE DEF kept
<1>5. Less(p, p) /\ QueuesLess(p, p)
  BY Zenon, LessReflexive DEF QueuesLess
<1>6. m \in Maps /\ DOMAIN m = DOMAIN p.queue \cup {a} /\ At(m, a) = kept /\ SameBut(p.queue, m, a)
  BY Zenon, <1>2, <1>4, WithMap
<1> HIDE DEF m
<1>7. OnlyQueue(p, w, m)
  BY Zenon, <1>2, <1>6, QueueSet
<1> HIDE DEF w
<1>8. w \in Pools /\ Known(w) = Known(p) /\ Counted(w)
  BY Zenon, <1>2, <1>7, SameLookup DEF OnlyQueue
<1>9. x \in Pools /\ Counted(x) /\ Known(x) = Known(p) \ D /\ SameLists(w, x)
  <2> HIDE DEF D
  <2> QED
    BY Zenon, <1>8, LookupRemoves
<1> HIDE DEF x
<1>10. x.pending = p.pending /\ x.queue = m /\ x.beats = p.beats /\ x.state = p.state
  BY Zenon, <1>7, <1>9 DEF OnlyQueue, SameLists
<1>11. ASSUME NEW q \in Pools, Counted(q), Beating(q), Known(q) = Known(p) \ D, q.pending = p.pending,
              q.state = p.state, At(q.queue, a) = kept, SameBut(p.queue, q.queue, a)
       PROVE  Less(p, q) /\ QueuesLess(p, q)
  <2>1. At(q.pending, a) = P /\ SameBut(p.pending, q.pending, a)
    BY Zenon, <1>11 DEF SameBut
  <2>2. P \cap list = {}
    BY Zenon, <1>3 DEF OneAccount
  <2>3. P \cap kept = {} /\ P \cup kept \subseteq P \cup list /\ (Known(p) \ D) \cap (P \cup list) \subseteq P \cup kept
    <3> HIDE DEF P, list
    <3> QED
      BY Zenon, <1>4, <2>2
  <2>4. Narrowed(p, q, a)
    <3>1. Known(q) \subseteq Known(p)
      BY Zenon, <1>11
    <3> QED
      BY Zenon, <1>11, <2>1, <2>3, <3>1 DEF Narrowed
  <2>5. QueuesLess(p, q)
    <3> SUFFICES ASSUME NEW b PROVE At(q.queue, b) \subseteq At(p.queue, b)
      BY Zenon DEF QueuesLess
    <3>1. CASE b = a
      BY Zenon, <1>4, <1>11, <3>1
    <3>2. CASE b # a
      BY Zenon, <1>11, <3>2 DEF SameBut
    <3> QED
      BY Zenon, <3>1, <3>2
  <2> QED
    BY Zenon, <2>4, <2>5, NarrowedLess
<1>12. ASSUME a \in DOMAIN p.queue PROVE Beating(x)
  <2>1. DOMAIN m = DOMAIN p.queue
    BY Zenon, <1>6, <1>12
  <2> QED
    BY Zenon, <1>2, <1>10, <2>1 DEF Beating
<1>13. ASSUME a \in DOMAIN p.queue PROVE Less(p, x) /\ QueuesLess(p, x)
  <2>1. At(x.queue, a) = kept /\ SameBut(p.queue, x.queue, a)
    BY Zenon, <1>6, <1>10
  <2> QED
    BY Zenon, <1>9, <1>10, <1>11, <1>12, <1>13, <2>1
<1>14. ASSUME kept = {} PROVE Less(p, y) /\ QueuesLess(p, y)
  <2> DEFINE r == Without(m, a)
             s == WithoutBeat(p.beats, a)
  <2>1. r \in Maps /\ DOMAIN r = DOMAIN m \ {a} /\ At(r, a) = {} /\ SameBut(m, r, a)
    BY Zenon, <1>6, WithoutMap
  <2>2. p.beats \in Seq(Account) /\ IsInjective(p.beats) /\ DOMAIN p.queue \subseteq Range(p.beats)
    BY Zenon, <1>2 DEF Beating, Pools
  <2>3. s \in Seq(Account) /\ IsInjective(s) /\ Range(s) = Range(p.beats) \ {a}
    BY Zenon, <2>2, BeatRemoved
  <2>4. y = [x EXCEPT !.queue = r, !.beats = s]
    BY Zenon, <1>10
  <2> HIDE DEF r, s, y
  <2>5. /\ y \in Pools /\ y.queue = r /\ y.beats = s /\ y.pending = x.pending /\ y.state = x.state
        /\ y.local = x.local /\ y.remote = x.remote /\ y.slots = x.slots
    BY Zenon, <1>9, <2>1, <2>3, <2>4 DEF Pools
  <2>6. Counted(y) /\ Known(y) = Known(p) \ D
    BY Zenon, <1>9, <2>5, SameLookup
  <2>7. DOMAIN r \subseteq Range(s)
    BY Zenon, <1>6, <2>1, <2>2, <2>3
  <2>8. Beating(y)
    BY Zenon, <2>3, <2>5, <2>7 DEF Beating
  <2>9. At(y.queue, a) = kept /\ SameBut(p.queue, y.queue, a)
    BY Zenon, <1>6, <1>14, <2>1, <2>5 DEF SameBut
  <2>10. y.pending = p.pending /\ y.state = p.state
    BY Zenon, <1>10, <2>5
  <2> QED
    BY Zenon, <1>11, <2>5, <2>6, <2>8, <2>9, <2>10
<1> HIDE DEF y
<1> QED
  BY Zenon, <1>1, <1>5, <1>13, <1>14

\* A call that leaves less in the pool and in its queues, and nothing stale in
\* the queues of these accounts.
Freshens(p, res, accounts, ord) ==
    /\ LessOk(p, res) /\ QueuesLess(p, res.p)
    /\ \A j \in 1 .. Len(ord) : ord[j] \in accounts => FreshAt(res.p, ord[j])

\* The first loop of promote_executable.
LEMMA PromotesAccounts ==
    ASSUME live \in Block, NEW p, Good(p), NEW accounts, NEW ord \in Seq(Account)
    PROVE  LET Promote(q, a) == IF a \in accounts THEN PromoteAccount(q, a) ELSE Ok(q)
           IN  Freshens(p, InOrder(Promote, p, ord), accounts, ord)
<1> DEFINE Promote(q, a) == IF a \in accounts THEN PromoteAccount(q, a) ELSE Ok(q)
<1> DEFINE n == Len(ord)
           C == [i \in 0 .. n |-> {x \in Oks : /\ LessOk(p, x) /\ QueuesLess(p, x.p)
                                      /\ \A j \in 1 .. i : ord[j] \in accounts => FreshAt(x.p, ord[j])}]
           start == Ok(p)
           Step(x, i) == IF x.r = "ok" THEN IF ord[i] \in accounts THEN PromoteAccount(x.p, ord[i]) ELSE Ok(x.p) ELSE x
           Body(f) == [i \in 0 .. n |-> IF i = 0 THEN start ELSE Step(f[i - 1], i)]
           run == CHOOSE f : f = Body(f)
<1>1. InOrder(Promote, p, ord) = run[n]
  BY Zenon DEF InOrder, Then
<1>2. n \in Nat
  OBVIOUS
<1>3. start \in C[0]
  <2>1. 0 \in 0 .. n
    BY <1>2
  <2>2. LessOk(p, Ok(p)) /\ Ok(p) \in Oks /\ QueuesLess(p, p)
    BY Zenon, LessReflexive, OkLess DEF LessOk, QueuesLess
  <2>3. Ok(p).p = p
    BY DEF Ok
  <2>4. 1 .. 0 = {}
    OBVIOUS
  <2> HIDE DEF n
  <2> QED
    BY Zenon, <2>1, <2>2, <2>3, <2>4
<1>4. \A i \in 1 .. n : \A x \in C[i - 1] : Step(x, i) \in C[i]
  <2> DEFINE D(x, i) == \A j \in 1 .. i : ord[j] \in accounts => FreshAt(x.p, ord[j])
  <2> SUFFICES ASSUME NEW i \in 1 .. n, NEW x \in Oks, LessOk(p, x), QueuesLess(p, x.p), D(x, i - 1)
               PROVE  Step(x, i) \in Oks /\ LessOk(p, Step(x, i)) /\ QueuesLess(p, Step(x, i).p) /\ D(Step(x, i), i)
    <3>1. \A i \in 1 .. n : i - 1 \in 0 .. n /\ i \in 0 .. n
      BY <1>2
    <3> HIDE DEF n, Step
    <3> QED
      BY Zenon, <3>1
  <2>1. ord[i] \in Account
    OBVIOUS
  <2>2. x.r = "ok" /\ Less(p, x.p) /\ Good(x.p)
    BY Zenon DEF Oks, LessOk, Less
  <2> DEFINE y == Step(x, i)
  <2>3. /\ LessOk(x.p, y) /\ QueuesLess(x.p, y.p)
        /\ ord[i] \in accounts => FreshAt(y.p, ord[i])
    <3>1. CASE ord[i] \in accounts
      <4>1. y = PromoteAccount(x.p, ord[i])
        BY Zenon, <2>2, <3>1
      <4> HIDE DEF y
      <4> QED
        BY Zenon, <2>1, <2>2, <4>1, PromotesAccount
    <3>2. CASE ord[i] \notin accounts
      <4>1. y = Ok(x.p)
        BY Zenon, <2>2, <3>2
      <4>2. Ok(x.p).p = x.p
        BY DEF Ok
      <4> HIDE DEF y
      <4>3. LessOk(x.p, y) /\ QueuesLess(x.p, x.p)
        BY Zenon, <2>2, <4>1, LessReflexive, OkLess DEF QueuesLess
      <4> QED
        BY Zenon, <3>2, <4>1, <4>2, <4>3
    <3> QED
      BY Zenon, <3>1, <3>2
  <2> HIDE DEF y
  <2>4. LessOk(p, y) /\ y \in Oks
    BY Zenon, <2>2, <2>3, LessOkTwice DEF LessOk
  <2>5. QueuesLess(p, y.p) /\ y.p.state = x.p.state
    BY Zenon, <2>3, QueuesLessTwice DEF LessOk, Less
  <2>6. D(y, i)
    <3> SUFFICES ASSUME NEW j \in 1 .. i, ord[j] \in accounts PROVE FreshAt(y.p, ord[j])
      OBVIOUS
    <3>1. j = i \/ j \in 1 .. i - 1
      BY <1>2
    <3>2. ASSUME j \in 1 .. i - 1 PROVE FreshAt(y.p, ord[j])
      <4>1. FreshAt(x.p, ord[j])
        BY Zenon, <3>2
      <4> QED
        BY Zenon, <2>3, <2>5, <4>1, FreshLess
    <3> QED
      BY Zenon, <2>3, <3>1, <3>2
  <2> HIDE DEF Step, D
  <2> QED
    BY Zenon, <2>4, <2>5, <2>6 DEF y
<1>5. run[n] \in C[n]
  <2> HIDE DEF n, C, start, Step, Promote
  <2> DEFINE step == [z \in States(C, n) \X (1 .. n) |-> Step(z[1], z[2])]
  <2>1. 0 \in 0 .. n /\ \A i \in 1 .. n : i \in 0 .. n /\ i - 1 \in 0 .. n /\ i # 0
    BY <1>2
  <2>2. \A i \in 1 .. n : \A x \in C[i - 1] : step[<<x, i>>] = Step(x, i)
    <3>1. \A i \in 1 .. n : C[i - 1] \subseteq States(C, n)
      BY Zenon, <2>1 DEF States
    <3> QED
      BY Zenon, <3>1
  <2>3. PICK f : IsPath(f, C, start, n, step)
    <3> HIDE DEF step
    <3> QED
      BY Zenon, <1>2, <1>3, <1>4, <2>2, Paths
  <2>4. f = Body(f)
    <3> HIDE DEF step
    <3>1. \A i \in 0 .. n : i = 0 \/ i \in 1 .. n
      BY <1>2
    <3>2. \A i \in 0 .. n : f[i] = IF i = 0 THEN start ELSE Step(f[i - 1], i)
      BY Zenon, <2>2, <2>3, <3>1 DEF IsPath
    <3> QED
      BY Zenon, <2>3, <3>2 DEF IsPath
  <2>5. run = Body(run)
    BY Zenon, <2>4
  <2> HIDE DEF run
  <2>6. \A i \in 0 .. n : run[i] = IF i = 0 THEN start ELSE Step(run[i - 1], i)
    <3>1. \A i \in 0 .. n : Body(run)[i] = IF i = 0 THEN start ELSE Step(run[i - 1], i)
      BY Zenon
    <3> HIDE DEF Body
    <3> QED
      BY Zenon, <2>5, <3>1
  <2>7. run[0] \in C[0] /\ \A i \in 1 .. n : run[i - 1] \in C[i - 1] => run[i] \in C[i]
    BY Zenon, <1>3, <1>4, <2>1, <2>6
  <2> QED
    BY Zenon, <1>2, <2>7, PathEnds
<1>6. n \in 0 .. n
  BY <1>2
<1> HIDE DEF n, run
<1>7. run[n] \in {x \in Oks : /\ LessOk(p, x) /\ QueuesLess(p, x.p)
                             /\ \A j \in 1 .. n : ord[j] \in accounts => FreshAt(x.p, ord[j])}
  BY Zenon, <1>5, <1>6
<1> HIDE DEF C
<1> QED
  BY Zenon, <1>1, <1>7 DEF n, Freshens

\* The second loop of promote_executable.
LEMMA CapsAccounts ==
    ASSUME NEW p, Good(p), NEW accounts, NEW ord \in Seq(Account)
    PROVE  LET Cap(q, a) == Ok(IF a \in accounts THEN CapAccount(q, a) ELSE q)
               res == InOrder(Cap, p, ord)
           IN  LessOk(p, res) /\ QueuesLess(p, res.p)
<1> DEFINE Cap(q, a) == Ok(IF a \in accounts THEN CapAccount(q, a) ELSE q)
<1> DEFINE n == Len(ord)
           C == [i \in 0 .. n |-> {x \in Oks : LessOk(p, x) /\ QueuesLess(p, x.p)}]
           start == Ok(p)
           Step(x, i) == IF x.r = "ok" THEN Ok(IF ord[i] \in accounts THEN CapAccount(x.p, ord[i]) ELSE x.p) ELSE x
           Body(f) == [i \in 0 .. n |-> IF i = 0 THEN start ELSE Step(f[i - 1], i)]
           run == CHOOSE f : f = Body(f)
<1>1. InOrder(Cap, p, ord) = run[n]
  BY Zenon DEF InOrder, Then
<1>2. n \in Nat
  OBVIOUS
<1>3. start \in C[0]
  <2>1. 0 \in 0 .. n
    BY <1>2
  <2>2. LessOk(p, Ok(p)) /\ Ok(p) \in Oks /\ QueuesLess(p, p)
    BY Zenon, LessReflexive, OkLess DEF LessOk, QueuesLess
  <2>3. Ok(p).p = p
    BY DEF Ok
  <2> HIDE DEF n
  <2> QED
    BY Zenon, <2>1, <2>2, <2>3
<1>4. \A i \in 1 .. n : \A x \in C[i - 1] : Step(x, i) \in C[i]
  <2> SUFFICES ASSUME NEW i \in 1 .. n, NEW x \in Oks, LessOk(p, x), QueuesLess(p, x.p)
               PROVE  Step(x, i) \in Oks /\ LessOk(p, Step(x, i)) /\ QueuesLess(p, Step(x, i).p)
    <3>1. \A i \in 1 .. n : i - 1 \in 0 .. n /\ i \in 0 .. n
      BY <1>2
    <3> HIDE DEF n, Step
    <3> QED
      BY Zenon, <3>1
  <2>1. ord[i] \in Account
    OBVIOUS
  <2>2. x.r = "ok" /\ Less(p, x.p) /\ Good(x.p)
    BY Zenon DEF Oks, LessOk, Less
  <2> DEFINE y == IF ord[i] \in accounts THEN CapAccount(x.p, ord[i]) ELSE x.p
  <2>3. Less(x.p, y) /\ QueuesLess(x.p, y)
    <3>1. Less(x.p, x.p) /\ QueuesLess(x.p, x.p)
      BY Zenon, <2>2, LessReflexive DEF QueuesLess
    <3> QED
      BY Zenon, <2>1, <2>2, <3>1, CapsAccount
  <2>4. Step(x, i) = Ok(y)
    BY Zenon, <2>2
  <2> HIDE DEF y, Step
  <2>5. Less(p, y) /\ QueuesLess(p, y)
    BY Zenon, <2>2, <2>3, LessTransitive, QueuesLessTwice
  <2>6. LessOk(p, Ok(y)) /\ Ok(y) \in Oks
    BY Zenon, <2>5, OkLess DEF LessOk
  <2>7. Ok(y).p = y
    BY DEF Ok
  <2> QED
    BY Zenon, <2>4, <2>5, <2>6, <2>7
<1>5. run[n] \in C[n]
  <2> HIDE DEF n, C, start, Step, Cap
  <2> DEFINE step == [z \in States(C, n) \X (1 .. n) |-> Step(z[1], z[2])]
  <2>1. 0 \in 0 .. n /\ \A i \in 1 .. n : i \in 0 .. n /\ i - 1 \in 0 .. n /\ i # 0
    BY <1>2
  <2>2. \A i \in 1 .. n : \A x \in C[i - 1] : step[<<x, i>>] = Step(x, i)
    <3>1. \A i \in 1 .. n : C[i - 1] \subseteq States(C, n)
      BY Zenon, <2>1 DEF States
    <3> QED
      BY Zenon, <3>1
  <2>3. PICK f : IsPath(f, C, start, n, step)
    <3> HIDE DEF step
    <3> QED
      BY Zenon, <1>2, <1>3, <1>4, <2>2, Paths
  <2>4. f = Body(f)
    <3> HIDE DEF step
    <3>1. \A i \in 0 .. n : i = 0 \/ i \in 1 .. n
      BY <1>2
    <3>2. \A i \in 0 .. n : f[i] = IF i = 0 THEN start ELSE Step(f[i - 1], i)
      BY Zenon, <2>2, <2>3, <3>1 DEF IsPath
    <3> QED
      BY Zenon, <2>3, <3>2 DEF IsPath
  <2>5. run = Body(run)
    BY Zenon, <2>4
  <2> HIDE DEF run
  <2>6. \A i \in 0 .. n : run[i] = IF i = 0 THEN start ELSE Step(run[i - 1], i)
    <3>1. \A i \in 0 .. n : Body(run)[i] = IF i = 0 THEN start ELSE Step(run[i - 1], i)
      BY Zenon
    <3> HIDE DEF Body
    <3> QED
      BY Zenon, <2>5, <3>1
  <2>7. run[0] \in C[0] /\ \A i \in 1 .. n : run[i - 1] \in C[i - 1] => run[i] \in C[i]
    BY Zenon, <1>3, <1>4, <2>1, <2>6
  <2> QED
    BY Zenon, <1>2, <2>7, PathEnds
<1>6. n \in 0 .. n
  BY <1>2
<1> HIDE DEF n, run
<1>7. run[n] \in {x \in Oks : LessOk(p, x) /\ QueuesLess(p, x.p)}
  BY Zenon, <1>5, <1>6
<1> HIDE DEF C
<1> QED
  BY Zenon, <1>1, <1>7

\* TxPool::promote_executable: afterwards the queues of these accounts hold
\* nothing that the state has passed.
LEMMA PromotesExecutable ==
    ASSUME live \in Block, NEW p, Good(p), NEW accounts, NEW ord \in Seq(Account)
    PROVE  Freshens(p, PromoteExecutable(p, accounts, ord), accounts, ord)
<1> DEFINE Promote(q, a) == IF a \in accounts THEN PromoteAccount(q, a) ELSE Ok(q)
           Cap(q, a) == Ok(IF a \in accounts THEN CapAccount(q, a) ELSE q)
           x == InOrder(Promote, p, ord)
           y == InOrder(Cap, x.p, ord)
<1>1. PromoteExecutable(p, accounts, ord) = IF x.r = "ok" THEN y ELSE x
  BY Zenon DEF PromoteExecutable, Then
<1>2. Freshens(p, x, accounts, ord)
  BY Zenon, PromotesAccounts DEF InOrder, Then
<1> HIDE DEF x
<1>3. x.r = "ok" /\ Less(p, x.p) /\ Good(x.p)
  BY Zenon, <1>2 DEF Oks, LessOk, Less, Freshens
<1>4. LessOk(x.p, y) /\ QueuesLess(x.p, y.p)
  BY Zenon, <1>3, CapsAccounts DEF InOrder, Then
<1> HIDE DEF y
<1>5. LessOk(p, y) /\ QueuesLess(p, y.p) /\ y.p.state = x.p.state
  <2>1. LessOk(p, y)
    BY Zenon, <1>3, <1>4, LessOkTwice
  <2>2. QueuesLess(p, y.p)
    BY Zenon, <1>2, <1>4, QueuesLessTwice DEF Freshens
  <2> QED
    BY Zenon, <1>4, <2>1, <2>2 DEF LessOk, Less
<1>6. \A j \in 1 .. Len(ord) : ord[j] \in accounts => FreshAt(y.p, ord[j])
  BY Zenon, <1>2, <1>4, <1>5, FreshLess DEF Freshens
<1>7. Freshens(p, y, accounts, ord)
  BY Zenon, <1>5, <1>6 DEF Freshens
<1> QED
  BY Zenon, <1>1, <1>3, <1>7

=============================================================================
