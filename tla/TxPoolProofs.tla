---------------------------- MODULE TxPoolProofs ----------------------------
(***************************************************************************)
(* Proofs about TxPool: what demote_unexecutable, the truncations, reset   *)
(* and repack leave of a good pool, the inductive invariant, which adds    *)
(* that what the lists hold is not mined, and the theorems.                *)
(***************************************************************************)
EXTENDS TxPoolLemmas

-----------------------------------------------------------------------------
(* demote_unexecutable *)

\* The order of a repack names every account once.
LEMMA OrdersList == ASSUME NEW ord \in Orders PROVE Enumerates(ord, Account)
<1> DEFINE n == Cardinality(Account)
<1>1. n \in Nat /\ Cardinality(1 .. n) = n
  <2>1. n \in Nat
    BY Zenon, TxAssumption, FS_CardinalityType
  <2> HIDE DEF n
  <2>2. Cardinality(1 .. n) = IF 1 > n THEN 0 ELSE n - 1 + 1
    BY <2>1, FS_Interval
  <2> QED
    BY <2>1, <2>2
<1>2. ord \in Injection(1 .. n, Account)
  BY Zenon DEF Orders
<1>3. ord \in Surjection(1 .. n, Account)
  <2>1. IsFiniteSet(Account) /\ Cardinality(1 .. n) = Cardinality(Account)
    BY Zenon, <1>1, TxAssumption
  <2> QED
    BY Zenon, <1>2, <2>1, FS_Injection
<1> HIDE DEF n
<1>4. ord \in [1 .. n -> Account] /\ IsInjective(ord)
  BY Zenon, <1>2 DEF Injection
<1>5. ord \in Seq(Account) /\ Len(ord) = n
  BY <1>1, <1>4
<1>6. \A i, j \in 1 .. n : ord[i] = ord[j] => i = j
  BY Zenon, <1>4 DEF IsInjective
<1>7. \A a \in Account : \E i \in 1 .. n : ord[i] = a
  BY Zenon, <1>3 DEF Surjection
<1> QED
  BY Zenon, <1>5, <1>6, <1>7 DEF Enumerates

\* What demote_unexecutable queues again, and what it drops.
Moved(p, a) == IF a \in DOMAIN p.pending THEN Invalids(p, a) \cup Gapped(p, a) ELSE {}
Stale(p, a) == Below(p.pending[a], AccountNonce(p, a)) \cup Drops(p, a)

\* E, I and G are parts of P that do not overlap.
Parts(P, E, I, G) ==
    /\ E \in SUBSET P /\ I \in SUBSET P /\ G \in SUBSET P
    /\ E \cap I = {} /\ E \cap G = {} /\ I \cap G = {}

\* A pending list is split: nothing is lost but what is stale, and nothing
\* stale is left.
LEMMA DemoteSplits ==
    ASSUME live \in Block, NEW p, Good(p), NEW a \in DOMAIN p.pending
    PROVE  /\ a \in Account /\ p.pending[a] = At(p.pending, a)
           /\ Parts(p.pending[a], Executable(p, a), Invalids(p, a), Gapped(p, a))
           /\ \A t \in p.pending[a] : t \in Executable(p, a) \cup Invalids(p, a) \cup Gapped(p, a) =>
                  Nonce[t] >= AccountNonce(p, a)
           /\ p.pending[a] \ Stale(p, a) \subseteq Executable(p, a) \cup Invalids(p, a) \cup Gapped(p, a)
<1> DEFINE P == p.pending[a]
           k == AccountNonce(p, a)
           B == Below(P, k)
           U == Current(p, a)
           D == Drops(p, a)
           I == Invalids(p, a)
           Y == Payable(p, a)
           E == Executable(p, a)
           G == Gapped(p, a)
<1>1. p \in Pools /\ p.pending \in Maps
  BY Zenon DEF Good, Pools
<1>2. a \in Account
  BY Zenon, <1>1, MapDomain
<1>3. P = At(p.pending, a)
  BY Zenon DEF At
<1>4. P \in SUBSET Tx
  BY Zenon, <1>1, <1>3, AtType
<1>5. k \in Nat
  BY Zenon, <1>1, <1>2, NonceGets
<1>6. U = P \ B
  BY Zenon DEF Current
<1>7. D \in SUBSET U
  BY Zenon DEF Drops, Unpayable
<1>8. I \in SUBSET (U \ D)
  BY Zenon DEF Invalids, After
<1>9. Y = U \ (D \cup I)
  BY Zenon DEF Payable
<1>10. E \in SUBSET Y /\ G = Y \ E
  BY Zenon DEF Executable, Gapped
<1>11. Stale(p, a) = B \cup D
  BY Zenon DEF Stale
<1>12. \A t \in U : Nonce[t] >= k
  <2> HIDE DEF P, k, U
  <2> SUFFICES ASSUME NEW t \in U PROVE Nonce[t] >= k
    OBVIOUS
  <2>1. t \in P /\ t \notin B
    BY Zenon, <1>6
  <2>2. Nonce[t] \in Nat
    BY <1>4, <2>1, TxAssumption
  <2>3. ~(Nonce[t] < k)
    BY Zenon, <2>1 DEF Below
  <2> QED
    BY <1>5, <2>2, <2>3
<1> HIDE DEF P, k, B, U, D, I, Y, E, G
<1>13. Parts(P, E, I, G) /\ P \ (B \cup D) \subseteq E \cup I \cup G /\ \A t \in E \cup I \cup G : t \in U
  <2>1. E \subseteq U \ D /\ I \subseteq U \ D /\ G \subseteq U \ D /\ U \subseteq P
    BY Zenon, <1>6, <1>8, <1>9, <1>10
  <2>2. E \cap I = {} /\ E \cap G = {} /\ I \cap G = {}
    BY Zenon, <1>9, <1>10
  <2>3. P \ (B \cup D) \subseteq E \cup I \cup G
    BY Zenon, <1>6, <1>9, <1>10
  <2> QED
    BY Zenon, <2>1, <2>2, <2>3 DEF Parts
<1>14. \A t \in P : t \in E \cup I \cup G => Nonce[t] >= k
  BY Zenon, <1>12, <1>13
<1> QED
  BY Zenon, <1>2, <1>3, <1>11, <1>13, <1>14 DEF P, k, E, I, G

\* q is w with what is demoted of the accounts in done queued again.
Demoting(p, w, q, done) ==
    /\ q \in Pools /\ Beating(q) /\ q.pending = w.pending /\ q.state = w.state
    /\ q.local = w.local /\ q.remote = w.remote /\ q.slots = w.slots
    /\ \A a : At(q.queue, a) = At(w.queue, a) \cup IF a \in done THEN Moved(p, a) ELSE {}
DemotesTo(p, w, res, done) == res \in Oks /\ Demoting(p, w, res.p, done)

LEMMA DemotingMore ==
    ASSUME NEW p, NEW w, NEW q, NEW done, Demoting(p, w, q, done), NEW a, NEW r, Requeued(q, r, a, Moved(p, a))
    PROVE  Demoting(p, w, r, done \cup {a})
<1> DEFINE M(b, S) == IF b \in S THEN Moved(p, b) ELSE {}
<1> SUFFICES ASSUME NEW b PROVE At(r.queue, b) = At(w.queue, b) \cup M(b, done \cup {a})
  BY Zenon DEF Demoting, Requeued
<1>1. At(q.queue, b) = At(w.queue, b) \cup M(b, done)
  BY Zenon DEF Demoting
<1>2. CASE b = a
  <2>1. At(r.queue, b) = (At(w.queue, b) \cup M(b, done)) \cup Moved(p, b)
    BY Zenon, <1>1, <1>2 DEF Requeued
  <2>2. M(b, done) \in {Moved(p, b), {}} /\ M(b, done \cup {a}) = Moved(p, b)
    BY Zenon, <1>2
  <2> HIDE DEF M
  <2>3. (At(w.queue, b) \cup M(b, done)) \cup Moved(p, b) = At(w.queue, b) \cup Moved(p, b)
    BY Zenon, <2>2
  <2> QED
    BY Zenon, <2>1, <2>2, <2>3
<1>3. CASE b # a
  <2>1. M(b, done \cup {a}) = M(b, done)
    BY Zenon, <1>3
  <2> HIDE DEF M
  <2> QED
    BY Zenon, <1>1, <1>3, <2>1 DEF Requeued, SameBut
<1> QED
  BY Zenon, <1>2, <1>3

\* One account.
LEMMA DemotesOne ==
    ASSUME live \in Block, NEW p, Good(p), NEW w, w.queue = p.queue, NEW q, NEW done, Demoting(p, w, q, done),
           NEW a \in Account, a \notin done
    PROVE  LET first == EnqueueAll(q, Invalids(p, a))
               res == IF a \notin DOMAIN p.pending THEN Ok(q)
                      ELSE IF first.r = "ok" THEN EnqueueAll(first.p, Gapped(p, a)) ELSE first
           IN  DemotesTo(p, w, res, done \cup {a})
<1> DEFINE first == EnqueueAll(q, Invalids(p, a))
           second == EnqueueAll(first.p, Gapped(p, a))
           Q == At(p.queue, a)
<1>1. q \in Pools /\ Beating(q) /\ At(q.queue, a) = Q
  <2>1. At(q.queue, a) = Q \cup IF a \in done THEN Moved(p, a) ELSE {}
    BY Zenon DEF Demoting
  <2>2. At(q.queue, a) = Q
    BY <2>1
  <2> QED
    BY Zenon, <2>2 DEF Demoting
<1>2. CASE a \notin DOMAIN p.pending
  <2>1. Ok(q) \in Oks /\ Ok(q).p = q
    BY <1>1 DEF Ok, Oks
  <2>2. Moved(p, a) = {}
    BY Zenon, <1>2 DEF Moved
  <2>3. Requeued(q, q, a, Moved(p, a))
    <3>1. At(q.queue, a) = At(q.queue, a) \cup {}
      BY Zenon
    <3>2. SameBut(q.queue, q.queue, a)
      BY Zenon DEF SameBut
    <3> QED
      BY Zenon, <1>1, <2>2, <3>1, <3>2 DEF Requeued
  <2>4. DemotesTo(p, w, Ok(q), done \cup {a})
    BY Zenon, <2>1, <2>3, DemotingMore DEF DemotesTo
  <2> QED
    BY Zenon, <1>2, <2>4
<1>3. CASE a \in DOMAIN p.pending
  <2> DEFINE P == p.pending[a]
             E == Executable(p, a)
             I == Invalids(p, a)
             G == Gapped(p, a)
  <2>1. P = At(p.pending, a) /\ Parts(P, E, I, G)
    BY Zenon, <1>3, DemoteSplits
  <2>2. OneAccount(a, P, Q) /\ P \in SUBSET Tx
    BY Zenon, <2>1, AccountLists
  <2> HIDE DEF P, E, I, G, Q
  <2>3. Movable(Q, a, I) /\ Movable(Q \cup I, a, G)
    BY Zenon, <2>1, <2>2, MovableParts DEF Parts
  <2>4. I \in SUBSET Tx /\ G \in SUBSET Tx
    BY Zenon, <2>1, <2>2 DEF Parts
  <2>5. first \in Oks /\ Requeued(q, first.p, a, I)
    <3>1. Movable(At(q.queue, a), a, I)
      BY Zenon, <1>1, <2>3
    <3> QED
      BY Zenon, <1>1, <2>4, <3>1, EnqueuesAll DEF I
  <2> HIDE DEF first
  <2>6. second \in Oks /\ Requeued(first.p, second.p, a, G)
    <3>1. Movable(At(first.p.queue, a), a, G)
      BY Zenon, <1>1, <2>3, <2>5 DEF Requeued
    <3>2. first.p \in Pools /\ Beating(first.p)
      BY Zenon, <2>5 DEF Requeued
    <3> QED
      BY Zenon, <2>4, <3>1, <3>2, EnqueuesAll DEF G
  <2> HIDE DEF second
  <2>7. Requeued(q, second.p, a, I \cup G)
    BY Zenon, <2>5, <2>6, RequeuedTwice
  <2>8. Moved(p, a) = I \cup G
    BY Zenon, <1>3 DEF Moved, I, G
  <2>9. DemotesTo(p, w, second, done \cup {a})
    BY Zenon, <2>6, <2>7, <2>8, DemotingMore DEF DemotesTo
  <2>10. first.r = "ok"
    BY Zenon, <2>5 DEF Oks
  <2> QED
    BY Zenon, <1>3, <2>9, <2>10 DEF first, second
<1> QED
  BY Zenon, <1>2, <1>3

\* The loop of demote_unexecutable that queues again.
LEMMA DemotesAll ==
    ASSUME live \in Block, NEW p, Good(p), NEW w \in Pools, Beating(w), w.queue = p.queue,
           NEW ord, Enumerates(ord, Account)
    PROVE  LET Requeue(q, a) == IF a \notin DOMAIN p.pending THEN Ok(q)
                                ELSE Then(EnqueueAll(q, Invalids(p, a)), LAMBDA x : EnqueueAll(x, Gapped(p, a)))
           IN  DemotesTo(p, w, InOrder(Requeue, w, ord), Account)
<1> DEFINE Requeue(q, a) == IF a \notin DOMAIN p.pending THEN Ok(q)
                            ELSE Then(EnqueueAll(q, Invalids(p, a)), LAMBDA x : EnqueueAll(x, Gapped(p, a)))
           Past(i) == {ord[j] : j \in 1 .. i}
           First1(q, a) == EnqueueAll(q, Invalids(p, a))
           One(q, a) == IF a \notin DOMAIN p.pending THEN Ok(q)
                        ELSE IF First1(q, a).r = "ok" THEN EnqueueAll(First1(q, a).p, Gapped(p, a)) ELSE First1(q, a)
<1> DEFINE n == Len(ord)
           C == [i \in 0 .. n |-> {x \in Oks : DemotesTo(p, w, x, Past(i))}]
           start == Ok(w)
           Step(x, i) == IF x.r = "ok" THEN One(x.p, ord[i]) ELSE x
           Body(f) == [i \in 0 .. n |-> IF i = 0 THEN start ELSE Step(f[i - 1], i)]
           run == CHOOSE f : f = Body(f)
<1>1. InOrder(Requeue, w, ord) = run[n]
  BY Zenon DEF InOrder, Then
<1>2. n \in Nat
  BY DEF Enumerates
<1>3. start \in C[0]
  <2>1. 0 \in 0 .. n
    BY <1>2
  <2>2. Ok(w) \in Oks /\ Ok(w).p = w
    BY DEF Ok, Oks
  <2>3. Past(0) = {}
    OBVIOUS
  <2>4. Demoting(p, w, w, {})
    <3>1. \A a : At(w.queue, a) = At(w.queue, a) \cup IF a \in {} THEN Moved(p, a) ELSE {}
      BY Zenon
    <3> QED
      BY Zenon, <3>1 DEF Demoting
  <2>5. DemotesTo(p, w, Ok(w), Past(0))
    BY Zenon, <2>2, <2>3, <2>4 DEF DemotesTo
  <2> HIDE DEF n, Past
  <2> QED
    BY Zenon, <2>1, <2>2, <2>5
<1>4. \A i \in 1 .. n : \A x \in C[i - 1] : Step(x, i) \in C[i]
  <2> SUFFICES ASSUME NEW i \in 1 .. n, NEW x \in Oks, DemotesTo(p, w, x, Past(i - 1))
               PROVE  DemotesTo(p, w, Step(x, i), Past(i))
    <3>1. \A i \in 1 .. n : i - 1 \in 0 .. n /\ i \in 0 .. n
      BY <1>2
    <3>2. \A y, S : DemotesTo(p, w, y, S) => y \in Oks
      BY Zenon DEF DemotesTo
    <3> HIDE DEF n, Step, Past
    <3> QED
      BY Zenon, <3>1, <3>2
  <2>1. i \in 1 .. Len(ord) /\ \A j \in 1 .. i - 1 : j \in 1 .. Len(ord) /\ j # i
    BY <1>2
  <2>2. ord[i] \in Account /\ ord[i] \notin Past(i - 1)
    <3>1. ord[i] \in Account
      BY <2>1 DEF Enumerates
    <3>2. \A j \in 1 .. i - 1 : ord[j] # ord[i]
      BY Zenon, <2>1 DEF Enumerates
    <3> QED
      BY Zenon, <3>1, <3>2
  <2>3. Past(i) = Past(i - 1) \cup {ord[i]}
    <3>1. 1 .. i = 1 .. i - 1 \cup {i}
      BY <2>1
    <3> QED
      BY Zenon, <3>1
  <2>4. x.r = "ok" /\ Demoting(p, w, x.p, Past(i - 1))
    BY Zenon DEF Oks, DemotesTo
  <2> HIDE DEF Past
  <2>5. DemotesTo(p, w, One(x.p, ord[i]), Past(i - 1) \cup {ord[i]})
    BY Zenon, <2>2, <2>4, DemotesOne
  <2> HIDE DEF One
  <2> QED
    BY Zenon, <2>3, <2>4, <2>5
<1>5. run[n] \in C[n]
  <2> HIDE DEF n, C, start, Step, Requeue, One, Past
  <2> DEFINE step == [z \in States(C, n) \X (1 .. n) |-> Step(z[1], z[2])]
  <2>1. 0 \in 0 .. n /\ \A i \in 1 .. n : i \in 0 .. n /\ i - 1 \in 0 .. n /\ i # 0
    BY <1>2
  <2>2. \A i \in 1 .. n : \A x \in C[i - 1] : step[<<x, i>>] = Step(x, i)
    <3>1. \A i \in 1 .. n : C[i - 1] \subseteq States(C, n)
      BY Zenon, <2>1 DEF States
    <3> QED
      BY Zenon, <3>1
  <2>3. PICK f : IsPath(f, C, start, n, step)
    <3> HIDE DEF step
    <3> QED
      BY Zenon, <1>2, <1>3, <1>4, <2>2, Paths
  <2>4. f = Body(f)
    <3> HIDE DEF step
    <3>1. \A i \in 0 .. n : i = 0 \/ i \in 1 .. n
      BY <1>2
    <3>2. \A i \in 0 .. n : f[i] = IF i = 0 THEN start ELSE Step(f[i - 1], i)
      BY Zenon, <2>2, <2>3, <3>1 DEF IsPath
    <3> QED
      BY Zenon, <2>3, <3>2 DEF IsPath
  <2>5. run = Body(run)
    BY Zenon, <2>4
  <2> HIDE DEF run
  <2>6. \A i \in 0 .. n : run[i] = IF i = 0 THEN start ELSE Step(run[i - 1], i)
    <3>1. \A i \in 0 .. n : Body(run)[i] = IF i = 0 THEN start ELSE Step(run[i - 1], i)
      BY Zenon
    <3> HIDE DEF Body
    <3> QED
      BY Zenon, <2>5, <3>1
  <2>7. run[0] \in C[0] /\ \A i \in 1 .. n : run[i - 1] \in C[i - 1] => run[i] \in C[i]
    BY Zenon, <1>3, <1>4, <2>1, <2>6
  <2> QED
    BY Zenon, <1>2, <2>7, PathEnds
<1>6. n \in 0 .. n
  BY <1>2
<1>7. Past(n) = Account
  <2>1. \A i \in 1 .. n : ord[i] \in Account
    BY DEF Enumerates
  <2>2. \A a \in Account : \E i \in 1 .. n : ord[i] = a
    BY Zenon DEF Enumerates
  <2> HIDE DEF n
  <2> QED
    BY Zenon, <2>1, <2>2
<1> HIDE DEF n, run, Past
<1>8. DemotesTo(p, w, run[n], Past(n))
  BY Zenon, <1>5, <1>6
<1> HIDE DEF C
<1> QED
  BY Zenon, <1>1, <1>7, <1>8


\* What is left pending of an account.
Left(p, a) == IF a \in DOMAIN p.pending THEN Executable(p, a) ELSE {}

LEMMA DemotedAccount ==
    ASSUME live \in Block, NEW p, Good(p), NEW a \in Account
    PROVE  /\ OneAccount(a, Left(p, a), At(p.queue, a) \cup Moved(p, a))
           /\ Left(p, a) \cup Moved(p, a) \subseteq At(p.pending, a)
           /\ \A t \in Left(p, a) \cup Moved(p, a) : Nonce[t] >= AccountNonce(p, a)
           /\ a \in DOMAIN p.pending => At(p.pending, a) \ Stale(p, a) \subseteq Left(p, a) \cup Moved(p, a)
<1> DEFINE P == At(p.pending, a)
           Q == At(p.queue, a)
           L == Left(p, a)
           M == Moved(p, a)
<1>1. OneAccount(a, P, Q)
  BY Zenon, AccountLists
<1>2. /\ L \subseteq P /\ M \subseteq P /\ L \cap M = {}
      /\ \A t \in L \cup M : Nonce[t] >= AccountNonce(p, a)
      /\ a \in DOMAIN p.pending => P \ Stale(p, a) \subseteq L \cup M
  <2>1. CASE a \notin DOMAIN p.pending
    <3>1. L = {} /\ M = {}
      BY Zenon, <2>1 DEF Left, Moved
    <3> HIDE DEF L, M
    <3> QED
      BY Zenon, <2>1, <3>1
  <2>2. CASE a \in DOMAIN p.pending
    <3> DEFINE E == Executable(p, a)
               I == Invalids(p, a)
               G == Gapped(p, a)
    <3>1. L = E /\ M = I \cup G
      BY Zenon, <2>2 DEF Left, Moved
    <3>2. /\ Parts(P, E, I, G)
          /\ \A t \in P : t \in E \cup I \cup G => Nonce[t] >= AccountNonce(p, a)
          /\ P \ Stale(p, a) \subseteq E \cup I \cup G
      <4>1. p.pending[a] = P
        BY Zenon, <2>2 DEF At
      <4> HIDE DEF P
      <4> QED
        BY Zenon, <2>2, <4>1, DemoteSplits
    <3> HIDE DEF P, L, M, E, I, G
    <3>3. E \subseteq P /\ I \cup G \subseteq P /\ E \cap (I \cup G) = {}
      BY Zenon, <3>2 DEF Parts
    <3> QED
      BY Zenon, <3>1, <3>2, <3>3
  <2> QED
    BY Zenon, <2>1, <2>2
<1> HIDE DEF P, Q, L, M
<1>3. L \cup (Q \cup M) \subseteq P \cup Q /\ L \cap (Q \cup M) = {} /\ L \cup M \subseteq P
  <2>1. P \cap Q = {}
    BY Zenon, <1>1 DEF OneAccount
  <2> QED
    BY Zenon, <1>2, <2>1
<1>4. OneAccount(a, L, Q \cup M)
  BY Zenon, <1>1, <1>3, Fewer
<1> QED
  BY Zenon, <1>2, <1>3, <1>4 DEF P, Q, L, M

\* Accounts without pending transactions are taken out.
LEMMA Tidies ==
    ASSUME NEW m \in Maps
    PROVE  LET r == Restrict(m, {a \in DOMAIN m : m[a] # {}})
           IN  r \in Maps /\ \A a : At(r, a) = At(m, a)
<1> DEFINE S == {a \in DOMAIN m : m[a] # {}}
           r == Restrict(m, S)
<1>1. PICK A \in SUBSET Account : m \in [A -> SUBSET Tx]
  BY Zenon DEF Maps
<1>2. S \in SUBSET Account
  BY Zenon, <1>1
<1>3. r \in [S -> SUBSET Tx]
  <2>1. r = [a \in S |-> m[a]]
    BY Zenon DEF Restrict
  <2>2. \A a \in S : m[a] \in SUBSET Tx
    BY Zenon, <1>1
  <2> HIDE DEF S, r
  <2> QED
    BY Zenon, <2>1, <2>2
<1>4. \A a : At(r, a) = At(m, a)
  <2> SUFFICES ASSUME NEW a PROVE At(r, a) = At(m, a)
    BY Zenon
  <2>1. DOMAIN r = S /\ (a \in S => r[a] = m[a])
    BY Zenon DEF Restrict
  <2>2. At(r, a) = IF a \in S THEN m[a] ELSE {}
    BY Zenon, <2>1 DEF At
  <2>3. At(m, a) = IF a \in S THEN m[a] ELSE {}
    BY Zenon DEF At
  <2> DEFINE v == IF a \in S THEN m[a] ELSE {}
  <2>4. At(r, a) = v /\ At(m, a) = v
    BY Zenon, <2>2, <2>3
  <2> HIDE DEF r, S, v
  <2> QED
    BY Zenon, <2>4
<1> HIDE DEF r, S
<1>5. r \in Maps
  BY Zenon, <1>2, <1>3 DEF Maps
<1> QED
  BY Zenon, <1>4, <1>5 DEF r, S

\* q is p after demote_unexecutable.
Demoted(p, q) ==
    /\ q \in Pools /\ Counted(q) /\ Beating(q) /\ q.state = p.state
    /\ Known(q) = Known(p) \ UNION {Stale(p, a) : a \in DOMAIN p.pending}
    /\ \A a \in Account : At(q.pending, a) = Left(p, a) /\ At(q.queue, a) = At(p.queue, a) \cup Moved(p, a)

LEMMA DemotedLess ==
    ASSUME live \in Block, NEW p, Good(p), NEW q, Demoted(p, q)
    PROVE  Less(p, q) /\ ((\A a \in Account : FreshAt(p, a)) => Unmined(q))
<1>1. ListsApart(q)
  <2> SUFFICES ASSUME NEW a \in Account PROVE OneAccount(a, At(q.pending, a), At(q.queue, a))
    BY Zenon DEF ListsApart
  <2>1. OneAccount(a, Left(p, a), At(p.queue, a) \cup Moved(p, a))
    BY Zenon, DemotedAccount
  <2> QED
    BY Zenon, <2>1 DEF Demoted
<1>2. \A t \in Tx : From[t] \in Account
  BY TxAssumption
<1>3. Held(q) \subseteq Held(p)
  <2> SUFFICES ASSUME NEW t \in Held(q) PROVE t \in Held(p)
    BY Zenon
  <2> DEFINE a == From[t]
  <2>1. t \in Tx /\ t \in At(q.pending, a) \cup At(q.queue, a)
    BY Zenon DEF Held
  <2>2. a \in Account
    BY Zenon, <1>2, <2>1
  <2>3. Left(p, a) \cup Moved(p, a) \subseteq At(p.pending, a)
    BY Zenon, <2>2, DemotedAccount
  <2>4. t \in Left(p, a) \cup (At(p.queue, a) \cup Moved(p, a))
    BY Zenon, <2>1, <2>2 DEF Demoted
  <2>5. t \in At(p.pending, a) \cup At(p.queue, a)
    BY Zenon, <2>3, <2>4
  <2> QED
    BY Zenon, <2>1, <2>5 DEF Held
<1>4. Known(q) \subseteq Known(p)
  BY Zenon DEF Demoted
<1>5. Covered(q)
  <2> SUFFICES ASSUME NEW t \in Known(q) PROVE t \in Held(q)
    BY Zenon DEF Covered
  <2> DEFINE a == From[t]
  <2>1. t \in Tx /\ t \in At(p.pending, a) \cup At(p.queue, a)
    BY Zenon, <1>4 DEF Good, Covered, Held
  <2>2. a \in Account
    BY Zenon, <1>2, <2>1
  <2>3. At(q.pending, a) = Left(p, a) /\ At(q.queue, a) = At(p.queue, a) \cup Moved(p, a)
    BY Zenon, <2>2 DEF Demoted
  <2>4. ASSUME t \in At(p.pending, a) PROVE t \in Left(p, a) \cup Moved(p, a)
    <3>1. a \in DOMAIN p.pending
      BY Zenon, <2>4, AtOf
    <3>2. t \notin Stale(p, a)
      BY Zenon, <3>1 DEF Demoted
    <3>3. At(p.pending, a) \ Stale(p, a) \subseteq Left(p, a) \cup Moved(p, a)
      BY Zenon, <2>2, <3>1, DemotedAccount
    <3> QED
      BY Zenon, <2>4, <3>2, <3>3
  <2>5. t \in At(q.pending, a) \cup At(q.queue, a)
    BY Zenon, <2>1, <2>3, <2>4
  <2> QED
    BY Zenon, <2>1, <2>5 DEF Held
<1>6. Less(p, q)
  BY Zenon, <1>1, <1>3, <1>4, <1>5 DEF Less, Good, Demoted
<1>7. ASSUME \A a \in Account : FreshAt(p, a) PROVE Unmined(q)
  <2> SUFFICES ASSUME q.state # NoBlock, NEW t \in Held(q) PROVE Nonce[t] >= StateNonce[q.state][From[t]]
    BY Zenon DEF Unmined
  <2> DEFINE a == From[t]
  <2>1. t \in Tx /\ t \in At(q.pending, a) \cup At(q.queue, a)
    BY Zenon DEF Held
  <2>2. a \in Account
    BY Zenon, <1>2, <2>1
  <2>3. AccountNonce(p, a) = StateNonce[q.state][a]
    BY Zenon DEF AccountNonce, StateOf, Demoted
  <2>4. t \in Left(p, a) \cup Moved(p, a) \/ t \in At(p.queue, a)
    BY Zenon, <2>1, <2>2 DEF Demoted
  <2>5. Nonce[t] >= AccountNonce(p, a)
    <3>1. ASSUME t \in At(p.queue, a) PROVE Nonce[t] >= AccountNonce(p, a)
      BY Zenon, <1>7, <2>2, <3>1 DEF FreshAt
    <3>2. ASSUME t \in Left(p, a) \cup Moved(p, a) PROVE Nonce[t] >= AccountNonce(p, a)
      BY Zenon, <2>2, <3>2, DemotedAccount
    <3> QED
      BY Zenon, <2>4, <3>1, <3>2
  <2> QED
    BY Zenon, <2>3, <2>5
<1> QED
  BY Zenon, <1>6, <1>7

\* TxPool::demote_unexecutable: when the queues are fresh, the whole pool is
\* afterwards.
LEMMA Demotes ==
    ASSUME live \in Block, NEW p, Good(p), NEW ord, Enumerates(ord, Account)
    PROVE  LET res == DemoteUnexecutable(p, ord)
           IN  LessOk(p, res) /\ ((\A a \in Account : FreshAt(p, a)) => Unmined(res.p))
<1> DEFINE as == DOMAIN p.pending
           gone == UNION {Below(p.pending[a], AccountNonce(p, a)) \cup Drops(p, a) : a \in as}
           m == [a \in as |-> Executable(p, a)]
           v == [p EXCEPT !.pending = m]
           w == LookupRemove(v, gone)
           Requeue(q, a) == IF a \notin as THEN Ok(q)
                            ELSE Then(EnqueueAll(q, Invalids(p, a)), LAMBDA x : EnqueueAll(x, Gapped(p, a)))
           res == InOrder(Requeue, w, ord)
           q == res.p
           r == Restrict(q.pending, {a \in DOMAIN q.pending : q.pending[a] # {}})
           y == [q EXCEPT !.pending = r]
<1>1. DemoteUnexecutable(p, ord) = IF res.r = "ok" THEN Ok(y) ELSE res
  BY Zenon DEF DemoteUnexecutable, Then
<1>2. p \in Pools /\ Counted(p) /\ Beating(p) /\ p.pending \in Maps
  BY Zenon DEF Good, Pools
<1>3. as \in SUBSET Account
  BY Zenon, <1>2, MapDomain
<1>4. m \in Maps /\ \A a : At(m, a) = Left(p, a)
  <2>1. \A a \in as : Executable(p, a) \in SUBSET Tx
    <3> SUFFICES ASSUME NEW a \in as PROVE Executable(p, a) \in SUBSET Tx
      OBVIOUS
    <3>1. Executable(p, a) \in SUBSET p.pending[a] /\ p.pending[a] = At(p.pending, a)
      BY Zenon, DemoteSplits DEF Parts
    <3>2. At(p.pending, a) \in SUBSET Tx
      BY Zenon, <1>2, AtType
    <3> QED
      BY Zenon, <3>1, <3>2
  <2>2. m \in [as -> SUBSET Tx]
    BY Zenon, <2>1
  <2>3. \A a : At(m, a) = Left(p, a)
    BY Zenon DEF At, Left
  <2> HIDE DEF m, as
  <2> QED
    BY Zenon, <1>3, <2>2, <2>3 DEF Maps
<1>5. gone = UNION {Stale(p, a) : a \in as}
  BY Zenon DEF Stale
<1> HIDE DEF m, gone
<1>6. OnlyPending(p, v, m)
  BY Zenon, <1>2, <1>4, PendingSet
<1> HIDE DEF v
<1>7. v \in Pools /\ Known(v) = Known(p) /\ Counted(v)
  BY Zenon, <1>2, <1>6, SameLookup DEF OnlyPending
<1>8. w \in Pools /\ Counted(w) /\ Known(w) = Known(p) \ gone /\ SameLists(v, w)
  BY Zenon, <1>7, LookupRemoves
<1> HIDE DEF w
<1>9. w.pending = m /\ w.queue = p.queue /\ w.state = p.state /\ Beating(w)
  <2>1. w.pending = m /\ w.queue = p.queue /\ w.state = p.state /\ w.beats = p.beats
    BY Zenon, <1>6, <1>8 DEF OnlyPending, SameLists
  <2> QED
    BY Zenon, <1>2, <2>1 DEF Beating
<1>10. DemotesTo(p, w, res, Account)
  BY Zenon, <1>8, <1>9, DemotesAll DEF InOrder, Then
<1> HIDE DEF res
<1>11. res \in Oks /\ res.r = "ok" /\ Demoting(p, w, q, Account)
  BY Zenon, <1>10 DEF DemotesTo, Oks
<1> HIDE DEF q
<1>12. q \in Pools /\ q.pending \in Maps
  BY Zenon, <1>11 DEF Demoting, Pools
<1>13. r \in Maps /\ \A a : At(r, a) = At(q.pending, a)
  BY Zenon, <1>12, Tidies
<1> HIDE DEF r
<1>14. OnlyPending(q, y, r)
  BY Zenon, <1>12, <1>13, PendingSet
<1> HIDE DEF y
<1>15. Counted(q) /\ Known(q) = Known(p) \ gone
  BY Zenon, <1>8, <1>11, SameLookup DEF Demoting
<1>16. Counted(y) /\ Known(y) = Known(p) \ gone
  BY Zenon, <1>14, <1>15, SameLookup DEF OnlyPending
<1>17. y \in Pools /\ Beating(y) /\ y.state = p.state
  BY Zenon, <1>9, <1>11, <1>14 DEF OnlyPending, Beating, Demoting
<1>18. \A a \in Account : At(y.pending, a) = Left(p, a) /\ At(y.queue, a) = At(p.queue, a) \cup Moved(p, a)
  <2> SUFFICES ASSUME NEW a \in Account
               PROVE  At(y.pending, a) = Left(p, a) /\ At(y.queue, a) = At(p.queue, a) \cup Moved(p, a)
    OBVIOUS
  <2>1. At(y.pending, a) = At(m, a)
    BY Zenon, <1>9, <1>11, <1>13, <1>14 DEF OnlyPending, Demoting
  <2>2. At(y.queue, a) = At(p.queue, a) \cup Moved(p, a)
    BY Zenon, <1>9, <1>11, <1>14 DEF OnlyPending, Demoting
  <2> QED
    BY Zenon, <1>4, <2>1, <2>2
<1>19. Demoted(p, y)
  BY Zenon, <1>5, <1>16, <1>17, <1>18 DEF Demoted
<1>20. Less(p, y) /\ ((\A a \in Account : FreshAt(p, a)) => Unmined(y))
  BY Zenon, <1>19, DemotedLess
<1>21. LessOk(p, Ok(y)) /\ DemoteUnexecutable(p, ord) = Ok(y)
  BY Zenon, <1>1, <1>11, <1>20, OkLess
<1>22. Ok(y).p = y
  BY DEF Ok
<1> QED
  BY Zenon, <1>20, <1>21, <1>22

\* TxNoncer::set_all, after a reset.
LEMMA SetsNonces == ASSUME NEW p, Good(p) PROVE Alike(p, SetNonces(p))
<1> DEFINE S == {b \in DOMAIN p.pending : p.pending[b] # {}}
           m == [a \in S |-> Lowest(p.pending[a]) + 1]
<1>1. p \in Pools /\ p.pending \in Maps
  BY Zenon DEF Good, Pools
<1>2. SetNonces(p) = IF DOMAIN p.pending = {} THEN p ELSE [p EXCEPT !.nonces = m]
  BY Zenon DEF SetNonces
<1>3. S \in SUBSET Account
  BY Zenon, <1>1, MapDomain
<1>4. m \in [S -> Nat]
  <2>1. \A a \in S : Lowest(p.pending[a]) + 1 \in Nat
    <3> SUFFICES ASSUME NEW a \in S PROVE Lowest(p.pending[a]) + 1 \in Nat
      BY Zenon
    <3>1. p.pending[a] = At(p.pending, a) /\ p.pending[a] # {}
      BY Zenon DEF At
    <3>2. p.pending[a] \in SUBSET Tx
      BY Zenon, <1>1, <3>1, AtType
    <3>3. Lowest(p.pending[a]) \in Nat
      BY Zenon, <3>1, <3>2, LowestNonce
    <3> QED
      BY <3>3
  <2> HIDE DEF S
  <2> QED
    BY Zenon, <2>1
<1> HIDE DEF S, m
<1>5. m \in NonceMaps
  BY Zenon, <1>3, <1>4 DEF NonceMaps
<1>6. Alike(p, [p EXCEPT !.nonces = m]) /\ Alike(p, p)
  BY <1>1, <1>5 DEF Alike, Pools
<1> QED
  BY Zenon, <1>2, <1>6


-----------------------------------------------------------------------------
(* truncate_pending *)

Trims == [p : Pools, n : Int]
LessTrim(p, st) == st \in Trims /\ Less(p, st.p)

LEMMA TrimOf ==
    ASSUME NEW p, NEW q, Less(p, q), NEW n \in Int PROVE LessTrim(p, [p |-> q, n |-> n])
<1>1. q \in Pools
  BY Zenon DEF Less, Good
<1>2. [p |-> q, n |-> n] \in Trims /\ [p |-> q, n |-> n].p = q
  BY <1>1 DEF Trims
<1> QED
  BY Zenon, <1>2 DEF LessTrim

\* One transaction of an offender goes.
LEMMA TrimsOne ==
    ASSUME live \in Block, NEW p, NEW st, LessTrim(p, st), NEW a \in Account
    PROVE  LessTrim(p, TrimOne(st, a))
<1> DEFINE s == st.p
           P == At(s.pending, a)
           Q == At(s.queue, a)
           cut == P \ Capped(P, Cardinality(P) - 1)
           m == With(s.pending, a, P \ cut)
           w == [s EXCEPT !.pending = m]
           q == Forget(w, cut)
           y == IF cut = {} THEN q ELSE NonceSetIfLower(q, a, Lowest(cut))
<1>1. TrimOne(st, a) = [p |-> y, n |-> st.n - 1]
  BY Zenon DEF TrimOne
<1>2. Less(p, s) /\ Good(s) /\ st.n \in Int
  BY Zenon DEF LessTrim, Less, Trims
<1> HIDE DEF s
<1>3. s \in Pools /\ Counted(s) /\ Beating(s) /\ s.pending \in Maps
  BY Zenon, <1>2 DEF Good, Pools
<1>4. P \in SUBSET Tx /\ OneAccount(a, P, Q)
  BY Zenon, <1>2, AccountLists
<1>5. cut \in SUBSET P
  <2> HIDE DEF P
  <2> QED
    BY Zenon
<1> HIDE DEF P, cut
<1>6. cut \in SUBSET Tx /\ P \ cut \in SUBSET Tx
  BY Zenon, <1>4, <1>5
<1>7. m \in Maps /\ At(m, a) = P \ cut /\ SameBut(s.pending, m, a)
  <2> DEFINE rest == P \ cut
  <2>1. rest \in SUBSET Tx
    BY Zenon, <1>6
  <2> HIDE DEF rest
  <2>2. With(s.pending, a, rest) \in Maps /\ At(With(s.pending, a, rest), a) = rest /\ SameBut(s.pending, With(s.pending, a, rest), a)
    BY Zenon, <1>3, <2>1, WithMap
  <2> QED
    BY Zenon, <2>2 DEF rest
<1> HIDE DEF m
<1>8. OnlyPending(s, w, m)
  BY Zenon, <1>3, <1>7, PendingSet
<1> HIDE DEF w
<1>9. w \in Pools /\ Known(w) = Known(s) /\ Counted(w)
  BY Zenon, <1>3, <1>8, SameLookup DEF OnlyPending
<1>10. q \in Pools /\ Counted(q) /\ Known(q) = Known(s) \ cut /\ SameLists(w, q)
  BY Zenon, <1>9, Forgets
<1> HIDE DEF q
<1>11. q.pending = m /\ q.queue = s.queue /\ q.beats = s.beats /\ q.state = s.state
  BY Zenon, <1>8, <1>10 DEF OnlyPending, SameLists
<1>12. Narrowed(s, q, a)
  <2> DEFINE R == Known(s)
  <2>1. At(q.pending, a) = P \ cut /\ At(q.queue, a) = Q
    BY Zenon, <1>7, <1>11
  <2>2. P \cap Q = {}
    BY Zenon, <1>4 DEF OneAccount
  <2>3. (P \ cut) \cap Q = {} /\ (P \ cut) \cup Q \subseteq P \cup Q /\ (R \ cut) \cap (P \cup Q) \subseteq (P \ cut) \cup Q
    <3> HIDE DEF Q, R
    <3> QED
      BY Zenon, <2>2
  <2>4. Beating(q) /\ SameBut(s.pending, q.pending, a) /\ SameBut(s.queue, q.queue, a) /\ Known(q) \subseteq Known(s)
    BY Zenon, <1>3, <1>7, <1>10, <1>11 DEF Beating, SameBut
  <2> QED
    BY Zenon, <1>10, <1>11, <2>1, <2>3, <2>4 DEF Narrowed, P
<1>13. Less(s, q)
  BY Zenon, <1>2, <1>12, NarrowedLess
<1>14. Less(s, y)
  <2>1. ASSUME cut # {} PROVE Less(s, NonceSetIfLower(q, a, Lowest(cut)))
    <3>1. Lowest(cut) \in Nat
      BY Zenon, <1>6, <2>1, LowestNonce
    <3>2. Alike(q, NonceSetIfLower(q, a, Lowest(cut)))
      BY Zenon, <1>10, <3>1, NonceLowers
    <3> QED
      BY Zenon, <1>13, <3>2, AlikeGood, LessTransitive DEF Less
  <2> QED
    BY Zenon, <1>13, <2>1
<1> HIDE DEF y
<1>15. Less(p, y) /\ st.n - 1 \in Int
  <2>1. st.n - 1 \in Int
    BY <1>2
  <2> QED
    BY Zenon, <1>2, <1>14, <2>1, LessTransitive
<1> QED
  BY Zenon, <1>1, <1>15, TrimOf

LEMMA TrimsAll ==
    ASSUME live \in Block, NEW p, NEW st, LessTrim(p, st), NEW offenders \in Seq(Account)
    PROVE  LessTrim(p, Trim(st, offenders))
<1> DEFINE n == Len(offenders)
           C == [i \in 0 .. n |-> {x \in Trims : LessTrim(p, x)}]
           start == st
           Step(x, i) == TrimOne(x, offenders[i])
           Body(f) == [i \in 0 .. n |-> IF i = 0 THEN start ELSE Step(f[i - 1], i)]
           run == CHOOSE f : f = Body(f)
<1>1. Trim(st, offenders) = run[n]
  BY Zenon DEF Trim
<1>2. n \in Nat
  OBVIOUS
<1>3. start \in C[0]
  <2>1. 0 \in 0 .. n
    BY <1>2
  <2>2. start \in Trims
    BY Zenon DEF LessTrim
  <2> HIDE DEF n, start
  <2> QED
    BY Zenon, <2>1, <2>2 DEF start
<1>4. \A i \in 1 .. n : \A x \in C[i - 1] : Step(x, i) \in C[i]
  <2> SUFFICES ASSUME NEW i \in 1 .. n, NEW x \in Trims, LessTrim(p, x)
               PROVE  LessTrim(p, Step(x, i))
    <3>1. \A i \in 1 .. n : i - 1 \in 0 .. n /\ i \in 0 .. n
      BY <1>2
    <3>2. \A y : LessTrim(p, y) => y \in Trims
      BY Zenon DEF LessTrim
    <3> HIDE DEF n, Step
    <3> QED
      BY Zenon, <3>1, <3>2
  <2>1. offenders[i] \in Account
    OBVIOUS
  <2> QED
    BY Zenon, <2>1, TrimsOne
<1>5. run[n] \in C[n]
  <2> HIDE DEF n, C, start, Step
  <2> DEFINE step == [z \in States(C, n) \X (1 .. n) |-> Step(z[1], z[2])]
  <2>1. 0 \in 0 .. n /\ \A i \in 1 .. n : i \in 0 .. n /\ i - 1 \in 0 .. n /\ i # 0
    BY <1>2
  <2>2. \A i \in 1 .. n : \A x \in C[i - 1] : step[<<x, i>>] = Step(x, i)
    <3>1. \A i \in 1 .. n : C[i - 1] \subseteq States(C, n)
      BY Zenon, <2>1 DEF States
    <3> QED
      BY Zenon, <3>1
  <2>3. PICK f : IsPath(f, C, start, n, step)
    <3> HIDE DEF step
    <3> QED
      BY Zenon, <1>2, <1>3, <1>4, <2>2, Paths
  <2>4. f = Body(f)
    <3> HIDE DEF step
    <3>1. \A i \in 0 .. n : i = 0 \/ i \in 1 .. n
      BY <1>2
    <3>2. \A i \in 0 .. n : f[i] = IF i = 0 THEN start ELSE Step(f[i - 1], i)
      BY Zenon, <2>2, <2>3, <3>1 DEF IsPath
    <3> QED
      BY Zenon, <2>3, <3>2 DEF IsPath
  <2>5. run = Body(run)
    BY Zenon, <2>4
  <2> HIDE DEF run
  <2>6. \A i \in 0 .. n : run[i] = IF i = 0 THEN start ELSE Step(run[i - 1], i)
    <3>1. \A i \in 0 .. n : Body(run)[i] = IF i = 0 THEN start ELSE Step(run[i - 1], i)
      BY Zenon
    <3> HIDE DEF Body
    <3> QED
      BY Zenon, <2>5, <3>1
  <2>7. run[0] \in C[0] /\ \A i \in 1 .. n : run[i - 1] \in C[i - 1] => run[i] \in C[i]
    BY Zenon, <1>3, <1>4, <2>1, <2>6
  <2> QED
    BY Zenon, <1>2, <2>7, PathEnds
<1>6. n \in 0 .. n
  BY <1>2
<1> HIDE DEF n, run
<1> QED
  BY Zenon, <1>1, <1>5, <1>6

LEMMA SizeOf == ASSUME NEW p \in Pools, NEW a PROVE Size(p, a) \in Nat
<1>1. At(p.pending, a) \in SUBSET Tx
  BY Zenon, AtType DEF Pools
<1>2. IsFiniteSet(At(p.pending, a))
  BY Zenon, <1>1, SubsetsFinite
<1> QED
  BY Zenon, <1>2, FS_CardinalityType DEF Size

LEMMA TrimsWhile ==
    ASSUME live \in Block, NEW p, NEW st, LessTrim(p, st), NEW offenders \in Seq(Account), NEW a, NEW threshold
    PROVE  LessTrim(p, TrimWhile(st, offenders, a, threshold))
<1> DEFINE n == Size(st.p, a)
           C == [i \in 0 .. n |-> {x \in Trims : LessTrim(p, x)}]
           start == st
           Step(x, i) == IF x.n > GLOBAL_SLOTS /\ Size(x.p, a) > threshold
                         THEN Trim(x, offenders) ELSE x
           Body(f) == [i \in 0 .. n |-> IF i = 0 THEN start ELSE Step(f[i - 1], i)]
           run == CHOOSE f : f = Body(f)
<1>1. TrimWhile(st, offenders, a, threshold) = run[n]
  BY Zenon DEF TrimWhile
<1>2. n \in Nat
  <2>1. st.p \in Pools
    BY Zenon DEF LessTrim, Trims
  <2> QED
    BY Zenon, <2>1, SizeOf
<1>3. start \in C[0]
  <2>1. 0 \in 0 .. n
    BY <1>2
  <2>2. start \in Trims
    BY Zenon DEF LessTrim
  <2> HIDE DEF n, start
  <2> QED
    BY Zenon, <2>1, <2>2 DEF start
<1>4. \A i \in 1 .. n : \A x \in C[i - 1] : Step(x, i) \in C[i]
  <2> SUFFICES ASSUME NEW i \in 1 .. n, NEW x \in Trims, LessTrim(p, x)
               PROVE  LessTrim(p, Step(x, i))
    <3>1. \A i \in 1 .. n : i - 1 \in 0 .. n /\ i \in 0 .. n
      BY <1>2
    <3>2. \A y : LessTrim(p, y) => y \in Trims
      BY Zenon DEF LessTrim
    <3> HIDE DEF n, Step
    <3> QED
      BY Zenon, <3>1, <3>2
  <2>1. LessTrim(p, Trim(x, offenders))
    BY Zenon, TrimsAll
  <2> QED
    BY Zenon, <2>1
<1>5. run[n] \in C[n]
  <2> HIDE DEF n, C, start, Step
  <2> DEFINE step == [z \in States(C, n) \X (1 .. n) |-> Step(z[1], z[2])]
  <2>1. 0 \in 0 .. n /\ \A i \in 1 .. n : i \in 0 .. n /\ i - 1 \in 0 .. n /\ i # 0
    BY <1>2
  <2>2. \A i \in 1 .. n : \A x \in C[i - 1] : step[<<x, i>>] = Step(x, i)
    <3>1. \A i \in 1 .. n : C[i - 1] \subseteq States(C, n)
      BY Zenon, <2>1 DEF States
    <3> QED
      BY Zenon, <3>1
  <2>3. PICK f : IsPath(f, C, start, n, step)
    <3> HIDE DEF step
    <3> QED
      BY Zenon, <1>2, <1>3, <1>4, <2>2, Paths
  <2>4. f = Body(f)
    <3> HIDE DEF step
    <3>1. \A i \in 0 .. n : i = 0 \/ i \in 1 .. n
      BY <1>2
    <3>2. \A i \in 0 .. n : f[i] = IF i = 0 THEN start ELSE Step(f[i - 1], i)
      BY Zenon, <2>2, <2>3, <3>1 DEF IsPath
    <3> QED
      BY Zenon, <2>3, <3>2 DEF IsPath
  <2>5. run = Body(run)
    BY Zenon, <2>4
  <2> HIDE DEF run
  <2>6. \A i \in 0 .. n : run[i] = IF i = 0 THEN start ELSE Step(run[i - 1], i)
    <3>1. \A i \in 0 .. n : Body(run)[i] = IF i = 0 THEN start ELSE Step(run[i - 1], i)
      BY Zenon
    <3> HIDE DEF Body
    <3> QED
      BY Zenon, <2>5, <3>1
  <2>7. run[0] \in C[0] /\ \A i \in 1 .. n : run[i - 1] \in C[i - 1] => run[i] \in C[i]
    BY Zenon, <1>3, <1>4, <2>1, <2>6
  <2> QED
    BY Zenon, <1>2, <2>7, PathEnds
<1>6. n \in 0 .. n
  BY <1>2
<1> HIDE DEF n, run
<1> QED
  BY Zenon, <1>1, <1>5, <1>6

\* The number of pending transactions.
LEMMA PendingOf == ASSUME NEW p \in Pools PROVE Pending(p) \in Nat
<1> DEFINE S == UNION {{a} \X At(p.pending, a) : a \in DOMAIN p.pending}
<1>1. p.pending \in Maps
  BY Zenon DEF Pools
<1>2. S \in SUBSET (Account \X Tx)
  <2> SUFFICES ASSUME NEW a \in DOMAIN p.pending, NEW z \in {a} \X At(p.pending, a) PROVE z \in Account \X Tx
    BY Zenon
  <2>1. a \in Account /\ At(p.pending, a) \in SUBSET Tx
    BY Zenon, <1>1, MapDomain, AtType
  <2> QED
    BY <2>1
<1>3. IsFiniteSet(Account \X Tx)
  BY Zenon, TxAssumption, FS_Product
<1>4. IsFiniteSet(S)
  <2> HIDE DEF S
  <2> QED
    BY Zenon, <1>2, <1>3, FS_Subset
<1> HIDE DEF S
<1>5. Cardinality(S) \in Nat
  BY Zenon, <1>4, FS_CardinalityType
<1> QED
  BY Zenon, <1>5 DEF Pending, S

LEMMA FirstOf ==
    ASSUME NEW s \in Seq(Account), NEW k \in 0 .. Len(s) PROVE First(s, k) \in Seq(Account)
<1>1. k \in Nat /\ \A i \in 1 .. k : s[i] \in Account
  OBVIOUS
<1>2. [i \in 1 .. k |-> s[i]] \in [1 .. k -> Account]
  BY Zenon, <1>1
<1>3. First(s, k) \in [1 .. k -> Account]
  BY Zenon, <1>2 DEF First
<1> HIDE DEF First
<1> QED
  BY <1>1, <1>3

\* The state of the loop that makes the spammers equal.
Fairs(len) == [p : Pools, n : Int, taken : 0 .. len]
LessFair(p, len, x) == x \in Fairs(len) /\ Less(p, x.p)

LEMMA FairOf ==
    ASSUME NEW p, NEW st, LessTrim(p, st), NEW len, NEW k \in 0 .. len
    PROVE  LessFair(p, len, [p |-> st.p, n |-> st.n, taken |-> k])
<1> DEFINE x == [p |-> st.p, n |-> st.n, taken |-> k]
<1>1. st.p \in Pools /\ st.n \in Int /\ Less(p, st.p)
  BY Zenon DEF LessTrim, Trims
<1>2. x \in Fairs(len) /\ x.p = st.p
  BY Zenon, <1>1 DEF Fairs
<1> HIDE DEF x
<1>3. LessFair(p, len, x)
  BY Zenon, <1>1, <1>2 DEF LessFair
<1> QED
  BY Zenon, <1>3 DEF x

LEMMA Equalises ==
    ASSUME live \in Block, NEW p, Good(p), NEW spammers \in Seq(Account)
    PROVE  LessFair(p, Len(spammers), Equalise(p, spammers))
<1> DEFINE n == Len(spammers)
           C == [i \in 0 .. n |-> {x \in Fairs(n) : LessFair(p, n, x)}]
           start == [p |-> p, n |-> Pending(p), taken |-> 0]
           Step(x, i) == LET trimmed == IF i = 1 THEN x
                                         ELSE TrimWhile([p |-> x.p, n |-> x.n], First(spammers, i),
                                                        spammers[i - 1], Size(x.p, spammers[i]))
                         IN  IF x.n <= GLOBAL_SLOTS THEN x
                             ELSE [p |-> trimmed.p, n |-> trimmed.n, taken |-> i]
           Body(f) == [i \in 0 .. n |-> IF i = 0 THEN start ELSE Step(f[i - 1], i)]
           run == CHOOSE f : f = Body(f)
<1>1. Equalise(p, spammers) = run[n]
  BY Zenon DEF Equalise
<1>2. n \in Nat
  OBVIOUS
<1>3. start \in C[0]
  <2>1. 0 \in 0 .. n
    BY <1>2
  <2>2. p \in Pools /\ Less(p, p)
    BY Zenon, LessReflexive DEF Good
  <2>3. Pending(p) \in Int
    BY <2>2, PendingOf
  <2>4. start \in Fairs(n) /\ start.p = p
    BY Zenon, <2>1, <2>2, <2>3 DEF Fairs
  <2> HIDE DEF n, start
  <2> QED
    BY Zenon, <2>1, <2>2, <2>4 DEF LessFair
<1>4. \A i \in 1 .. n : \A x \in C[i - 1] : Step(x, i) \in C[i]
  <2> SUFFICES ASSUME NEW i \in 1 .. n, NEW x \in Fairs(n), LessFair(p, n, x)
               PROVE  LessFair(p, n, Step(x, i))
    <3>1. \A i \in 1 .. n : i - 1 \in 0 .. n /\ i \in 0 .. n
      BY <1>2
    <3>2. \A y : LessFair(p, n, y) => y \in Fairs(n)
      BY Zenon DEF LessFair
    <3> HIDE DEF n, Step
    <3> QED
      BY Zenon, <3>1, <3>2
  <2> DEFINE st == [p |-> x.p, n |-> x.n]
             while == TrimWhile(st, First(spammers, i), spammers[i - 1], Size(x.p, spammers[i]))
             trimmed == IF i = 1 THEN x ELSE while
  <2>1. x.p \in Pools /\ x.n \in Int /\ Less(p, x.p) /\ i \in 0 .. n
    <3>1. i \in 0 .. n
      BY <1>2
    <3> QED
      BY Zenon, <3>1 DEF LessFair, Fairs
  <2>2. LessTrim(p, st)
    BY Zenon, <2>1, TrimOf
  <2>3. LessTrim(p, while)
    <3>1. First(spammers, i) \in Seq(Account)
      BY Zenon, <2>1, FirstOf
    <3> HIDE DEF st
    <3> QED
      BY Zenon, <2>2, <3>1, TrimsWhile
  <2>4. st.p = x.p /\ st.n = x.n
    OBVIOUS
  <2> HIDE DEF st, while, n
  <2>5. LessFair(p, n, [p |-> st.p, n |-> st.n, taken |-> i]) /\ LessFair(p, n, [p |-> while.p, n |-> while.n, taken |-> i])
    BY Zenon, <2>1, <2>2, <2>3, FairOf
  <2>6. LessFair(p, n, [p |-> trimmed.p, n |-> trimmed.n, taken |-> i])
    BY Zenon, <2>4, <2>5
  <2>7. Step(x, i) = IF x.n <= GLOBAL_SLOTS THEN x ELSE [p |-> trimmed.p, n |-> trimmed.n, taken |-> i]
    BY Zenon DEF while, st
  <2> HIDE DEF trimmed, Step
  <2> QED
    BY Zenon, <2>6, <2>7
<1>5. run[n] \in C[n]
  <2> HIDE DEF n, C, start, Step
  <2> DEFINE step == [z \in States(C, n) \X (1 .. n) |-> Step(z[1], z[2])]
  <2>1. 0 \in 0 .. n /\ \A i \in 1 .. n : i \in 0 .. n /\ i - 1 \in 0 .. n /\ i # 0
    BY <1>2
  <2>2. \A i \in 1 .. n : \A x \in C[i - 1] : step[<<x, i>>] = Step(x, i)
    <3>1. \A i \in 1 .. n : C[i - 1] \subseteq States(C, n)
      BY Zenon, <2>1 DEF States
    <3> QED
      BY Zenon, <3>1
  <2>3. PICK f : IsPath(f, C, start, n, step)
    <3> HIDE DEF step
    <3> QED
      BY Zenon, <1>2, <1>3, <1>4, <2>2, Paths
  <2>4. f = Body(f)
    <3> HIDE DEF step
    <3>1. \A i \in 0 .. n : i = 0 \/ i \in 1 .. n
      BY <1>2
    <3>2. \A i \in 0 .. n : f[i] = IF i = 0 THEN start ELSE Step(f[i - 1], i)
      BY Zenon, <2>2, <2>3, <3>1 DEF IsPath
    <3> QED
      BY Zenon, <2>3, <3>2 DEF IsPath
  <2>5. run = Body(run)
    BY Zenon, <2>4
  <2> HIDE DEF run
  <2>6. \A i \in 0 .. n : run[i] = IF i = 0 THEN start ELSE Step(run[i - 1], i)
    <3>1. \A i \in 0 .. n : Body(run)[i] = IF i = 0 THEN start ELSE Step(run[i - 1], i)
      BY Zenon
    <3> HIDE DEF Body
    <3> QED
      BY Zenon, <2>5, <3>1
  <2>7. run[0] \in C[0] /\ \A i \in 1 .. n : run[i - 1] \in C[i - 1] => run[i] \in C[i]
    BY Zenon, <1>3, <1>4, <2>1, <2>6
  <2> QED
    BY Zenon, <1>2, <2>7, PathEnds
<1>6. n \in 0 .. n
  BY <1>2
<1> HIDE DEF n, run
<1> QED
  BY Zenon, <1>1, <1>5, <1>6 DEF n

\* The spammers are accounts.
LEMMA SpammersList ==
    ASSUME NEW p \in Pools, NEW ord, Enumerates(ord, Account)
    PROVE  Spammers(p, ord) \in Seq(Account)
<1> DEFINE size == [a \in Account |-> Size(p, a)]
           index == [a \in Account |-> CHOOSE i \in DOMAIN ord : ord[i] = a]
           pick == [R \in SUBSET Account |-> Some(Least(Greatest(R, size), index))]
           S == {a \in DOMAIN p.pending \ p.locals : Size(p, a) > ACCOUNT_SLOTS}
<1>1. Spammers(p, ord) = Listing(S, pick)
  BY Zenon DEF Spammers
<1>2. S \in SUBSET Account /\ IsFiniteSet(S)
  <2>1. S \in SUBSET Account
    BY Zenon, MapDomain DEF Pools
  <2> HIDE DEF S
  <2> QED
    BY Zenon, <2>1, TxAssumption, FS_Subset
<1>3. \A a \in Account : size[a] \in Nat
  BY Zenon, SizeOf
<1>4. \A a \in Account : index[a] \in Nat
  <2> SUFFICES ASSUME NEW a \in Account PROVE index[a] \in Nat
    OBVIOUS
  <2>1. DOMAIN ord = 1 .. Len(ord) /\ DOMAIN ord \subseteq Nat
    BY DEF Enumerates
  <2>2. \E i \in DOMAIN ord : ord[i] = a
    BY Zenon, <2>1 DEF Enumerates
  <2>3. index[a] \in DOMAIN ord
    BY Zenon, <2>2
  <2> HIDE DEF index
  <2> QED
    BY Zenon, <2>1, <2>3
<1> HIDE DEF size, index, S
<1>5. \A R \in SUBSET S : R # {} => pick[R] \in R
  <2> SUFFICES ASSUME NEW R \in SUBSET S, R # {} PROVE pick[R] \in R
    BY Zenon
  <2> DEFINE T == Greatest(R, size)
             W == Least(T, index)
  <2>1. R \in SUBSET Account /\ IsFiniteSet(R)
    <3>1. R \in SUBSET Account
      BY Zenon, <1>2
    <3> QED
      BY Zenon, <3>1, TxAssumption, FS_Subset
  <2>2. T # {} /\ T \in SUBSET R
    <3>1. \A x \in R : size[x] \in Nat
      BY Zenon, <1>3, <2>1
    <3> QED
      BY Zenon, <2>1, <3>1, GreatestExists
  <2> HIDE DEF T
  <2>3. W # {} /\ W \in SUBSET T
    <3>1. \A x \in T : index[x] \in Nat
      BY Zenon, <1>4, <2>1, <2>2
    <3> QED
      BY Zenon, <2>2, <3>1, LeastExists
  <2> HIDE DEF W
  <2>4. Some(W) \in W
    BY Zenon, <2>3, SomeMember
  <2>5. pick[R] = Some(W)
    BY Zenon, <2>1 DEF W, T
  <2> HIDE DEF pick
  <2> QED
    BY Zenon, <2>2, <2>3, <2>4, <2>5
<1> HIDE DEF pick
<1>6. Listing(S, pick) \in Seq(S)
  BY Zenon, <1>2, <1>5, ListingEnumerates DEF Enumerates
<1>7. Listing(S, pick) \in Seq(Account)
  <2> DEFINE s == Listing(S, pick)
  <2> HIDE DEF s
  <2>1. s \in Seq(Account)
    BY <1>2, <1>6 DEF s
  <2> QED
    BY Zenon, <2>1 DEF s
<1> QED
  BY Zenon, <1>1, <1>7

\* TxPool::truncate_pending leaves a good pool with less in it.
LEMMA TruncatesPending ==
    ASSUME live \in Block, NEW p, Good(p), NEW ord, Enumerates(ord, Account)
    PROVE  Less(p, TruncatePending(p, ord))
<1> DEFINE spammers == Spammers(p, ord)
           fair == Equalise(p, spammers)
           offenders == First(spammers, fair.taken)
           st == [p |-> fair.p, n |-> fair.n]
           res == TrimWhile(st, offenders, offenders[Len(offenders)], ACCOUNT_SLOTS)
<1>1. TruncatePending(p, ord) = IF Pending(p) <= GLOBAL_SLOTS \/ offenders = <<>> THEN p ELSE res.p
  BY Zenon DEF TruncatePending
<1>2. p \in Pools /\ Less(p, p)
  BY Zenon, LessReflexive DEF Good
<1>3. spammers \in Seq(Account)
  BY Zenon, <1>2, SpammersList
<1> HIDE DEF spammers
<1>4. LessFair(p, Len(spammers), fair)
  BY Zenon, <1>3, Equalises
<1> HIDE DEF fair
<1>5. fair.taken \in 0 .. Len(spammers) /\ fair.n \in Int /\ Less(p, fair.p)
  BY Zenon, <1>4 DEF LessFair, Fairs
<1>6. offenders \in Seq(Account) /\ LessTrim(p, st)
  BY Zenon, <1>3, <1>5, FirstOf, TrimOf
<1> HIDE DEF offenders, st
<1>7. LessTrim(p, res)
  BY Zenon, <1>6, TrimsWhile
<1> HIDE DEF res
<1> QED
  BY Zenon, <1>1, <1>2, <1>7 DEF LessTrim


-----------------------------------------------------------------------------
(* truncate_queue *)

\* A call that leaves a good pool with less in it, or panics with one.
LessOrDies(p, res) == res.r \in {"ok", "panic"} /\ Less(p, res.p)

QueueDrops == [p : Pools, r : {"ok", "panic"}, drop : Int]
LessDrop(p, x) == x \in QueueDrops /\ Less(p, x.p)

LEMMA DropsOne ==
    ASSUME live \in Block, NEW p, NEW x, LessDrop(p, x), NEW a
    PROVE  LET list == At(x.p.queue, a)
               res == RemoveAll(x.p, ByNonce(list), TRUE)
           IN  /\ LessDrop(p, [x EXCEPT !.drop = 0]) /\ LessDrop(p, [x EXCEPT !.r = "panic"])
               /\ LessDrop(p, [p |-> res.p, r |-> res.r, drop |-> x.drop - Cardinality(list)])
<1> DEFINE list == At(x.p.queue, a)
           res == RemoveAll(x.p, ByNonce(list), TRUE)
           k == Cardinality(list)
           y == [p |-> res.p, r |-> res.r, drop |-> x.drop - k]
<1>1. x \in QueueDrops /\ Less(p, x.p) /\ Good(x.p) /\ x.p \in Pools /\ x.p.queue \in Maps /\ x.drop \in Int
  BY Zenon DEF LessDrop, Less, Good, Pools, QueueDrops
<1>2. LessDrop(p, [x EXCEPT !.drop = 0]) /\ LessDrop(p, [x EXCEPT !.r = "panic"])
  <2>1. /\ [x EXCEPT !.drop = 0] \in QueueDrops /\ [x EXCEPT !.drop = 0].p = x.p
        /\ [x EXCEPT !.r = "panic"] \in QueueDrops /\ [x EXCEPT !.r = "panic"].p = x.p
    BY <1>1 DEF QueueDrops
  <2> QED
    BY Zenon, <1>1, <2>1 DEF LessDrop
<1>3. list \in SUBSET Tx
  BY Zenon, <1>1, AtType
<1> HIDE DEF list
<1>4. k \in Nat
  BY Zenon, <1>3, SubsetsFinite, FS_CardinalityType
<1>5. LessOk(x.p, res)
  <2>1. ByNonce(list) \in Seq(list)
    BY Zenon, <1>3, ByNonceLists DEF Enumerates
  <2> DEFINE s == ByNonce(list)
  <2> HIDE DEF s
  <2>2. s \in Seq(Tx)
    BY <1>3, <2>1 DEF s
  <2> QED
    BY Zenon, <1>1, <2>2, RemovesAll DEF s
<1> HIDE DEF k, res
<1>6. res.r = "ok" /\ res.p \in Pools /\ Less(p, res.p)
  BY Zenon, <1>1, <1>5, LessTransitive DEF LessOk, Oks
<1>7. x.drop - k \in Int
  BY <1>1, <1>4
<1>8. y \in QueueDrops /\ y.p = res.p
  <2>1. res.r \in {"ok", "panic"}
    BY Zenon, <1>6
  <2> QED
    BY Zenon, <1>6, <1>7, <2>1 DEF QueueDrops
<1> HIDE DEF y
<1>9. LessDrop(p, y)
  BY Zenon, <1>6, <1>8 DEF LessDrop
<1> QED
  BY Zenon, <1>2, <1>9 DEF y, k, res, list

LEMMA DropsQueued ==
    ASSUME live \in Block, NEW p, Good(p), NEW accounts, NEW drop \in Int
    PROVE  LessOrDies(p, DropQueued(p, accounts, drop))
<1> DEFINE Drop(st, a) ==
               LET list == At(st.p.queue, a)
                   res == RemoveAll(st.p, ByNonce(list), TRUE)
               IN  IF st.r # "ok" \/ st.drop = 0 \/ a \notin accounts THEN st
                   ELSE IF a \notin DOMAIN st.p.queue THEN [st EXCEPT !.drop = 0]
                   ELSE IF Cardinality(list) > st.drop THEN [st EXCEPT !.r = "panic"]
                   ELSE [p |-> res.p, r |-> res.r, drop |-> st.drop - Cardinality(list)]
<1> DEFINE n == Len(p.beats)
           C == [i \in 0 .. n |-> {x \in QueueDrops : LessDrop(p, x)}]
           start == [p |-> p, r |-> "ok", drop |-> drop]
           Step(x, i) == Drop(x, p.beats[n + 1 - i])
           Body(f) == [i \in 0 .. n |-> IF i = 0 THEN start ELSE Step(f[i - 1], i)]
           run == CHOOSE f : f = Body(f)
<1>1. DropQueued(p, accounts, drop) = [p |-> run[n].p, r |-> run[n].r]
  BY Zenon DEF DropQueued
<1>2. n \in Nat
  BY DEF Good, Pools
<1>3. start \in C[0]
  <2>1. 0 \in 0 .. n
    BY <1>2
  <2>2. p \in Pools /\ Less(p, p)
    BY Zenon, LessReflexive DEF Good
  <2>3. start \in QueueDrops /\ start.p = p
    BY <2>2 DEF QueueDrops
  <2> HIDE DEF n, start
  <2> QED
    BY Zenon, <2>1, <2>2, <2>3 DEF LessDrop
<1>4. \A i \in 1 .. n : \A x \in C[i - 1] : Step(x, i) \in C[i]
  <2> SUFFICES ASSUME NEW i \in 1 .. n, NEW x \in QueueDrops, LessDrop(p, x)
               PROVE  LessDrop(p, Step(x, i))
    <3>1. \A i \in 1 .. n : i - 1 \in 0 .. n /\ i \in 0 .. n
      BY <1>2
    <3>2. \A y : LessDrop(p, y) => y \in QueueDrops
      BY Zenon DEF LessDrop
    <3> HIDE DEF n, Step
    <3> QED
      BY Zenon, <3>1, <3>2
  <2> DEFINE a == p.beats[n + 1 - i]
  <2> HIDE DEF a
  <2>1. LessDrop(p, Drop(x, a))
    BY Zenon, DropsOne
  <2> QED
    BY Zenon, <2>1 DEF a
<1>5. run[n] \in C[n]
  <2> HIDE DEF n, C, start, Step, Drop
  <2> DEFINE step == [z \in States(C, n) \X (1 .. n) |-> Step(z[1], z[2])]
  <2>1. 0 \in 0 .. n /\ \A i \in 1 .. n : i \in 0 .. n /\ i - 1 \in 0 .. n /\ i # 0
    BY <1>2
  <2>2. \A i \in 1 .. n : \A x \in C[i - 1] : step[<<x, i>>] = Step(x, i)
    <3>1. \A i \in 1 .. n : C[i - 1] \subseteq States(C, n)
      BY Zenon, <2>1 DEF States
    <3> QED
      BY Zenon, <3>1
  <2>3. PICK f : IsPath(f, C, start, n, step)
    <3> HIDE DEF step
    <3> QED
      BY Zenon, <1>2, <1>3, <1>4, <2>2, Paths
  <2>4. f = Body(f)
    <3> HIDE DEF step
    <3>1. \A i \in 0 .. n : i = 0 \/ i \in 1 .. n
      BY <1>2
    <3>2. \A i \in 0 .. n : f[i] = IF i = 0 THEN start ELSE Step(f[i - 1], i)
      BY Zenon, <2>2, <2>3, <3>1 DEF IsPath
    <3> QED
      BY Zenon, <2>3, <3>2 DEF IsPath
  <2>5. run = Body(run)
    BY Zenon, <2>4
  <2> HIDE DEF run
  <2>6. \A i \in 0 .. n : run[i] = IF i = 0 THEN start ELSE Step(run[i - 1], i)
    <3>1. \A i \in 0 .. n : Body(run)[i] = IF i = 0 THEN start ELSE Step(run[i - 1], i)
      BY Zenon
    <3> HIDE DEF Body
    <3> QED
      BY Zenon, <2>5, <3>1
  <2>7. run[0] \in C[0] /\ \A i \in 1 .. n : run[i - 1] \in C[i - 1] => run[i] \in C[i]
    BY Zenon, <1>3, <1>4, <2>1, <2>6
  <2> QED
    BY Zenon, <1>2, <2>7, PathEnds
<1>6. n \in 0 .. n
  BY <1>2
<1> HIDE DEF n, run
<1>7. LessDrop(p, run[n])
  BY Zenon, <1>5, <1>6
<1> DEFINE y == run[n]
<1> HIDE DEF y
<1>8. [p |-> y.p, r |-> y.r].p = y.p /\ [p |-> y.p, r |-> y.r].r = y.r
  OBVIOUS
<1>9. y.r \in {"ok", "panic"} /\ Less(p, y.p)
  BY Zenon, <1>7 DEF LessDrop, QueueDrops, y
<1> QED
  BY Zenon, <1>1, <1>8, <1>9 DEF LessOrDies, y

\* TxPool::truncate_queue leaves a good pool with less in it, though it may panic.
LEMMA TruncatesQueue ==
    ASSUME live \in Block, NEW p, Good(p), NEW ord
    PROVE  LessOrDies(p, TruncateQueue(p, ord))
<1> DEFINE queues == {i \in DOMAIN ord : ord[i] \in DOMAIN p.queue}
           last == {i \in queues : \A j \in queues : j <= i}
           S == UNION {At(p.queue, ord[i]) : i \in last}
           drop == Cardinality(S) - GLOBAL_QUEUE
           remote == DOMAIN p.queue \ p.locals
<1>1. TruncateQueue(p, ord) \in {Ok(p), Die(p), DropQueued(p, remote, drop)}
  BY Zenon DEF TruncateQueue
<1>2. S \in SUBSET Tx
  <2>1. \A a : At(p.queue, a) \in SUBSET Tx
    BY Zenon, AtType DEF Good, Pools
  <2> HIDE DEF last
  <2> QED
    BY Zenon, <2>1
<1> HIDE DEF S
<1>3. Cardinality(S) \in Nat
  BY Zenon, <1>2, SubsetsFinite, FS_CardinalityType
<1>4. drop \in Int
  <2> DEFINE k == Cardinality(S)
  <2> HIDE DEF k
  <2>1. k - GLOBAL_QUEUE \in Int
    BY <1>3, LimitAssumption DEF k
  <2> QED
    BY Zenon, <2>1 DEF k
<1> HIDE DEF drop, remote
<1>5. LessOrDies(p, DropQueued(p, remote, drop))
  BY Zenon, <1>4, DropsQueued
<1>6. Ok(p).p = p /\ Ok(p).r = "ok" /\ Die(p).p = p /\ Die(p).r = "panic"
  BY DEF Ok, Die
<1>7. LessOrDies(p, Ok(p)) /\ LessOrDies(p, Die(p))
  BY Zenon, <1>6, LessReflexive DEF LessOrDies
<1> QED
  BY Zenon, <1>1, <1>5, <1>7

\* Both truncations at the end of repack.
LEMMA Truncates ==
    ASSUME live \in Block, NEW p, Good(p), NEW ord, Enumerates(ord, Account)
    PROVE  LessOrDies(p, Truncate(p, ord))
<1> DEFINE q == TruncatePending(p, ord)
           x == TruncateQueue(q, ord)
           y == [x.p EXCEPT !.changes = 0]
<1>1. Truncate(p, ord) = IF x.r = "ok" THEN Ok(y) ELSE x
  BY Zenon DEF Truncate, Then
<1>2. Less(p, q) /\ Good(q)
  BY Zenon, TruncatesPending DEF Less
<1> HIDE DEF q
<1>3. LessOrDies(q, x)
  BY Zenon, <1>2, TruncatesQueue
<1> HIDE DEF x
<1>4. Less(p, x.p) /\ Good(x.p) /\ x.p \in Pools /\ x.r \in {"ok", "panic"}
  BY Zenon, <1>2, <1>3, LessTransitive DEF LessOrDies, Less, Good
<1>5. Alike(x.p, y)
  BY <1>4 DEF Alike, Pools
<1> HIDE DEF y
<1>6. Less(p, y)
  BY Zenon, <1>4, <1>5, AlikeGood, LessTransitive
<1>7. Ok(y).p = y /\ Ok(y).r = "ok"
  BY DEF Ok
<1>8. LessOrDies(p, Ok(y)) /\ LessOrDies(p, x)
  BY Zenon, <1>4, <1>6, <1>7 DEF LessOrDies
<1> QED
  BY Zenon, <1>1, <1>8

-----------------------------------------------------------------------------
(* reset *)

LEMMA Extends ==
    ASSUME NEW S \in SUBSET Tx, NEW ts \in Seq(Tx) PROVE Extend(S, ts) \in SUBSET Tx
<1> DEFINE n == Len(ts)
           C == [i \in 0 .. n |-> {x \in SUBSET Tx : TRUE}]
           start == S
           Step(x, i) == IF SameNonce(x, ts[i]) = {} THEN x \cup {ts[i]} ELSE x
           Body(f) == [i \in 0 .. n |-> IF i = 0 THEN start ELSE Step(f[i - 1], i)]
           run == CHOOSE f : f = Body(f)
<1>1. Extend(S, ts) = run[n]
  BY Zenon DEF Extend
<1>2. n \in Nat
  OBVIOUS
<1>3. start \in C[0]
  <2>1. 0 \in 0 .. n
    BY <1>2
  <2> HIDE DEF n
  <2> QED
    BY Zenon, <2>1
<1>4. \A i \in 1 .. n : \A x \in C[i - 1] : Step(x, i) \in C[i]
  <2> SUFFICES ASSUME NEW i \in 1 .. n, NEW x \in SUBSET Tx PROVE Step(x, i) \in SUBSET Tx
    <3>1. \A i \in 1 .. n : i - 1 \in 0 .. n /\ i \in 0 .. n
      BY <1>2
    <3> HIDE DEF n, Step
    <3> QED
      BY Zenon, <3>1
  <2>1. ts[i] \in Tx
    OBVIOUS
  <2> QED
    BY Zenon, <2>1
<1>5. run[n] \in C[n]
  <2> HIDE DEF n, C, start, Step
  <2> DEFINE step == [z \in States(C, n) \X (1 .. n) |-> Step(z[1], z[2])]
  <2>1. 0 \in 0 .. n /\ \A i \in 1 .. n : i \in 0 .. n /\ i - 1 \in 0 .. n /\ i # 0
    BY <1>2
  <2>2. \A i \in 1 .. n : \A x \in C[i - 1] : step[<<x, i>>] = Step(x, i)
    <3>1. \A i \in 1 .. n : C[i - 1] \subseteq States(C, n)
      BY Zenon, <2>1 DEF States
    <3> QED
      BY Zenon, <3>1
  <2>3. PICK f : IsPath(f, C, start, n, step)
    <3> HIDE DEF step
    <3> QED
      BY Zenon, <1>2, <1>3, <1>4, <2>2, Paths
  <2>4. f = Body(f)
    <3> HIDE DEF step
    <3>1. \A i \in 0 .. n : i = 0 \/ i \in 1 .. n
      BY <1>2
    <3>2. \A i \in 0 .. n : f[i] = IF i = 0 THEN start ELSE Step(f[i - 1], i)
      BY Zenon, <2>2, <2>3, <3>1 DEF IsPath
    <3> QED
      BY Zenon, <2>3, <3>2 DEF IsPath
  <2>5. run = Body(run)
    BY Zenon, <2>4
  <2> HIDE DEF run
  <2>6. \A i \in 0 .. n : run[i] = IF i = 0 THEN start ELSE Step(run[i - 1], i)
    <3>1. \A i \in 0 .. n : Body(run)[i] = IF i = 0 THEN start ELSE Step(run[i - 1], i)
      BY Zenon
    <3> HIDE DEF Body
    <3> QED
      BY Zenon, <2>5, <3>1
  <2>7. run[0] \in C[0] /\ \A i \in 1 .. n : run[i - 1] \in C[i - 1] => run[i] \in C[i]
    BY Zenon, <1>3, <1>4, <2>1, <2>6
  <2> QED
    BY Zenon, <1>2, <2>7, PathEnds
<1>6. n \in 0 .. n
  BY <1>2
<1> HIDE DEF n, run
<1> QED
  BY Zenon, <1>1, <1>5, <1>6

\* The two blocks of the walk are stored: the higher one is not the genesis.
Walks == [rem : Block, add : Block, discarded : SUBSET Tx, included : SUBSET Tx]

LEMMA WalksOne == ASSUME NEW w \in Walks PROVE WalkStep(w) \in Walks
<1> DEFINE back == Level[w.rem] >= Level[w.add]
           forth == Level[w.add] >= Level[w.rem]
           r == IF back THEN Parent[w.rem] ELSE w.rem
           s == IF forth THEN Parent[w.add] ELSE w.add
           D == IF back THEN Extend(w.discarded, BlockTxs[w.rem]) ELSE w.discarded
           I == IF forth THEN Extend(w.included, BlockTxs[w.add]) ELSE w.included
<1>1. WalkStep(w) = IF w.rem = w.add THEN w ELSE [rem |-> r, add |-> s, discarded |-> D, included |-> I]
  BY Zenon DEF WalkStep
<1>2. w.rem \in Block /\ w.add \in Block /\ w.discarded \in SUBSET Tx /\ w.included \in SUBSET Tx
  BY Zenon DEF Walks
<1>3. ASSUME w.rem # w.add PROVE r \in Block /\ s \in Block
  <2> DEFINE a == w.rem
             b == w.add
  <2> HIDE DEF a, b
  <2>1. a \in Block /\ b \in Block /\ a # b
    BY Zenon, <1>2, <1>3 DEF a, b
  <2>2. Level[a] \in Nat /\ Level[b] \in Nat /\ Parent[a] \in Block \cup {NoBlock} /\ Parent[b] \in Block \cup {NoBlock}
    BY <2>1, TxChainAssumption
  <2>3. \A c, d \in Block : Parent[c] = NoBlock /\ Level[d] <= Level[c] => c = d
    BY Zenon, TxChainAssumption
  <2>4. Level[a] >= Level[b] => Parent[a] \in Block
    BY <2>1, <2>2, <2>3
  <2>5. Level[b] >= Level[a] => Parent[b] \in Block
    BY <2>1, <2>2, <2>3
  <2> QED
    BY Zenon, <2>1, <2>4, <2>5 DEF a, b
<1>4. D \in SUBSET Tx /\ I \in SUBSET Tx
  <2>1. BlockTxs[w.rem] \in Seq(Tx) /\ BlockTxs[w.add] \in Seq(Tx)
    BY Zenon, <1>2, TxChainAssumption
  <2>2. Extend(w.discarded, BlockTxs[w.rem]) \in SUBSET Tx /\ Extend(w.included, BlockTxs[w.add]) \in SUBSET Tx
    BY Zenon, <1>2, <2>1, Extends
  <2> QED
    BY Zenon, <1>2, <2>2
<1> HIDE DEF r, s, D, I
<1>5. ASSUME w.rem # w.add PROVE [rem |-> r, add |-> s, discarded |-> D, included |-> I] \in Walks
  BY Zenon, <1>3, <1>4, <1>5 DEF Walks
<1> QED
  BY Zenon, <1>1, <1>5

LEMMA WalksOn ==
    ASSUME NEW old \in Block, NEW new \in Block PROVE Walk(old, new) \in SUBSET Tx
<1> DEFINE n == Level[old] + Level[new]
           C == [i \in 0 .. n |-> {x \in Walks : TRUE}]
           start == [rem |-> old, add |-> new, discarded |-> {}, included |-> {}]
           Step(x, i) == WalkStep(x)
           Body(f) == [i \in 0 .. n |-> IF i = 0 THEN start ELSE Step(f[i - 1], i)]
           run == CHOOSE f : f = Body(f)
<1>1. Walk(old, new) = {t \in run[n].discarded : SameNonce(run[n].included, t) # {}}
  BY Zenon DEF Walk
<1>2. n \in Nat
  <2>1. Level[old] \in Nat /\ Level[new] \in Nat
    BY TxChainAssumption
  <2> QED
    BY <2>1
<1>3. start \in C[0]
  <2>1. 0 \in 0 .. n
    BY <1>2
  <2>2. start \in Walks
    BY Zenon DEF Walks
  <2> HIDE DEF n, start
  <2> QED
    BY Zenon, <2>1, <2>2
<1>4. \A i \in 1 .. n : \A x \in C[i - 1] : Step(x, i) \in C[i]
  <2>1. \A i \in 1 .. n : i - 1 \in 0 .. n /\ i \in 0 .. n
    BY <1>2
  <2> HIDE DEF n
  <2> QED
    BY Zenon, <2>1, WalksOne
<1>5. run[n] \in C[n]
  <2> HIDE DEF n, C, start, Step
  <2> DEFINE step == [z \in States(C, n) \X (1 .. n) |-> Step(z[1], z[2])]
  <2>1. 0 \in 0 .. n /\ \A i \in 1 .. n : i \in 0 .. n /\ i - 1 \in 0 .. n /\ i # 0
    BY <1>2
  <2>2. \A i \in 1 .. n : \A x \in C[i - 1] : step[<<x, i>>] = Step(x, i)
    <3>1. \A i \in 1 .. n : C[i - 1] \subseteq States(C, n)
      BY Zenon, <2>1 DEF States
    <3> QED
      BY Zenon, <3>1
  <2>3. PICK f : IsPath(f, C, start, n, step)
    <3> HIDE DEF step
    <3> QED
      BY Zenon, <1>2, <1>3, <1>4, <2>2, Paths
  <2>4. f = Body(f)
    <3> HIDE DEF step
    <3>1. \A i \in 0 .. n : i = 0 \/ i \in 1 .. n
      BY <1>2
    <3>2. \A i \in 0 .. n : f[i] = IF i = 0 THEN start ELSE Step(f[i - 1], i)
      BY Zenon, <2>2, <2>3, <3>1 DEF IsPath
    <3> QED
      BY Zenon, <2>3, <3>2 DEF IsPath
  <2>5. run = Body(run)
    BY Zenon, <2>4
  <2> HIDE DEF run
  <2>6. \A i \in 0 .. n : run[i] = IF i = 0 THEN start ELSE Step(run[i - 1], i)
    <3>1. \A i \in 0 .. n : Body(run)[i] = IF i = 0 THEN start ELSE Step(run[i - 1], i)
      BY Zenon
    <3> HIDE DEF Body
    <3> QED
      BY Zenon, <2>5, <3>1
  <2>7. run[0] \in C[0] /\ \A i \in 1 .. n : run[i - 1] \in C[i - 1] => run[i] \in C[i]
    BY Zenon, <1>3, <1>4, <2>1, <2>6
  <2> QED
    BY Zenon, <1>2, <2>7, PathEnds
<1>6. n \in 0 .. n
  BY <1>2
<1> HIDE DEF n, run
<1>7. run[n].discarded \in SUBSET Tx
  BY Zenon, <1>5, <1>6 DEF Walks
<1> QED
  BY Zenon, <1>1, <1>7

\* TxPool::reset keeps the pool good and moves it to the new head.
LEMMA Resets ==
    ASSUME live \in Block, NEW p, Good(p), NEW old \in Block, NEW new \in Block
    PROVE  /\ Reset(p, old, new).r \in {"ok", "panic"}
           /\ Good(Reset(p, old, new).p) /\ Reset(p, old, new).p.state = new
<1> DEFINE q == [p EXCEPT !.state = new, !.nonces = NoMap]
           S == Reinject(old, new)
           x == AddTxsLocked(q, HighestFirst(S), FALSE)
<1>1. Reset(p, old, new) = x
  BY Zenon DEF Reset
<1>2. S \in SUBSET Tx
  BY Zenon, WalksOn DEF Reinject
<1>3. HighestFirst(S) \in Seq(Tx)
  <2> HIDE DEF S
  <2>1. HighestFirst(S) \in Seq(S)
    BY Zenon, <1>2, HighestFirstLists DEF Enumerates
  <2> DEFINE s == HighestFirst(S)
  <2> HIDE DEF s
  <2>2. s \in Seq(Tx)
    BY <1>2, <2>1 DEF s
  <2> QED
    BY Zenon, <2>2 DEF s
<1>4. NoMap \in NonceMaps
  <2>1. NoMap \in [{} -> Nat]
    BY Zenon DEF NoMap
  <2>2. {} \in SUBSET Account
    BY Zenon
  <2> QED
    BY Zenon, <2>1, <2>2 DEF NonceMaps
<1>5. p \in Pools
  BY Zenon DEF Good
<1>6. /\ q \in Pools /\ q.state = new /\ q.pending = p.pending /\ q.queue = p.queue /\ q.beats = p.beats
      /\ q.local = p.local /\ q.remote = p.remote /\ q.slots = p.slots
  BY Zenon, <1>4, <1>5 DEF Pools
<1> HIDE DEF q
<1>7. Good(q)
  <2>1. Known(q) = Known(p) /\ Counted(q)
    BY Zenon, <1>6, SameLookup DEF Good
  <2>2. Held(q) = Held(p)
    BY Zenon, <1>6 DEF Held
  <2> QED
    BY Zenon, <1>6, <2>1, <2>2 DEF Good, ListsApart, Beating, Covered
<1>8. KeptBatch(q, x)
  <2> DEFINE s == HighestFirst(S)
  <2> HIDE DEF s
  <2>1. KeptBatch(q, AddTxsLocked(q, s, FALSE))
    BY Zenon, <1>3, <1>7, AddsAll DEF s
  <2> QED
    BY Zenon, <2>1 DEF s
<1> HIDE DEF x
<1> QED
  BY Zenon, <1>1, <1>6, <1>8 DEF KeptBatch, Kept, Batches

-----------------------------------------------------------------------------
(* repack and add_txs *)

\* A repack after a reset ends well or with a panic, with a good pool; when it
\* ends well, nothing in it is mined.
LEMMA RepacksReset ==
    ASSUME live \in Block, NEW p, Good(p), NEW old \in Block, NEW new \in Block, NEW ord \in Orders
    PROVE  LET res == RepackReset(p, old, new, ord)
           IN  Good(res.p) /\ (res.r # "panic" => Unmined(res.p))
<1> DEFINE u == Reset(p, old, new)
           v == PromoteExecutable(u.p, DOMAIN u.p.queue, ord)
           w == DemoteUnexecutable(v.p, ord)
           y == SetNonces(w.p)
           z == Truncate(y, ord)
           Fine(res) == Good(res.p) /\ (res.r # "panic" => Unmined(res.p))
<1>1. RepackReset(p, old, new, ord) =
        IF u.r = "ok" THEN IF v.r = "ok" THEN IF w.r = "ok" THEN z ELSE w ELSE v ELSE u
  BY Zenon DEF RepackReset, Then
<1>2. Enumerates(ord, Account)
  BY Zenon, OrdersList
<1>3. u.r \in {"ok", "panic"} /\ Good(u.p)
  BY Zenon, Resets
<1> HIDE DEF u
<1>4. Freshens(u.p, v, DOMAIN u.p.queue, ord)
  BY Zenon, <1>2, <1>3, PromotesExecutable DEF Enumerates
<1> HIDE DEF v
<1>5. v.r = "ok" /\ Good(v.p)
  BY Zenon, <1>4 DEF Freshens, LessOk, Less, Oks
<1>6. \A a \in Account : FreshAt(v.p, a)
  <2> SUFFICES ASSUME NEW a \in Account PROVE FreshAt(v.p, a)
    OBVIOUS
  <2>1. CASE a \in DOMAIN u.p.queue
    <3>1. PICK j \in 1 .. Len(ord) : ord[j] = a
      BY Zenon, <1>2 DEF Enumerates
    <3> QED
      BY Zenon, <1>4, <2>1, <3>1 DEF Freshens
  <2>2. CASE a \notin DOMAIN u.p.queue
    <3>1. At(u.p.queue, a) = {}
      BY Zenon, <2>2, AtOf
    <3>2. At(v.p.queue, a) = {}
      BY Zenon, <1>4, <3>1 DEF Freshens, QueuesLess
    <3> QED
      BY Zenon, <3>2 DEF FreshAt
  <2> QED
    BY Zenon, <2>1, <2>2
<1>7. LessOk(v.p, w) /\ Unmined(w.p)
  BY Zenon, <1>2, <1>5, <1>6, Demotes
<1> HIDE DEF w
<1>8. w.r = "ok" /\ Good(w.p)
  BY Zenon, <1>7 DEF LessOk, Less, Oks
<1>9. Less(w.p, y) /\ Good(y)
  BY Zenon, <1>8, SetsNonces, AlikeGood DEF Less
<1> HIDE DEF y
<1>10. LessOrDies(y, z)
  BY Zenon, <1>2, <1>9, Truncates
<1> HIDE DEF z
<1>11. Less(w.p, z.p)
  BY Zenon, <1>9, <1>10, LessTransitive DEF LessOrDies
<1>12. Fine(z)
  BY Zenon, <1>7, <1>11, LessUnmined DEF Less
<1>13. u.r # "ok" => Fine(u)
  <2>1. u.r # "ok" => u.r = "panic"
    BY Zenon, <1>3
  <2> QED
    BY Zenon, <1>3, <2>1
<1>14. Fine(RepackReset(p, old, new, ord))
  <2> HIDE DEF Fine
  <2> QED
    BY Zenon, <1>1, <1>5, <1>8, <1>12, <1>13
<1> QED
  BY Zenon, <1>14

\* The transactions of a batch that are not known yet.
LEMMA NewsOf ==
    ASSUME NEW p, NEW ts \in Seq(Tx) PROVE News(p, ts) \in Seq(Tx)
<1> DEFINE n == Len(ts)
           C == [i \in 0 .. n |-> {x \in Seq(Tx) : TRUE}]
           start == <<>>
           Step(x, i) == IF ts[i] \in Known(p) THEN x ELSE Append(x, ts[i])
           Body(f) == [i \in 0 .. n |-> IF i = 0 THEN start ELSE Step(f[i - 1], i)]
           run == CHOOSE f : f = Body(f)
<1>1. News(p, ts) = run[n]
  BY Zenon DEF News
<1>2. n \in Nat
  OBVIOUS
<1>3. start \in C[0]
  <2>1. 0 \in 0 .. n
    BY <1>2
  <2>2. start \in Seq(Tx)
    OBVIOUS
  <2> HIDE DEF n, start
  <2> QED
    BY Zenon, <2>1, <2>2
<1>4. \A i \in 1 .. n : \A x \in C[i - 1] : Step(x, i) \in C[i]
  <2> SUFFICES ASSUME NEW i \in 1 .. n, NEW x \in Seq(Tx) PROVE Step(x, i) \in Seq(Tx)
    <3>1. \A i \in 1 .. n : i - 1 \in 0 .. n /\ i \in 0 .. n
      BY <1>2
    <3> HIDE DEF n, Step
    <3> QED
      BY Zenon, <3>1
  <2>1. Append(x, ts[i]) \in Seq(Tx)
    OBVIOUS
  <2> QED
    BY Zenon, <2>1
<1>5. run[n] \in C[n]
  <2> HIDE DEF n, C, start, Step
  <2> DEFINE step == [z \in States(C, n) \X (1 .. n) |-> Step(z[1], z[2])]
  <2>1. 0 \in 0 .. n /\ \A i \in 1 .. n : i \in 0 .. n /\ i - 1 \in 0 .. n /\ i # 0
    BY <1>2
  <2>2. \A i \in 1 .. n : \A x \in C[i - 1] : step[<<x, i>>] = Step(x, i)
    <3>1. \A i \in 1 .. n : C[i - 1] \subseteq States(C, n)
      BY Zenon, <2>1 DEF States
    <3> QED
      BY Zenon, <3>1
  <2>3. PICK f : IsPath(f, C, start, n, step)
    <3> HIDE DEF step
    <3> QED
      BY Zenon, <1>2, <1>3, <1>4, <2>2, Paths
  <2>4. f = Body(f)
    <3> HIDE DEF step
    <3>1. \A i \in 0 .. n : i = 0 \/ i \in 1 .. n
      BY <1>2
    <3>2. \A i \in 0 .. n : f[i] = IF i = 0 THEN start ELSE Step(f[i - 1], i)
      BY Zenon, <2>2, <2>3, <3>1 DEF IsPath
    <3> QED
      BY Zenon, <2>3, <3>2 DEF IsPath
  <2>5. run = Body(run)
    BY Zenon, <2>4
  <2> HIDE DEF run
  <2>6. \A i \in 0 .. n : run[i] = IF i = 0 THEN start ELSE Step(run[i - 1], i)
    <3>1. \A i \in 0 .. n : Body(run)[i] = IF i = 0 THEN start ELSE Step(run[i - 1], i)
      BY Zenon
    <3> HIDE DEF Body
    <3> QED
      BY Zenon, <2>5, <3>1
  <2>7. run[0] \in C[0] /\ \A i \in 1 .. n : run[i - 1] \in C[i - 1] => run[i] \in C[i]
    BY Zenon, <1>3, <1>4, <2>1, <2>6
  <2> QED
    BY Zenon, <1>2, <2>7, PathEnds
<1>6. n \in 0 .. n
  BY <1>2
<1> HIDE DEF n, run
<1> QED
  BY Zenon, <1>1, <1>5, <1>6

\* TxPool::add_txs: whatever the results of the single transactions, the pool
\* stays good, and free of mined transactions if it was.
LEMMA AddsTxs ==
    ASSUME live \in Block, NEW p, Good(p), NEW ts \in Seq(Tx), NEW local \in BOOLEAN, NEW ord \in Orders
    PROVE  Kept(p, AddTxs(p, ts, local, ord).p)
<1> DEFINE news == News(p, ts)
           x == AddTxsLocked(p, news, local)
           v == PromoteExecutable(x.p, x.dirty, ord)
           w == Truncate(v.p, ord)
           y == IF v.r = "ok" THEN w ELSE v
           fine == Len(news) = Len(ts) /\ x.errors = 0
           res == IF x.r = "ok" THEN IF y.r = "ok" THEN IF fine THEN Ok(y.p) ELSE Fail(y.p) ELSE y ELSE x
<1>1. AddTxs(p, ts, local, ord) = IF news = <<>> THEN Fail(p) ELSE res
  BY Zenon DEF AddTxs, RepackAdded, RepackDirty, Then
<1>2. Enumerates(ord, Account)
  BY Zenon, OrdersList
<1>3. news \in Seq(Tx)
  BY Zenon, NewsOf
<1> HIDE DEF news
<1>4. KeptBatch(p, x)
  BY Zenon, <1>3, AddsAll
<1> HIDE DEF x
<1>5. Kept(p, x.p) /\ Good(x.p)
  BY Zenon, <1>4 DEF KeptBatch, Kept
<1>6. Freshens(x.p, v, x.dirty, ord)
  BY Zenon, <1>2, <1>5, PromotesExecutable DEF Enumerates
<1> HIDE DEF v
<1>7. v.r = "ok" /\ Less(x.p, v.p) /\ Good(v.p)
  BY Zenon, <1>6 DEF Freshens, LessOk, Less, Oks
<1>8. LessOrDies(v.p, w)
  BY Zenon, <1>2, <1>7, Truncates
<1> HIDE DEF w
<1>9. Kept(p, y.p)
  <2>1. y = w
    BY Zenon, <1>7
  <2>2. Less(x.p, w.p)
    BY Zenon, <1>7, <1>8, LessTransitive DEF LessOrDies
  <2> HIDE DEF y
  <2> QED
    BY Zenon, <1>5, <2>1, <2>2, LessKept, KeptTwice
<1> HIDE DEF y, fine
<1>10. Ok(y.p).p = y.p /\ Fail(y.p).p = y.p /\ Fail(p).p = p
  BY DEF Ok, Fail
<1>11. Kept(p, p)
  BY Zenon DEF Kept
<1>12. Kept(p, res.p)
  BY Zenon, <1>5, <1>9, <1>10
<1> HIDE DEF res
<1> QED
  BY Zenon, <1>1, <1>10, <1>11, <1>12


-----------------------------------------------------------------------------
(* The invariant *)

\* The pool is good whatever happened to it, a panic included, and holds nothing
\* mined unless a panic broke off the repack that follows a head.
IInv ==
    /\ Good(pool) /\ (~poisoned => Unmined(pool))
    /\ poisoned \in BOOLEAN
    /\ live \in Block /\ base \in Block /\ due \in Block \cup {NoBlock}

LEMMA NewPoolGood == Good(NewPool) /\ Unmined(NewPool)
<1> DEFINE p == NewPool
<1>1. /\ p.pending = NoMap /\ p.queue = NoMap /\ p.nonces = NoMap /\ p.local = {} /\ p.remote = {}
      /\ p.slots = 0 /\ p.beats = <<>> /\ p.state = NoBlock
  BY DEF NewPool
<1>2. NoMap \in Maps /\ NoMap \in NonceMaps /\ DOMAIN NoMap = {}
  <2>1. NoMap \in [{} -> SUBSET Tx] /\ NoMap \in [{} -> Nat] /\ DOMAIN NoMap = {}
    BY Zenon DEF NoMap
  <2>2. {} \in SUBSET Account
    BY Zenon
  <2> QED
    BY Zenon, <2>1, <2>2 DEF Maps, NonceMaps
<1>3. p \in Pools
  BY <1>2 DEF NewPool, Pools
<1> HIDE DEF p
<1>4. \A a : At(NoMap, a) = {}
  BY Zenon, <1>2 DEF At
<1>5. \A a : OneAccount(a, {}, {})
  BY Zenon DEF OneAccount
<1>6. ListsApart(p)
  BY Zenon, <1>1, <1>4, <1>5 DEF ListsApart
<1>7. Known(p) = {} /\ Counted(p)
  <2>1. Known(p) = {}
    BY Zenon, <1>1 DEF Known
  <2>2. Cardinality({}) = 0
    BY Zenon, FS_EmptySet
  <2> QED
    BY Zenon, <1>1, <2>1, <2>2 DEF Counted
<1>8. Beating(p)
  <2>1. IsInjective(<<>>)
    BY DEF IsInjective
  <2> QED
    BY Zenon, <1>1, <1>2, <2>1 DEF Beating
<1>9. Covered(p)
  BY Zenon, <1>7 DEF Covered
<1>10. Unmined(p)
  BY Zenon, <1>1 DEF Unmined
<1> QED
  BY Zenon, <1>3, <1>6, <1>7, <1>8, <1>9, <1>10 DEF Good, p

LEMMA IInvInit == Init => IInv
<1> SUFFICES ASSUME Init PROVE IInv
  OBVIOUS
<1>1. pool = NewPool /\ poisoned = FALSE /\ live = Start /\ base = Start /\ due = NoBlock
  BY Zenon DEF Init
<1>2. Start \in Block
  BY Zenon, TxChainAssumption
<1> QED
  BY Zenon, <1>1, <1>2, NewPoolGood DEF IInv

\* send_transaction: an error of add_txs leaves what was done before it.
LEMMA IInvSend == ASSUME IInv, NEW t \in Sent, SendTransaction(t) PROVE IInv'
<1>1. t \in Tx /\ <<t>> \in Seq(Tx)
  BY TxAssumption
<1>2. PICK ord \in Orders : LET res == AddTxs(pool, <<t>>, TRUE, ord)
                            IN  pool' = res.p /\ poisoned' = (res.r = "panic")
  BY Zenon DEF SendTransaction
<1> DEFINE ts == <<t>>
<1> HIDE DEF ts
<1>3. Kept(pool, AddTxs(pool, ts, TRUE, ord).p)
  BY Zenon, <1>1, AddsTxs DEF IInv, ts
<1>4. Good(pool') /\ Unmined(pool')
  BY Zenon, <1>2, <1>3 DEF Kept, IInv, SendTransaction, ts
<1>5. poisoned' \in BOOLEAN
  BY Zenon, <1>2
<1>6. live' = live /\ base' = base /\ due' = due
  BY Zenon DEF SendTransaction
<1> QED
  BY Zenon, <1>4, <1>5, <1>6 DEF IInv

\* The node starts again with an empty pool.
LEMMA IInvRestart == ASSUME IInv, Restart PROVE IInv'
<1>1. pool' = NewPool /\ poisoned' = FALSE /\ base' = live /\ due' = NoBlock /\ live' = live
  BY Zenon DEF Restart
<1> QED
  BY Zenon, <1>1, NewPoolGood DEF IInv

LEMMA IInvBroadcast == ASSUME IInv, NEW ts \in Received, BroadcastTransaction(ts) PROVE IInv'
<1>1. ts \in Seq(Tx)
  BY Zenon, TxAssumption
<1>2. PICK ord \in Orders : LET res == AddTxs(pool, ts, FALSE, ord)
                            IN  \/ pool' = res.p /\ UNCHANGED <<poisoned, live, base, due>>
                                \/ Restart
  BY Zenon DEF BroadcastTransaction
<1>3. ASSUME pool' = AddTxs(pool, ts, FALSE, ord).p, UNCHANGED <<poisoned, live, base, due>> PROVE IInv'
  <2>1. Kept(pool, AddTxs(pool, ts, FALSE, ord).p)
    BY Zenon, <1>1, AddsTxs DEF IInv
  <2>2. poisoned' = poisoned /\ live' = live /\ base' = base /\ due' = due
    BY Zenon, <1>3
  <2>3. Good(pool') /\ (~poisoned' => Unmined(pool'))
    BY Zenon, <1>3, <2>1 DEF Kept, IInv, BroadcastTransaction
  <2> QED
    BY Zenon, <2>2, <2>3 DEF IInv
<1> QED
  BY Zenon, <1>2, <1>3, IInvRestart

LEMMA IInvNonce == ASSUME IInv, NEW a \in Account, GetNonce(a) PROVE IInv'
<1> DEFINE m == NonceGet(pool, a)
           n == AccountNonce(pool, a)
           k == IF m < n THEN n ELSE m
<1>1. pool \in Pools
  BY Zenon DEF IInv, Good
<1>2. m \in Nat /\ n \in Nat
  BY Zenon, <1>1, NonceGets DEF IInv
<1>3. pool' = NonceSet(pool, a, k) /\ poisoned' = poisoned /\ live' = live /\ base' = base /\ due' = due
  BY Zenon DEF GetNonce
<1> HIDE DEF m, n
<1>4. k \in Nat
  BY Zenon, <1>2
<1> HIDE DEF k
<1>5. Less(pool, pool')
  BY Zenon, <1>1, <1>3, <1>4, NonceSets, AlikeGood DEF IInv
<1>6. Good(pool') /\ (~poisoned' => Unmined(pool'))
  BY Zenon, <1>3, <1>5, LessUnmined DEF IInv, Less
<1> QED
  BY Zenon, <1>3, <1>6 DEF IInv

\* put_chain moves the head; the pool follows in the repack.
LEMMA IInvChain == ASSUME IInv, NEW b \in Block, Rollback(b) \/ AcceptBlock(b) PROVE IInv'
<1>1. pool' = pool /\ poisoned' = poisoned
  BY Zenon DEF Rollback, AcceptBlock
<1>2. live' \in Block /\ base' \in Block /\ due' \in Block \cup {NoBlock}
  <2>1. CASE Rollback(b)
    BY Zenon, <2>1 DEF Rollback, IInv
  <2>2. CASE AcceptBlock(b)
    <3>1. base' \in {base, live} /\ live' = b /\ due' = b
      BY Zenon, <2>2 DEF AcceptBlock
    <3> QED
      BY Zenon, <3>1 DEF IInv
  <2> QED
    BY Zenon, <2>1, <2>2
<1> QED
  BY Zenon, <1>1, <1>2 DEF IInv

LEMMA IInvRepack == ASSUME IInv, Repack PROVE IInv'
<1>1. due # NoBlock /\ due' = NoBlock /\ live' = live /\ base' = base
  BY Zenon DEF Repack
<1>2. due \in Block
  BY <1>1 DEF IInv
<1>3. CASE poisoned
  <2>1. pool' = pool /\ poisoned' = poisoned
    BY Zenon, <1>3 DEF Repack
  <2> QED
    BY Zenon, <1>1, <2>1 DEF IInv
<1>4. CASE ~poisoned
  <2>1. PICK ord \in Orders : LET res == RepackReset(pool, base, due, ord)
                              IN  pool' = res.p /\ poisoned' = (res.r = "panic")
    BY Zenon, <1>4 DEF Repack
  <2> DEFINE res == RepackReset(pool, base, due, ord)
  <2>2. Good(res.p) /\ (res.r # "panic" => Unmined(res.p))
    BY Zenon, <1>2, RepacksReset DEF IInv
  <2>3. pool' = res.p /\ poisoned' = (res.r = "panic")
    BY Zenon, <2>1
  <2> HIDE DEF res
  <2>4. Good(pool') /\ (~poisoned' => Unmined(pool')) /\ poisoned' \in BOOLEAN
    BY Zenon, <2>2, <2>3
  <2> QED
    BY Zenon, <1>1, <2>4 DEF IInv
<1> QED
  BY Zenon, <1>3, <1>4

LEMMA IInvNext == IInv /\ [Next]_vars => IInv'
<1> SUFFICES ASSUME IInv, [Next]_vars PROVE IInv'
  OBVIOUS
<1>1. CASE UNCHANGED vars
  <2>1. pool' = pool /\ poisoned' = poisoned /\ live' = live /\ base' = base /\ due' = due
    BY Zenon, <1>1 DEF vars
  <2> QED
    BY Zenon, <2>1 DEF IInv
<1>2. CASE Next
  BY Zenon, <1>2, IInvSend, IInvBroadcast, IInvNonce, IInvChain, IInvRepack, IInvRestart DEF Next
<1> QED
  BY Zenon, <1>1, <1>2

LEMMA IInvAlways == Spec => []IInv
BY IInvInit, IInvNext, PTL DEF Spec

\* The lists of a pool as the properties speak of them.
LEMMA ListedHeld == ASSUME NEW p, Good(p) PROVE Listed(p) = Held(p)
<1>1. p.pending \in Maps /\ p.queue \in Maps
  BY Zenon DEF Good, Pools
<1>2. ASSUME NEW t \in Listed(p) PROVE t \in Held(p)
  <2>1. PICK a : (a \in DOMAIN p.pending /\ t \in p.pending[a]) \/ (a \in DOMAIN p.queue /\ t \in p.queue[a])
    BY Zenon, <1>2 DEF Listed
  <2>2. t \in At(p.pending, a) \cup At(p.queue, a)
    BY Zenon, <2>1 DEF At
  <2>3. a \in Account
    BY Zenon, <1>1, <2>1, MapDomain
  <2>4. t \in Tx /\ From[t] = a
    BY Zenon, <2>2, <2>3, AccountLists DEF OneAccount
  <2> QED
    BY Zenon, <2>2, <2>4 DEF Held
<1>3. ASSUME NEW t \in Held(p) PROVE t \in Listed(p)
  <2> DEFINE a == From[t]
  <2>1. t \in At(p.pending, a) \/ t \in At(p.queue, a)
    BY Zenon, <1>3 DEF Held
  <2>2. (a \in DOMAIN p.pending /\ t \in p.pending[a]) \/ (a \in DOMAIN p.queue /\ t \in p.queue[a])
    BY Zenon, <2>1 DEF At
  <2> QED
    BY Zenon, <2>2 DEF Listed
<1> QED
  BY Zenon, <1>2, <1>3

-----------------------------------------------------------------------------
(* The theorems *)

\* Types: every list holds transactions of its own account, no nonce twice, and
\* the slot counter never goes below zero.
THEOREM TxPoolTypeOK == Spec => []TypeOK
<1>1. IInv => TypeOK
  <2> SUFFICES ASSUME IInv PROVE TypeOK
    OBVIOUS
  <2>1. Good(pool) /\ pool \in Pools /\ Counted(pool)
    BY Zenon DEF IInv, Good
  <2>2. /\ pool.pending \in Maps /\ pool.queue \in Maps /\ pool.nonces \in NonceMaps
        /\ pool.local \subseteq Tx /\ pool.remote \subseteq Tx /\ pool.priced \subseteq Tx
        /\ pool.changes \in Nat /\ pool.locals \subseteq Account /\ pool.beats \in Seq(Account)
        /\ pool.state \in Block \cup {NoBlock}
    BY Zenon, <2>1 DEF Pools
  <2>3. pool.slots \in Nat
    BY Zenon, <2>1, FiniteKnown DEF Counted
  <2>4. Range(pool.beats) \subseteq Account
    BY <2>2 DEF Range
  <2>5. DOMAIN pool.nonces \subseteq Account
    BY Zenon, <2>2 DEF NonceMaps
  <2> DEFINE Typed(m) == /\ DOMAIN m \subseteq Account
                         /\ \A a \in DOMAIN m : /\ m[a] \subseteq {t \in Tx : From[t] = a}
                                                /\ \A t, u \in m[a] : Nonce[t] = Nonce[u] => t = u
  <2>6. ASSUME NEW m \in {pool.pending, pool.queue} PROVE Typed(m)
    <3>1. DOMAIN m \subseteq Account
      BY Zenon, <2>2, <2>6, MapDomain
    <3> SUFFICES ASSUME NEW a \in DOMAIN m
                 PROVE  /\ m[a] \subseteq {t \in Tx : From[t] = a}
                        /\ \A t, u \in m[a] : Nonce[t] = Nonce[u] => t = u
      BY Zenon, <3>1
    <3> DEFINE P == At(pool.pending, a)
               Q == At(pool.queue, a)
    <3>2. P \in SUBSET Tx /\ Q \in SUBSET Tx /\ OneAccount(a, P, Q)
      BY Zenon, <2>1, <3>1, AccountLists
    <3>3. m[a] = P \/ m[a] = Q
      BY Zenon, <2>6 DEF At
    <3> HIDE DEF P, Q
    <3>4. \A t \in m[a] : t \in Tx /\ t \in P \cup Q
      BY Zenon, <3>2, <3>3
    <3> QED
      BY Zenon, <3>2, <3>4 DEF OneAccount
  <2> QED
    BY Zenon, <2>2, <2>3, <2>4, <2>5, <2>6 DEF TypeOK, IInv
<1> QED
  BY <1>1, IInvAlways, PTL

\* The slot counter of TxLookup is exact: it neither wraps nor leaks slots,
\* through every addition, replacement, migration, discard and truncation.
THEOREM TxPoolSlotsExact == Spec => []SlotsExact
<1>1. IInv => SlotsExact
  BY Zenon DEF IInv, Good, Counted, SlotsExact
<1> QED
  BY <1>1, IInvAlways, PTL

\* Every account with a queue has a heartbeat, which truncate_queue unwraps.
THEOREM TxPoolQueueHasBeat == Spec => []QueueHasBeat
<1>1. IInv => QueueHasBeat
  BY Zenon DEF IInv, Good, Beating, QueueHasBeat
<1> QED
  BY <1>1, IInvAlways, PTL

\* A transaction in the lookup is in a list, even in a pool that a panic left
\* half done: nothing that was dropped is refused as known for ever.
THEOREM TxPoolKnownIsListed == Spec => []KnownIsListed
<1>1. IInv => KnownIsListed
  <2>1. ASSUME IInv PROVE Known(pool) \subseteq Listed(pool)
    <3>1. Listed(pool) = Held(pool) /\ Known(pool) \subseteq Held(pool)
      BY Zenon, <2>1, ListedHeld DEF IInv, Good, Covered
    <3> QED
      BY Zenon, <3>1
  <2> QED
    BY Zenon, <2>1 DEF KnownIsListed
<1> QED
  BY <1>1, IInvAlways, PTL

\* Once the pool follows a head, nothing in it has a nonce that the head's state
\* has passed, whatever blocks put_chain rolled back or accepted.
THEOREM TxPoolNothingMined == Spec => []NothingMined
<1>1. IInv => NothingMined
  <2> SUFFICES ASSUME IInv, ~poisoned, pool.state # NoBlock, NEW t \in Listed(pool)
               PROVE  Nonce[t] >= AccountNonce(pool, From[t])
    BY Zenon DEF NothingMined
  <2>1. t \in Held(pool)
    BY Zenon, ListedHeld DEF IInv
  <2>2. Nonce[t] >= StateNonce[pool.state][From[t]]
    BY Zenon, <2>1 DEF IInv, Unmined
  <2>3. AccountNonce(pool, From[t]) = StateNonce[pool.state][From[t]]
    BY Zenon DEF AccountNonce, StateOf
  <2> QED
    BY Zenon, <2>2, <2>3
<1> QED
  BY <1>1, IInvAlways, PTL

=============================================================================
