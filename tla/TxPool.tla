------------------------------- MODULE TxPool -------------------------------
(***************************************************************************)
(* The transaction pool.  RPC and the main loop add transactions to it, and *)
(* put_chain makes it follow the head; each call runs under the pool's     *)
(* write lock and is one step, in which an error or a panic leaves what was *)
(* done before it.  What the pool tells the rest of the node (TxPoolPack)  *)
(* has no receiver and is left out.  Every transaction takes one slot.     *)
(*                                                                         *)
(* A list of transactions by nonce is a set without two of one nonce; the  *)
(* maps from accounts to lists are partial functions, because an account   *)
(* with an empty list and one without a list are treated differently.      *)
(*                                                                         *)
(* Loops are functions of the number of rounds, and an order is a listing  *)
(* by repeated choice of the first: forms TxPoolProofs can reason about.   *)
(* Of the library only what the proofs can carry is extended.              *)
(***************************************************************************)
EXTENDS Integers, FiniteSets, Sequences, Functions

CONSTANTS
    Account, Tx,
    From, Nonce, Fee, Price,       \* fields of a transaction
    Block, NoBlock, Parent, Level, \* the chain put_chain moves on
    BlockTxs,                      \* the transactions of a block, a sequence
    StateNonce, Balance,           \* accounts in the state of a block
    Start,                         \* the head when the node starts
    Sent,                          \* transactions that come by RPC
    Received,                      \* batches that peers broadcast
    PRICE_BUMP, ACCOUNT_SLOTS, GLOBAL_SLOTS, ACCOUNT_QUEUE, GLOBAL_QUEUE, MAX_DEPTH

ASSUME LimitAssumption ==
    {PRICE_BUMP, ACCOUNT_SLOTS, GLOBAL_SLOTS, ACCOUNT_QUEUE, GLOBAL_QUEUE, MAX_DEPTH} \subseteq Nat

ASSUME TxAssumption ==
    /\ IsFiniteSet(Account) /\ IsFiniteSet(Tx)
    /\ From \in [Tx -> Account] /\ Nonce \in [Tx -> Nat]
    /\ Fee \in [Tx -> Nat] /\ Price \in [Tx -> Nat]
    /\ Sent \subseteq Tx /\ Received \subseteq Seq(Tx)

ASSUME TxChainAssumption ==
    /\ NoBlock \notin Block /\ Start \in Block
    /\ Parent \in [Block -> Block \cup {NoBlock}] /\ Level \in [Block -> Nat]
    /\ \A b \in Block : Parent[b] \in Block => Level[b] = Level[Parent[b]] + 1
    /\ \A b, c \in Block : Parent[b] = NoBlock /\ Level[c] <= Level[b] => b = c
    /\ BlockTxs \in [Block -> Seq(Tx)]
    /\ StateNonce \in [Block -> [Account -> Nat]]
    /\ Balance \in [Block -> [Account -> Nat]]

VARIABLES
    pool,        \* the TxPool
    poisoned,    \* a panic has poisoned the pool's lock
    live,        \* the block whose state is the node's live state
    base,        \* the head at the entry of the running put_chain
    due          \* the new head put_chain repacks the pool for

vars == <<pool, poisoned, live, base, due>>

NoMap == [a \in {} |-> {}]
At(m, a) == IF a \in DOMAIN m THEN m[a] ELSE {}
With(m, a, v) == [b \in DOMAIN m \cup {a} |-> IF b = a THEN v ELSE m[b]]
Without(m, a) == Restrict(m, DOMAIN m \ {a})

\* The heartbeats but for that of a, which has one at most.
WithoutBeat(beats, a) ==
    LET k == CHOOSE i \in DOMAIN beats : beats[i] = a
    IN  IF a \notin Range(beats) THEN beats
        ELSE [i \in 1 .. Len(beats) - 1 |-> beats[IF i < k THEN i ELSE i + 1]]

\* TxPool::new.  state is the block whose state the pool holds a snapshot of;
\* a new pool holds the live state itself (NoBlock).
NewPool ==
    [pending |-> NoMap, queue |-> NoMap, nonces |-> NoMap, local |-> {}, remote |-> {},
     slots |-> 0, priced |-> {}, locals |-> {}, beats |-> <<>>, changes |-> 0,
     state |-> NoBlock]

TypeOK ==
    /\ \A m \in {pool.pending, pool.queue} :
          /\ DOMAIN m \subseteq Account
          /\ \A a \in DOMAIN m :
                /\ m[a] \subseteq {t \in Tx : From[t] = a}
                /\ \A t, u \in m[a] : Nonce[t] = Nonce[u] => t = u
    /\ DOMAIN pool.nonces \subseteq Account
    /\ pool.local \subseteq Tx /\ pool.remote \subseteq Tx /\ pool.priced \subseteq Tx
    /\ pool.slots \in Nat /\ pool.changes \in Nat
    /\ pool.locals \subseteq Account /\ Range(pool.beats) \subseteq Account
    /\ pool.state \in Block \cup {NoBlock}
    /\ poisoned \in BOOLEAN
    /\ live \in Block /\ base \in Block /\ due \in Block \cup {NoBlock}

\* current_state
StateOf(p) == IF p.state = NoBlock THEN live ELSE p.state
AccountNonce(p, a) == StateNonce[StateOf(p)][a]
AccountBalance(p, a) == Balance[StateOf(p)][a]

-----------------------------------------------------------------------------
(* Results: a pool and how the call ended. *)

Ok(p) == [p |-> p, r |-> "ok"]
Fail(p) == [p |-> p, r |-> "error"]
Die(p) == [p |-> p, r |-> "panic"]
Then(res, op(_)) == IF res.r = "ok" THEN op(res.p) ELSE res

\* op for each member of s, up to the first failure.
InOrder(op(_, _), p, s) ==
    LET done[i \in 0 .. Len(s)] ==
            IF i = 0 THEN Ok(p) ELSE Then(done[i - 1], LAMBDA q : op(q, s[i]))
    IN  done[Len(s)]

\* The members of S one after the other: pick[R] is the first of R.
Listing(S, pick) ==
    LET rest[i \in 0 .. Cardinality(S)] ==
            IF i = 0 THEN S ELSE rest[i - 1] \ {pick[rest[i - 1]]}
    IN  [i \in 1 .. Cardinality(S) |-> pick[rest[i - 1]]]

\* The members of S with the least key.
Least(S, key) == {x \in S : \A y \in S : key[x] <= key[y]}
Greatest(S, key) == {x \in S : \A y \in S : key[x] >= key[y]}
Some(S) == CHOOSE x \in S : TRUE

ByNonce(S) == Listing(S, [R \in SUBSET S |-> Some(Least(R, Nonce))])
HighestFirst(S) == Listing(S, [R \in SUBSET S |-> Some(Greatest(R, Nonce))])

-----------------------------------------------------------------------------
(* TxList *)

SameNonce(list, t) == {u \in list : Nonce[u] = Nonce[t]}

\* Whether t is taken in place of an older transaction of its nonce.
Bump(new, old) == ((Fee[new] - Fee[old]) * 100) \div Fee[new]
AddResult(list, t) ==
    IF SameNonce(list, t) = {} THEN "ok"
    ELSE IF Fee[t] = 0 THEN "panic"
    ELSE IF \E u \in SameNonce(list, t) : Fee[u] <= Fee[t] /\ Bump(t, u) < PRICE_BUMP
    THEN "error" ELSE "ok"

Added(list, t) == (list \ SameNonce(list, t)) \cup {t}
Below(list, n) == {t \in list : Nonce[t] < n}
After(list, n) == {t \in list : Nonce[t] > n}

\* filter: what costs more than the balance; a balance of 0 filters nothing.
Unpayable(list, balance) == {t \in list : balance # 0 /\ Price[t] > balance}

\* cap keeps the n highest nonces.
Capped(list, n) == {t \in list : Cardinality(After(list, Nonce[t])) < n}
Lowest(list) == Nonce[Some(Least(list, Nonce))]

-----------------------------------------------------------------------------
(* TxLookup, TxPricedList, TxNoncer *)

Known(p) == p.local \cup p.remote

LookupRemove(p, ts) ==
    [p EXCEPT !.local = @ \ ts, !.remote = @ \ ts,
              !.slots = @ - Cardinality(ts \cap Known(p))]

LookupAdd(p, t, isLocal) ==
    [p EXCEPT !.local = IF isLocal THEN @ \cup {t} ELSE @,
              !.remote = IF isLocal THEN @ ELSE @ \cup {t},
              !.slots = @ + 1]

\* The priced list tells transactions apart by fee and nonce only.
SamePriced(t, u) == Fee[t] = Fee[u] /\ Nonce[t] = Nonce[u]
PricedRemove(p, ts) == [p EXCEPT !.priced = {u \in @ : \A t \in ts : ~SamePriced(t, u)}]
PricedPut(p, t, isLocal) ==
    IF isLocal \/ \E u \in p.priced : SamePriced(t, u) THEN p
    ELSE [p EXCEPT !.priced = @ \cup {t}]
Forget(p, ts) == PricedRemove(LookupRemove(p, ts), ts)

\* The order of the list: the highest fee first, then the highest nonce.
Before(t, u) == Fee[t] > Fee[u] \/ (Fee[t] = Fee[u] /\ Nonce[t] > Nonce[u])

ByFee(S) == Listing(S, [R \in SUBSET S |-> Some(Greatest(Greatest(R, Fee), Nonce))])

\* The last of the list is not before t.
Underpriced(p, t) ==
    \E u \in p.priced : (\A v \in p.priced : ~Before(u, v)) /\ ~Before(u, t)

\* discard keeps the first n and drops the rest, unless there are no more than n.
Discarded(p, n) ==
    {t \in p.priced : /\ Cardinality(p.priced) > n
                      /\ Cardinality({u \in p.priced : Before(u, t)}) >= n}

NonceGet(p, a) == IF a \in DOMAIN p.nonces THEN p.nonces[a] ELSE AccountNonce(p, a)
NonceSet(p, a, n) == [p EXCEPT !.nonces = With(@, a, n)]
NonceSetIfLower(p, a, n) == NonceSet(p, a, IF n < NonceGet(p, a) THEN n ELSE NonceGet(p, a))

-----------------------------------------------------------------------------
(* enqueue_tx, remove_tx, promote_tx *)

\* Mutant: a demoted transaction gets no heartbeat.
EnqueueTx_NoBeat(p, t, isLocal, addAll) ==
    LET a == From[t]
        list == At(p.queue, a)
        p1 == Forget([p EXCEPT !.queue = With(@, a, Added(list, t))], SameNonce(list, t))
        p2 == PricedPut(LookupAdd(p1, t, isLocal), t, isLocal)
    IN  IF AddResult(list, t) # "ok" THEN [p |-> p, r |-> AddResult(list, t)]
        ELSE IF ~addAll THEN Ok(p1)
        ELSE Ok([p2 EXCEPT !.beats = IF a \in Range(@) THEN @ ELSE Append(@, a)])

EnqueueTx(p, t, isLocal, addAll) ==
    LET a == From[t]
        list == At(p.queue, a)
        p1 == Forget([p EXCEPT !.queue = With(@, a, Added(list, t))], SameNonce(list, t))
        p2 == IF addAll THEN PricedPut(LookupAdd(p1, t, isLocal), t, isLocal) ELSE p1
    IN  IF AddResult(list, t) # "ok" THEN [p |-> p, r |-> AddResult(list, t)]
        ELSE Ok([p2 EXCEPT !.beats = IF a \in Range(@) THEN @ ELSE Append(@, a)])

Enqueue(p, t) == EnqueueTx(p, t, FALSE, FALSE)
EnqueueAll(p, S) == InOrder(Enqueue, p, ByNonce(S))

\* TxList::remove says that it removed something when it did not: then the
\* higher pending transactions are queued; otherwise the queue is looked at.
RemoveTx(p, t, outofbound) ==
    LET a == From[t]
        p1 == IF outofbound THEN Forget(p, {t}) ELSE LookupRemove(p, {t})
        list == At(p1.pending, a)
        kept == list \ After(list, Nonce[t])
        p2 == [p1 EXCEPT !.pending = IF kept = {} THEN Without(@, a) ELSE With(@, a, kept)]
        p3 == IF a \in DOMAIN p1.pending
              THEN [p1 EXCEPT !.pending = With(@, a, list \ SameNonce(list, t))] ELSE p1
        queued == At(p3.queue, a)
    IN  IF t \notin Known(p) THEN Ok(p)
        ELSE IF a \in DOMAIN p1.pending /\ SameNonce(list, t) = {}
        THEN Then(EnqueueAll(p2, After(list, Nonce[t])),
                  LAMBDA q : Ok(NonceSetIfLower(q, a, Nonce[t])))
        ELSE IF a \notin DOMAIN p3.queue THEN Ok(p3)
        ELSE IF SameNonce(queued, t) # {}
        THEN Ok([p3 EXCEPT !.queue = With(@, a, queued \ SameNonce(queued, t))])
        ELSE Ok([p3 EXCEPT !.queue = IF DOMAIN p3.pending = {} THEN Without(@, a) ELSE @])

RemoveAll(p, s, outofbound) == InOrder(LAMBDA q, t : RemoveTx(q, t, outofbound), p, s)

\* A transaction that is refused is removed altogether.
PromoteTx(p, t) ==
    LET a == From[t]
        list == At(p.pending, a)
        p1 == [p EXCEPT !.pending = With(@, a, list)]
        p2 == Forget([p EXCEPT !.pending = With(@, a, Added(list, t))], SameNonce(list, t))
    IN  CASE AddResult(list, t) = "panic" -> Die(p1)
          [] AddResult(list, t) = "error" -> Ok(Forget(p1, {t}))
          [] OTHER -> Ok([NonceSet(p2, a, Nonce[t] + 1) EXCEPT
                             !.beats = Append(WithoutBeat(@, a), a)])

PromoteAll(p, S) == InOrder(PromoteTx, p, ByNonce(S))

-----------------------------------------------------------------------------
(* add *)

\* Not known yet, and validate_tx.
Valid(p, t) ==
    /\ t \notin Known(p)
    /\ AccountNonce(p, From[t]) <= Nonce[t]
    /\ AccountBalance(p, From[t]) >= Fee[t] + Price[t]

\* Room is made by discarding priced transactions.
MakeRoom(p, t, isLocal) ==
    LET limit == GLOBAL_SLOTS + GLOBAL_QUEUE
        drop == Discarded(p, p.slots - limit + 1)
        p1 == [p EXCEPT !.priced = @ \ drop, !.changes = Cardinality(drop)]
    IN  IF p.slots + 1 <= limit THEN Ok(p)
        ELSE IF ~isLocal /\ Underpriced(p, t) THEN Fail(p)
        ELSE IF p.changes >= GLOBAL_SLOTS \div 4 THEN Fail(p)
        ELSE RemoveAll(p1, ByFee(drop), FALSE)

\* Mutant: what becomes local is not taken from the remote transactions.
MakeLocal_Copies(p, a) ==
    LET own == {t \in p.remote : From[t] \in p.locals \cup {a}}
    IN  PricedRemove([p EXCEPT !.locals = @ \cup {a}, !.local = @ \cup own], own)

\* The account becomes local, and its transactions with it.
MakeLocal(p, a) ==
    LET own == {t \in p.remote : From[t] \in p.locals \cup {a}}
    IN  PricedRemove([p EXCEPT !.locals = @ \cup {a}, !.remote = @ \ own,
                               !.local = @ \cup own], own)

\* The result of add also says whether an older transaction was replaced.
Placed(p, replaced) == [p |-> p, r |-> "ok", replaced |-> replaced]

Add(p, t, local) ==
    LET a == From[t]
        isLocal == local \/ a \in p.locals
        Place(q) ==
            LET list == At(q.pending, a)
                q1 == Forget([q EXCEPT !.pending = With(@, a, Added(list, t))], SameNonce(list, t))
            IN  IF SameNonce(list, t) = {}
                THEN Then(EnqueueTx(q, t, isLocal, TRUE),
                          LAMBDA x : Placed(IF local /\ a \notin x.locals THEN MakeLocal(x, a) ELSE x,
                                            SameNonce(At(q.queue, a), t) # {}))
                ELSE IF AddResult(list, t) # "ok" THEN [p |-> q, r |-> AddResult(list, t)]
                ELSE Placed(PricedPut(LookupAdd(q1, t, isLocal), t, isLocal), TRUE)
    IN  IF ~Valid(p, t) THEN Fail(p) ELSE Then(MakeRoom(p, t, isLocal), Place)

\* add_txs_locked: the error of the i-th transaction is inserted at i of the
\* list of errors, which panics when fewer came before it.
Note(acc, t, res) ==
    [p |-> res.p, n |-> acc.n + 1,
     errors |-> acc.errors + IF res.r = "error" THEN 1 ELSE 0,
     r |-> IF res.r = "panic" \/ (res.r = "error" /\ acc.n > acc.errors) THEN "panic" ELSE "ok",
     dirty |-> acc.dirty \cup IF res.r = "ok" /\ ~res.replaced THEN {From[t]} ELSE {}]

AddTxsLocked(p, ts, local) ==
    LET acc[i \in 0 .. Len(ts)] ==
            IF i = 0 THEN [p |-> p, n |-> 0, errors |-> 0, r |-> "ok", dirty |-> {}]
            ELSE IF acc[i - 1].r = "panic" THEN acc[i - 1]
            ELSE Note(acc[i - 1], ts[i], Add(acc[i - 1].p, ts[i], local))
    IN  acc[Len(ts)]

-----------------------------------------------------------------------------
(* promote_executable and demote_unexecutable.  Maps are iterated in any      *)
(* order: ord is a permutation of the accounts, the same for one repack.      *)

PromoteAccount(p, a) ==
    LET list == At(p.queue, a)
        forward == Below(list, AccountNonce(p, a))
        drops == Unpayable(list \ forward, AccountBalance(p, a))
        ready == {t \in list \ (forward \cup drops) : Nonce[t] >= NonceGet(p, a)}
        p1 == LookupRemove([p EXCEPT !.queue = With(@, a, list \ (forward \cup drops \cup ready))],
                           forward \cup drops)
    IN  IF a \notin DOMAIN p.queue THEN Ok(p)
        ELSE PromoteAll(NonceSet(p1, a, NonceGet(p, a)), ready)

\* Mutant: capped transactions stay in the lookup.
CapAccount_Kept(p, a) ==
    LET list == At(p.queue, a)
        kept == IF a \in p.locals THEN list ELSE Capped(list, ACCOUNT_QUEUE)
        p1 == [p EXCEPT !.queue = With(@, a, kept)]
    IN  IF a \notin DOMAIN p.queue THEN p
        ELSE IF kept # {} THEN p1
        ELSE [p1 EXCEPT !.queue = Without(@, a), !.beats = WithoutBeat(@, a)]

CapAccount(p, a) ==
    LET list == At(p.queue, a)
        kept == IF a \in p.locals THEN list ELSE Capped(list, ACCOUNT_QUEUE)
        p1 == LookupRemove([p EXCEPT !.queue = With(@, a, kept)], list \ kept)
    IN  IF a \notin DOMAIN p.queue THEN p
        ELSE IF kept # {} THEN p1
        ELSE [p1 EXCEPT !.queue = Without(@, a), !.beats = WithoutBeat(@, a)]

PromoteExecutable(p, accounts, ord) ==
    LET Promote(q, a) == IF a \in accounts THEN PromoteAccount(q, a) ELSE Ok(q)
        Cap(q, a) == Ok(IF a \in accounts THEN CapAccount(q, a) ELSE q)
    IN  Then(InOrder(Promote, p, ord), LAMBDA q : InOrder(Cap, q, ord))

\* What demote_unexecutable leaves pending, drops and queues of an account.
Current(p, a) == p.pending[a] \ Below(p.pending[a], AccountNonce(p, a))
Drops(p, a) == Unpayable(Current(p, a), AccountBalance(p, a))
Invalids(p, a) ==
    IF Drops(p, a) = {} THEN {} ELSE After(Current(p, a) \ Drops(p, a), Lowest(Drops(p, a)))
Payable(p, a) == Current(p, a) \ (Drops(p, a) \cup Invalids(p, a))
Executable(p, a) ==
    IF \E t \in Payable(p, a) : Nonce[t] = AccountNonce(p, a) THEN Payable(p, a) ELSE {}
Gapped(p, a) == Payable(p, a) \ Executable(p, a)

DemoteUnexecutable(p, ord) ==
    LET as == DOMAIN p.pending
        gone == UNION {Below(p.pending[a], AccountNonce(p, a)) \cup Drops(p, a) : a \in as}
        p1 == LookupRemove([p EXCEPT !.pending = [a \in as |-> Executable(p, a)]], gone)
        Requeue(q, a) == IF a \notin as THEN Ok(q)
                         ELSE Then(EnqueueAll(q, Invalids(p, a)), LAMBDA x : EnqueueAll(x, Gapped(p, a)))
        Tidy(q) == [q EXCEPT !.pending = Restrict(@, {a \in DOMAIN @ : @[a] # {}})]
    IN  Then(InOrder(Requeue, p1, ord), LAMBDA q : Ok(Tidy(q)))

\* last_element is the lowest nonce; without pending accounts nothing is set.
SetNonces(p) ==
    IF DOMAIN p.pending = {} THEN p
    ELSE [p EXCEPT !.nonces = [a \in {b \in DOMAIN p.pending : p.pending[b] # {}} |->
                                  Lowest(p.pending[a]) + 1]]

-----------------------------------------------------------------------------
(* truncate_pending: n is its count of pending transactions. *)

Size(p, a) == Cardinality(At(p.pending, a))
Pending(p) == Cardinality(UNION {{a} \X At(p.pending, a) : a \in DOMAIN p.pending})

\* The lowest nonce of an offender goes.
TrimOne(st, a) ==
    LET list == At(st.p.pending, a)
        cut == list \ Capped(list, Cardinality(list) - 1)
        q == Forget([st.p EXCEPT !.pending = With(@, a, list \ cut)], cut)
    IN  [p |-> IF cut = {} THEN q ELSE NonceSetIfLower(q, a, Lowest(cut)), n |-> st.n - 1]

Trim(st, offenders) ==
    LET trimmed[i \in 0 .. Len(offenders)] ==
            IF i = 0 THEN st ELSE TrimOne(trimmed[i - 1], offenders[i])
    IN  trimmed[Len(offenders)]

\* A round takes one transaction of the offender a, so there are at most as many.
TrimWhile(st, offenders, a, threshold) ==
    LET round[i \in 0 .. Size(st.p, a)] ==
            IF i = 0 THEN st
            ELSE IF round[i - 1].n > GLOBAL_SLOTS /\ Size(round[i - 1].p, a) > threshold
            THEN Trim(round[i - 1], offenders) ELSE round[i - 1]
    IN  round[Size(st.p, a)]

First(s, k) == [i \in 1 .. k |-> s[i]]

\* The spammers become offenders one by one and are brought down to the size of
\* the last of them; taken is their number.
Equalise(p, spammers) ==
    LET fair[k \in 0 .. Len(spammers)] ==
            IF k = 0 THEN [p |-> p, n |-> Pending(p), taken |-> 0]
            ELSE LET st == fair[k - 1]
                     trimmed == IF k = 1 THEN st
                                ELSE TrimWhile([p |-> st.p, n |-> st.n], First(spammers, k),
                                               spammers[k - 1], Size(st.p, spammers[k]))
                 IN  IF st.n <= GLOBAL_SLOTS THEN st
                     ELSE [p |-> trimmed.p, n |-> trimmed.n, taken |-> k]
    IN  fair[Len(spammers)]

\* The accounts that are not local and above their allowance, the largest first.
Spammers(p, ord) ==
    LET size == [a \in Account |-> Size(p, a)]
        index == [a \in Account |-> CHOOSE i \in DOMAIN ord : ord[i] = a]
    IN  Listing({a \in DOMAIN p.pending \ p.locals : Size(p, a) > ACCOUNT_SLOTS},
                [R \in SUBSET Account |-> Some(Least(Greatest(R, size), index))])

TruncatePending(p, ord) ==
    LET fair == Equalise(p, Spammers(p, ord))
        offenders == First(Spammers(p, ord), fair.taken)
    IN  IF Pending(p) <= GLOBAL_SLOTS \/ offenders = <<>> THEN p
        ELSE TrimWhile([p |-> fair.p, n |-> fair.n], offenders, offenders[Len(offenders)], ACCOUNT_SLOTS).p

-----------------------------------------------------------------------------
(* truncate_queue *)

\* The accounts to drop from, the one with the latest heartbeat first.  A list
\* longer than what is to be dropped is indexed at its length.
DropQueued(p, accounts, drop) ==
    LET n == Len(p.beats)
        Drop(st, a) ==
            LET list == At(st.p.queue, a)
                res == RemoveAll(st.p, ByNonce(list), TRUE)
            IN  IF st.r # "ok" \/ st.drop = 0 \/ a \notin accounts THEN st
                ELSE IF a \notin DOMAIN st.p.queue THEN [st EXCEPT !.drop = 0]
                ELSE IF Cardinality(list) > st.drop THEN [st EXCEPT !.r = "panic"]
                ELSE [p |-> res.p, r |-> res.r, drop |-> st.drop - Cardinality(list)]
        dropped[i \in 0 .. n] ==
            IF i = 0 THEN [p |-> p, r |-> "ok", drop |-> drop]
            ELSE Drop(dropped[i - 1], p.beats[n + 1 - i])
    IN  [p |-> dropped[n].p, r |-> dropped[n].r]

\* The count is that of the account iterated last.
TruncateQueue(p, ord) ==
    LET queues == {i \in DOMAIN ord : ord[i] \in DOMAIN p.queue}
        last == {i \in queues : \A j \in queues : j <= i}
        queued == Cardinality(UNION {At(p.queue, ord[i]) : i \in last})
        remote == DOMAIN p.queue \ p.locals
    IN  IF queued <= GLOBAL_QUEUE THEN Ok(p)
        ELSE IF ~(remote \subseteq Range(p.beats)) THEN Die(p)
        ELSE DropQueued(p, remote, queued - GLOBAL_QUEUE)

-----------------------------------------------------------------------------
(* reset.  put_chain always passes an old head, and both heads and their      *)
(* ancestors are stored, so that the walk ends at the common ancestor.        *)

\* The sets of discarded and included transactions hold one of each nonce.
Extend(S, ts) ==
    LET sofar[i \in 0 .. Len(ts)] ==
            IF i = 0 THEN S
            ELSE IF SameNonce(sofar[i - 1], ts[i]) = {} THEN sofar[i - 1] \cup {ts[i]}
            ELSE sofar[i - 1]
    IN  sofar[Len(ts)]

\* The higher of the two blocks goes to its parent, both at the same level, until
\* they meet.
WalkStep(w) ==
    LET back == Level[w.rem] >= Level[w.add]
        forth == Level[w.add] >= Level[w.rem]
    IN  IF w.rem = w.add THEN w
        ELSE [rem |-> IF back THEN Parent[w.rem] ELSE w.rem,
              add |-> IF forth THEN Parent[w.add] ELSE w.add,
              discarded |-> IF back THEN Extend(w.discarded, BlockTxs[w.rem]) ELSE w.discarded,
              included |-> IF forth THEN Extend(w.included, BlockTxs[w.add]) ELSE w.included]

Walk(old, new) ==
    LET at[i \in 0 .. Level[old] + Level[new]] ==
            IF i = 0 THEN [rem |-> old, add |-> new, discarded |-> {}, included |-> {}]
            ELSE WalkStep(at[i - 1])
        end == at[Level[old] + Level[new]]
    IN  {t \in end.discarded : SameNonce(end.included, t) # {}}

Abs(n) == IF n < 0 THEN -n ELSE n
Reinject(old, new) ==
    IF old = Parent[new] \/ Abs(Level[old] - Level[new]) > MAX_DEPTH THEN {}
    ELSE Walk(old, new)

\* The errors of the transactions reinjected are ignored, a panic is not.
Reset(p, old, new) ==
    AddTxsLocked([p EXCEPT !.state = new, !.nonces = NoMap],
                 HighestFirst(Reinject(old, new)), FALSE)

-----------------------------------------------------------------------------
(* repack *)

Truncate(p, ord) ==
    Then(TruncateQueue(TruncatePending(p, ord), ord), LAMBDA q : Ok([q EXCEPT !.changes = 0]))

\* Mutant: the pending lists are not looked at after a reset.
RepackReset_NoDemote(p, old, new, ord) ==
    Then(Reset(p, old, new),
         LAMBDA q : Then(PromoteExecutable(q, DOMAIN q.queue, ord),
                         LAMBDA x : Truncate(SetNonces(x), ord)))

RepackReset(p, old, new, ord) ==
    Then(Reset(p, old, new),
         LAMBDA q : Then(PromoteExecutable(q, DOMAIN q.queue, ord),
         LAMBDA x : Then(DemoteUnexecutable(x, ord),
         LAMBDA y : Truncate(SetNonces(y), ord))))

RepackDirty(p, dirty, ord) ==
    Then(PromoteExecutable(p, dirty, ord), LAMBDA q : Truncate(q, ord))

\* add_txs: an error of one transaction is an error of the call.
RepackAdded(added, complete, ord) ==
    Then(added, LAMBDA p : Then(RepackDirty(p, added.dirty, ord),
                                LAMBDA q : IF complete /\ added.errors = 0 THEN Ok(q) ELSE Fail(q)))

News(p, ts) ==
    LET news[i \in 0 .. Len(ts)] ==
            IF i = 0 THEN <<>>
            ELSE IF ts[i] \in Known(p) THEN news[i - 1] ELSE Append(news[i - 1], ts[i])
    IN  news[Len(ts)]

AddTxs(p, ts, local, ord) ==
    LET news == News(p, ts)
    IN  IF news = <<>> THEN Fail(p)
        ELSE RepackAdded(AddTxsLocked(p, news, local), Len(news) = Len(ts), ord)

-----------------------------------------------------------------------------
(* The callers *)

Init ==
    /\ pool = NewPool /\ poisoned = FALSE
    /\ live = Start /\ base = Start /\ due = NoBlock

Orders == Injection(1 .. Cardinality(Account), Account)

\* RPC: send_transaction and sign_send_transaction.
SendTransaction(t) ==
    /\ ~poisoned
    /\ \E res \in {AddTxs(pool, <<t>>, TRUE, ord) : ord \in Orders} :
          pool' = res.p /\ poisoned' = (res.r = "panic")
    /\ UNCHANGED <<live, base, due>>

\* The node ends and starts again from the head it has stored.
Restart ==
    /\ pool' = NewPool /\ poisoned' = FALSE
    /\ base' = live /\ due' = NoBlock
    /\ UNCHANGED live

\* The main loop unwraps the result: an error of any transaction ends the node.
BroadcastTransaction(ts) ==
    /\ ~poisoned
    /\ \E res \in {AddTxs(pool, ts, FALSE, ord) : ord \in Orders} :
          \/ res.r = "ok" /\ pool' = res.p /\ UNCHANGED <<poisoned, live, base, due>>
          \/ res.r # "ok" /\ Restart

\* RPC: nonce, which remembers what it read.
GetNonce(a) ==
    /\ ~poisoned
    /\ LET m == NonceGet(pool, a)
           n == AccountNonce(pool, a)
       IN  pool' = NonceSet(pool, a, IF m < n THEN n ELSE m)
    /\ UNCHANGED <<poisoned, live, base, due>>

\* put_chain goes back to the parent of the first block of a fork.
Rollback(b) ==
    /\ due = NoBlock
    /\ Parent[b] \in Block \ {live} /\ Level[live] >= Level[b]
    /\ live' = Parent[b] /\ base' = live
    /\ UNCHANGED <<pool, poisoned, due>>

\* A block becomes the head, in the running put_chain or in a new one.
AcceptBlock(b) ==
    /\ due = NoBlock
    /\ Parent[b] \in Block
    /\ Parent[b] = live \/ Level[b] > Level[live]
    /\ live' = b /\ due' = b /\ base' \in {base, live}
    /\ UNCHANGED <<pool, poisoned>>

\* put_chain repacks the pool; it fails when the lock is poisoned.
Repack ==
    /\ due # NoBlock
    /\ \/ poisoned /\ UNCHANGED <<pool, poisoned>>
       \/ /\ ~poisoned
          /\ \E res \in {RepackReset(pool, base, due, ord) : ord \in Orders} :
                pool' = res.p /\ poisoned' = (res.r = "panic")
    /\ due' = NoBlock
    /\ UNCHANGED <<live, base>>

Next ==
    \/ \E t \in Sent : SendTransaction(t)
    \/ \E ts \in Received : BroadcastTransaction(ts)
    \/ \E a \in Account : GetNonce(a)
    \/ \E b \in Block : Rollback(b) \/ AcceptBlock(b)
    \/ Repack
    \/ Restart

Spec == Init /\ [][Next]_vars

-----------------------------------------------------------------------------
(* Properties *)

Listed(p) == UNION ({p.pending[a] : a \in DOMAIN p.pending} \cup {p.queue[a] : a \in DOMAIN p.queue})

\* The slot counter that guards the pool's limit is the number of transactions
\* in the lookup, whatever was added, replaced, migrated to the local accounts,
\* discarded or truncated: it can neither wrap nor leak slots.
SlotsExact ==
    /\ pool.slots = Cardinality(Known(pool))
    /\ pool.local \cap pool.remote = {}

\* Once the pool follows a head, no list holds a transaction whose nonce that
\* head's state has passed: what the miner takes from pending is not mined yet.
NothingMined ==
    ~poisoned /\ pool.state # NoBlock =>
        \A t \in Listed(pool) : Nonce[t] >= AccountNonce(pool, From[t])

\* Every account with a queue has a heartbeat, which truncate_queue unwraps.
QueueHasBeat == DOMAIN pool.queue \subseteq Range(pool.beats)

\* A transaction in the lookup is in a list: one that was dropped from the
\* lists is not kept in the lookup, where it would hold a slot and be refused
\* as already known for ever.
KnownIsListed == Known(pool) \subseteq Listed(pool)

\* The other direction: a transaction in a list is in the lookup, as enqueue_tx
\* takes for granted (it reports a "Missing transaction in lookup set").
ListedIsKnown == ~poisoned => Listed(pool) \subseteq Known(pool)

=============================================================================
