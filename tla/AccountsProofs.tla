--------------------------- MODULE AccountsProofs ---------------------------
(***************************************************************************)
(* Executing blocks, for all addresses, codes, programs, blocks, rewards   *)
(* and numbers of headers: every application a stored header names is on   *)
(* disk, executing a block twice gives the state its header names, nonces  *)
(* do not fall, and payments make no money.                                *)
(*                                                                         *)
(* The argument goes up from the host functions of a call to a call        *)
(* (Envs), to a transaction (Good) and to a block (Traces); from one       *)
(* execution of a block to the second, whose cache is fuller (Recached);   *)
(* and from the runs to the roots that are committed (Sound).              *)
(***************************************************************************)
EXTENDS Accounts, Recursion

\* An account is there or it is not.
LEMMA NoneIsNoAccount == None \notin Account
BY DEF None, Account

\* get_account_state always answers with an account.
LEMMA AccountTypes ==
    ASSUME NEW c \in Contents, NEW a \in Addresses
    PROVE  AccountAt(c, a) \in Account
BY DEF AccountAt, Contents, Account, AccountState_new

\* An account at an address as a transaction or a call may leave it, as long
\* as it makes no application of it.
FromTrie(trie, a, x) == x.nonce = AccountAt(trie, a).nonce /\ x.app = AccountAt(trie, a).app

Envs(trie, app, sender) ==
    {e \in [ok : BOOLEAN, app : {app}, sender : {sender}, storage : SUBSET Slot, accounts : Contents] :
        /\ e.accounts[app] # None
        /\ \A a \in Addresses : e.accounts[a] # None => FromTrie(trie, a, e.accounts[a])}

\* ExecutionEnvironment::new: the application's own account, credited.
LEMMA EnvStarts ==
    ASSUME NEW trie \in Contents, NEW app \in Addresses, NEW sender \in Addresses, NEW value \in Nat,
           NEW storage \in SUBSET Slot
    PROVE  Env(trie, app, value, storage, sender) \in Envs(trie, app, sender)
<1> DEFINE acc == [AccountAt(trie, app) EXCEPT !.free = @ + value]
<1>1. acc \in Account /\ FromTrie(trie, app, acc)
  BY AccountTypes DEF Account, FromTrie
<1>2. acc # None
  BY <1>1, NoneIsNoAccount
<1> HIDE DEF acc
<1> DEFINE acs == [Untouched EXCEPT ![app] = acc]
<1>3. acs \in Contents
  BY <1>1 DEF Untouched, Contents
<1>4. acs[app] = acc /\ \A a \in Addresses : a # app => acs[a] = None
  BY DEF Untouched
<1>5. Env(trie, app, value, storage, sender)
      = [ok |-> TRUE, app |-> app, sender |-> sender, storage |-> storage, accounts |-> acs]
  BY Zenon DEF Env, acc
<1> HIDE DEF acs
<1>6. acs[app] # None /\ \A a \in Addresses : acs[a] # None => FromTrie(trie, a, acs[a])
  BY <1>1, <1>2, <1>4
<1> QED
  BY <1>3, <1>5, <1>6 DEF Envs

\* An account is put in the place of another that comes from the same place.
LEMMA EnvPut ==
    ASSUME NEW trie \in Contents, NEW app \in Addresses, NEW sender \in Addresses,
           NEW e \in Envs(trie, app, sender), NEW a \in Addresses, NEW x \in Account, FromTrie(trie, a, x)
    PROVE  /\ [e EXCEPT !.accounts[a] = x] \in Envs(trie, app, sender)
           /\ [e EXCEPT !.accounts[a] = x].accounts[a] = x
<1>1. x # None
  BY NoneIsNoAccount
<1> QED
  BY <1>1 DEF Envs, Contents

\* Moving money between the accounts of a call keeps nonces and applications.
LEMMA EnvMoney ==
    ASSUME NEW trie \in Contents, NEW app \in Addresses, NEW sender \in Addresses,
           NEW e \in Envs(trie, app, sender), NEW a \in Addresses, e.accounts[a] # None,
           NEW m \in Nat, NEW n \in Nat
    PROVE  /\ [e EXCEPT !.accounts[a].free = m] \in Envs(trie, app, sender)
           /\ [e EXCEPT !.accounts[a].free = m, !.accounts[a].reserve = n] \in Envs(trie, app, sender)
<1> DEFINE x == [e.accounts[a] EXCEPT !.free = m]
           y == [x EXCEPT !.reserve = n]
<1>1. e.accounts[a] \in Account /\ FromTrie(trie, a, e.accounts[a])
  BY DEF Envs, Contents
<1>2. x \in Account /\ FromTrie(trie, a, x) /\ y \in Account /\ FromTrie(trie, a, y)
  BY Zenon, <1>1 DEF Account, FromTrie
<1>3. [e EXCEPT !.accounts[a].free = m] = [e EXCEPT !.accounts[a] = x]
  BY DEF Envs, Contents
<1>4. [e EXCEPT !.accounts[a].free = m, !.accounts[a].reserve = n] = [e EXCEPT !.accounts[a] = y]
  BY Zenon DEF Envs, Contents
<1> HIDE DEF x, y
<1> QED
  BY <1>2, <1>3, <1>4, EnvPut

\* A look at an account through the environment.
LEMMA TouchEnvs ==
    ASSUME NEW trie \in Contents, NEW app \in Addresses, NEW sender \in Addresses,
           NEW e \in Envs(trie, app, sender), NEW a \in Addresses
    PROVE  /\ Touch(trie, e, a) \in Envs(trie, app, sender)
           /\ Touch(trie, e, a).accounts[a] # None
<1>1. AccountAt(trie, a) \in Account /\ FromTrie(trie, a, AccountAt(trie, a))
  BY AccountTypes DEF FromTrie
<1>2. CASE e.accounts[a] = None
  <2>1. Touch(trie, e, a) = [e EXCEPT !.accounts[a] = AccountAt(trie, a)]
    BY <1>2 DEF Touch
  <2> QED
    BY <1>1, <2>1, EnvPut, NoneIsNoAccount
<1>3. CASE e.accounts[a] # None
  <2>1. Touch(trie, e, a) = e
    BY <1>3 DEF Touch, Envs, Contents
  <2> QED
    BY <1>3, <2>1
<1> QED
  BY <1>2, <1>3

\* What is known of an environment.
LEMMA EnvFacts ==
    ASSUME NEW trie \in Contents, NEW app \in Addresses, NEW sender \in Addresses,
           NEW e \in Envs(trie, app, sender)
    PROVE  /\ e.app = app /\ e.sender = sender /\ e.accounts[app] # None
           /\ \A a \in Addresses : e.accounts[a] # None => e.accounts[a].free \in Nat /\ e.accounts[a].reserve \in Nat
           /\ Fail(e) \in Envs(trie, app, sender)
           /\ e.storage \in SUBSET Slot
           /\ \A st \in SUBSET Slot : [e EXCEPT !.storage = st] \in Envs(trie, app, sender)
<1>1. \A a \in Addresses : e.accounts[a] # None => e.accounts[a].free \in Nat /\ e.accounts[a].reserve \in Nat
  BY DEF Envs, Contents, Account
<1> QED
  BY Zenon, <1>1 DEF Envs, Fail

\* Syscall::transfer.
LEMMA TransferEnvs ==
    ASSUME NEW trie \in Contents, NEW app \in Addresses, NEW sender \in Addresses,
           NEW e \in Envs(trie, app, sender), NEW a \in Addresses, NEW n \in Nat
    PROVE  transfer(trie, e, a, n) \in Envs(trie, app, sender)
<1> DEFINE paid == [e EXCEPT !.accounts[e.app].free = @ - n]
           touched == Touch(trie, paid, a)
<1>1. CASE e.accounts[e.app].free - n > 0
  <2>1. e.accounts[app].free - n \in Nat
    BY <1>1, EnvFacts
  <2>2. paid = [e EXCEPT !.accounts[app].free = e.accounts[app].free - n]
    BY EnvFacts
  <2>3. paid \in Envs(trie, app, sender)
    <3> HIDE DEF paid
    <3>1. e.accounts[app] # None
      BY EnvFacts
    <3> QED
      BY Zenon, <2>1, <2>2, <3>1, EnvMoney
  <2> HIDE DEF paid
  <2>4. touched \in Envs(trie, app, sender) /\ touched.accounts[a] # None
    BY <2>3, TouchEnvs
  <2> HIDE DEF touched
  <2>5. touched.accounts[a].free + n \in Nat
    BY <2>4, EnvFacts
  <2>6. [touched EXCEPT !.accounts[a].free = @ + n] \in Envs(trie, app, sender)
    BY Zenon, <2>4, <2>5, EnvMoney
  <2> QED
    BY Zenon, <1>1, <2>6 DEF transfer, paid, touched
<1>2. CASE ~(e.accounts[e.app].free - n > 0)
  BY Zenon, <1>2, EnvFacts DEF transfer
<1> QED
  BY <1>1, <1>2

\* Syscall::reserve and unreserve.
LEMMA ReserveEnvs ==
    ASSUME NEW trie \in Contents, NEW app \in Addresses, NEW sender \in Addresses,
           NEW e \in Envs(trie, app, sender), NEW n \in Nat, e.accounts[sender] # None
    PROVE  reserve(e, n) \in Envs(trie, app, sender) /\ unreserve(e, n) \in Envs(trie, app, sender)
<1> DEFINE f == e.accounts[sender].free
           r == e.accounts[sender].reserve
<1>1. f \in Nat /\ r \in Nat
  BY EnvFacts
<1>2. ASSUME NEW m \in Nat, NEW k \in Nat
      PROVE  /\ [e EXCEPT !.accounts[sender].free = m, !.accounts[sender].reserve = k] \in Envs(trie, app, sender)
             /\ [e EXCEPT !.accounts[sender].reserve = k, !.accounts[sender].free = m] \in Envs(trie, app, sender)
  <2>1. [e EXCEPT !.accounts[sender].reserve = k, !.accounts[sender].free = m]
        = [e EXCEPT !.accounts[sender].free = m, !.accounts[sender].reserve = k]
    BY Zenon DEF Envs, Contents, Account
  <2> QED
    BY Zenon, <2>1, EnvMoney
<1>3. reserve(e, n) \in Envs(trie, app, sender)
  <2>1. CASE f - n > 0
    <3>1. f - n \in Nat /\ r + n \in Nat
      BY <1>1, <2>1
    <3>2. reserve(e, n) = [e EXCEPT !.accounts[sender].free = f - n, !.accounts[sender].reserve = r + n]
      BY Zenon, <2>1, EnvFacts DEF reserve, Envs, Contents, Account
    <3> HIDE DEF f, r
    <3> QED
      BY Zenon, <3>1, <3>2, <1>2
  <2>2. CASE ~(f - n > 0)
    <3>1. reserve(e, n) = Fail(e)
      BY <2>2, EnvFacts DEF reserve
    <3> QED
      BY <3>1, EnvFacts
  <2> QED
    BY <2>1, <2>2
<1>4. unreserve(e, n) \in Envs(trie, app, sender)
  <2>1. CASE r - n > 0
    <3>1. r - n \in Nat /\ f + n \in Nat
      BY <1>1, <2>1
    <3>2. unreserve(e, n) = [e EXCEPT !.accounts[sender].reserve = r - n, !.accounts[sender].free = f + n]
      BY Zenon, <2>1, EnvFacts DEF unreserve, Envs, Contents, Account
    <3> HIDE DEF f, r
    <3> QED
      BY Zenon, <3>1, <3>2, <1>2
  <2>2. CASE ~(r - n > 0)
    <3>1. unreserve(e, n) = Fail(e)
      BY <2>2, EnvFacts DEF unreserve
    <3> QED
      BY <3>1, EnvFacts
  <2> QED
    BY <2>1, <2>2
<1> QED
  BY <1>3, <1>4
\* Every host function leaves such an environment.
LEMMA HostCallEnvs ==
    ASSUME NEW trie \in Contents, NEW app \in Addresses, NEW sender \in Addresses,
           NEW e \in Envs(trie, app, sender), NEW c \in HostCalls
    PROVE  HostCall(trie, e, c) \in Envs(trie, app, sender)
<1> DEFINE E == Envs(trie, app, sender)
           touched == Touch(trie, e, e.sender)
<1>0. Fail(e) \in E /\ e.sender = sender /\ e.storage \in SUBSET Slot
  BY EnvFacts
<1>1. touched \in E /\ touched.accounts[sender] # None
  BY Zenon, <1>0, TouchEnvs
<1>2. \A st \in SUBSET Slot : [e EXCEPT !.storage = st] \in E
  BY Zenon, EnvFacts
<1> HIDE DEF E, touched
<1>4. CASE c.op = "transfer"
  <2>1. c.to \in Addresses /\ c.n \in Nat
    BY <1>4 DEF HostCalls
  <2>2. HostCall(trie, e, c) = transfer(trie, e, c.to, c.n)
    BY <1>4 DEF HostCall
  <2> QED
    BY Zenon, <2>1, <2>2, TransferEnvs
<1>5. CASE c.op \in {"reserve", "unreserve"}
  <2>1. c.n \in Nat
    BY <1>5 DEF HostCalls
  <2>2. reserve(touched, c.n) \in E /\ unreserve(touched, c.n) \in E
    BY Zenon, <1>1, <2>1, ReserveEnvs DEF E
  <2>3. HostCall(trie, e, c) \in {reserve(touched, c.n), unreserve(touched, c.n)}
    BY <1>5 DEF HostCall, touched
  <2> QED
    BY Zenon, <2>2, <2>3 DEF E
<1>6. CASE c.op = "balance"
  <2>1. c.of \in Addresses
    BY <1>6 DEF HostCalls
  <2>2. HostCall(trie, e, c) = Touch(trie, e, c.of)
    BY <1>6 DEF HostCall
  <2> QED
    BY Zenon, <2>1, <2>2, TouchEnvs
<1>7. CASE c.op \in {"insert", "remove", "claim"}
  <2>1. c.slot \in Slot
    BY <1>7 DEF HostCalls
  <2>2. e.storage \cup {c.slot} \in SUBSET Slot /\ e.storage \ {c.slot} \in SUBSET Slot
    BY Zenon, <1>0, <2>1
  <2>3. HostCall(trie, e, c) \in {[e EXCEPT !.storage = e.storage \cup {c.slot}],
                                  [e EXCEPT !.storage = e.storage \ {c.slot}], Fail(e)}
    BY <1>7 DEF HostCall, claim
  <2> QED
    BY Zenon, <1>0, <1>2, <2>2, <2>3 DEF E
<1>8. CASE c.op = "trap"
  <2>1. HostCall(trie, e, c) = Fail(e)
    BY <1>8 DEF HostCall
  <2> QED
    BY Zenon, <1>0, <2>1 DEF E
<1> QED
  BY <1>4, <1>5, <1>6, <1>7, <1>8 DEF HostCalls

\* So does a program.
LEMMA ExecuteEnvs ==
    ASSUME NEW trie \in Contents, NEW app \in Addresses, NEW sender \in Addresses,
           NEW env \in Envs(trie, app, sender), NEW program \in Seq(HostCalls)
    PROVE  Execute(trie, env, program) \in Envs(trie, app, sender)
<1> DEFINE n == Len(program)
           E == Envs(trie, app, sender)
           Go(e, i) == IF e.ok THEN HostCall(trie, e, program[i]) ELSE e
           step == [x \in E \X (1 .. n) |-> Go(x[1], x[2])]
           Body(f) == [i \in 0 .. n |-> IF i = 0 THEN env ELSE Go(f[i - 1], i)]
           run == CHOOSE f : f = Body(f)
<1>1. Execute(trie, env, program) = run[n]
  BY Zenon DEF Execute
<1>2. n \in Nat /\ \A i \in 1 .. n : program[i] \in HostCalls
  OBVIOUS
<1>3. \A e \in E : \A i \in 1 .. n : Go(e, i) \in E
  BY Zenon, <1>2, HostCallEnvs
<1>4. env \in E
  OBVIOUS
<1> HIDE DEF n, E, Go
<1>5. step \in StepsOf(E, n)
  BY Zenon, <1>3 DEF StepsOf
<1>6. PICK f : IsRun(f, E, env, n, step)
  <2> HIDE DEF step
  <2> QED
    BY Zenon, <1>2, <1>4, <1>5, Iterates
<1>7. \A i \in 1 .. n : f[i] = Go(f[i - 1], i)
  <2> SUFFICES ASSUME NEW i \in 1 .. n PROVE f[i] = Go(f[i - 1], i)
    OBVIOUS
  <2>1. f[i - 1] \in E
    BY <1>2, <1>6 DEF IsRun
  <2> QED
    BY Zenon, <1>6, <2>1 DEF IsRun
<1>8. f = Body(f)
  BY <1>2, <1>6, <1>7 DEF IsRun
<1>9. run = Body(run)
  BY <1>8, Zenon
<1> HIDE DEF run
<1>10. run[0] = env /\ \A i \in 1 .. n : run[i] = Go(run[i - 1], i)
  BY <1>2, <1>9
<1> DEFINE S == {i \in 0 .. n : run[i] \in E}
<1>11. 0 \in S
  BY <1>2, <1>4, <1>10
<1>12. \A i \in 1 .. n : i - 1 \in S => i \in S
  BY <1>2, <1>3, <1>10
<1> HIDE DEF S
<1>13. \A i \in 0 .. n : i \in S
  BY Zenon, <1>2, <1>11, <1>12, UpTo
<1> QED
  BY <1>1, <1>2, <1>13 DEF S, E

-----------------------------------------------------------------------------

\* A transaction finds its place among those of a block.
LEMMA InsertedType ==
    ASSUME NEW T, NEW s \in Seq(T), NEW t \in T
    PROVE  Inserted(s, t) \in Seq(T)
<1> DEFINE n == Len(s)
           Stops(k) == k = n + 1 \/ ~Before(s[k], t)
           Places == {k \in 1 .. n + 1 : Stops(k)}
           Place(k) == Stops(k) /\ \A i \in 1 .. k - 1 : Before(s[i], t)
           place == CHOOSE k \in 1 .. n + 1 : Place(k)
<1>1. n \in Nat
  OBVIOUS
<1> HIDE DEF n
<1>2. PICK k \in Places : \A i \in Places : k <= i
  <2>1. Places \in SUBSET Nat /\ n + 1 \in Places
    BY <1>1
  <2> HIDE DEF Places
  <2> QED
    BY Zenon, <2>1, LeastNat
<1>3. k \in 1 .. n + 1 /\ Place(k)
  BY <1>1, <1>2
<1>4. place \in 1 .. n + 1
  BY Zenon, <1>3
<1> HIDE DEF place
<1>5. SubSeq(s, 1, place - 1) \in Seq(T) /\ SubSeq(s, place, n) \in Seq(T)
  BY <1>1, <1>4 DEF n
<1>6. SubSeq(s, 1, place - 1) \o <<t>> \o SubSeq(s, place, n) \in Seq(T)
  <2> DEFINE low == SubSeq(s, 1, place - 1)
             high == SubSeq(s, place, n)
  <2> HIDE DEF low, high
  <2> QED
    BY <1>5 DEF low, high
<1> QED
  BY Zenon, <1>6 DEF Inserted, place, n

\* What is executed is among what the block holds.
LEMMA OrderType ==
    ASSUME NEW T, NEW txs \in Seq(T)
    PROVE  ExecutionOrder(txs) \in Seq(T)
<1> DEFINE n == Len(txs)
           C == Seq(T)
           step == [x \in C \X (1 .. n) |-> Inserted(x[1], txs[x[2]])]
           Body(f) == [i \in 0 .. n |-> IF i = 0 THEN <<>> ELSE Inserted(f[i - 1], txs[i])]
           order == CHOOSE f : f = Body(f)
<1>1. ExecutionOrder(txs) = order[n]
  BY Zenon DEF ExecutionOrder
<1>2. n \in Nat /\ \A i \in 1 .. n : txs[i] \in T
  OBVIOUS
<1>3. \A q \in C : \A i \in 1 .. n : Inserted(q, txs[i]) \in C
  BY Zenon, <1>2, InsertedType
<1>4. <<>> \in C
  OBVIOUS
<1> HIDE DEF n, C
<1>5. step \in StepsOf(C, n)
  BY Zenon, <1>3 DEF StepsOf
<1>6. PICK f : IsRun(f, C, <<>>, n, step)
  <2> HIDE DEF step
  <2> QED
    BY Zenon, <1>2, <1>4, <1>5, Iterates
<1>7. \A i \in 1 .. n : f[i] = Inserted(f[i - 1], txs[i])
  <2> SUFFICES ASSUME NEW i \in 1 .. n PROVE f[i] = Inserted(f[i - 1], txs[i])
    OBVIOUS
  <2>1. f[i - 1] \in C
    BY <1>2, <1>6 DEF IsRun
  <2> QED
    BY Zenon, <1>6, <2>1 DEF IsRun
<1>8. f = Body(f)
  BY <1>2, <1>6, <1>7 DEF IsRun
<1>9. order = Body(order)
  BY <1>8, Zenon
<1> HIDE DEF order
<1>10. order[0] = <<>> /\ \A i \in 1 .. n : order[i] = Inserted(order[i - 1], txs[i])
  BY <1>2, <1>9
<1> DEFINE S == {i \in 0 .. n : order[i] \in C}
<1>11. 0 \in S
  BY <1>2, <1>4, <1>10
<1>12. \A i \in 1 .. n : i - 1 \in S => i \in S
  BY <1>2, <1>3, <1>10
<1> HIDE DEF S
<1>13. \A i \in 0 .. n : i \in S
  BY Zenon, <1>2, <1>11, <1>12, UpTo
<1> QED
  BY <1>1, <1>2, <1>13 DEF S, C

-----------------------------------------------------------------------------
(* What every run keeps.  A context is what a run starts from: the trie it *)
(* reads, the accounts it names, the stores and the cache it found, and a  *)
(* nonce for each account below which no account can fall.                 *)

Stores == SUBSET (Addresses \X SUBSET Slot)

Runs ==
    [st : {"ok", "err", "panic"}, appdata : Stores, metadata : SUBSET Code, apps : Caches,
     states : Contents]

\* An application has its storage and its code in the stores.
OnDisk(a, x, stored, codes) ==
    x.app # NoApp => <<a, x.app.root>> \in stored /\ x.app.code \in codes

Complete(trie, stored, codes) ==
    \A a \in Addresses : trie[a] # None => OnDisk(a, trie[a], stored, codes)

Contexts ==
    {c \in [trie : Contents, named : SUBSET Addresses, stored : Stores, codes : SUBSET Code,
            loaded : Caches, floor : [Addresses -> Nat]] :
        /\ Complete(c.trie, c.stored, c.codes)
        /\ HasApp(c.trie, Registry)
        /\ \A a \in Addresses : c.floor[a] <= AccountAt(c.trie, a).nonce}

\* The cache changes only where it had nothing, to the code of the trie.
Grown(trie, a, before, after) ==
    after = before \/ (before = None /\ after = [code |-> trie[a].app.code])

Fits(c, r, a, x) ==
    /\ x.nonce >= c.floor[a]
    /\ OnDisk(a, x, r.appdata, r.metadata)
    /\ a = Registry => x.app # NoApp

Good(c) ==
    {r \in Runs :
        /\ c.stored \subseteq r.appdata
        /\ c.codes \subseteq r.metadata
        /\ \A a \in c.named : r.states[a] # None
        /\ \A a \in Addresses : Grown(c.trie, a, c.loaded[a], r.apps[a])
        /\ \A a \in Addresses : r.states[a] # None => Fits(c, r, a, r.states[a])}

\* An account that fits may be put among the changes.
LEMMA GoodPut ==
    ASSUME NEW c, NEW r \in Good(c), NEW a \in Addresses, NEW x \in Account, Fits(c, r, a, x)
    PROVE  /\ [r EXCEPT !.states[a] = x] \in Good(c)
           /\ [r EXCEPT !.states[a] = x].states[a] = x
<1> DEFINE states == [r.states EXCEPT ![a] = x]
           new == [r EXCEPT !.states = states]
<1>1. r \in Runs /\ r.states \in Contents
  BY Zenon DEF Good, Runs
<1>2. x # None
  BY Zenon, NoneIsNoAccount
<1>3. states \in Contents
  BY <1>1 DEF Contents
<1>4. \A b \in Addresses : states[b] = IF b = a THEN x ELSE r.states[b]
  BY <1>1 DEF Contents
<1>5. [r EXCEPT !.states[a] = x] = new
  BY Zenon, <1>1 DEF Runs
<1> HIDE DEF states
<1>6. /\ new.states = states /\ new.appdata = r.appdata /\ new.metadata = r.metadata
      /\ new.apps = r.apps /\ new \in Runs
  BY <1>1, <1>3 DEF Runs
<1> HIDE DEF new
<1>7. \A b \in Addresses : states[b] # None => Fits(c, new, b, states[b])
  <2> SUFFICES ASSUME NEW b \in Addresses, states[b] # None PROVE Fits(c, new, b, states[b])
    OBVIOUS
  <2>1. CASE b = a
    BY Zenon, <1>4, <1>6, <2>1 DEF Fits
  <2>2. CASE b # a
    <3>1. states[b] = r.states[b]
      BY Zenon, <1>4, <2>2
    <3>2. Fits(c, r, b, r.states[b])
      BY Zenon, <3>1 DEF Good
    <3> QED
      BY Zenon, <1>6, <3>1, <3>2 DEF Fits
  <2> QED
    BY Zenon, <2>1, <2>2
<1>8. \A b \in c.named : states[b] # None
  <2>1. \A b \in c.named : r.states[b] # None
    BY Zenon DEF Good
  <2> QED
    BY <1>1, <1>2, <2>1 DEF states, Contents
<1>9. c.stored \subseteq r.appdata /\ c.codes \subseteq r.metadata
      /\ \A b \in Addresses : Grown(c.trie, b, c.loaded[b], r.apps[b])
  BY Zenon DEF Good
<1> QED
  BY Zenon, <1>4, <1>5, <1>6, <1>7, <1>8, <1>9 DEF Good

\* The stores grow, the cache is loaded from the trie, the run ends.
LEMMA GoodStores ==
    ASSUME NEW c, NEW r \in Good(c), NEW D \in Stores, NEW M \in SUBSET Code,
           r.appdata \subseteq D, r.metadata \subseteq M
    PROVE  [r EXCEPT !.appdata = D, !.metadata = M] \in Good(c)
<1> DEFINE new == [r EXCEPT !.appdata = D, !.metadata = M]
<1>1. r \in Runs
  BY Zenon DEF Good
<1>2. /\ new.states = r.states /\ new.appdata = D /\ new.metadata = M
      /\ new.apps = r.apps /\ new \in Runs
  BY Zenon, <1>1 DEF Runs
<1> HIDE DEF new
<1>3. ASSUME NEW b \in Addresses, r.states[b] # None PROVE Fits(c, new, b, r.states[b])
  <2>1. Fits(c, r, b, r.states[b])
    BY Zenon, <1>3 DEF Good
  <2> QED
    BY Zenon, <1>2, <2>1 DEF Fits, OnDisk
<1>4. c.stored \subseteq D /\ c.codes \subseteq M
  BY Zenon DEF Good
<1>5. new \in Good(c)
  BY Zenon, <1>2, <1>3, <1>4 DEF Good
<1> QED
  BY Zenon, <1>5 DEF new

\* Errors and panics keep what was done so far.
LEMMA GoodStop ==
    ASSUME NEW c, NEW r \in Good(c), NEW st \in {"ok", "err", "panic"}
    PROVE  Stop(r, st) \in Good(c)
<1>1. r \in Runs
  BY Zenon DEF Good
<1>2. /\ Stop(r, st).states = r.states /\ Stop(r, st).appdata = r.appdata /\ Stop(r, st).metadata = r.metadata
      /\ Stop(r, st).apps = r.apps /\ Stop(r, st) \in Runs
  BY <1>1 DEF Runs, Stop
<1>3. ASSUME NEW b \in Addresses, r.states[b] # None PROVE Fits(c, Stop(r, st), b, r.states[b])
  BY Zenon, <1>2, <1>3 DEF Good, Fits
<1> QED
  BY Zenon, <1>2, <1>3 DEF Good

\* load_application fills the cache with the code the trie names.
LEMMA GoodLoad ==
    ASSUME NEW c \in Contexts, NEW r \in Good(c), NEW app \in Addresses, HasApp(c.trie, app)
    PROVE  /\ load_application(c.trie, r, app) \in Good(c)
           /\ load_application(c.trie, r, app).apps[app] \in [code : Code]
           /\ load_application(c.trie, r, app).appdata = r.appdata
<1> DEFINE found == [code |-> c.trie[app].app.code]
           cache == [r.apps EXCEPT ![app] = IF @ = None THEN found ELSE @]
           new == [r EXCEPT !.apps = cache]
<1>1. r \in Runs /\ r.apps \in Caches /\ \A b \in Addresses : Grown(c.trie, b, c.loaded[b], r.apps[b])
  BY Zenon DEF Good, Runs
<1>2. c.trie \in Contents
  BY Zenon DEF Contexts
<1>3. found \in [code : Code]
  BY <1>2 DEF HasApp, Contents, Account
<1>4. load_application(c.trie, r, app) = new
  BY Zenon, <1>1 DEF load_application, Runs
<1> HIDE DEF found
<1>5. cache \in Caches /\ cache[app] \in [code : Code]
  BY <1>1, <1>3 DEF Caches
<1>6. ASSUME NEW b \in Addresses PROVE Grown(c.trie, b, c.loaded[b], cache[b])
  <2>1. Grown(c.trie, b, c.loaded[b], r.apps[b])
    BY Zenon, <1>1
  <2>2. cache[b] = IF b = app /\ r.apps[b] = None THEN found ELSE r.apps[b]
    BY <1>1 DEF Caches
  <2>3. CASE b = app /\ r.apps[b] = None
    <3>1. c.loaded[b] = None
      <4>1. [code |-> c.trie[b].app.code] # None
        BY DEF None
      <4> QED
        BY Zenon, <2>1, <2>3, <4>1 DEF Grown
    <3> QED
      BY Zenon, <2>2, <2>3, <3>1 DEF Grown, found
  <2>4. CASE ~(b = app /\ r.apps[b] = None)
    BY Zenon, <2>1, <2>2, <2>4
  <2> QED
    BY Zenon, <2>3, <2>4
<1> HIDE DEF cache
<1>7. /\ new.states = r.states /\ new.appdata = r.appdata /\ new.metadata = r.metadata
      /\ new.apps = cache /\ new \in Runs
  BY <1>1, <1>5 DEF Runs
<1> HIDE DEF new
<1>8. ASSUME NEW b \in Addresses, r.states[b] # None PROVE Fits(c, new, b, r.states[b])
  BY Zenon, <1>7, <1>8 DEF Good, Fits
<1> QED
  BY Zenon, <1>4, <1>5, <1>6, <1>7, <1>8 DEF Good

\* A call's accounts come from the trie, which fits.
LEMMA TrieFits ==
    ASSUME NEW c \in Contexts, NEW r \in Good(c), NEW a \in Addresses, NEW x, FromTrie(c.trie, a, x)
    PROVE  Fits(c, r, a, x)
<1>1. /\ Complete(c.trie, c.stored, c.codes) /\ c.stored \subseteq r.appdata /\ c.codes \subseteq r.metadata
      /\ c.floor[a] <= AccountAt(c.trie, a).nonce
      /\ c.trie \in Contents /\ c.floor[a] \in Nat
  BY Zenon DEF Contexts, Good
<1>2. AccountAt(c.trie, a).nonce \in Nat
  BY <1>1, AccountTypes DEF Account
<1>3. x.nonce >= c.floor[a]
  BY <1>1, <1>2 DEF FromTrie
<1>0. a = Registry => c.trie[a] # None /\ c.trie[a].app # NoApp
  BY Zenon DEF Contexts, HasApp
<1>4. CASE c.trie[a] = None
  BY <1>0, <1>3, <1>4 DEF FromTrie, AccountAt, AccountState_new, OnDisk, Fits
<1>5. CASE c.trie[a] # None
  <2>1. x.app = c.trie[a].app
    BY Zenon, <1>5 DEF FromTrie, AccountAt
  <2>2. OnDisk(a, c.trie[a], c.stored, c.codes)
    BY Zenon, <1>1, <1>5 DEF Complete
  <2>3. OnDisk(a, x, r.appdata, r.metadata)
    BY Zenon, <1>1, <2>1, <2>2 DEF OnDisk
  <2> QED
    BY Zenon, <1>0, <1>3, <2>1, <2>3 DEF Fits
<1> QED
  BY Zenon, <1>4, <1>5

\* The changelist of a call comes from the trie and fits.
LEMMA GoodChanges ==
    ASSUME NEW c \in Contexts, NEW r \in Good(c), NEW app \in Addresses, NEW sender \in Addresses,
           NEW env \in Envs(c.trie, app, sender)
    PROVE  /\ ApplyChanges(r, env) \in Good(c)
           /\ ApplyChanges(r, env).states[app] # None
           /\ ApplyChanges(r, env).appdata = r.appdata
           /\ ApplyChanges(r, env).metadata = r.metadata
<1> DEFINE states == Over(env.accounts, r.states)
           new == [r EXCEPT !.states = states]
<1>1. r \in Runs /\ r.states \in Contents
  BY Zenon DEF Good, Runs
<1>2. env.accounts \in Contents /\ env.accounts[app] # None
      /\ \A a \in Addresses : env.accounts[a] # None => FromTrie(c.trie, a, env.accounts[a])
  BY DEF Envs
<1>3. states \in Contents /\ \A a \in Addresses : states[a] = IF env.accounts[a] = None THEN r.states[a] ELSE env.accounts[a]
  BY <1>1, <1>2 DEF Over, Contents
<1>4. ApplyChanges(r, env) = new
  BY Zenon DEF ApplyChanges
<1> HIDE DEF states
<1>5. /\ new.states = states /\ new.appdata = r.appdata /\ new.metadata = r.metadata
      /\ new.apps = r.apps /\ new \in Runs
  BY <1>1, <1>3 DEF Runs
<1> HIDE DEF new
<1>6. ASSUME NEW b \in Addresses, states[b] # None PROVE Fits(c, new, b, states[b])
  <2>1. Fits(c, r, b, states[b])
    <3>1. CASE env.accounts[b] = None
      BY Zenon, <1>3, <1>6, <3>1 DEF Good
    <3>2. CASE env.accounts[b] # None
      BY Zenon, <1>2, <1>3, <3>2, TrieFits
    <3> QED
      BY Zenon, <3>1, <3>2
  <2> QED
    BY Zenon, <1>5, <2>1 DEF Fits
<1>7. \A b \in c.named : states[b] # None
  <2>1. \A b \in c.named : b \in Addresses /\ r.states[b] # None
    BY Zenon DEF Good, Contexts
  <2> QED
    BY Zenon, <1>3, <2>1
<1>8. states[app] # None
  BY Zenon, <1>2, <1>3
<1>9. c.stored \subseteq r.appdata /\ c.codes \subseteq r.metadata
      /\ \A b \in Addresses : Grown(c.trie, b, c.loaded[b], r.apps[b])
  BY Zenon DEF Good
<1> QED
  BY Zenon, <1>4, <1>5, <1>6, <1>7, <1>8, <1>9 DEF Good

\* The new storage is put into the app data store with the account.
LEMMA GoodSave ==
    ASSUME NEW c \in Contexts, NEW r \in Good(c), NEW app \in Addresses, NEW storage \in SUBSET Slot,
           r.states[app] # None
    PROVE  SaveStorage(r, app, storage) \in Good(c)
<1> DEFINE x == r.states[app]
           y == [x EXCEPT !.app.root = storage]
           D == r.appdata \cup {<<app, storage>>}
           s == [r EXCEPT !.appdata = D, !.metadata = r.metadata]
<1>1. r \in Runs /\ x \in Account /\ Fits(c, r, app, x)
  <2>1. r \in Runs /\ r.states \in Contents
    BY Zenon DEF Good, Runs
  <2> QED
    BY Zenon, <2>1 DEF Good, Contents
<1>2. CASE x.app = NoApp
  <2>1. SaveStorage(r, app, storage) = Stop(r, "err")
    BY Zenon, <1>2 DEF SaveStorage
  <2> QED
    BY <2>1, GoodStop
<1>3. CASE x.app # NoApp
  <2>1. /\ y \in Account /\ y.nonce = x.nonce /\ y.app.root = storage /\ y.app.code = x.app.code
        /\ y.app # NoApp
    BY Zenon, <1>1, <1>3 DEF Account, NoApp
  <2>2. D \in Stores /\ r.metadata \in SUBSET Code
    BY <1>1 DEF Stores, Runs
  <2>3. s \in Good(c) /\ s.appdata = D /\ s.metadata = r.metadata /\ s.states = r.states
    <3>1. s \in Good(c)
      <4> HIDE DEF D
      <4>1. r.appdata \subseteq D
        BY Zenon DEF D
      <4> QED
        BY Zenon, <2>2, <4>1, GoodStores
    <3> QED
      BY <1>1, <3>1 DEF Runs
  <2>4. Fits(c, s, app, y)
    <3>1. <<app, storage>> \in s.appdata
      BY Zenon, <2>3
    <3> HIDE DEF y, s
    <3> QED
      BY Zenon, <1>1, <1>3, <2>1, <2>3, <3>1 DEF Fits, OnDisk
  <2>5. SaveStorage(r, app, storage) = [s EXCEPT !.states[app] = y]
    <3> DEFINE states == [r.states EXCEPT ![app] = y]
    <3>1. SaveStorage(r, app, storage) = [r EXCEPT !.states = states, !.appdata = D]
      BY Zenon, <1>3 DEF SaveStorage
    <3> HIDE DEF states, D
    <3>2. [r EXCEPT !.states = states, !.appdata = D] = [s EXCEPT !.states = states]
      BY Zenon, <1>1 DEF Runs
    <3>3. [s EXCEPT !.states = states] = [s EXCEPT !.states[app] = y]
      BY Zenon, <2>3 DEF states
    <3> QED
      BY Zenon, <3>1, <3>2, <3>3
  <2> HIDE DEF s, y
  <2> QED
    BY <2>1, <2>3, <2>4, <2>5, GoodPut
<1> QED
  BY Zenon, <1>2, <1>3

-----------------------------------------------------------------------------
(* One transaction *)

\* What runs is the code in the cache, on the storage that is on disk.
CallEnv(trie, r, sender, value, app, method) ==
    Execute(trie, Env(trie, app, value, AppData(trie, r.appdata, app), sender),
            Program[<<r.apps[app].code, method>>])

\* A call ends in an environment of its application.
LEMMA CallEnvs ==
    ASSUME NEW c \in Contexts, NEW r, NEW sender \in Addresses, NEW value \in Nat, NEW app \in Addresses,
           NEW method \in Method, HasApp(c.trie, app), r.apps[app] \in [code : Code]
    PROVE  CallEnv(c.trie, r, sender, value, app, method) \in Envs(c.trie, app, sender)
<1> DEFINE storage == AppData(c.trie, r.appdata, app)
           start == Env(c.trie, app, value, storage, sender)
           program == Program[<<r.apps[app].code, method>>]
<1>1. c.trie \in Contents
  BY Zenon DEF Contexts
<1>2. storage \in SUBSET Slot
  BY <1>1 DEF AppData, HasApp, Contents, Account
<1>3. program \in Seq(HostCalls)
  BY CodeAssumption
<1>4. CallEnv(c.trie, r, sender, value, app, method) = Execute(c.trie, start, program)
  BY Zenon DEF CallEnv
<1> HIDE DEF storage
<1>5. start \in Envs(c.trie, app, sender)
  BY Zenon, <1>1, <1>2, EnvStarts
<1> HIDE DEF program, start
<1> QED
  BY Zenon, <1>1, <1>3, <1>4, <1>5, ExecuteEnvs

\* A call of an application, found or not, failing or not.
LEMMA CallIsGood ==
    ASSUME NEW c \in Contexts, NEW r \in Good(c), NEW sender \in Addresses, NEW value \in Nat,
           NEW app \in Addresses, NEW method \in Method
    PROVE  ExecuteCall(c.trie, r, sender, value, app, method) \in Good(c)
<1> DEFINE runs == /\ HasApp(c.trie, app)
                   /\ r.apps[app] # None \/ c.trie[app].app.code \in r.metadata
           l == load_application(c.trie, r, app)
           env == CallEnv(c.trie, l, sender, value, app, method)
<1>1. CASE ~runs
  <2>1. ExecuteCall(c.trie, r, sender, value, app, method) = Stop(r, "err")
    BY Zenon, <1>1 DEF ExecuteCall
  <2> QED
    BY <2>1, GoodStop
<1>2. CASE runs
  <2>1. ExecuteCall(c.trie, r, sender, value, app, method) = AfterCall(l, app, env)
    BY Zenon, <1>2 DEF ExecuteCall, CallLoaded, CallEnv
  <2>2. l \in Good(c) /\ l.apps[app] \in [code : Code]
    BY Zenon, <1>2, GoodLoad
  <2> HIDE DEF l
  <2>7. env \in Envs(c.trie, app, sender)
    BY <1>2, <2>2, CallEnvs
  <2> HIDE DEF env
  <2>8. CASE env.ok
    <3>1. ApplyChanges(l, env) \in Good(c) /\ ApplyChanges(l, env).states[app] # None
      BY Zenon, <2>2, <2>7, GoodChanges
    <3>2. env.storage \in SUBSET Slot
      BY <2>7 DEF Envs
    <3>3. SaveStorage(ApplyChanges(l, env), app, env.storage) \in Good(c)
      BY Zenon, <3>1, <3>2, GoodSave
    <3> QED
      BY Zenon, <2>1, <2>8, <3>3 DEF AfterCall
  <2>9. CASE ~env.ok
    <3>1. Stop(l, "err") \in Good(c)
      BY <2>2, GoodStop
    <3> QED
      BY Zenon, <2>1, <2>9, <3>1 DEF AfterCall
  <2> QED
    BY Zenon, <2>8, <2>9
<1> QED
  BY Zenon, <1>1, <1>2

\* What a transaction of a block names.
LEMMA TransactionFacts ==
    ASSUME NEW t \in Transactions
    PROVE  /\ t.from \in Addresses /\ to(t) \in Addresses
           /\ t.price \in Nat /\ t.fees \in Nat /\ t.nonce \in Nat
           /\ t.kind \in {"payment", "call", "create", "update", "raw"}
           /\ t.kind = "call" => t.method \in Method
           /\ t.kind = "create" => t.package \in DOMAIN AppOf /\ t.code \in Code
<1>1. CASE t \in [kind : {"payment"}, from : Addresses, dest : Addresses, price : Nat, fees : Nat, nonce : Nat]
  BY <1>1 DEF to
<1>2. CASE t \in [kind : {"call"}, from : Addresses, app : Addresses, price : Nat, fees : Nat, nonce : Nat,
                  method : Method]
  BY <1>2 DEF to
<1>3. CASE t \in [kind : {"create"}, from : Addresses, package : DOMAIN AppOf, code : Code, price : Nat,
                  fees : Nat, nonce : Nat]
  BY <1>3, AddressAssumption DEF to
<1>4. CASE t \in [kind : {"update", "raw"}, from : Addresses, app : Addresses, price : Nat, fees : Nat, nonce : Nat]
  BY <1>4, AddressAssumption DEF to
<1> QED
  BY Zenon, <1>1, <1>2, <1>3, <1>4 DEF Transactions

\* What is known of an account among the changes.
LEMMA GoodAccount ==
    ASSUME NEW c, NEW r \in Good(c), NEW a \in Addresses, r.states[a] # None
    PROVE  /\ r \in Runs /\ r.states[a] \in Account /\ Fits(c, r, a, r.states[a])
           /\ r.states[a].free \in Nat /\ r.states[a].reserve \in Nat /\ r.states[a].nonce \in Nat
<1>1. r \in Runs /\ r.states \in Contents
  BY Zenon DEF Good, Runs
<1>2. r.states[a] \in Account /\ Fits(c, r, a, r.states[a])
  BY Zenon, <1>1 DEF Good, Contents
<1> QED
  BY <1>1, <1>2 DEF Account

\* Only the balance of an account changes.
LEMMA GoodFree ==
    ASSUME NEW c, NEW r \in Good(c), NEW a \in Addresses, r.states[a] # None, NEW m \in Nat
    PROVE  /\ [r EXCEPT !.states[a].free = m] \in Good(c)
           /\ [r EXCEPT !.states[a].free = m].states[a].free = m
           /\ \A b \in Addresses : r.states[b] # None => [r EXCEPT !.states[a].free = m].states[b] # None
<1> DEFINE x == r.states[a]
           y == [x EXCEPT !.free = m]
           new == [r EXCEPT !.states[a] = y]
<1>1. r \in Runs /\ x \in Account /\ Fits(c, r, a, x)
  BY Zenon, GoodAccount
<1>2. y \in Account /\ y.app = x.app /\ y.nonce = x.nonce /\ y.free = m
  BY <1>1 DEF Account
<1>3. Fits(c, r, a, y)
  BY Zenon, <1>1, <1>2 DEF Fits, OnDisk
<1>4. [r EXCEPT !.states[a].free = m] = new
  BY Zenon, <1>1 DEF Runs
<1> HIDE DEF y
<1>5. new \in Good(c) /\ new.states[a] = y
  BY <1>2, <1>3, GoodPut
<1>6. \A b \in Addresses : b # a => new.states[b] = r.states[b]
  BY <1>1 DEF Runs, Contents
<1>7. y # None
  BY <1>2, NoneIsNoAccount
<1> HIDE DEF new
<1> QED
  BY Zenon, <1>2, <1>4, <1>5, <1>6, <1>7

\* execute_payment_tx.
LEMMA PaymentIsGood ==
    ASSUME NEW c \in Contexts, NEW r \in Good(c), NEW t \in Transactions,
           t.from \in c.named, to(t) \in c.named
    PROVE  execute_payment_tx(r, t) \in Good(c)
<1> DEFINE paid == r.states[t.from].free - (t.price + t.fees)
           s == [r EXCEPT !.states[t.from].free = paid]
<1>0. /\ r.states[t.from] # None /\ r.states[to(t)] # None /\ t.from \in Addresses /\ to(t) \in Addresses
      /\ r.states[t.from].free \in Nat /\ t.price \in Nat /\ t.fees \in Nat
  BY Zenon, TransactionFacts, GoodAccount DEF Good
<1>1. CASE r.states[t.from].free < t.price + t.fees
  <2>1. execute_payment_tx(r, t) = Stop(r, "err")
    BY Zenon, <1>1 DEF execute_payment_tx
  <2> QED
    BY <2>1, GoodStop
<1>2. CASE ~(r.states[t.from].free < t.price + t.fees)
  <2>1. paid \in Nat
    BY <1>0, <1>2
  <2>2. execute_payment_tx(r, t) = [s EXCEPT !.states[to(t)].free = @ + t.price]
    BY Zenon, <1>2 DEF execute_payment_tx
  <2> HIDE DEF paid
  <2>3. s \in Good(c) /\ s.states[to(t)] # None
    <3>1. t.from \in Addresses /\ r.states[t.from] # None
      BY Zenon, <1>0
    <3>2. s \in Good(c) /\ \A b \in Addresses : r.states[b] # None => s.states[b] # None
      BY <2>1, <3>1, GoodFree
    <3> QED
      BY Zenon, <1>0, <3>2
  <2> HIDE DEF s
  <2>4. s.states[to(t)].free + t.price \in Nat
    BY <1>0, <2>3, GoodAccount
  <2> QED
    BY <1>0, <2>2, <2>3, <2>4, GoodFree
<1> QED
  BY Zenon, <1>1, <1>2

\* A creation: the name is registered, the application runs once and is stored with its code.
LEMMA CreateIsGood ==
    ASSUME NEW c \in Contexts, NEW r \in Good(c), NEW t \in Transactions, t.kind = "create",
           to(t) \in c.named
    PROVE  ExecuteCreate(c.trie, r, t) \in Good(c)
<1> DEFINE s == register_namespace(c.trie, r, t)
           seed == SeedOf[t.package]
           start == Env(c.trie, seed, t.price, {}, t.from)
           program == Program[<<t.code, <<"genesis">>>>]
           env == Execute(c.trie, start, program)
<1>0. /\ t.from \in Addresses /\ to(t) \in Addresses /\ seed \in Addresses /\ t.price \in Nat /\ t.code \in Code
      /\ <<"register", OrgOf[t.package]>> \in Method /\ c.trie \in Contents /\ Zero \in Addresses /\ Registry \in Addresses
  BY Zenon, TransactionFacts, AddressAssumption, CodeAssumption DEF Contexts
<1>1. s \in Good(c)
  <2>1. 0 \in Nat
    OBVIOUS
  <2> QED
    BY Zenon, <1>0, <2>1, CallIsGood DEF register_namespace
<1>2. program \in Seq(HostCalls)
  BY <1>0, CodeAssumption
<1>3. start \in Envs(c.trie, seed, t.from)
  <2>1. {} \in SUBSET Slot
    OBVIOUS
  <2> HIDE DEF seed
  <2> QED
    BY Zenon, <1>0, <2>1, EnvStarts
<1> HIDE DEF s, program, start, seed
<1>4. env \in Envs(c.trie, seed, t.from)
  BY Zenon, <1>0, <1>2, <1>3, ExecuteEnvs
<1>5. env.storage \in SUBSET Slot
  BY <1>4 DEF Envs
<1> HIDE DEF env
<1>6. AfterCreate(s, t, env) \in Good(c)
  <2> DEFINE q == ApplyChanges(s, env)
             D == q.appdata \cup {<<to(t), env.storage>>}
             M == q.metadata \cup {t.code}
             w == [q EXCEPT !.appdata = D, !.metadata = M]
             x == q.states[to(t)]
             y == [x EXCEPT !.app = [root |-> env.storage, code |-> t.code]]
             states == [q.states EXCEPT ![to(t)] = y]
  <2>1. CASE ~env.ok
    <3>1. Stop(s, "err") \in Good(c)
      BY <1>1, GoodStop
    <3> QED
      BY Zenon, <2>1, <3>1 DEF AfterCreate
  <2>2. CASE env.ok
    <3>1. q \in Good(c)
      BY Zenon, <1>0, <1>1, <1>4, GoodChanges
    <3>2. AfterCreate(s, t, env) = [q EXCEPT !.states = states, !.metadata = M, !.appdata = D]
      BY Zenon, <2>2 DEF AfterCreate
    <3> HIDE DEF q
    <3>3. q \in Runs /\ x \in Account /\ Fits(c, q, to(t), x)
      <4>1. q.states[to(t)] # None
        BY Zenon, <3>1 DEF Good
      <4> QED
        BY Zenon, <1>0, <3>1, <4>1, GoodAccount
    <3>4. D \in Stores /\ M \in SUBSET Code /\ q.appdata \subseteq D /\ q.metadata \subseteq M
      BY <1>0, <1>5, <3>3 DEF Runs, Stores
    <3>5. /\ y \in Account /\ y.nonce = x.nonce /\ y.app.root = env.storage /\ y.app.code = t.code
          /\ y.app # NoApp
      BY <1>0, <1>5, <3>3 DEF Account, NoApp
    <3>6. <<to(t), env.storage>> \in D /\ t.code \in M
      OBVIOUS
    <3> HIDE DEF D, M, y
    <3>7. w \in Good(c)
      BY Zenon, <3>1, <3>4, GoodStores
    <3>8. w.appdata = D /\ w.metadata = M /\ w.states = q.states
      BY <3>3 DEF Runs
    <3>9. Fits(c, w, to(t), y)
      <4> HIDE DEF x, w
      <4> QED
        BY Zenon, <3>3, <3>5, <3>6, <3>8 DEF Fits, OnDisk
    <3>10. [w EXCEPT !.states[to(t)] = y] \in Good(c)
      <4> HIDE DEF w
      <4> QED
        BY Zenon, <1>0, <3>5, <3>7, <3>9, GoodPut
    <3>11. [w EXCEPT !.states[to(t)] = y] = [w EXCEPT !.states = states]
      <4> HIDE DEF w
      <4> QED
        BY Zenon, <3>8
    <3> HIDE DEF states
    <3>12. [q EXCEPT !.states = states, !.metadata = M, !.appdata = D] = [w EXCEPT !.states = states]
      BY Zenon, <3>3 DEF Runs
    <3> HIDE DEF w
    <3> QED
      BY Zenon, <3>2, <3>10, <3>11, <3>12
  <2> QED
    BY Zenon, <2>1, <2>2
<1>7. ExecuteCreate(c.trie, r, t) \in {Stop(r, "err"), AfterCreate(s, t, env), s}
  BY Zenon DEF ExecuteCreate, execute_app_create, s, env, start, program, seed
<1>8. Stop(r, "err") \in Good(c)
  BY GoodStop
<1> QED
  BY Zenon, <1>1, <1>6, <1>7, <1>8

\* The nonce of the sender moves up.
LEMMA BumpIsGood ==
    ASSUME NEW c \in Contexts, NEW r \in Good(c), NEW t \in Transactions, t.from \in c.named
    PROVE  BumpNonce(r, t) \in Good(c)
<1> DEFINE x == r.states[t.from]
           n == (IF t.nonce > x.nonce THEN t.nonce ELSE x.nonce) + 1
           y == [x EXCEPT !.nonce = n]
<1>0. t.from \in Addresses /\ r.states[t.from] # None /\ t.nonce \in Nat
  BY Zenon, TransactionFacts DEF Good
<1>1. r \in Runs /\ x \in Account /\ Fits(c, r, t.from, x) /\ x.nonce \in Nat
  BY Zenon, <1>0, GoodAccount
<1>2. c.floor[t.from] \in Nat
  BY <1>0 DEF Contexts
<1>3. n \in Nat /\ n >= c.floor[t.from]
  BY <1>0, <1>1, <1>2 DEF Fits
<1> HIDE DEF n
<1>4. y \in Account /\ y.nonce = n /\ y.app = x.app
  BY <1>1, <1>3 DEF Account
<1>5. Fits(c, r, t.from, y)
  BY Zenon, <1>1, <1>3, <1>4 DEF Fits, OnDisk
<1>6. r.st = "ok" => BumpNonce(r, t) = [r EXCEPT !.states[t.from] = y]
  BY Zenon DEF BumpNonce, n
<1> HIDE DEF y
<1>7. [r EXCEPT !.states[t.from] = y] \in Good(c)
  BY <1>0, <1>4, <1>5, GoodPut
<1> QED
  BY Zenon, <1>6, <1>7 DEF BumpNonce

\* What apply_transaction does before it moves the nonce.
Executed(trie, r, t) ==
    CASE t.kind = "payment" -> execute_payment_tx(r, t)
      [] t.kind = "call"    -> ExecuteCall(trie, r, t.from, t.price, to(t), t.method)
      [] t.kind = "create"  -> ExecuteCreate(trie, r, t)
      [] t.kind = "update"  -> Stop(r, "panic")
      [] t.kind = "raw"     -> r

\* The kinds of transactions.
LEMMA ExecutedCases ==
    ASSUME NEW trie, NEW r, NEW t
    PROVE  /\ apply_transaction(trie, r, t) = BumpNonce(Executed(trie, r, t), t)
           /\ t.kind = "payment" => Executed(trie, r, t) = execute_payment_tx(r, t)
           /\ t.kind = "call" => Executed(trie, r, t) = ExecuteCall(trie, r, t.from, t.price, to(t), t.method)
           /\ t.kind = "create" => Executed(trie, r, t) = ExecuteCreate(trie, r, t)
           /\ t.kind = "update" => Executed(trie, r, t) = Stop(r, "panic")
           /\ t.kind = "raw" => Executed(trie, r, t) = r
<1>1. apply_transaction(trie, r, t) = BumpNonce(Executed(trie, r, t), t)
  BY Zenon DEF apply_transaction, Executed
<1> QED
  BY <1>1 DEF Executed

\* apply_transaction, whatever the transaction is.
LEMMA ApplyIsGood ==
    ASSUME NEW c \in Contexts, NEW r \in Good(c), NEW t \in Transactions, t.from \in c.named,
           to(t) \in c.named
    PROVE  apply_transaction(c.trie, r, t) \in Good(c) /\ Executed(c.trie, r, t) \in Good(c)
<1>1. Executed(c.trie, r, t) \in Good(c)
  <2>1. CASE t.kind = "payment"
    BY <2>1, PaymentIsGood, ExecutedCases
  <2>2. CASE t.kind = "call"
    <3>1. t.from \in Addresses /\ t.price \in Nat /\ to(t) \in Addresses /\ t.method \in Method
      BY Zenon, <2>2, TransactionFacts
    <3> QED
      BY <2>2, <3>1, CallIsGood, ExecutedCases
  <2>3. CASE t.kind = "create"
    BY <2>3, CreateIsGood, ExecutedCases
  <2>4. CASE t.kind = "update"
    <3>1. Stop(r, "panic") \in Good(c)
      BY GoodStop
    <3> QED
      BY <2>4, <3>1, ExecutedCases
  <2>5. CASE t.kind = "raw"
    BY <2>5, ExecutedCases
  <2> QED
    BY <2>1, <2>2, <2>3, <2>4, <2>5, TransactionFacts
<1> QED
  BY <1>1, BumpIsGood, ExecutedCases

-----------------------------------------------------------------------------
(* The same run with another cache.  put_chain executes a block a second   *)
(* time with the cache the first time left.                                *)

Recached(r, q) == [r EXCEPT !.apps = q]

CacheOver(trie, p, q) == \A a \in Addresses : Grown(trie, a, p[a], q[a])

\* A run with another cache is the same otherwise.
LEMMA RecachedFields ==
    ASSUME NEW r \in Runs, NEW q
    PROVE  /\ Recached(r, q).st = r.st /\ Recached(r, q).states = r.states /\ Recached(r, q).apps = q
           /\ Recached(r, q).appdata = r.appdata /\ Recached(r, q).metadata = r.metadata
           /\ Recached(r, r.apps) = r
           /\ q \in Caches => Recached(r, q) \in Runs
BY DEF Runs, Recached

\* In particular it stands where the other stands.
LEMMA RecachedStatus ==
    ASSUME NEW r \in Runs, NEW q
    PROVE  Recached(r, q).st = r.st
BY Zenon, RecachedFields

\* Changing accounts and stores has nothing to do with the cache.
LEMMA StatesCommute ==
    ASSUME NEW r \in Runs, NEW q, NEW X
    PROVE  /\ [Recached(r, q) EXCEPT !.states = X] = Recached([r EXCEPT !.states = X], q)
           /\ [r EXCEPT !.states = X].apps = r.apps
BY Zenon DEF Runs, Recached

WithStored(r, X, D) == [r EXCEPT !.states = X, !.appdata = D]
WithCreated(r, X, M, D) == [r EXCEPT !.states = X, !.metadata = M, !.appdata = D]

\* Nor has stopping,
LEMMA StopCommutes ==
    ASSUME NEW r \in Runs, NEW q, NEW st
    PROVE  /\ Stop(Recached(r, q), st) = Recached(Stop(r, st), q)
           /\ Stop(r, st).apps = r.apps /\ Stop(r, st).st = st
BY Zenon DEF Runs, Recached, Stop

\* What does not look at the cache does the same with any.
LEMMA BumpCommutes ==
    ASSUME NEW r \in Runs, NEW q \in Caches, NEW t
    PROVE  /\ BumpNonce(Recached(r, q), t) = Recached(BumpNonce(r, t), q)
           /\ BumpNonce(r, t).apps = r.apps /\ BumpNonce(r, t).st = r.st
<1> DEFINE X == [r.states EXCEPT ![t.from].nonce = (IF t.nonce > @ THEN t.nonce ELSE @) + 1]
<1>1. BumpNonce(r, t) = IF r.st = "ok" THEN [r EXCEPT !.states = X] ELSE r
  BY Zenon DEF BumpNonce
<1>2. Recached(r, q).st = r.st /\ Recached(r, q).states = r.states
  BY Zenon, RecachedFields
<1>3. BumpNonce(Recached(r, q), t) = IF r.st = "ok" THEN [Recached(r, q) EXCEPT !.states = X] ELSE Recached(r, q)
  BY Zenon, <1>2 DEF BumpNonce
<1> HIDE DEF X
<1>4. [Recached(r, q) EXCEPT !.states = X] = Recached([r EXCEPT !.states = X], q)
      /\ [r EXCEPT !.states = X].apps = r.apps
  BY Zenon, StatesCommute
<1>5. [r EXCEPT !.states = X].st = r.st
  BY DEF Runs
<1> QED
  BY Zenon, <1>1, <1>3, <1>4, <1>5

\* nor a payment,
LEMMA PaymentCommutes ==
    ASSUME NEW r \in Runs, NEW q \in Caches, NEW t
    PROVE  /\ execute_payment_tx(Recached(r, q), t) = Recached(execute_payment_tx(r, t), q)
           /\ execute_payment_tx(r, t).apps = r.apps
<1> DEFINE Less(x) == x[t.from].free < t.price + t.fees
           Taken(x) == [x EXCEPT ![t.from].free = @ - (t.price + t.fees)]
           Given(x) == [x EXCEPT ![to(t)].free = @ + t.price]
           less == Less(r.states)
           Y == Given(Taken(r.states))
<1>1. ASSUME NEW s \in Runs, s.states = r.states
      PROVE  execute_payment_tx(s, t) = IF less THEN Stop(s, "err") ELSE [s EXCEPT !.states = Y]
  <2> DEFINE u == [s EXCEPT !.states = Taken(s.states)]
  <2>1. execute_payment_tx(s, t)
        = IF Less(s.states) THEN Stop(s, "err") ELSE [u EXCEPT !.states = Given(u.states)]
    BY Zenon DEF execute_payment_tx
  <2> HIDE DEF Less, Taken, Given
  <2>2. u.states = Taken(s.states)
    BY DEF Runs
  <2>3. \A X : [u EXCEPT !.states = X] = [s EXCEPT !.states = X]
    BY Zenon DEF Runs
  <2> HIDE DEF u
  <2> QED
    BY Zenon, <1>1, <2>1, <2>2, <2>3
<1>2. Recached(r, q) \in Runs
  BY Zenon, RecachedFields
<1>3. Recached(r, q).states = r.states
  BY Zenon, RecachedFields
<1>4. execute_payment_tx(r, t) = IF less THEN Stop(r, "err") ELSE [r EXCEPT !.states = Y]
  BY Zenon, <1>1
<1>5. execute_payment_tx(Recached(r, q), t)
      = IF less THEN Stop(Recached(r, q), "err") ELSE [Recached(r, q) EXCEPT !.states = Y]
  BY Zenon, <1>1, <1>2, <1>3
<1> HIDE DEF Y, less
<1>6. /\ [Recached(r, q) EXCEPT !.states = Y] = Recached([r EXCEPT !.states = Y], q)
      /\ [r EXCEPT !.states = Y].apps = r.apps
  BY Zenon, StatesCommute
<1>7. Stop(Recached(r, q), "err") = Recached(Stop(r, "err"), q) /\ Stop(r, "err").apps = r.apps
  BY Zenon, StopCommutes
<1> QED
  BY Zenon, <1>4, <1>5, <1>6, <1>7

\* nor saving a storage,
LEMMA SaveCommutes ==
    ASSUME NEW r \in Runs, NEW q \in Caches, NEW app, NEW storage
    PROVE  /\ SaveStorage(Recached(r, q), app, storage) = Recached(SaveStorage(r, app, storage), q)
           /\ SaveStorage(r, app, storage).apps = r.apps
<1> DEFINE fails == r.states[app].app = NoApp
           X == [r.states EXCEPT ![app].app.root = storage]
           D == r.appdata \cup {<<app, storage>>}
<1>1. SaveStorage(r, app, storage) = IF fails THEN Stop(r, "err") ELSE WithStored(r, X, D)
  BY Zenon DEF SaveStorage, WithStored
<1>2. Recached(r, q).states = r.states /\ Recached(r, q).appdata = r.appdata
  BY Zenon, RecachedFields
<1>3. SaveStorage(Recached(r, q), app, storage)
      = IF fails THEN Stop(Recached(r, q), "err") ELSE WithStored(Recached(r, q), X, D)
  BY Zenon, <1>2 DEF SaveStorage, WithStored
<1> HIDE DEF X, D, fails
<1>4. /\ WithStored(Recached(r, q), X, D) = Recached(WithStored(r, X, D), q)
      /\ WithStored(r, X, D).apps = r.apps
  BY Zenon DEF Runs, Recached, WithStored
<1>5. Stop(Recached(r, q), "err") = Recached(Stop(r, "err"), q) /\ Stop(r, "err").apps = r.apps
  BY Zenon, StopCommutes
<1> QED
  BY Zenon, <1>1, <1>3, <1>4, <1>5

\* nor a call, once its code is loaded.
LEMMA CallCommutes ==
    ASSUME NEW c \in Contexts, NEW r \in Good(c), NEW q \in Caches, NEW app \in Addresses, NEW sender \in Addresses,
           NEW env \in Envs(c.trie, app, sender)
    PROVE  /\ ApplyChanges(Recached(r, q), env) = Recached(ApplyChanges(r, env), q)
           /\ ApplyChanges(r, env).apps = r.apps
           /\ AfterCall(Recached(r, q), app, env) = Recached(AfterCall(r, app, env), q)
           /\ AfterCall(r, app, env).apps = r.apps
<1> DEFINE X == Over(env.accounts, r.states)
           new == ApplyChanges(r, env)
<1>0. r \in Runs
  BY Zenon DEF Good
<1>1. Recached(r, q).states = r.states
  BY Zenon, <1>0, RecachedFields
<1>2. ApplyChanges(r, env) = [r EXCEPT !.states = X] /\ ApplyChanges(Recached(r, q), env) = [Recached(r, q) EXCEPT !.states = X]
  BY Zenon, <1>1 DEF ApplyChanges
<1> HIDE DEF X
<1>3. /\ [Recached(r, q) EXCEPT !.states = X] = Recached([r EXCEPT !.states = X], q)
      /\ [r EXCEPT !.states = X].apps = r.apps
  BY Zenon, <1>0, StatesCommute
<1>10. Stop(Recached(r, q), "err") = Recached(Stop(r, "err"), q) /\ Stop(r, "err").apps = r.apps
  BY Zenon, <1>0, StopCommutes
<1>4. ApplyChanges(Recached(r, q), env) = Recached(new, q) /\ new.apps = r.apps
  BY Zenon, <1>2, <1>3
<1>5. new \in Runs
  BY Zenon, GoodChanges DEF Good
<1> HIDE DEF new
<1>6. /\ SaveStorage(Recached(new, q), app, env.storage) = Recached(SaveStorage(new, app, env.storage), q)
      /\ SaveStorage(new, app, env.storage).apps = new.apps
  BY Zenon, <1>5, SaveCommutes
<1>7. AfterCall(r, app, env) = IF env.ok THEN SaveStorage(new, app, env.storage) ELSE Stop(r, "err")
  BY Zenon DEF AfterCall, new
<1>8. AfterCall(Recached(r, q), app, env)
      = IF env.ok THEN SaveStorage(Recached(new, q), app, env.storage) ELSE Stop(Recached(r, q), "err")
  BY Zenon, <1>4 DEF AfterCall
<1>9. /\ AfterCall(Recached(r, q), app, env) = Recached(AfterCall(r, app, env), q)
      /\ AfterCall(r, app, env).apps = r.apps
  BY Zenon, <1>4, <1>6, <1>7, <1>8, <1>10
<1> QED
  BY Zenon, <1>4, <1>9 DEF new

\* Two caches that differ only in codes of the trie load the same code.
LEMMA LoadCommutes ==
    ASSUME NEW c \in Contexts, NEW r \in Good(c), NEW q \in Caches, NEW app \in Addresses, HasApp(c.trie, app),
           CacheOver(c.trie, r.apps, q)
    PROVE  LET l == load_application(c.trie, r, app)
               q2 == load_application(c.trie, Recached(r, q), app).apps
           IN  /\ load_application(c.trie, Recached(r, q), app) = Recached(l, q2)
               /\ q2 \in Caches /\ q2[app] = l.apps[app] /\ CacheOver(c.trie, l.apps, q2)
<1> DEFINE found == [code |-> c.trie[app].app.code]
           Loaded(p) == [p EXCEPT ![app] = IF @ = None THEN found ELSE @]
           l == load_application(c.trie, r, app)
           q2 == Loaded(q)
<1>0. r \in Runs /\ r.apps \in Caches
  BY Zenon DEF Good, Runs
<1>1. l = [r EXCEPT !.apps = Loaded(r.apps)]
  BY Zenon DEF load_application
<1>2. load_application(c.trie, Recached(r, q), app) = [Recached(r, q) EXCEPT !.apps = q2]
  <2>1. Recached(r, q).apps = q
    BY Zenon, <1>0, RecachedFields
  <2> QED
    BY Zenon, <2>1 DEF load_application
<1>3. found \in [code : Code]
  <2>1. c.trie \in Contents
    BY Zenon DEF Contexts
  <2> QED
    BY <2>1 DEF HasApp, Contents, Account
<1>4. found # None
  BY DEF None
<1>5. Grown(c.trie, app, r.apps[app], q[app])
  BY Zenon DEF CacheOver
<1>6. r.apps[app] = q[app] \/ (r.apps[app] = None /\ q[app] = found)
  BY Zenon, <1>5 DEF Grown
<1> HIDE DEF found
<1>7. q2 \in Caches /\ q2[app] = Loaded(r.apps)[app]
      /\ \A b \in Addresses : b # app => q2[b] = q[b] /\ Loaded(r.apps)[b] = r.apps[b]
  BY <1>0, <1>3, <1>4, <1>6 DEF Caches
<1>8. CacheOver(c.trie, Loaded(r.apps), q2)
  <2> SUFFICES ASSUME NEW b \in Addresses PROVE Grown(c.trie, b, Loaded(r.apps)[b], q2[b])
    BY Zenon DEF CacheOver
  <2>1. CASE b = app
    BY Zenon, <1>7, <2>1 DEF Grown
  <2>2. CASE b # app
    BY Zenon, <1>7, <2>2 DEF CacheOver
  <2> QED
    BY Zenon, <2>1, <2>2
<1> HIDE DEF Loaded, q2
<1>9. l.apps = Loaded(r.apps)
  BY <1>0, <1>1 DEF Runs
<1>10. [Recached(r, q) EXCEPT !.apps = q2] = Recached(l, q2) /\ [Recached(r, q) EXCEPT !.apps = q2].apps = q2
  BY Zenon, <1>0, <1>1 DEF Runs, Recached
<1> HIDE DEF l
<1> QED
  BY Zenon, <1>2, <1>7, <1>8, <1>9, <1>10 DEF l

\* A call that succeeds does the same with a cache that holds more codes of
\* the trie.
LEMMA CallRepeats ==
    ASSUME NEW c \in Contexts, NEW r \in Good(c), NEW q \in Caches, CacheOver(c.trie, r.apps, q),
           NEW sender \in Addresses, NEW value \in Nat, NEW app \in Addresses, NEW method \in Method,
           ExecuteCall(c.trie, r, sender, value, app, method).st = "ok"
    PROVE  \E q2 \in Caches :
             /\ ExecuteCall(c.trie, Recached(r, q), sender, value, app, method)
                = Recached(ExecuteCall(c.trie, r, sender, value, app, method), q2)
             /\ CacheOver(c.trie, ExecuteCall(c.trie, r, sender, value, app, method).apps, q2)
<1> DEFINE Runs1(p) == /\ HasApp(c.trie, app)
                       /\ p.apps[app] # None \/ c.trie[app].app.code \in p.metadata
           Called(p) == AfterCall(p, app, CallEnv(c.trie, p, sender, value, app, method))
           l == load_application(c.trie, r, app)
           env == CallEnv(c.trie, l, sender, value, app, method)
           s == Recached(r, q)
           q2 == load_application(c.trie, s, app).apps
<1>0. r \in Runs
  BY Zenon DEF Good
<1>1. Runs1(r)
  <2>1. Stop(r, "err").st = "err"
    BY Zenon, <1>0, StopCommutes
  <2>2. ~Runs1(r) => ExecuteCall(c.trie, r, sender, value, app, method) = Stop(r, "err")
    BY Zenon DEF ExecuteCall
  <2> QED
    BY <2>1, <2>2
<1>2. s.apps = q /\ s.metadata = r.metadata
  BY Zenon, <1>0, RecachedFields
<1>3. Runs1(s)
  <2>1. Grown(c.trie, app, r.apps[app], q[app])
    BY Zenon DEF CacheOver
  <2>2. [code |-> c.trie[app].app.code] # None
    BY DEF None
  <2> HIDE DEF s
  <2> QED
    BY Zenon, <1>1, <1>2, <2>1, <2>2 DEF Grown
<1>4. /\ ExecuteCall(c.trie, r, sender, value, app, method) = Called(l)
      /\ ExecuteCall(c.trie, s, sender, value, app, method) = Called(load_application(c.trie, s, app))
  BY Zenon, <1>1, <1>3 DEF ExecuteCall, CallLoaded, CallEnv
<1>5. /\ load_application(c.trie, s, app) = Recached(l, q2)
      /\ q2 \in Caches /\ q2[app] = l.apps[app] /\ CacheOver(c.trie, l.apps, q2)
  BY Zenon, <1>1, LoadCommutes
<1>6. l \in Good(c) /\ l.apps[app] \in [code : Code]
  BY Zenon, <1>1, GoodLoad
<1> HIDE DEF l, s, q2
<1>7. l \in Runs
  BY Zenon, <1>6 DEF Good
<1>8. Recached(l, q2).apps = q2 /\ Recached(l, q2).appdata = l.appdata
  BY Zenon, <1>7, RecachedFields
<1>9. Called(l) = AfterCall(l, app, env) /\ Called(Recached(l, q2)) = AfterCall(Recached(l, q2), app, env)
  BY Zenon, <1>5, <1>8 DEF CallEnv
<1>10. env \in Envs(c.trie, app, sender)
  BY <1>1, <1>6, CallEnvs
<1> HIDE DEF env, Called
<1>11. /\ AfterCall(Recached(l, q2), app, env) = Recached(AfterCall(l, app, env), q2)
       /\ AfterCall(l, app, env).apps = l.apps
  BY <1>5, <1>6, <1>10, CallCommutes
<1> QED
  BY Zenon, <1>4, <1>5, <1>9, <1>11 DEF s

\* A creation that went through goes through again with a fuller cache.
LEMMA CreateRepeats ==
    ASSUME NEW c \in Contexts, NEW r \in Good(c), NEW q \in Caches, CacheOver(c.trie, r.apps, q),
           NEW t \in Transactions, t.kind = "create", to(t) \in c.named,
           ExecuteCreate(c.trie, r, t).st = "ok"
    PROVE  \E q2 \in Caches :
             /\ ExecuteCreate(c.trie, Recached(r, q), t) = Recached(ExecuteCreate(c.trie, r, t), q2)
             /\ CacheOver(c.trie, ExecuteCreate(c.trie, r, t).apps, q2)
<1> DEFINE Registered(p) == register_namespace(c.trie, p, t)
           s == Registered(r)
           env == Execute(c.trie, Env(c.trie, SeedOf[t.package], t.price, {}, t.from), Program[<<t.code, <<"genesis">>>>])
<1>0. r \in Runs
  BY Zenon DEF Good
<1>1. c.trie[to(t)] = None
  <2>1. Stop(r, "err").st = "err"
    BY Zenon, <1>0, StopCommutes
  <2>2. c.trie[to(t)] # None => ExecuteCreate(c.trie, r, t) = Stop(r, "err")
    BY Zenon DEF ExecuteCreate
  <2> QED
    BY <2>1, <2>2
<1>2. \A p : ExecuteCreate(c.trie, p, t) = IF Registered(p).st = "ok" THEN AfterCreate(Registered(p), t, env) ELSE Registered(p)
  BY Zenon, <1>1 DEF ExecuteCreate, execute_app_create
<1>3. s.st = "ok"
  BY Zenon, <1>2
<1>4. /\ <<"register", OrgOf[t.package]>> \in Method /\ Zero \in Addresses /\ Registry \in Addresses
      /\ 0 \in Nat
  BY Zenon, TransactionFacts, AddressAssumption, CodeAssumption
<1>5. s \in Good(c)
  BY Zenon, <1>4, CallIsGood DEF register_namespace
<1>6. PICK q2 \in Caches : Registered(Recached(r, q)) = Recached(s, q2) /\ CacheOver(c.trie, s.apps, q2)
  <2> DEFINE Call(p) == ExecuteCall(c.trie, p, Zero, 0, Registry, <<"register", OrgOf[t.package]>>)
  <2>1. s = Call(r) /\ Registered(Recached(r, q)) = Call(Recached(r, q))
    BY Zenon DEF register_namespace
  <2>2. Call(r).st = "ok"
    BY Zenon, <1>3, <2>1
  <2>3. \E q2 \in Caches : Call(Recached(r, q)) = Recached(Call(r), q2) /\ CacheOver(c.trie, Call(r).apps, q2)
    BY <1>4, <2>2, CallRepeats
  <2> HIDE DEF Call, Registered, s
  <2> QED
    BY Zenon, <2>1, <2>3
<1> HIDE DEF s, Registered, env
<1>7. s \in Runs
  BY Zenon, <1>5 DEF Good
<1>8. Recached(s, q2).st = "ok"
  BY Zenon, <1>3, <1>7, RecachedFields
<1>9. /\ AfterCreate(Recached(s, q2), t, env) = Recached(AfterCreate(s, t, env), q2)
      /\ AfterCreate(s, t, env).apps = s.apps
  <2> DEFINE X == [Over(env.accounts, s.states) EXCEPT ![to(t)].app = [root |-> env.storage, code |-> t.code]]
             M == s.metadata \cup {t.code}
             D == s.appdata \cup {<<to(t), env.storage>>}
  <2>1. ASSUME NEW p \in Runs, p.states = s.states, p.metadata = s.metadata, p.appdata = s.appdata
        PROVE  AfterCreate(p, t, env) = IF env.ok THEN WithCreated(p, X, M, D) ELSE Stop(p, "err")
    <3> DEFINE Y == Over(env.accounts, p.states)
               u == [p EXCEPT !.states = Y]
               Set(y) == [y EXCEPT ![to(t)].app = [root |-> env.storage, code |-> t.code]]
    <3>1. AfterCreate(p, t, env)
          = IF env.ok THEN [u EXCEPT !.states = Set(u.states), !.metadata = u.metadata \cup {t.code},
                                     !.appdata = u.appdata \cup {<<to(t), env.storage>>}]
            ELSE Stop(p, "err")
      BY Zenon DEF AfterCreate, ApplyChanges
    <3>2. X = Set(Y)
      BY Zenon, <2>1
    <3> HIDE DEF Y, Set, X
    <3>3. u.states = Y /\ u.metadata = s.metadata /\ u.appdata = s.appdata
      BY <2>1 DEF Runs
    <3>4. AfterCreate(p, t, env) = IF env.ok THEN [u EXCEPT !.states = X, !.metadata = M, !.appdata = D] ELSE Stop(p, "err")
      BY Zenon, <3>1, <3>2, <3>3
    <3> HIDE DEF M, D
    <3>5. [u EXCEPT !.states = X, !.metadata = M, !.appdata = D] = WithCreated(p, X, M, D)
      BY Zenon DEF Runs, WithCreated
    <3> HIDE DEF u
    <3> QED
      BY Zenon, <3>4, <3>5
  <2>2. Recached(s, q2) \in Runs /\ Recached(s, q2).states = s.states /\ Recached(s, q2).metadata = s.metadata
        /\ Recached(s, q2).appdata = s.appdata
    BY Zenon, <1>6, <1>7, RecachedFields
  <2> HIDE DEF X, M, D
  <2>3. /\ WithCreated(Recached(s, q2), X, M, D) = Recached(WithCreated(s, X, M, D), q2)
        /\ WithCreated(s, X, M, D).apps = s.apps
    BY Zenon, <1>7 DEF Runs, Recached, WithCreated
  <2>4. Stop(Recached(s, q2), "err") = Recached(Stop(s, "err"), q2) /\ Stop(s, "err").apps = s.apps
    BY <1>7, StopCommutes
  <2>5. AfterCreate(s, t, env) = IF env.ok THEN WithCreated(s, X, M, D) ELSE Stop(s, "err")
    BY Zenon, <1>7, <2>1
  <2>6. AfterCreate(Recached(s, q2), t, env)
        = IF env.ok THEN WithCreated(Recached(s, q2), X, M, D) ELSE Stop(Recached(s, q2), "err")
    BY Zenon, <2>1, <2>2
  <2> QED
    BY Zenon, <2>3, <2>4, <2>5, <2>6
<1> QED
  BY Zenon, <1>2, <1>3, <1>6, <1>8, <1>9 DEF s

\* So a transaction that succeeds does the same again with more of the cache
\* filled.
LEMMA ApplyRepeats ==
    ASSUME NEW c \in Contexts, NEW r \in Good(c), NEW q \in Caches, CacheOver(c.trie, r.apps, q),
           NEW t \in Transactions, t.from \in c.named, to(t) \in c.named,
           apply_transaction(c.trie, r, t).st = "ok"
    PROVE  \E q2 \in Caches :
             /\ apply_transaction(c.trie, Recached(r, q), t) = Recached(apply_transaction(c.trie, r, t), q2)
             /\ CacheOver(c.trie, apply_transaction(c.trie, r, t).apps, q2)
<1> DEFINE x == Executed(c.trie, r, t)
           y == Executed(c.trie, Recached(r, q), t)
<1>0. r \in Runs /\ x \in Runs
  BY Zenon, ApplyIsGood DEF Good
<1>1. apply_transaction(c.trie, r, t) = BumpNonce(x, t) /\ apply_transaction(c.trie, Recached(r, q), t) = BumpNonce(y, t)
  BY ExecutedCases
<1>2. x.st = "ok"
  <2> HIDE DEF x
  <2> QED
    BY <1>0, <1>1, RecachedFields DEF BumpNonce
<1>3. PICK q2 \in Caches : y = Recached(x, q2) /\ CacheOver(c.trie, x.apps, q2)
  <2>0. t.kind \in {"payment", "call", "create", "update", "raw"}
    BY Zenon, TransactionFacts
  <2>1. CASE t.kind = "payment"
    <3>1. x = execute_payment_tx(r, t) /\ y = execute_payment_tx(Recached(r, q), t)
      BY <2>1, ExecutedCases
    <3> HIDE DEF x, y
    <3> QED
      BY Zenon, <1>0, <3>1, PaymentCommutes
  <2>2. CASE t.kind = "call"
    <3>1. t.from \in Addresses /\ t.price \in Nat /\ to(t) \in Addresses /\ t.method \in Method
      BY Zenon, <2>2, TransactionFacts
    <3>2. /\ x = ExecuteCall(c.trie, r, t.from, t.price, to(t), t.method)
          /\ y = ExecuteCall(c.trie, Recached(r, q), t.from, t.price, to(t), t.method)
      BY <2>2, ExecutedCases
    <3> HIDE DEF x, y
    <3> QED
      BY <1>2, <3>1, <3>2, CallRepeats
  <2>3. CASE t.kind = "create"
    <3>1. x = ExecuteCreate(c.trie, r, t) /\ y = ExecuteCreate(c.trie, Recached(r, q), t)
      BY <2>3, ExecutedCases
    <3> HIDE DEF x, y
    <3> QED
      BY <1>2, <2>3, <3>1, CreateRepeats
  <2>4. CASE t.kind = "update"
    <3>1. x = Stop(r, "panic")
      BY <2>4, ExecutedCases
    <3>2. Stop(r, "panic").st = "panic"
      BY Zenon, <1>0, StopCommutes
    <3> QED
      BY <1>2, <3>1, <3>2
  <2>5. CASE t.kind = "raw"
    <3>1. x = r /\ y = Recached(r, q)
      BY <2>5, ExecutedCases
    <3> HIDE DEF x, y
    <3> QED
      BY Zenon, <3>1
  <2> HIDE DEF x, y
  <2> QED
    BY <2>0, <2>1, <2>2, <2>3, <2>4, <2>5
<1> HIDE DEF x, y
<1>4. BumpNonce(Recached(x, q2), t) = Recached(BumpNonce(x, t), q2) /\ BumpNonce(x, t).apps = x.apps
  BY Zenon, <1>0, BumpCommutes
<1> QED
  BY Zenon, <1>1, <1>3, <1>4

Repeats(trie, other, r, q, t) ==
    apply_transaction(other, Recached(r, q), t) = Recached(apply_transaction(trie, r, t), q)

\* Payments and raw data look neither at the trie nor at the cache.
LEMMA PlainRepeats ==
    ASSUME NEW r \in Runs, NEW q \in Caches, NEW trie, NEW other, NEW t, t.kind \in {"payment", "raw"},
           Executed(trie, r, t) \in Runs
    PROVE  Repeats(trie, other, r, q, t)
<1> DEFINE x == Executed(trie, r, t)
           y == Executed(other, Recached(r, q), t)
<1>1. apply_transaction(trie, r, t) = BumpNonce(x, t) /\ apply_transaction(other, Recached(r, q), t) = BumpNonce(y, t)
  BY ExecutedCases
<1>2. y = Recached(x, q) /\ x = IF t.kind = "payment" THEN execute_payment_tx(r, t) ELSE r
  <2>1. CASE t.kind = "payment"
    <3>1. x = execute_payment_tx(r, t) /\ y = execute_payment_tx(Recached(r, q), t)
      BY <2>1, ExecutedCases
    <3> HIDE DEF x, y
    <3> QED
      BY Zenon, <2>1, <3>1, PaymentCommutes
  <2>2. CASE t.kind = "raw"
    <3>1. x = r /\ y = Recached(r, q)
      BY <2>2, ExecutedCases
    <3> HIDE DEF x, y
    <3> QED
      BY <2>2, <3>1
  <2> HIDE DEF x, y
  <2> QED
    BY Zenon, <2>1, <2>2
<1> HIDE DEF x, y
<1>3. x \in Runs
  BY Zenon DEF x
<1>4. BumpNonce(Recached(x, q), t) = Recached(BumpNonce(x, t), q)
  BY Zenon, <1>3, BumpCommutes
<1> QED
  BY Zenon, <1>1, <1>2, <1>4 DEF Repeats

-----------------------------------------------------------------------------
(* A block *)

Stepped(trie, r, t) == IF r.st = "ok" THEN apply_transaction(trie, r, t) ELSE r

\* f holds the runs of ApplyAll after each transaction.
Traces(f, c, at, txs) ==
    LET n == Len(ExecutionOrder(txs))
    IN  /\ f \in [0 .. n -> Good(c)]
        /\ f[0] = Start(at, txs, c.stored, c.codes, c.loaded)
        /\ \A i \in 1 .. n : f[i] = Stepped(c.trie, f[i - 1], ExecutionOrder(txs)[i])
        /\ f[n] = ApplyAll(at, c.trie, txs, c.stored, c.codes, c.loaded)

\* What is executed is of the block, and its accounts were read at the start.
LEMMA OrderFacts ==
    ASSUME NEW txs \in Seq(Transactions), NEW i \in 1 .. Len(ExecutionOrder(txs))
    PROVE  LET t == ExecutionOrder(txs)[i]
           IN  /\ t \in Transactions /\ t.from \in Named(txs) /\ to(t) \in Named(txs)
               /\ Plain(txs) => t.kind \in {"payment", "raw"}
<1> DEFINE T == {txs[k] : k \in DOMAIN txs}
           t == ExecutionOrder(txs)[i]
<1>1. txs \in Seq(T)
  OBVIOUS
<1>2. ExecutionOrder(txs) \in Seq(T)
  <2> HIDE DEF T
  <2> QED
    BY Zenon, <1>1, OrderType
<1>3. t \in T
  <2> HIDE DEF T
  <2> QED
    BY <1>2
<1>4. PICK k \in DOMAIN txs : t = txs[k]
  BY Zenon, <1>3
<1>5. txs[k] \in Transactions
  OBVIOUS
<1> QED
  BY Zenon, <1>4, <1>5 DEF Named, Plain

\* The senders and receivers of a block are addresses.
LEMMA NamedType ==
    ASSUME NEW txs \in Seq(Transactions)
    PROVE  Named(txs) \in SUBSET Addresses
<1>1. \A i \in DOMAIN txs : txs[i] \in Transactions
  OBVIOUS
<1> QED
  BY Zenon, <1>1, TransactionFacts DEF Named

\* apply_txs starts from accounts that fit.
LEMMA StartIsGood ==
    ASSUME NEW c \in Contexts, NEW at \in Contents, NEW txs \in Seq(Transactions), c.named = Named(txs),
           Complete(at, c.stored, c.codes), HasApp(at, Registry),
           \A a \in Addresses : c.floor[a] <= AccountAt(at, a).nonce
    PROVE  Start(at, txs, c.stored, c.codes, c.loaded) \in Good(c)
<1> DEFINE states == [a \in Addresses |-> IF a \in Named(txs) THEN AccountAt(at, a) ELSE None]
           r == Start(at, txs, c.stored, c.codes, c.loaded)
<1>0. \A a \in Addresses : AccountAt(at, a) \in Account
  BY Zenon, AccountTypes
<1>1. states \in Contents
  BY <1>0 DEF Contents
<1>2. \A a \in Addresses : states[a] = IF a \in Named(txs) THEN AccountAt(at, a) ELSE None
  OBVIOUS
<1>3. r = [st |-> "ok", appdata |-> c.stored, metadata |-> c.codes, apps |-> c.loaded, states |-> states]
  BY Zenon DEF Start
<1> HIDE DEF states
<1>4. c.stored \in Stores /\ c.codes \in SUBSET Code /\ c.loaded \in Caches /\ c.floor \in [Addresses -> Nat]
  BY Zenon DEF Contexts
<1>5. /\ r \in Runs /\ r.states = states /\ r.appdata = c.stored /\ r.metadata = c.codes /\ r.apps = c.loaded
  BY <1>1, <1>3, <1>4 DEF Runs
<1> HIDE DEF r
<1>6. \A a \in c.named : states[a] # None
  BY Zenon, <1>0, <1>2, NamedType, NoneIsNoAccount
<1>7. ASSUME NEW a \in Addresses, states[a] # None PROVE Fits(c, r, a, states[a])
  <2>1. states[a] = AccountAt(at, a)
    BY Zenon, <1>2, <1>7
  <2>2. AccountAt(at, a).nonce >= c.floor[a]
    <3>1. AccountAt(at, a).nonce \in Nat /\ c.floor[a] \in Nat
      BY <1>0, <1>4 DEF Account
    <3> QED
      BY <3>1
  <2>3. OnDisk(a, AccountAt(at, a), c.stored, c.codes)
    <3>1. AccountState_new.app = NoApp
      BY DEF AccountState_new
    <3> QED
      BY Zenon, <3>1 DEF Complete, AccountAt, OnDisk
  <2>4. a = Registry => AccountAt(at, a).app # NoApp
    BY Zenon DEF HasApp, AccountAt
  <2> QED
    BY Zenon, <1>5, <2>1, <2>2, <2>3, <2>4 DEF Fits
<1>8. \A a \in Addresses : Grown(c.trie, a, c.loaded[a], c.loaded[a])
  BY Zenon DEF Grown
<1>9. r \in Good(c)
  BY Zenon, <1>5, <1>6, <1>7, <1>8 DEF Good
<1> QED
  BY Zenon, <1>9 DEF r

(* ApplyAll goes through one run after each transaction, and all of them   *)
(* are good.                                                               *)
LEMMA BlockTraces ==
    ASSUME NEW c \in Contexts, NEW at \in Contents, NEW txs \in Seq(Transactions), c.named = Named(txs),
           Complete(at, c.stored, c.codes), HasApp(at, Registry),
           \A a \in Addresses : c.floor[a] <= AccountAt(at, a).nonce
    PROVE  \E f : Traces(f, c, at, txs)
<1> DEFINE order == ExecutionOrder(txs)
           n == Len(order)
           G == Good(c)
           base == Start(at, txs, c.stored, c.codes, c.loaded)
           Go(r, i) == Stepped(c.trie, r, order[i])
           step == [x \in G \X (1 .. n) |-> Go(x[1], x[2])]
           Body(f) == [i \in 0 .. n |-> IF i = 0 THEN base ELSE Go(f[i - 1], i)]
           run == CHOOSE f : f = Body(f)
<1>1. ApplyAll(at, c.trie, txs, c.stored, c.codes, c.loaded) = run[n]
  BY Zenon DEF ApplyAll, Stepped
<1>2. n \in Nat
  <2>1. order \in Seq(Transactions)
    BY Zenon, OrderType
  <2> QED
    BY <2>1
<1>3. \A r \in G : \A i \in 1 .. n : Go(r, i) \in G
  <2> SUFFICES ASSUME NEW r \in G, NEW i \in 1 .. n PROVE Go(r, i) \in G
    OBVIOUS
  <2>1. order[i] \in Transactions /\ order[i].from \in c.named /\ to(order[i]) \in c.named
    BY Zenon, OrderFacts
  <2>2. apply_transaction(c.trie, r, order[i]) \in Good(c)
    <3> HIDE DEF order
    <3> QED
      BY <2>1, ApplyIsGood
  <2> QED
    BY Zenon, <2>2 DEF Stepped
<1>4. base \in G
  BY StartIsGood
<1> HIDE DEF n, G, Go, base
<1>5. step \in StepsOf(G, n)
  BY Zenon, <1>3 DEF StepsOf
<1>6. PICK f : IsRun(f, G, base, n, step)
  <2> HIDE DEF step
  <2> QED
    BY Zenon, <1>2, <1>4, <1>5, Iterates
<1>7. \A i \in 1 .. n : f[i] = Go(f[i - 1], i)
  <2> SUFFICES ASSUME NEW i \in 1 .. n PROVE f[i] = Go(f[i - 1], i)
    OBVIOUS
  <2>1. f[i - 1] \in G
    BY <1>2, <1>6 DEF IsRun
  <2> QED
    BY Zenon, <1>6, <2>1 DEF IsRun
<1>8. f = Body(f)
  BY <1>2, <1>6, <1>7 DEF IsRun
<1>9. run = Body(run)
  BY <1>8, Zenon
<1> HIDE DEF run
<1>10. run[0] = base /\ \A i \in 1 .. n : run[i] = Go(run[i - 1], i)
  BY <1>2, <1>9
<1> DEFINE S == {i \in 0 .. n : run[i] \in G}
<1>11. 0 \in S
  BY <1>2, <1>4, <1>10
<1>12. \A i \in 1 .. n : i - 1 \in S => i \in S
  BY <1>2, <1>3, <1>10
<1>13. \A i \in 0 .. n : run[i] \in G
  <2>1. \A i \in 0 .. n : i \in S
    <3> HIDE DEF S
    <3> QED
      BY Zenon, <1>2, <1>11, <1>12, UpTo
  <2> QED
    BY Zenon, <2>1
<1>14. run \in [0 .. n -> G]
  <2>1. run = [i \in 0 .. n |-> run[i]]
    BY Zenon, <1>9
  <2> QED
    BY Zenon, <1>13, <2>1
<1>15. Traces(run, c, at, txs)
  BY Zenon, <1>1, <1>10, <1>14 DEF Traces, n, G, base, Go
<1> QED
  BY Zenon, <1>15

Last(f, txs) == f[Len(ExecutionOrder(txs))]

\* The runs before and after transaction i of a block.
OneStep(f, c, txs, i) ==
    LET t == ExecutionOrder(txs)[i]
    IN  /\ f[i - 1] \in Good(c) /\ f[i] \in Good(c) /\ f[i - 1] \in Runs /\ f[i] \in Runs
        /\ i - 1 \in 0 .. Len(ExecutionOrder(txs)) /\ i \in 0 .. Len(ExecutionOrder(txs))
        /\ f[i] = IF f[i - 1].st = "ok" THEN apply_transaction(c.trie, f[i - 1], t) ELSE f[i - 1]
        /\ f[i].st = "ok" => f[i - 1].st = "ok"
        /\ t \in Transactions /\ t.from \in c.named /\ to(t) \in c.named
        /\ Executed(c.trie, f[i - 1], t) \in Runs

\* One transaction of a block.
LEMMA TraceFacts ==
    ASSUME NEW c \in Contexts, NEW at, NEW txs \in Seq(Transactions), c.named = Named(txs), NEW f, Traces(f, c, at, txs),
           NEW i \in 1 .. Len(ExecutionOrder(txs))
    PROVE  OneStep(f, c, txs, i)
<1> DEFINE n == Len(ExecutionOrder(txs))
           t == ExecutionOrder(txs)[i]
<1>1. n \in Nat
  <2>1. ExecutionOrder(txs) \in Seq(Transactions)
    BY Zenon, OrderType
  <2> QED
    BY <2>1
<1>2. t \in Transactions /\ t.from \in c.named /\ to(t) \in c.named
  BY Zenon, OrderFacts
<1>3. f \in [0 .. n -> Good(c)] /\ f[i] = Stepped(c.trie, f[i - 1], t)
  BY Zenon DEF Traces
<1> HIDE DEF n, t
<1>4. i \in 1 .. n
  BY Zenon DEF n
<1>5. i - 1 \in 0 .. n /\ i \in 0 .. n
  BY <1>1, <1>4
<1>6. f[i - 1] \in Good(c) /\ f[i] \in Good(c)
  BY Zenon, <1>3, <1>5
<1>7. Executed(c.trie, f[i - 1], t) \in Good(c)
  BY <1>2, <1>6, ApplyIsGood
<1> QED
  BY Zenon, <1>2, <1>3, <1>5, <1>6, <1>7 DEF OneStep, Stepped, Good, n, t

(* A block that was executed is executed again with what the first time    *)
(* left in the cache: the same accounts and the same stores come out.      *)
LEMMA SecondTimeAgrees ==
    ASSUME NEW c \in Contexts, NEW d \in Contexts, NEW at, NEW txs \in Seq(Transactions), NEW f, NEW g,
           Traces(f, c, at, txs), Traces(g, d, at, txs), c.named = Named(txs),
           d.trie = c.trie, d.stored = c.stored, d.codes = c.codes,
           d.loaded = Last(f, txs).apps, Last(f, txs).st = "ok"
    PROVE  \E q \in Caches : Last(g, txs) = Recached(Last(f, txs), q)
<1> DEFINE order == ExecutionOrder(txs)
           n == Len(order)
           Same(i, q) == g[i] = Recached(f[i], q) /\ CacheOver(c.trie, f[i].apps, q)
           S == {i \in 0 .. n : f[i].st = "ok" => \E q \in Caches : Same(i, q)}
<1>1. n \in Nat
  <2>1. order \in Seq(Transactions)
    BY Zenon, OrderType
  <2> QED
    BY <2>1
<1>2. f \in [0 .. n -> Good(c)]
  BY Zenon DEF Traces
<1>3. f[n] \in Good(c)
  BY <1>1, <1>2
<1>4. 0 \in S
  <2>1. f[0] = Start(at, txs, c.stored, c.codes, c.loaded) /\ g[0] = Start(at, txs, c.stored, c.codes, f[n].apps)
    BY Zenon DEF Traces, Last
  <2>2. g[0] = Recached(f[0], f[n].apps) /\ f[0].apps = c.loaded
    BY <2>1 DEF Start, Recached
  <2>3. CacheOver(c.trie, c.loaded, f[n].apps)
    BY Zenon, <1>3 DEF Good, CacheOver
  <2>4. f[n].apps \in Caches
    BY Zenon, <1>3 DEF Good, Runs
  <2>5. 0 \in 0 .. n
    BY <1>1
  <2> QED
    BY Zenon, <2>2, <2>3, <2>4, <2>5
<1>5. ASSUME NEW i \in 1 .. n, i - 1 \in S PROVE i \in S
  <2> SUFFICES ASSUME f[i].st = "ok" PROVE \E q \in Caches : Same(i, q)
    BY <1>1
  <2>1. /\ f[i - 1] \in Good(c) /\ f[i - 1].st = "ok" /\ f[i - 1] \in Runs
        /\ f[i] = apply_transaction(c.trie, f[i - 1], order[i])
        /\ order[i] \in Transactions /\ order[i].from \in c.named /\ to(order[i]) \in c.named
    <3>1. /\ f[i - 1] \in Good(c) /\ f[i - 1] \in Runs /\ (f[i].st = "ok" => f[i - 1].st = "ok")
          /\ f[i] = IF f[i - 1].st = "ok" THEN apply_transaction(c.trie, f[i - 1], order[i]) ELSE f[i - 1]
          /\ order[i] \in Transactions /\ order[i].from \in c.named /\ to(order[i]) \in c.named
      <4>1. OneStep(f, c, txs, i)
        BY Zenon, TraceFacts
      <4> QED
        BY Zenon, <4>1 DEF OneStep
    <3> QED
      BY Zenon, <3>1
  <2>2. PICK q \in Caches : Same(i - 1, q)
    BY Zenon, <1>5, <2>1
  <2>3. g[i] = Stepped(c.trie, g[i - 1], order[i])
    BY Zenon DEF Traces
  <2>4. g[i - 1].st = "ok"
    <3>1. Recached(f[i - 1], q).st = f[i - 1].st
      BY Zenon, <2>1, RecachedStatus
    <3> QED
      BY Zenon, <2>1, <2>2, <3>1
  <2>5. g[i] = apply_transaction(c.trie, Recached(f[i - 1], q), order[i])
    BY Zenon, <2>2, <2>3, <2>4 DEF Stepped
  <2>6. apply_transaction(c.trie, f[i - 1], order[i]).st = "ok" /\ CacheOver(c.trie, f[i - 1].apps, q)
    BY Zenon, <2>1, <2>2
  <2> HIDE DEF order
  <2>7. \E q2 \in Caches :
             /\ apply_transaction(c.trie, Recached(f[i - 1], q), order[i]) = Recached(apply_transaction(c.trie, f[i - 1], order[i]), q2)
             /\ CacheOver(c.trie, apply_transaction(c.trie, f[i - 1], order[i]).apps, q2)
    BY <2>1, <2>6, ApplyRepeats
  <2> QED
    BY Zenon, <2>1, <2>5, <2>7
<1>6. \A i \in 0 .. n : i \in S
  <2> HIDE DEF S, n
  <2> QED
    BY Zenon, <1>1, <1>4, <1>5, UpTo
<1>7. n \in S
  <2> HIDE DEF S, n
  <2>1. n \in 0 .. n
    BY <1>1
  <2> QED
    BY Zenon, <1>6, <2>1
<1> QED
  BY Zenon, <1>7 DEF Last

\* The same in the form in which it is cited.
RunTwice(c, d, at, txs, f, g) ==
    /\ c \in Contexts /\ d \in Contexts /\ txs \in Seq(Transactions)
    /\ Traces(f, c, at, txs) /\ Traces(g, d, at, txs) /\ c.named = Named(txs)
    /\ d.trie = c.trie /\ d.stored = c.stored /\ d.codes = c.codes
    /\ d.loaded = Last(f, txs).apps /\ Last(f, txs).st = "ok"

LEMMA SecondTimeIsSame ==
    ASSUME NEW c, NEW d, NEW at, NEW txs, NEW f, NEW g, RunTwice(c, d, at, txs, f, g)
    PROVE  \E q \in Caches : Last(g, txs) = Recached(Last(f, txs), q)
BY SecondTimeAgrees DEF RunTwice

(* A block of payments comes out the same whatever state it is executed on *)
(* and whatever is in the cache.                                           *)
LEMMA PlainTimesAgree ==
    ASSUME NEW c \in Contexts, NEW d \in Contexts, NEW at, NEW txs \in Seq(Transactions), NEW f, NEW g,
           Traces(f, c, at, txs), Traces(g, d, at, txs), c.named = Named(txs), Plain(txs),
           d.stored = c.stored, d.codes = c.codes
    PROVE  Last(g, txs) = Recached(Last(f, txs), d.loaded)
<1> DEFINE order == ExecutionOrder(txs)
           n == Len(order)
           S == {i \in 0 .. n : g[i] = Recached(f[i], d.loaded)}
<1>1. n \in Nat
  <2>1. order \in Seq(Transactions)
    BY Zenon, OrderType
  <2> QED
    BY <2>1
<1>2. d.loaded \in Caches
  BY Zenon DEF Contexts
<1>4. 0 \in S
  <2>1. f[0] = Start(at, txs, c.stored, c.codes, c.loaded) /\ g[0] = Start(at, txs, c.stored, c.codes, d.loaded)
    BY Zenon DEF Traces
  <2>2. g[0] = Recached(f[0], d.loaded)
    BY <2>1 DEF Start, Recached
  <2>5. 0 \in 0 .. n
    BY <1>1
  <2> QED
    BY Zenon, <2>2, <2>5
<1>5. ASSUME NEW i \in 1 .. n, i - 1 \in S PROVE i \in S
  <2>1. /\ f[i - 1] \in Runs /\ i \in 0 .. n
        /\ f[i] = IF f[i - 1].st = "ok" THEN apply_transaction(c.trie, f[i - 1], order[i]) ELSE f[i - 1]
        /\ Executed(c.trie, f[i - 1], order[i]) \in Runs
    <3>1. OneStep(f, c, txs, i)
      BY Zenon, TraceFacts
    <3> QED
      BY Zenon, <3>1 DEF OneStep
  <2>2. g[i - 1] = Recached(f[i - 1], d.loaded) /\ g[i - 1].st = f[i - 1].st
    <3>1. Recached(f[i - 1], d.loaded).st = f[i - 1].st
      BY Zenon, <2>1, RecachedStatus
    <3> QED
      BY Zenon, <1>5, <3>1
  <2>3. g[i] = Stepped(d.trie, g[i - 1], order[i])
    BY Zenon DEF Traces
  <2>4. order[i].kind \in {"payment", "raw"}
    BY Zenon, OrderFacts
  <2> HIDE DEF order
  <2>5. apply_transaction(d.trie, Recached(f[i - 1], d.loaded), order[i])
            = Recached(apply_transaction(c.trie, f[i - 1], order[i]), d.loaded)
    <3>1. f[i - 1] \in Runs /\ Executed(c.trie, f[i - 1], order[i]) \in Runs
      BY Zenon, <2>1
    <3>2. Repeats(c.trie, d.trie, f[i - 1], d.loaded, order[i])
      BY <1>2, <2>4, <3>1, PlainRepeats
    <3> QED
      BY Zenon, <3>2 DEF Repeats
  <2>6. g[i] = Recached(f[i], d.loaded)
    BY Zenon, <2>1, <2>2, <2>3, <2>5 DEF Stepped
  <2> QED
    BY Zenon, <2>1, <2>6
<1>6. \A i \in 0 .. n : i \in S
  <2> HIDE DEF S, n
  <2> QED
    BY Zenon, <1>1, <1>4, <1>5, UpTo
<1>7. n \in S
  <2> HIDE DEF S, n
  <2>1. n \in 0 .. n
    BY <1>1
  <2> QED
    BY Zenon, <1>6, <2>1
<1> QED
  BY Zenon, <1>7 DEF Last

\* The same in the form in which it is cited.
PlainTwice(c, d, at, txs, f, g) ==
    /\ c \in Contexts /\ d \in Contexts /\ txs \in Seq(Transactions) /\ Plain(txs)
    /\ Traces(f, c, at, txs) /\ Traces(g, d, at, txs) /\ c.named = Named(txs)
    /\ d.stored = c.stored /\ d.codes = c.codes

LEMMA PlainTimeIsSame ==
    ASSUME NEW c, NEW d, NEW at, NEW txs, NEW f, NEW g, PlainTwice(c, d, at, txs, f, g)
    PROVE  Last(g, txs) = Recached(Last(f, txs), d.loaded)
BY PlainTimesAgree DEF PlainTwice

-----------------------------------------------------------------------------
(* The roots that come out *)

\* Contents that fit: complete in the stores, with the registry, and with no
\* nonce below the floor.
Sound(content, stored, codes) ==
    content \in Contents /\ Complete(content, stored, codes) /\ HasApp(content, Registry)

Above(content, floor) == \A a \in Addresses : AccountAt(content, a).nonce >= floor[a]

\* One account is put into contents.
LEMMA PutRead ==
    ASSUME NEW w \in Contents, NEW a \in Addresses, NEW x \in Account
    PROVE  \A b \in Addresses : AccountAt([w EXCEPT ![a] = x], b) = IF b = a THEN x ELSE AccountAt(w, b)
<1> DEFINE new == [w EXCEPT ![a] = x]
<1>1. \A b \in Addresses : new[b] = IF b = a THEN x ELSE w[b]
  BY DEF Contents
<1>2. x # None
  BY Zenon, NoneIsNoAccount
<1> HIDE DEF new
<1>3. \A b \in Addresses : AccountAt(new, b) = IF b = a THEN x ELSE AccountAt(w, b)
  BY Zenon, <1>1, <1>2 DEF AccountAt
<1> QED
  BY Zenon, <1>3 DEF new

\* One account is put into sound contents.
LEMMA PutFacts ==
    ASSUME NEW w, NEW stored, NEW codes, Sound(w, stored, codes), NEW a \in Addresses, NEW x \in Account,
           OnDisk(a, x, stored, codes), a = Registry => x.app # NoApp
    PROVE  Sound([w EXCEPT ![a] = x], stored, codes)
<1> DEFINE new == [w EXCEPT ![a] = x]
<1>1. w \in Contents
  BY Zenon DEF Sound
<1>2. new \in Contents /\ \A b \in Addresses : new[b] = IF b = a THEN x ELSE w[b]
  BY <1>1 DEF Contents
<1>3. x # None
  BY Zenon, NoneIsNoAccount
<1> HIDE DEF new
<1>4. Complete(new, stored, codes)
  BY Zenon, <1>2 DEF Complete, Sound
<1>5. HasApp(new, Registry)
  BY Zenon, <1>2, <1>3, AddressAssumption DEF HasApp, Sound
<1> QED
  BY Zenon, <1>2, <1>4, <1>5 DEF Sound, new

\* The changes of a run are put into sound contents.
LEMMA WrittenFacts ==
    ASSUME NEW c \in Contexts, NEW r \in Good(c), NEW at, Sound(at, c.stored, c.codes), Above(at, c.floor)
    PROVE  /\ Sound(Written(at, r.states), r.appdata, r.metadata)
           /\ Above(Written(at, r.states), c.floor)
<1> DEFINE w == Written(at, r.states)
<1>1. at \in Contents /\ r.states \in Contents
  BY Zenon DEF Good, Runs, Sound
<1>2. w \in Contents /\ \A a \in Addresses : w[a] = IF r.states[a] = None THEN at[a] ELSE r.states[a]
  BY <1>1 DEF Written, Over, Contents
<1>3. c.stored \subseteq r.appdata /\ c.codes \subseteq r.metadata
      /\ \A a \in Addresses : r.states[a] # None => Fits(c, r, a, r.states[a])
  BY Zenon DEF Good
<1> HIDE DEF w
<1>4. ASSUME NEW a \in Addresses
      PROVE  /\ w[a] # None => OnDisk(a, w[a], r.appdata, r.metadata)
             /\ AccountAt(w, a).nonce >= c.floor[a]
             /\ a = Registry => HasApp(w, a)
  <2>1. CASE r.states[a] = None
    <3>1. w[a] = at[a] /\ AccountAt(w, a) = AccountAt(at, a)
      BY Zenon, <1>2, <2>1 DEF AccountAt
    <3>2. w[a] # None => OnDisk(a, w[a], c.stored, c.codes)
      BY Zenon, <3>1 DEF Sound, Complete
    <3>3. w[a] # None => OnDisk(a, w[a], r.appdata, r.metadata)
      BY Zenon, <1>3, <3>2 DEF OnDisk
    <3> QED
      BY Zenon, <3>1, <3>3 DEF Above, Sound, HasApp
  <2>2. CASE r.states[a] # None
    <3>1. w[a] = r.states[a] /\ AccountAt(w, a) = r.states[a] /\ w[a] # None
      BY Zenon, <1>2, <2>2 DEF AccountAt
    <3> QED
      BY Zenon, <1>3, <2>2, <3>1 DEF Fits, HasApp
  <2> QED
    BY Zenon, <2>1, <2>2
<1> QED
  BY Zenon, <1>2, <1>4, AddressAssumption DEF Sound, Above, Complete, w

\* What apply_txs with credit_balance, and apply_txs_no_commit, commit is sound.
LEMMA RootFacts ==
    ASSUME NEW c \in Contexts, NEW r \in Good(c), NEW at, Sound(at, c.stored, c.codes), Above(at, c.floor),
           NEW b \in Block
    PROVE  /\ Sound(RootOf(at, b, r), r.appdata, r.metadata)
           /\ Above(RootOf(at, b, r), c.floor)
           /\ Sound(NoCommitRoot(at, b, r), r.appdata, r.metadata)
<1> DEFINE w == Written(at, r.states)
           k == b.coinbase
           x == [AccountAt(w, k) EXCEPT !.free = @ + Reward]
           old == IF at[k] = None THEN AccountState_default ELSE at[k]
           y == [old EXCEPT !.free = @ + Reward]
<1>1. k \in Addresses /\ Reward \in Nat
  BY BlockAssumption
<1>2. Sound(w, r.appdata, r.metadata) /\ Above(w, c.floor) /\ w \in Contents /\ at \in Contents
  BY Zenon, WrittenFacts DEF Sound
<1>3. RootOf(at, b, r) = [w EXCEPT ![k] = x]
  BY Zenon DEF RootOf, credit_balance
<1>4. NoCommitRoot(at, b, r) = [w EXCEPT ![k] = y]
  BY Zenon DEF NoCommitRoot
<1> HIDE DEF w, k
<1>5. x \in Account /\ x.app = AccountAt(w, k).app /\ x.nonce = AccountAt(w, k).nonce
  <2>1. AccountAt(w, k) \in Account
    BY Zenon, <1>1, <1>2, AccountTypes
  <2> QED
    BY <1>1, <2>1 DEF Account
<1>6. OnDisk(k, x, r.appdata, r.metadata) /\ (k = Registry => x.app # NoApp)
  <2>1. AccountState_new.app = NoApp
    BY DEF AccountState_new
  <2>2. HasApp(w, Registry) /\ Complete(w, r.appdata, r.metadata)
    BY Zenon, <1>2 DEF Sound
  <2>3. CASE w[k] = None
    <3>1. k # Registry
      BY Zenon, <2>2, <2>3 DEF HasApp
    <3>2. x.app = NoApp
      BY Zenon, <1>5, <2>1, <2>3 DEF AccountAt
    <3> QED
      BY Zenon, <3>1, <3>2 DEF OnDisk
  <2>4. CASE w[k] # None
    <3>1. OnDisk(k, w[k], r.appdata, r.metadata) /\ x.app = w[k].app
      BY Zenon, <1>1, <1>5, <2>2, <2>4 DEF AccountAt, Complete
    <3> QED
      BY Zenon, <2>2, <3>1 DEF OnDisk, HasApp
  <2> QED
    BY Zenon, <2>3, <2>4
<1>7. old \in Account /\ y \in Account /\ y.app = old.app
  <2>1. AccountState_default \in Account
    BY DEF AccountState_default, AccountState_new, Account
  <2>2. old \in Account
    BY Zenon, <1>1, <1>2, <2>1 DEF Contents
  <2> HIDE DEF old
  <2> QED
    BY <1>1, <2>2 DEF Account
<1>8. OnDisk(k, y, r.appdata, r.metadata) /\ (k = Registry => y.app # NoApp)
  <2>1. AccountState_default.app = NoApp
    BY DEF AccountState_new, AccountState_default
  <2>2. HasApp(at, Registry) /\ Complete(at, c.stored, c.codes) /\ c.stored \subseteq r.appdata /\ c.codes \subseteq r.metadata
    BY Zenon DEF Sound, Good
  <2>3. CASE at[k] = None
    <3>1. k # Registry
      BY Zenon, <2>2, <2>3 DEF HasApp
    <3>2. y.app = NoApp
      BY Zenon, <1>7, <2>1, <2>3
    <3> QED
      BY Zenon, <3>1, <3>2 DEF OnDisk
  <2>4. CASE at[k] # None
    <3>1. OnDisk(k, at[k], c.stored, c.codes) /\ y.app = at[k].app
      BY Zenon, <1>1, <1>7, <2>2, <2>4 DEF Complete
    <3> QED
      BY Zenon, <2>2, <3>1 DEF OnDisk, HasApp
  <2> QED
    BY Zenon, <2>3, <2>4
<1> HIDE DEF x, y, old
<1>9. Sound([w EXCEPT ![k] = x], r.appdata, r.metadata) /\ Sound([w EXCEPT ![k] = y], r.appdata, r.metadata)
  BY Zenon, <1>1, <1>2, <1>5, <1>6, <1>7, <1>8, PutFacts
<1>10. \A a \in Addresses : AccountAt([w EXCEPT ![k] = x], a) = IF a = k THEN x ELSE AccountAt(w, a)
  <2>1. w \in Contents
    BY Zenon, <1>2 DEF Sound
  <2> QED
    BY <1>1, <1>5, <2>1, PutRead
<1>11. Above([w EXCEPT ![k] = x], c.floor)
  BY Zenon, <1>2, <1>5, <1>10 DEF Above
<1> QED
  BY Zenon, <1>3, <1>4, <1>9, <1>11

\* f is the block executed in context c, with every run of it good.
RunsIn(c, f, at, trie, txs, stored, codes, loaded, floor) ==
    /\ c.trie = trie /\ c.named = Named(txs) /\ c.stored = stored /\ c.codes = codes
    /\ c.loaded = loaded /\ c.floor = floor
    /\ Traces(f, c, at, txs)
    /\ Last(f, txs) \in Good(c)
    /\ Last(f, txs) = ApplyAll(at, trie, txs, stored, codes, loaded)

(* A block executed on sound contents leaves sound runs. *)
LEMMA BlockRuns ==
    ASSUME NEW at, NEW trie, NEW txs \in Seq(Transactions), NEW stored \in Stores, NEW codes \in SUBSET Code,
           NEW loaded \in Caches, NEW floor \in [Addresses -> Nat],
           Sound(at, stored, codes), Sound(trie, stored, codes), Above(at, floor), Above(trie, floor)
    PROVE  \E c \in Contexts : \E f : RunsIn(c, f, at, trie, txs, stored, codes, loaded, floor)
<1> DEFINE c == [trie |-> trie, named |-> Named(txs), stored |-> stored, codes |-> codes, loaded |-> loaded,
                 floor |-> floor]
<1>1. at \in Contents /\ trie \in Contents /\ Named(txs) \in SUBSET Addresses
  BY Zenon, NamedType DEF Sound
<1>2. ASSUME NEW x \in Contents, Above(x, floor)
      PROVE  \A a \in Addresses : floor[a] <= AccountAt(x, a).nonce
  <2> SUFFICES ASSUME NEW a \in Addresses PROVE floor[a] <= AccountAt(x, a).nonce
    OBVIOUS
  <2>1. AccountAt(x, a).nonce \in Nat /\ floor[a] \in Nat
    BY AccountTypes DEF Account
  <2>2. AccountAt(x, a).nonce >= floor[a]
    BY Zenon, <1>2 DEF Above
  <2> QED
    BY <2>1, <2>2
<1>3. /\ c.trie = trie /\ c.named = Named(txs) /\ c.stored = stored /\ c.codes = codes /\ c.loaded = loaded
      /\ c.floor = floor
      /\ c \in [trie : Contents, named : SUBSET Addresses, stored : Stores, codes : SUBSET Code,
                loaded : Caches, floor : [Addresses -> Nat]]
  BY <1>1
<1> HIDE DEF c
<1>4. c \in Contexts
  BY Zenon, <1>1, <1>2, <1>3 DEF Contexts, Sound
<1>5. PICK f : Traces(f, c, at, txs)
  <2>1. Complete(at, c.stored, c.codes) /\ HasApp(at, Registry) /\ \A a \in Addresses : c.floor[a] <= AccountAt(at, a).nonce
    BY Zenon, <1>1, <1>2, <1>3 DEF Sound
  <2> QED
    BY <1>1, <1>3, <1>4, <2>1, BlockTraces
<1>6. Last(f, txs) \in Good(c)
  <2>1. ExecutionOrder(txs) \in Seq(Transactions)
    BY Zenon, OrderType
  <2>2. Len(ExecutionOrder(txs)) \in 0 .. Len(ExecutionOrder(txs))
    BY <2>1
  <2> QED
    BY Zenon, <1>5, <2>2 DEF Traces, Last
<1>7. Last(f, txs) = ApplyAll(at, trie, txs, stored, codes, loaded)
  BY Zenon, <1>3, <1>5 DEF Traces, Last
<1> QED
  BY Zenon, <1>3, <1>4, <1>5, <1>6, <1>7 DEF RunsIn

-----------------------------------------------------------------------------
(* The invariants *)

IInv ==
    /\ TypeOK
    /\ LiveIsHeads
    /\ \A h \in headers : Sound(h.root, appdata, metadata)

\* What the invariant says in the form the steps use.
LEMMA InvFacts ==
    ASSUME IInv
    PROVE  /\ appdata \in Stores /\ metadata \in SUBSET Code /\ apps \in Caches /\ head \in headers
           /\ live = head.root
           /\ \A h \in headers : /\ h \in [root : Contents, level : 0 .. MaxLevel]
                                 /\ h.root \in Contents
                                 /\ Sound(h.root, appdata, metadata)
<1>1. headers \subseteq [root : Contents, level : 0 .. MaxLevel]
  BY Zenon DEF IInv, TypeOK
<1>2. \A h \in headers : h \in [root : Contents, level : 0 .. MaxLevel] /\ h.root \in Contents
  BY <1>1
<1> QED
  BY Zenon, <1>2 DEF IInv, TypeOK, LiveIsHeads, Stores

\* What is known of a block.
LEMMA BlockFacts ==
    ASSUME NEW b \in Block
    PROVE  b.txs \in Seq(Transactions) /\ b.coinbase \in Addresses
BY BlockAssumption

NonceOf(content) == [a \in Addresses |-> AccountAt(content, a).nonce]

\* Contents are not below their own nonces,
LEMMA Floors ==
    ASSUME NEW content \in Contents
    PROVE  NonceOf(content) \in [Addresses -> Nat] /\ Above(content, NonceOf(content))
<1>1. \A a \in Addresses : AccountAt(content, a).nonce \in Nat
  BY AccountTypes DEF Account
<1> QED
  BY <1>1 DEF NonceOf, Above

\* nor below zero.
LEMMA NoFloor ==
    ASSUME NEW content \in Contents
    PROVE  [a \in Addresses |-> 0] \in [Addresses -> Nat] /\ Above(content, [a \in Addresses |-> 0])
<1>1. \A a \in Addresses : AccountAt(content, a).nonce \in Nat
  BY AccountTypes DEF Account
<1> QED
  BY <1>1 DEF Above

\* What process_block makes of a block, and accept_block on and off the head.
First(parent, b) == ApplyAll(parent.root, parent.root, b.txs, appdata, metadata, apps)
Again(parent, b) == ApplyAll(parent.root, parent.root, b.txs, appdata, metadata, First(parent, b).apps)
Aside(parent, b) == ApplyAll(parent.root, live, b.txs, appdata, metadata, First(parent, b).apps)

Stored(r) == r \in Runs /\ appdata \subseteq r.appdata /\ metadata \subseteq r.metadata

(* Executing a block on a snapshot of its parent. *)
LEMMA FirstRuns ==
    ASSUME IInv, NEW parent \in headers, NEW b \in Block
    PROVE  LET r == First(parent, b)
           IN  /\ Stored(r)
               /\ Sound(RootOf(parent.root, b, r), r.appdata, r.metadata)
               /\ Above(RootOf(parent.root, b, r), NonceOf(parent.root))
<1> DEFINE r == First(parent, b)
           root == parent.root
           floor == NonceOf(root)
<1>1. /\ appdata \in Stores /\ metadata \in SUBSET Code /\ apps \in Caches
      /\ root \in Contents /\ Sound(root, appdata, metadata) /\ b.txs \in Seq(Transactions)
      /\ floor \in [Addresses -> Nat] /\ Above(root, floor)
  BY Zenon, InvFacts, BlockFacts, Floors
<1> HIDE DEF floor, root
<1>2. PICK c \in Contexts : \E f : RunsIn(c, f, root, root, b.txs, appdata, metadata, apps, floor)
  BY <1>1, BlockRuns
<1>3. r \in Good(c) /\ Sound(root, c.stored, c.codes) /\ Above(root, c.floor)
  BY Zenon, <1>1, <1>2 DEF First, root, RunsIn
<1>4. c.stored = appdata /\ c.codes = metadata /\ c.floor = floor
  BY Zenon, <1>2 DEF RunsIn
<1> HIDE DEF r
<1>5. /\ Sound(RootOf(root, b, r), r.appdata, r.metadata) /\ Above(RootOf(root, b, r), floor)
  BY <1>3, <1>4, RootFacts
<1>6. Stored(r)
  BY Zenon, <1>3, <1>4 DEF Stored, Good
<1> QED
  BY Zenon, <1>5, <1>6 DEF r, root, floor

(* accept_block executes it once more on the live state: the same comes    *)
(* out.                                                                    *)
LEMMA AgainRuns ==
    ASSUME IInv, NEW parent \in headers, NEW b \in Block, First(parent, b).st = "ok"
    PROVE  LET r == First(parent, b)
               s == Again(parent, b)
           IN  Stored(s) /\ s.st = "ok" /\ s.states = r.states /\ s.appdata = r.appdata /\ s.metadata = r.metadata
<1> DEFINE r == First(parent, b)
           s == Again(parent, b)
           root == parent.root
           txs == b.txs
           floor == NonceOf(root)
           Is(c, f, loaded) == RunsIn(c, f, root, root, txs, appdata, metadata, loaded, floor)
<1>1. /\ appdata \in Stores /\ metadata \in SUBSET Code /\ apps \in Caches
      /\ root \in Contents /\ Sound(root, appdata, metadata) /\ txs \in Seq(Transactions)
      /\ floor \in [Addresses -> Nat] /\ Above(root, floor)
  BY Zenon, InvFacts, BlockFacts, Floors
<1>0. Stored(r)
  BY Zenon, FirstRuns
<1>2. r.apps \in Caches
  BY Zenon, <1>0 DEF Stored, Runs
<1> HIDE DEF floor, root, txs
<1>3. \E c \in Contexts : \E f : Is(c, f, apps)
  BY <1>1, BlockRuns
<1>4. \E c \in Contexts : \E f : Is(c, f, r.apps)
  <2> HIDE DEF r
  <2> QED
    BY <1>1, <1>2, BlockRuns
<1>5. PICK c \in Contexts : \E f : Is(c, f, apps)
  BY Zenon, <1>3
<1>6. PICK d \in Contexts : \E f : Is(d, f, r.apps)
  BY Zenon, <1>4
<1>7. PICK f : Is(c, f, apps)
  BY Zenon, <1>5
<1>8. PICK g : Is(d, g, r.apps)
  BY Zenon, <1>6
<1>9. Last(f, txs) = r /\ Last(g, txs) = s
  BY Zenon, <1>7, <1>8 DEF First, Again, root, txs, RunsIn
<1>10. r \in Runs /\ s \in Good(d) /\ d.stored = appdata /\ d.codes = metadata
  BY Zenon, <1>0, <1>8, <1>9 DEF Stored, RunsIn
<1>11. \E q \in Caches : s = Recached(r, q)
  <2>1. /\ Traces(f, c, root, txs) /\ Traces(g, d, root, txs) /\ c.named = Named(txs)
        /\ d.trie = c.trie /\ d.stored = c.stored /\ d.codes = c.codes
        /\ d.loaded = Last(f, txs).apps /\ Last(f, txs).st = "ok"
    BY Zenon, <1>7, <1>8, <1>9 DEF RunsIn
  <2>2. \E q \in Caches : Last(g, txs) = Recached(Last(f, txs), q)
    <3> HIDE DEF r, s
    <3>1. RunTwice(c, d, root, txs, f, g)
      BY Zenon, <1>1, <2>1 DEF RunTwice
    <3> QED
      BY <3>1, SecondTimeIsSame
  <2> QED
    BY Zenon, <1>9, <2>2
<1>12. PICK q \in Caches : s = Recached(r, q)
  BY Zenon, <1>11
<1>13. Stored(s)
  BY Zenon, <1>10 DEF Stored, Good
<1> HIDE DEF r
<1>14. s.st = r.st /\ s.states = r.states /\ s.appdata = r.appdata /\ s.metadata = r.metadata
  BY <1>10, <1>12, RecachedFields
<1> QED
  BY Zenon, <1>13, <1>14 DEF r

(* apply_txs_no_commit on the live state. *)
LEMMA AsideRuns ==
    ASSUME IInv, NEW parent \in headers, NEW b \in Block
    PROVE  LET s == Aside(parent, b)
           IN  /\ Stored(s)
               /\ Sound(NoCommitRoot(parent.root, b, s), s.appdata, s.metadata)
<1> DEFINE r == First(parent, b)
           s == Aside(parent, b)
           root == parent.root
           floor == [a \in Addresses |-> 0]
<1>1. /\ appdata \in Stores /\ metadata \in SUBSET Code
      /\ root \in Contents /\ Sound(root, appdata, metadata) /\ b.txs \in Seq(Transactions)
      /\ live \in Contents /\ Sound(live, appdata, metadata)
  BY Zenon, InvFacts, BlockFacts
<1>0. floor \in [Addresses -> Nat] /\ Above(root, floor) /\ Above(live, floor)
  BY Zenon, <1>1, NoFloor
<1>2. r.apps \in Caches
  BY Zenon, FirstRuns DEF Stored, Runs
<1> HIDE DEF floor, root, r
<1>3. PICK c \in Contexts : \E f : RunsIn(c, f, root, live, b.txs, appdata, metadata, r.apps, floor)
  BY <1>0, <1>1, <1>2, BlockRuns
<1>4. s \in Good(c) /\ Sound(root, c.stored, c.codes) /\ Above(root, c.floor)
  BY Zenon, <1>0, <1>1, <1>3 DEF Aside, root, r, RunsIn
<1>5. c.stored = appdata /\ c.codes = metadata
  BY Zenon, <1>3 DEF RunsIn
<1> HIDE DEF s
<1>6. Sound(NoCommitRoot(root, b, s), s.appdata, s.metadata)
  BY <1>4, RootFacts
<1>7. Stored(s)
  BY Zenon, <1>4, <1>5 DEF Stored, Good
<1> QED
  BY Zenon, <1>6, <1>7 DEF s, root

\* Stores that grow keep contents sound.
LEMMA SoundStays ==
    ASSUME NEW x, NEW stored, NEW codes, Sound(x, stored, codes), NEW D, NEW M, stored \subseteq D, codes \subseteq M
    PROVE  Sound(x, D, M)
<1>1. x \in Contents /\ HasApp(x, Registry) /\ \A a \in Addresses : x[a] # None => OnDisk(a, x[a], stored, codes)
  BY Zenon DEF Sound, Complete
<1>2. \A a \in Addresses : x[a] # None => OnDisk(a, x[a], D, M)
  BY Zenon, <1>1 DEF OnDisk
<1> QED
  BY Zenon, <1>1, <1>2 DEF Sound, Complete

\* After the rollback, if there is one, the state is that of the header.
LEMMA BaseFacts ==
    ASSUME IInv, NEW parent \in headers
    PROVE  /\ BaseOf(parent) \in headers
           /\ BaseState(parent) = BaseOf(parent).root
BY Zenon, InvFacts DEF BaseOf, BaseState

\* The genesis state: Zero is funded, the registry is installed.
LEMMA InitHolds == Init => IInv
<1> SUFFICES ASSUME Init PROVE IInv
  OBVIOUS
<1>1. Genesis \in Contents
  <2>1. [AccountState_new EXCEPT !.free = Supply] \in Account
    BY BlockAssumption DEF AccountState_new, Account
  <2>2. [AccountState_new EXCEPT !.app = [root |-> Restricted, code |-> RegistryCode]] \in Account
    BY CodeAssumption DEF AccountState_new, Account
  <2> QED
    BY Zenon, <2>1, <2>2 DEF Genesis, Contents
<1>2. /\ Genesis[Zero] = [AccountState_new EXCEPT !.free = Supply]
      /\ Genesis[Registry] = [AccountState_new EXCEPT !.app = [root |-> Restricted, code |-> RegistryCode]]
      /\ \A a \in Addresses : a # Zero /\ a # Registry => Genesis[a] = None
  BY AddressAssumption DEF Genesis
<1>3. /\ Genesis[Zero].app = NoApp
      /\ Genesis[Registry].app = [root |-> Restricted, code |-> RegistryCode]
      /\ Genesis[Registry].app.root = Restricted /\ Genesis[Registry].app.code = RegistryCode
      /\ Genesis[Registry].app # NoApp /\ Genesis[Registry] # None
  BY <1>2 DEF AccountState_new, NoApp, None
<1>4. Complete(Genesis, appdata, metadata)
  <2> SUFFICES ASSUME NEW a \in Addresses, Genesis[a] # None PROVE OnDisk(a, Genesis[a], appdata, metadata)
    BY Zenon DEF Complete
  <2>1. a = Zero \/ a = Registry
    BY Zenon, <1>2
  <2> QED
    BY Zenon, <1>3, <2>1 DEF OnDisk, Init
<1>5. Sound(Genesis, appdata, metadata)
  BY Zenon, <1>1, <1>3, <1>4 DEF Sound, HasApp
<1>6. /\ Header(Genesis, 0) \in [root : Contents, level : 0 .. MaxLevel] /\ Header(Genesis, 0).root = Genesis
  BY <1>1, BlockAssumption DEF Header
<1>7. Untouched \in Caches
  BY Zenon DEF Untouched, Caches
<1>8. last.outcome = "none" /\ last.parent = Header(Genesis, 0)
  BY DEF Init, Nothing, Did
<1>9. appdata \subseteq Addresses \X SUBSET Slot /\ metadata \subseteq Code
  BY AddressAssumption, CodeAssumption DEF Init
<1>10. TypeOK
  BY <1>1, <1>6, <1>7, <1>8, <1>9 DEF TypeOK, Init
<1> QED
  BY Zenon, <1>5, <1>6, <1>10 DEF IInv, LiveIsHeads, Init

\* A start from a stored header.
LEMMA ReopenKeeps ==
    ASSUME IInv, NEW h \in headers, Reopen(h)
    PROVE  IInv'
<1>1. h.root \in Contents /\ Sound(h.root, appdata, metadata)
  BY Zenon, InvFacts
<1>2. h.root[Registry].app.code \in Code
  <2>1. h.root[Registry] \in Account /\ h.root[Registry].app # NoApp
    BY Zenon, <1>1, AddressAssumption DEF Sound, HasApp, Contents
  <2> QED
    BY <2>1 DEF Account
<1>3. apps' \in Caches
  <2>1. [code |-> h.root[Registry].app.code] \in [code : Code]
    BY <1>2
  <2>2. apps' = [Untouched EXCEPT ![Registry] = [code |-> h.root[Registry].app.code]]
    BY Zenon DEF Reopen
  <2> QED
    BY Zenon, <2>1, <2>2 DEF Untouched, Caches
<1>4. last'.outcome = "none" /\ last'.parent = h
  BY DEF Reopen, Nothing, Did
<1>5. head' = h /\ live' = h.root /\ headers' = headers /\ appdata' = appdata /\ metadata' = metadata
  BY Zenon DEF Reopen
<1>6. TypeOK'
  BY <1>1, <1>3, <1>4, <1>5 DEF IInv, TypeOK
<1> QED
  BY Zenon, <1>5, <1>6 DEF IInv, LiveIsHeads

\* A block that is refused leaves the base it was compared with.
LEMMA RefuseKeeps ==
    ASSUME IInv, NEW parent \in headers, NEW b \in Block, Refuse(parent, b, First(parent, b))
    PROVE  IInv'
<1>1. BaseOf(parent) \in headers /\ BaseState(parent) = BaseOf(parent).root
  BY Zenon, BaseFacts
<1>2. BaseOf(parent).root \in Contents
  BY Zenon, <1>1, InvFacts
<1>3. First(parent, b).apps \in Caches
  BY Zenon, FirstRuns DEF Stored, Runs
<1>4. last'.outcome = "refused" /\ last'.parent = parent
  BY DEF Refuse, Did
<1>5. /\ head' = BaseOf(parent) /\ live' = BaseOf(parent).root /\ headers' = headers /\ appdata' = appdata
      /\ metadata' = metadata /\ apps' = First(parent, b).apps
  BY Zenon, <1>1 DEF Refuse
<1>6. TypeOK'
  BY <1>1, <1>2, <1>3, <1>4, <1>5 DEF IInv, TypeOK
<1> QED
  BY Zenon, <1>5, <1>6 DEF IInv, LiveIsHeads

\* A new header over sound contents.
LEMMA NewHeader ==
    ASSUME IInv, NEW parent \in headers, parent.level < MaxLevel, NEW root, NEW D, NEW M, Sound(root, D, M)
    PROVE  /\ Header(root, parent.level + 1) \in [root : Contents, level : 0 .. MaxLevel]
           /\ Header(root, parent.level + 1).root = root
<1>1. parent \in [root : Contents, level : 0 .. MaxLevel] /\ root \in Contents
  BY Zenon, InvFacts DEF Sound
<1> QED
  BY <1>1, BlockAssumption DEF Header

(* The root in the header is the root of the live state afterwards. *)
LEMMA OnHeadFacts ==
    ASSUME IInv, NEW parent \in headers, NEW b \in Block, First(parent, b).st = "ok", BaseOf(parent) = parent,
           AcceptOnHead(parent, b, First(parent, b))
    PROVE  LET s == Again(parent, b)
               root == RootOf(parent.root, b, First(parent, b))
           IN  /\ live' = root /\ head' = Header(root, parent.level + 1) /\ headers' = headers \cup {head'}
               /\ appdata' = s.appdata /\ metadata' = s.metadata /\ apps' = s.apps
               /\ last' = Did("head", parent, b, Header(root, parent.level + 1).root)
<1> DEFINE r == First(parent, b)
           s == Again(parent, b)
           root == RootOf(parent.root, b, r)
           new == Header(root, parent.level + 1)
<1>1. BaseState(parent) = parent.root
  BY Zenon, BaseFacts
<1>2. /\ live' = IF s.st = "ok" THEN RootOf(parent.root, b, s) ELSE parent.root
      /\ head' = IF s.st = "ok" THEN new ELSE parent
      /\ headers' = headers \cup {head'}
      /\ appdata' = s.appdata /\ metadata' = s.metadata /\ apps' = s.apps
      /\ last' = Did("head", parent, b, new.root)
  BY Zenon, <1>1 DEF AcceptOnHead, Again
<1>3. s.st = "ok" /\ s.states = r.states
  BY Zenon, AgainRuns
<1>4. RootOf(parent.root, b, s) = root
  BY Zenon, <1>3 DEF RootOf
<1> QED
  BY Zenon, <1>2, <1>3, <1>4

\* accept_block on the head.
LEMMA AcceptOnHeadKeeps ==
    ASSUME IInv, NEW parent \in headers, NEW b \in Block, First(parent, b).st = "ok", BaseOf(parent) = parent,
           parent.level < MaxLevel, AcceptOnHead(parent, b, First(parent, b))
    PROVE  IInv'
<1> DEFINE r == First(parent, b)
           s == Again(parent, b)
           root == RootOf(parent.root, b, r)
           new == Header(root, parent.level + 1)
<1>1. /\ live' = root /\ head' = new /\ headers' = headers \cup {new}
      /\ appdata' = s.appdata /\ metadata' = s.metadata /\ apps' = s.apps
      /\ last' = Did("head", parent, b, new.root)
  BY Zenon, OnHeadFacts
<1>2. Stored(s) /\ s.appdata = r.appdata /\ s.metadata = r.metadata
  BY Zenon, AgainRuns
<1>3. Sound(root, s.appdata, s.metadata)
  BY Zenon, <1>2, FirstRuns
<1>4. /\ s.appdata \in Stores /\ s.metadata \in SUBSET Code /\ s.apps \in Caches
      /\ appdata \subseteq s.appdata /\ metadata \subseteq s.metadata
  BY Zenon, <1>2 DEF Stored, Runs
<1> HIDE DEF s, root
<1>5. new \in [root : Contents, level : 0 .. MaxLevel] /\ new.root = root
  BY <1>3, NewHeader
<1>6. root \in Contents
  BY Zenon, <1>3 DEF Sound
<1>7. last'.outcome = "head" /\ last'.parent = parent
  BY <1>1 DEF Did
<1> HIDE DEF new
<1>8. TypeOK'
  <2>1. headers \subseteq [root : Contents, level : 0 .. MaxLevel]
    BY Zenon DEF IInv, TypeOK
  <2> QED
    BY <1>1, <1>4, <1>5, <1>6, <1>7, <2>1 DEF TypeOK, Stores
<1>9. ASSUME NEW h \in headers PROVE Sound(h.root, s.appdata, s.metadata)
  <2>1. Sound(h.root, appdata, metadata)
    BY Zenon, InvFacts
  <2> QED
    BY <1>4, <2>1, SoundStays
<1> QED
  BY Zenon, <1>1, <1>3, <1>5, <1>8, <1>9 DEF IInv, LiveIsHeads

\* accept_block off the head, adopted, stored or rejected.
LEMMA AcceptForkKeeps ==
    ASSUME IInv, NEW parent \in headers, NEW b \in Block, parent.level < MaxLevel,
           AcceptFork(parent, b, First(parent, b))
    PROVE  IInv'
<1> DEFINE r == First(parent, b)
           s == Aside(parent, b)
           root == RootOf(parent.root, b, r)
           new == Header(root, parent.level + 1)
           Taken == /\ s.st = "ok" /\ NoCommitRoot(parent.root, b, s) = new.root
                    /\ headers' = headers \cup {new}
                    /\ head' = IF new.level > head.level THEN new ELSE head
                    /\ live' = IF new.level > head.level THEN new.root ELSE live
                    /\ last' = Did("fork", parent, b, new.root)
           Left == /\ s.st # "ok" \/ NoCommitRoot(parent.root, b, s) # new.root
                   /\ last' = Did("rejected", parent, b, new.root)
                   /\ UNCHANGED <<headers, head, live>>
<1>1. appdata' = s.appdata /\ metadata' = s.metadata /\ apps' = s.apps /\ (Taken \/ Left)
  BY Zenon DEF AcceptFork, Aside
<1>2. Stored(s) /\ Sound(NoCommitRoot(parent.root, b, s), s.appdata, s.metadata)
  BY Zenon, AsideRuns
<1>3. /\ s.appdata \in Stores /\ s.metadata \in SUBSET Code /\ s.apps \in Caches
      /\ appdata \subseteq s.appdata /\ metadata \subseteq s.metadata
  BY Zenon, <1>2 DEF Stored, Runs
<1>4. Sound(root, r.appdata, r.metadata)
  BY Zenon, FirstRuns
<1> HIDE DEF s, root
<1>5. new \in [root : Contents, level : 0 .. MaxLevel] /\ new.root = root
  BY <1>4, NewHeader
<1>6. root \in Contents
  BY Zenon, <1>4 DEF Sound
<1>7. ASSUME NEW h \in headers PROVE Sound(h.root, s.appdata, s.metadata)
  <2>1. Sound(h.root, appdata, metadata)
    BY Zenon, InvFacts
  <2> QED
    BY <1>3, <2>1, SoundStays
<1> HIDE DEF new
<1>8. headers \subseteq [root : Contents, level : 0 .. MaxLevel] /\ head \in headers /\ live = head.root /\ live \in Contents
  BY Zenon DEF IInv, TypeOK, LiveIsHeads
<1>9. CASE Taken
  <2>1. last'.outcome = "fork" /\ last'.parent = parent
    BY <1>9 DEF Did
  <2>2. headers' = headers \cup {new}
    BY Zenon, <1>9
  <2>3. head' \in headers' /\ live' = head'.root /\ live' \in Contents
    BY Zenon, <1>5, <1>6, <1>8, <1>9
  <2>4. TypeOK'
    BY <1>1, <1>3, <1>5, <1>8, <2>1, <2>2, <2>3 DEF TypeOK, Stores
  <2>5. Sound(new.root, s.appdata, s.metadata)
    BY Zenon, <1>2, <1>9
  <2> QED
    BY Zenon, <1>1, <1>7, <2>2, <2>3, <2>4, <2>5 DEF IInv, LiveIsHeads
<1>10. CASE Left
  <2>1. last'.outcome = "rejected" /\ last'.parent = parent
    BY <1>10 DEF Did
  <2>2. headers' = headers /\ head' = head /\ live' = live
    BY Zenon, <1>10
  <2>3. TypeOK'
    BY <1>1, <1>3, <1>8, <2>1, <2>2 DEF TypeOK, Stores
  <2> QED
    BY Zenon, <1>1, <1>7, <1>8, <2>2, <2>3 DEF IInv, LiveIsHeads
<1> QED
  BY Zenon, <1>1, <1>9, <1>10

\* The cases of PutBlock, with r = First(parent, b).
LEMMA PutBlockCases ==
    ASSUME NEW parent, NEW b, PutBlock(parent, b)
    PROVE  LET r == First(parent, b)
           IN  /\ parent.level < MaxLevel
               /\ \/ r.st = "ok" /\ BaseOf(parent) = parent /\ AcceptOnHead(parent, b, r)
                  \/ r.st = "ok" /\ BaseOf(parent) # parent /\ AcceptFork(parent, b, r)
                  \/ Refuse(parent, b, r)
                  \/ Panic(parent)
BY Zenon DEF PutBlock, First

\* Every step keeps the invariant.
LEMMA NextKeeps == IInv /\ [Next]_vars => IInv'
<1> SUFFICES ASSUME IInv, [Next]_vars PROVE IInv'
  OBVIOUS
<1>1. ASSUME NEW parent \in headers, NEW b \in Block, PutBlock(parent, b) PROVE IInv'
  <2> DEFINE r == First(parent, b)
  <2>0. parent.level < MaxLevel
    BY Zenon, <1>1, PutBlockCases
  <2>1. CASE r.st = "ok" /\ BaseOf(parent) = parent /\ AcceptOnHead(parent, b, r)
    BY Zenon, <2>0, <2>1, AcceptOnHeadKeeps
  <2>2. CASE r.st = "ok" /\ BaseOf(parent) # parent /\ AcceptFork(parent, b, r)
    BY Zenon, <2>0, <2>2, AcceptForkKeeps
  <2>3. CASE Refuse(parent, b, r)
    BY Zenon, <2>3, RefuseKeeps
  <2>4. CASE Panic(parent)
    <3>1. BaseOf(parent) \in headers
      BY Zenon, BaseFacts
    <3> QED
      BY Zenon, <2>4, <3>1, ReopenKeeps DEF Panic
  <2> QED
    BY Zenon, <1>1, <2>1, <2>2, <2>3, <2>4, PutBlockCases
<1>2. CASE Restart
  BY Zenon, <1>2, InvFacts, ReopenKeeps DEF Restart
<1>3. CASE UNCHANGED vars
  BY Zenon, <1>3 DEF vars, IInv, TypeOK, LiveIsHeads
<1> QED
  BY Zenon, <1>1, <1>2, <1>3 DEF Next

\* The inductive invariant: types, the live state is the head's, and every
\* stored header names sound contents.
THEOREM Invariant == Spec => []IInv
BY InitHolds, NextKeeps, PTL DEF Spec

\* Contents, stores and cache stay well formed: no payment, reservation or
\* transfer takes a balance below zero, and the cache holds codes.
THEOREM TypesHold == Spec => []TypeOK
<1>1. IInv => TypeOK
  BY Zenon DEF IInv
<1> QED
  BY <1>1, Invariant, PTL

\* Between two calls of put_chain the live state is the one the current
\* header names, although accept_block executes the block a second time, with a
\* cache the first time has filled, and compares nothing.
THEOREM LiveStateIsHeads == Spec => []LiveIsHeads
<1>1. IInv => LiveIsHeads
  BY Zenon DEF IInv
<1> QED
  BY <1>1, Invariant, PTL

\* Storage and code of every application of every stored header are on disk,
\* whatever snapshots threw away: get_app_data never falls back to an empty
\* storage.
THEOREM ApplicationsComplete == Spec => []AppsComplete
<1>1. IInv => AppsComplete
  BY Zenon DEF IInv, AppsComplete, Sound, Complete, OnDisk, HasApp
<1> QED
  BY <1>1, Invariant, PTL

\* What the last block came to.
LEMMA LastCases ==
    ASSUME IInv, NEW parent \in headers, NEW b \in Block, PutBlock(parent, b)
    PROVE  LET r == First(parent, b)
               s == Aside(parent, b)
               root == RootOf(parent.root, b, r)
           IN  \/ /\ last'.outcome \in {"head", "fork"} /\ last'.parent = parent /\ last'.block = b
                  /\ last'.root = root /\ r.st = "ok"
               \/ /\ last'.outcome = "rejected" /\ last'.parent = parent /\ last'.block = b /\ r.st = "ok"
                  /\ s.st # "ok" \/ NoCommitRoot(parent.root, b, s) # root
               \/ last'.outcome \in {"none", "refused"}
<1> DEFINE r == First(parent, b)
           s == Aside(parent, b)
           root == RootOf(parent.root, b, r)
           new == Header(root, parent.level + 1)
<1>0. new.root = root
  BY DEF Header
<1>1. CASE r.st = "ok" /\ BaseOf(parent) = parent /\ AcceptOnHead(parent, b, r)
  <2>1. last' = Did("head", parent, b, new.root)
    BY Zenon, <1>1, OnHeadFacts
  <2> HIDE DEF r, root, new
  <2>2. last'.outcome = "head" /\ last'.parent = parent /\ last'.block = b /\ last'.root = root
    BY <1>0, <2>1 DEF Did
  <2> QED
    BY Zenon, <1>1, <2>2 DEF r, root
<1>2. CASE r.st = "ok" /\ BaseOf(parent) # parent /\ AcceptFork(parent, b, r)
  <2>1. \/ last' = Did("fork", parent, b, new.root)
        \/ /\ s.st # "ok" \/ NoCommitRoot(parent.root, b, s) # new.root
           /\ last' = Did("rejected", parent, b, new.root)
    BY Zenon, <1>2 DEF AcceptFork, Aside
  <2> HIDE DEF r, root, new, s
  <2>2. CASE last' = Did("fork", parent, b, new.root)
    <3>1. last'.outcome = "fork" /\ last'.parent = parent /\ last'.block = b /\ last'.root = root
      BY <1>0, <2>2 DEF Did
    <3> QED
      BY Zenon, <1>2, <3>1 DEF r, root
  <2>3. CASE /\ s.st # "ok" \/ NoCommitRoot(parent.root, b, s) # new.root
             /\ last' = Did("rejected", parent, b, new.root)
    <3>1. last'.outcome = "rejected" /\ last'.parent = parent /\ last'.block = b
      BY <2>3 DEF Did
    <3> QED
      BY Zenon, <1>0, <1>2, <2>3, <3>1 DEF r, root, s
  <2> QED
    BY Zenon, <2>1, <2>2, <2>3
<1>3. CASE Refuse(parent, b, r)
  <2>1. last'.outcome = "refused"
    BY <1>3 DEF Refuse, Did
  <2> QED
    BY Zenon, <2>1
<1>4. CASE Panic(parent)
  <2>1. last'.outcome = "none"
    BY <1>4 DEF Panic, Reopen, Nothing, Did
  <2> QED
    BY Zenon, <2>1
<1> QED
  BY Zenon, <1>1, <1>2, <1>3, <1>4, PutBlockCases

\* A restart forgets the last block.
LEMMA RestartSays == Restart => last'.outcome = "none"
BY DEF Restart, Reopen, Nothing, Did

\* At the start there is no last block.
LEMMA InitSays == Init => last.outcome = "none"
BY DEF Init, Nothing, Did

\* A block does not lower a nonce, whatever its calls overwrite.
LEMMA NoncesStep == IInv /\ NoncesNeverFall /\ [Next]_vars => NoncesNeverFall'
<1> SUFFICES ASSUME IInv, NoncesNeverFall, [Next]_vars PROVE NoncesNeverFall'
  OBVIOUS
<1>1. ASSUME NEW parent \in headers, NEW b \in Block, PutBlock(parent, b) PROVE NoncesNeverFall'
  <2> DEFINE root == RootOf(parent.root, b, First(parent, b))
  <2>1. CASE last'.root = root /\ last'.parent = parent
    <3>1. Above(root, NonceOf(parent.root))
      BY Zenon, FirstRuns
    <3>2. \A a \in Addresses : AccountAt(root, a).nonce >= AccountAt(parent.root, a).nonce
      BY Zenon, <3>1 DEF Above, NonceOf
    <3> QED
      BY Zenon, <2>1, <3>2 DEF NoncesNeverFall
  <2>2. CASE last'.outcome \notin {"head", "fork"}
    BY Zenon, <2>2 DEF NoncesNeverFall, Accepted
  <2> QED
    BY <1>1, <2>1, <2>2, LastCases
<1>2. CASE Restart
  BY <1>2, RestartSays DEF NoncesNeverFall, Accepted
<1>3. CASE UNCHANGED vars
  BY Zenon, <1>3 DEF vars, NoncesNeverFall, Accepted
<1> QED
  BY Zenon, <1>1, <1>2, <1>3 DEF Next

\* Along a chain of accepted blocks no nonce falls.
THEOREM NoncesRise == Spec => []NoncesNeverFall
<1>1. Init => NoncesNeverFall
  BY InitSays DEF NoncesNeverFall, Accepted
<1> QED
  BY <1>1, Invariant, NoncesStep, PTL DEF Spec

-----------------------------------------------------------------------------
(* Payments *)

\* g adds up the n numbers of v.
Sums(g, v, n) ==
    /\ g \in [0 .. n -> Int]
    /\ g[0] = 0
    /\ \A i \in 1 .. n : g[i] = g[i - 1] + v[i]

\* Any numbers can be added up.
LEMMA SumsExist ==
    ASSUME NEW n \in Nat, NEW v \in [1 .. n -> Int]
    PROVE  \E g : Sums(g, v, n)
<1> DEFINE step == [x \in Int \X (1 .. n) |-> x[1] + v[x[2]]]
<1>1. step \in StepsOf(Int, n)
  BY DEF StepsOf
<1>2. 0 \in Int
  OBVIOUS
<1>3. PICK g : IsRun(g, Int, 0, n, step)
  <2> HIDE DEF step
  <2> QED
    BY Zenon, <1>1, <1>2, Iterates
<1>4. ASSUME NEW i \in 1 .. n PROVE g[i] = g[i - 1] + v[i]
  <2>1. g[i - 1] \in Int
    BY <1>3 DEF IsRun
  <2>2. step[<<g[i - 1], i>>] = g[i - 1] + v[i]
    BY <2>1
  <2>3. g[i] = step[<<g[i - 1], i>>]
    BY Zenon, <1>3 DEF IsRun
  <2> QED
    BY Zenon, <2>2, <2>3
<1>5. g \in [0 .. n -> Int] /\ g[0] = 0
  BY Zenon, <1>3 DEF IsRun
<1> QED
  BY Zenon, <1>4, <1>5 DEF Sums

\* If one number changes, the sum changes by as much.
LEMMA SumsAgree ==
    ASSUME NEW n \in Nat, NEW v, NEW w, NEW g, NEW h, Sums(g, v, n), Sums(h, w, n),
           \A i \in 1 .. n : v[i] \in Int /\ w[i] \in Int,
           NEW j \in 1 .. n, \A i \in 1 .. n : i # j => w[i] = v[i]
    PROVE  h[n] = g[n] + (w[j] - v[j])
<1> DEFINE S == {i \in 0 .. n : h[i] = g[i] + IF i < j THEN 0 ELSE w[j] - v[j]}
<1>1. 0 \in S
  BY DEF Sums
<1>2. ASSUME NEW i \in 1 .. n, i - 1 \in S PROVE i \in S
  <2>1. g[i] = g[i - 1] + v[i] /\ h[i] = h[i - 1] + w[i] /\ i - 1 \in 0 .. n /\ i \in 0 .. n
    BY DEF Sums
  <2>2. g[i - 1] \in Int /\ h[i - 1] \in Int
    BY <2>1 DEF Sums
  <2>3. h[i - 1] = g[i - 1] + IF i - 1 < j THEN 0 ELSE w[j] - v[j]
    BY <1>2
  <2>4. CASE i < j
    BY <2>1, <2>2, <2>3, <2>4
  <2>5. CASE i = j
    BY <2>1, <2>2, <2>3, <2>5
  <2>6. CASE i > j
    BY <2>1, <2>2, <2>3, <2>6
  <2> QED
    BY <2>4, <2>5, <2>6
<1>3. \A i \in 0 .. n : i \in S
  <2> HIDE DEF S
  <2> QED
    BY Zenon, <1>1, <1>2, UpTo
<1>4. n \in S
  BY <1>3
<1> QED
  BY <1>4

\* SumOf adds up.
LEMMA SumOfSums ==
    ASSUME NEW n \in Nat, NEW v \in [1 .. n -> Int]
    PROVE  \E g : Sums(g, v, n) /\ SumOf(v, n) = g[n]
<1> DEFINE Body(f) == [i \in 0 .. n |-> IF i = 0 THEN 0 ELSE f[i - 1] + v[i]]
           sum == CHOOSE f : f = Body(f)
<1>1. SumOf(v, n) = sum[n]
  BY Zenon DEF SumOf
<1>2. PICK g : Sums(g, v, n)
  BY Zenon, SumsExist
<1>3. g = Body(g)
  BY <1>2 DEF Sums
<1>4. sum = Body(sum)
  BY <1>3, Zenon
<1> HIDE DEF sum
<1>5. sum[0] = 0 /\ \A i \in 1 .. n : sum[i] = sum[i - 1] + v[i]
  BY <1>4
<1> DEFINE S == {i \in 0 .. n : sum[i] = g[i]}
<1>6. 0 \in S
  BY <1>2, <1>5 DEF Sums
<1>7. ASSUME NEW i \in 1 .. n, i - 1 \in S PROVE i \in S
  BY <1>2, <1>5, <1>7 DEF Sums
<1>8. \A i \in 0 .. n : i \in S
  <2> HIDE DEF S
  <2> QED
    BY Zenon, <1>6, <1>7, UpTo
<1>9. sum[n] = g[n]
  BY <1>8
<1> QED
  BY Zenon, <1>1, <1>2, <1>9

\* An account is worth a number.
LEMMA AccountWorth ==
    ASSUME NEW content \in Contents, NEW a \in Addresses
    PROVE  Worth(AccountAt(content, a)) \in Int
<1>1. AccountAt(content, a) \in Account
  BY Zenon, AccountTypes
<1> QED
  BY <1>1 DEF Account, Worth

\* One account changes.
LEMMA TotalChange ==
    ASSUME NEW x \in Contents, NEW y \in Contents, NEW a \in Addresses,
           \A b \in Addresses : b # a => Worth(AccountAt(y, b)) = Worth(AccountAt(x, b))
    PROVE  /\ Total(x) \in Int
           /\ Total(y) = Total(x) + (Worth(AccountAt(y, a)) - Worth(AccountAt(x, a)))
<1> DEFINE n == Len(Address)
           v == [i \in 1 .. n |-> Worth(AccountAt(x, Address[i]))]
           w == [i \in 1 .. n |-> Worth(AccountAt(y, Address[i]))]
<1>1. n \in Nat /\ \A i \in 1 .. n : Address[i] \in Addresses
  BY AddressAssumption DEF Addresses
<1>2. PICK j \in 1 .. n : Address[j] = a /\ \A i \in 1 .. n : i # j => Address[i] # a
  BY AddressAssumption DEF Addresses
<1>3. Total(x) = SumOf(v, n) /\ Total(y) = SumOf(w, n)
  BY Zenon DEF Total
<1>4. /\ \A i \in 1 .. n : v[i] = Worth(AccountAt(x, Address[i])) /\ w[i] = Worth(AccountAt(y, Address[i]))
      /\ v \in [1 .. n -> Int] /\ w \in [1 .. n -> Int]
  BY Zenon, <1>1, AccountWorth
<1> HIDE DEF v, w, n
<1>5. PICK g : Sums(g, v, n) /\ SumOf(v, n) = g[n]
  BY Zenon, <1>1, <1>4, SumOfSums
<1>6. PICK h : Sums(h, w, n) /\ SumOf(w, n) = h[n]
  BY Zenon, <1>1, <1>4, SumOfSums
<1>7. \A i \in 1 .. n : v[i] \in Int /\ w[i] \in Int
  BY Zenon, <1>4
<1>8. \A i \in 1 .. n : i # j => w[i] = v[i]
  BY Zenon, <1>1, <1>2, <1>4
<1>9. h[n] = g[n] + (w[j] - v[j])
  BY <1>1, <1>5, <1>6, <1>7, <1>8, SumsAgree
<1>10. g[n] \in Int
  BY <1>1, <1>5 DEF Sums
<1> QED
  BY Zenon, <1>2, <1>3, <1>4, <1>5, <1>6, <1>9, <1>10

\* No account changes its worth.
LEMMA TotalSame ==
    ASSUME NEW x \in Contents, NEW y \in Contents,
           \A b \in Addresses : Worth(AccountAt(y, b)) = Worth(AccountAt(x, b))
    PROVE  Total(y) = Total(x) /\ Total(x) \in Int
<1>1. Zero \in Addresses
  BY AddressAssumption
<1>2. /\ Total(x) \in Int
      /\ Total(y) = Total(x) + (Worth(AccountAt(y, Zero)) - Worth(AccountAt(x, Zero)))
  BY Zenon, <1>1, TotalChange
<1>3. Worth(AccountAt(x, Zero)) \in Int /\ Worth(AccountAt(y, Zero)) = Worth(AccountAt(x, Zero))
  BY Zenon, <1>1, AccountWorth
<1> QED
  BY <1>2, <1>3

\* What there would be if the accounts of a run were written over at.
TotalAfter(at, r) == Total(Written(at, r.states))

\* Two runs differ in nothing but one account.
OnlyAt(a, r, q) ==
    /\ q \in Runs /\ q.st = r.st /\ q.states[a] # None
    /\ \A b \in Addresses : b # a => q.states[b] = r.states[b]

\* One account among the changes of a run changes.
LEMMA TotalOfRun ==
    ASSUME NEW r \in Runs, NEW q, NEW at \in Contents, NEW a \in Addresses, r.states[a] # None, OnlyAt(a, r, q)
    PROVE  /\ TotalAfter(at, r) \in Int
           /\ TotalAfter(at, q) = TotalAfter(at, r) + (Worth(q.states[a]) - Worth(r.states[a]))
<1> DEFINE x == Written(at, r.states)
           y == Written(at, q.states)
<1>1. r.states \in Contents /\ q.states \in Contents
  BY Zenon DEF Runs, OnlyAt
<1>2. /\ x \in Contents /\ \A b \in Addresses : x[b] = IF r.states[b] = None THEN at[b] ELSE r.states[b]
      /\ y \in Contents /\ \A b \in Addresses : y[b] = IF q.states[b] = None THEN at[b] ELSE q.states[b]
  BY <1>1 DEF Written, Over, Contents
<1> HIDE DEF x, y
<1>3. AccountAt(x, a) = r.states[a] /\ AccountAt(y, a) = q.states[a]
  BY Zenon, <1>2 DEF AccountAt, OnlyAt
<1>4. \A b \in Addresses : b # a => Worth(AccountAt(y, b)) = Worth(AccountAt(x, b))
  BY Zenon, <1>2 DEF AccountAt, OnlyAt
<1>5. /\ Total(x) \in Int
      /\ Total(y) = Total(x) + (Worth(AccountAt(y, a)) - Worth(AccountAt(x, a)))
  BY <1>2, <1>4, TotalChange
<1> QED
  BY Zenon, <1>3, <1>5 DEF TotalAfter, x, y

\* One balance among the changes of a run changes.
LEMMA FreeTotal ==
    ASSUME NEW r \in Runs, NEW at \in Contents, NEW a \in Addresses, r.states[a] # None, NEW m \in Nat
    PROVE  LET q == [r EXCEPT !.states[a].free = m]
           IN  /\ OnlyAt(a, r, q)
               /\ TotalAfter(at, r) \in Int
               /\ TotalAfter(at, q) = TotalAfter(at, r) + (m - r.states[a].free)
<1> DEFINE x == r.states[a]
           y == [x EXCEPT !.free = m]
           states == [r.states EXCEPT ![a] = y]
           q == [r EXCEPT !.states[a].free = m]
<1>1. r.states \in Contents /\ x \in Account
  BY Zenon DEF Runs, Contents
<1>2. y \in Account /\ Worth(y) - Worth(x) = m - x.free
  BY <1>1 DEF Account, Worth
<1>3. q = [r EXCEPT !.states = states]
  BY Zenon DEF Runs
<1> HIDE DEF y
<1>4. states \in Contents /\ states[a] = y /\ \A b \in Addresses : b # a => states[b] = r.states[b]
  BY <1>1, <1>2 DEF Contents
<1> HIDE DEF states
<1>5. q \in Runs /\ q.st = r.st /\ q.states = states
  BY <1>3, <1>4 DEF Runs
<1> HIDE DEF q
<1>6. y # None
  BY Zenon, <1>2, NoneIsNoAccount
<1>7. OnlyAt(a, r, q)
  BY Zenon, <1>4, <1>5, <1>6 DEF OnlyAt
<1>8. /\ TotalAfter(at, r) \in Int
      /\ TotalAfter(at, q) = TotalAfter(at, r) + (Worth(q.states[a]) - Worth(r.states[a]))
  BY Zenon, <1>7, TotalOfRun
<1> QED
  BY Zenon, <1>2, <1>4, <1>5, <1>7, <1>8 DEF q

\* The sums of a payment: what is left to the sender,
LEMMA Debited ==
    ASSUME NEW x \in Nat, NEW p \in Nat, NEW k \in Nat, ~(x < p + k)
    PROVE  x - (p + k) \in Nat /\ (x - (p + k)) - x = 0 - (p + k)
OBVIOUS

\* what the recipient has,
LEMMA Credited ==
    ASSUME NEW x \in Nat, NEW p \in Nat
    PROVE  x + p \in Nat /\ (x + p) - x = p
OBVIOUS

\* what both make of a total,
LEMMA Paid ==
    ASSUME NEW x \in Int, NEW p \in Nat, NEW k \in Nat
    PROVE  (x + (0 - (p + k))) + p = x - k
OBVIOUS

\* and the fees of one payment after those of others.
LEMMA FeesAdd ==
    ASSUME NEW x \in Int, NEW k \in Int, NEW m \in Int
    PROVE  (x - k) - m = x - (k + m) /\ x - 0 = x
OBVIOUS

\* A payment takes the fees away, also when it goes to the sender.
LEMMA PaymentTotal ==
    ASSUME NEW c, NEW r \in Good(c), NEW at \in Contents, NEW t \in Transactions, t.from \in c.named, to(t) \in c.named,
           execute_payment_tx(r, t).st = "ok"
    PROVE  LET q == execute_payment_tx(r, t)
           IN  /\ q \in Runs /\ \A b \in Addresses : b \notin c.named => q.states[b] = r.states[b]
               /\ TotalAfter(at, r) \in Int
               /\ TotalAfter(at, q) = TotalAfter(at, r) - t.fees
<1> DEFINE q == execute_payment_tx(r, t)
           paid == r.states[t.from].free - (t.price + t.fees)
           s == [r EXCEPT !.states[t.from].free = paid]
           got == s.states[to(t)].free + t.price
<1>0. /\ r.states[t.from] # None /\ r.states[to(t)] # None /\ t.from \in Addresses /\ to(t) \in Addresses
      /\ r.states[t.from].free \in Nat /\ t.price \in Nat /\ t.fees \in Nat /\ r \in Runs
  BY Zenon, TransactionFacts, GoodAccount DEF Good
<1>1. ~(r.states[t.from].free < t.price + t.fees)
  <2> SUFFICES ASSUME r.states[t.from].free < t.price + t.fees PROVE FALSE
    OBVIOUS
  <2>1. q = Stop(r, "err")
    BY Zenon DEF execute_payment_tx
  <2>2. Stop(r, "err").st = "err"
    BY <1>0 DEF Stop, Runs
  <2> HIDE DEF q
  <2> QED
    BY <2>1, <2>2 DEF q
<1>2. paid \in Nat
  BY Zenon, <1>0, <1>1, Debited
<1>3. q = [s EXCEPT !.states[to(t)].free = got]
  BY Zenon, <1>1 DEF execute_payment_tx
<1>4. paid - r.states[t.from].free = 0 - (t.price + t.fees)
  BY Zenon, <1>0, <1>1, Debited
<1> HIDE DEF paid
<1>5. /\ OnlyAt(t.from, r, s) /\ TotalAfter(at, r) \in Int
      /\ TotalAfter(at, s) = TotalAfter(at, r) + (paid - r.states[t.from].free)
  BY <1>0, <1>2, FreeTotal
<1> HIDE DEF s
<1>6. s \in Runs /\ s.states[to(t)] # None
  BY Zenon, <1>0, <1>5 DEF OnlyAt
<1>7. s.states[to(t)].free \in Nat
  <2>1. s.states[to(t)] \in Account
    BY Zenon, <1>0, <1>6 DEF Runs, Contents
  <2> QED
    BY <2>1 DEF Account
<1>8. got \in Nat /\ got - s.states[to(t)].free = t.price
  BY Zenon, <1>0, <1>7, Credited
<1> HIDE DEF got, q
<1>9. /\ OnlyAt(to(t), s, q)
      /\ TotalAfter(at, q) = TotalAfter(at, s) + (got - s.states[to(t)].free)
  BY <1>0, <1>3, <1>6, <1>8, FreeTotal
<1>10. TotalAfter(at, q) = TotalAfter(at, r) - t.fees
  <2>1. TotalAfter(at, s) = TotalAfter(at, r) + (0 - (t.price + t.fees))
    BY Zenon, <1>4, <1>5
  <2>2. TotalAfter(at, q) = (TotalAfter(at, r) + (0 - (t.price + t.fees))) + t.price
    BY Zenon, <1>8, <1>9, <2>1
  <2>3. (TotalAfter(at, r) + (0 - (t.price + t.fees))) + t.price = TotalAfter(at, r) - t.fees
    BY Zenon, <1>0, <1>5, Paid
  <2> QED
    BY Zenon, <2>2, <2>3
<1>11. q \in Runs /\ \A b \in Addresses : b \notin c.named => q.states[b] = r.states[b]
  BY Zenon, <1>5, <1>9 DEF OnlyAt
<1> QED
  BY Zenon, <1>5, <1>10, <1>11 DEF q

\* The nonce is worth nothing.
LEMMA BumpTotal ==
    ASSUME NEW r \in Runs, NEW at \in Contents, NEW t \in Transactions, r.states[t.from] # None
    PROVE  LET q == BumpNonce(r, t)
           IN  /\ q.st = r.st /\ \A b \in Addresses : b # t.from => q.states[b] = r.states[b]
               /\ TotalAfter(at, r) \in Int
               /\ TotalAfter(at, q) = TotalAfter(at, r)
<1> DEFINE x == r.states[t.from]
           n == (IF t.nonce > x.nonce THEN t.nonce ELSE x.nonce) + 1
           y == [x EXCEPT !.nonce = n]
           states == [r.states EXCEPT ![t.from] = y]
           q == [r EXCEPT !.states = states]
<1>0. t.from \in Addresses /\ t.nonce \in Nat
  BY Zenon, TransactionFacts
<1>1. r.states \in Contents /\ x \in Account
  BY Zenon, <1>0 DEF Runs, Contents
<1>2. n \in Nat /\ Worth(x) \in Int
  BY <1>0, <1>1 DEF Account, Worth
<1>3. r.st = "ok" => BumpNonce(r, t) = q
  BY Zenon DEF BumpNonce
<1>4. r.st # "ok" => BumpNonce(r, t) = r
  BY Zenon DEF BumpNonce
<1> HIDE DEF n
<1>5. y \in Account /\ Worth(y) = Worth(x)
  BY <1>1, <1>2 DEF Account, Worth
<1> HIDE DEF y
<1>6. states \in Contents /\ states[t.from] = y /\ \A b \in Addresses : b # t.from => states[b] = r.states[b]
  BY <1>0, <1>1, <1>5 DEF Contents
<1> HIDE DEF states
<1>7. q \in Runs /\ q.st = r.st /\ q.states = states
  BY <1>6 DEF Runs
<1> HIDE DEF q
<1>8. y # None
  BY Zenon, <1>5, NoneIsNoAccount
<1>9. OnlyAt(t.from, r, q)
  BY Zenon, <1>6, <1>7, <1>8 DEF OnlyAt
<1>10. /\ TotalAfter(at, r) \in Int
       /\ TotalAfter(at, q) = TotalAfter(at, r) + (Worth(q.states[t.from]) - Worth(r.states[t.from]))
  BY Zenon, <1>0, <1>9, TotalOfRun
<1>11. Worth(q.states[t.from]) - Worth(r.states[t.from]) = 0
  BY <1>2, <1>5, <1>6, <1>7
<1>12. TotalAfter(at, q) = TotalAfter(at, r)
  BY <1>10, <1>11
<1> QED
  BY Zenon, <1>3, <1>4, <1>6, <1>7, <1>10, <1>12

FeeOf(t) == IF t.kind = "payment" THEN t.fees ELSE 0

\* One payment, or raw data, in a block.
LEMMA PlainStep ==
    ASSUME NEW c \in Contexts, NEW r \in Good(c), NEW at \in Contents, NEW t \in Transactions, t.from \in c.named, to(t) \in c.named,
           t.kind \in {"payment", "raw"}, apply_transaction(c.trie, r, t).st = "ok"
    PROVE  LET q == apply_transaction(c.trie, r, t)
           IN  /\ \A b \in Addresses : b \notin c.named => q.states[b] = r.states[b]
               /\ TotalAfter(at, r) \in Int /\ FeeOf(t) \in Nat
               /\ TotalAfter(at, q) = TotalAfter(at, r) - FeeOf(t)
<1> DEFINE q == apply_transaction(c.trie, r, t)
           e == Executed(c.trie, r, t)
<1>1. e \in Good(c) /\ e \in Runs /\ r \in Runs
  <2>1. e \in Good(c)
    BY ApplyIsGood
  <2> QED
    BY Zenon, <2>1 DEF Good
<1>2. q = BumpNonce(e, t)
  BY Zenon DEF apply_transaction, Executed
<1>3. e.states[t.from] # None /\ t.fees \in Nat /\ t.from \in Addresses
  BY Zenon, <1>1, TransactionFacts DEF Good
<1>4. (t.kind = "payment" => e = execute_payment_tx(r, t)) /\ (t.kind = "raw" => e = r)
  BY DEF Executed
<1> HIDE DEF e, q
<1>5. /\ q.st = e.st /\ \A b \in Addresses : b # t.from => q.states[b] = e.states[b]
      /\ TotalAfter(at, e) \in Int /\ TotalAfter(at, q) = TotalAfter(at, e)
  BY <1>1, <1>2, <1>3, BumpTotal
<1>6. e.st = "ok"
  BY Zenon, <1>5 DEF q
<1>7. /\ \A b \in Addresses : b \notin c.named => e.states[b] = r.states[b]
      /\ TotalAfter(at, r) \in Int
      /\ TotalAfter(at, e) = TotalAfter(at, r) - FeeOf(t)
  <2>1. CASE t.kind = "payment"
    <3>1. e = execute_payment_tx(r, t) /\ execute_payment_tx(r, t).st = "ok"
      BY Zenon, <1>4, <1>6, <2>1
    <3>2. /\ \A b \in Addresses : b \notin c.named => e.states[b] = r.states[b]
          /\ TotalAfter(at, r) \in Int
          /\ TotalAfter(at, e) = TotalAfter(at, r) - t.fees
      BY <3>1, PaymentTotal
    <3> QED
      BY Zenon, <2>1, <3>2 DEF FeeOf
  <2>2. CASE t.kind = "raw"
    <3>1. e = r
      BY Zenon, <1>4, <2>2
    <3>2. FeeOf(t) = 0
      BY Zenon, <2>2 DEF FeeOf
    <3> QED
      BY Zenon, <1>5, <3>1, <3>2, FeesAdd
  <2> QED
    BY <2>1, <2>2
<1>8. FeeOf(t) \in Nat
  BY <1>3 DEF FeeOf
<1> QED
  BY Zenon, <1>5, <1>7, <1>8 DEF q

\* Reading accounts changes nothing.
LEMMA StartTotal ==
    ASSUME NEW at \in Contents, NEW txs, NEW stored, NEW codes, NEW loaded
    PROVE  LET r == Start(at, txs, stored, codes, loaded)
           IN  /\ \A b \in Addresses : b \notin Named(txs) => r.states[b] = None
               /\ Total(at) \in Int
               /\ TotalAfter(at, r) = Total(at)
<1> DEFINE states == [a \in Addresses |-> IF a \in Named(txs) THEN AccountAt(at, a) ELSE None]
           r == Start(at, txs, stored, codes, loaded)
           x == Written(at, states)
<1>1. r.states = states
  BY DEF Start
<1>2. \A a \in Addresses : states[a] = IF a \in Named(txs) THEN AccountAt(at, a) ELSE None
  OBVIOUS
<1>3. \A a \in Addresses : AccountAt(at, a) \in Account
  BY Zenon, AccountTypes
<1>4. states \in Contents
  BY <1>3 DEF Contents
<1> HIDE DEF states
<1>5. x \in Contents /\ \A b \in Addresses : x[b] = IF states[b] = None THEN at[b] ELSE states[b]
  BY <1>4 DEF Written, Over, Contents
<1> HIDE DEF x
<1>6. \A b \in Addresses : AccountAt(x, b) = AccountAt(at, b)
  <2> SUFFICES ASSUME NEW b \in Addresses PROVE AccountAt(x, b) = AccountAt(at, b)
    OBVIOUS
  <2>1. AccountAt(at, b) # None
    BY Zenon, <1>3, NoneIsNoAccount
  <2>2. CASE b \in Named(txs)
    BY Zenon, <1>2, <1>5, <2>1, <2>2 DEF AccountAt
  <2>3. CASE b \notin Named(txs)
    BY Zenon, <1>2, <1>5, <2>3 DEF AccountAt
  <2> QED
    BY Zenon, <2>2, <2>3
<1>7. Total(x) = Total(at) /\ Total(at) \in Int
  <2>1. \A b \in Addresses : Worth(AccountAt(x, b)) = Worth(AccountAt(at, b))
    BY Zenon, <1>6
  <2> QED
    BY Zenon, <1>5, <2>1, TotalSame
<1> QED
  BY Zenon, <1>1, <1>2, <1>7 DEF TotalAfter, x

(* A block of payments touches the accounts it names, and what is there    *)
(* afterwards lacks the fees.                                              *)
LEMMA PlainBlock ==
    ASSUME NEW c \in Contexts, NEW at \in Contents, NEW txs \in Seq(Transactions), NEW f, c.named = Named(txs),
           Traces(f, c, at, txs), Plain(txs), Last(f, txs).st = "ok"
    PROVE  /\ \A b \in Addresses : b \notin Named(txs) => Last(f, txs).states[b] = None
           /\ Total(at) \in Int /\ Fees(ExecutionOrder(txs)) \in Int
           /\ TotalAfter(at, Last(f, txs)) = Total(at) - Fees(ExecutionOrder(txs))
<1> DEFINE order == ExecutionOrder(txs)
           n == Len(order)
           v == [i \in 1 .. n |-> IF order[i].kind = "payment" THEN order[i].fees ELSE 0]
<1>1. n \in Nat
  <2>1. order \in Seq(Transactions)
    BY Zenon, OrderType
  <2> QED
    BY <2>1
<1>2. /\ \A i \in 1 .. n : order[i] \in Transactions /\ order[i].kind \in {"payment", "raw"}
  BY Zenon, OrderFacts
<1>3. v \in [1 .. n -> Int] /\ \A i \in 1 .. n : v[i] = FeeOf(order[i]) /\ FeeOf(order[i]) \in Int
  <2>1. v = [i \in 1 .. n |-> FeeOf(order[i])]
    BY Zenon DEF FeeOf
  <2>2. \A i \in 1 .. n : FeeOf(order[i]) \in Int
    <3> SUFFICES ASSUME NEW i \in 1 .. n PROVE FeeOf(order[i]) \in Int
      BY Zenon
    <3>1. order[i].fees \in Nat
      BY Zenon, <1>2, TransactionFacts
    <3> HIDE DEF order, n
    <3> QED
      BY <3>1 DEF FeeOf
  <2> HIDE DEF v, order, n
  <2> QED
    BY Zenon, <2>1, <2>2
<1>4. Fees(order) = SumOf(v, n)
  BY Zenon DEF Fees
<1> HIDE DEF v
<1>5. PICK g : Sums(g, v, n) /\ SumOf(v, n) = g[n]
  <2> HIDE DEF n
  <2> QED
    BY Zenon, <1>1, <1>3, SumOfSums
<1> DEFINE Apart(i) == \A b \in Addresses : b \notin Named(txs) => f[i].states[b] = None
           S == {i \in 0 .. n : f[i].st = "ok" => Apart(i) /\ TotalAfter(at, f[i]) = Total(at) - g[i]}
<1>6. Total(at) \in Int /\ 0 \in S
  <2>1. f[0] = Start(at, txs, c.stored, c.codes, c.loaded)
    BY Zenon DEF Traces
  <2>2. Apart(0) /\ Total(at) \in Int /\ TotalAfter(at, f[0]) = Total(at)
    <3> DEFINE r == Start(at, txs, c.stored, c.codes, c.loaded)
    <3>1. /\ \A b \in Addresses : b \notin Named(txs) => r.states[b] = None
          /\ Total(at) \in Int /\ TotalAfter(at, r) = Total(at)
      BY Zenon, StartTotal
    <3> QED
      BY Zenon, <2>1, <3>1
  <2>3. g[0] = 0 /\ 0 \in 0 .. n /\ 0 \in Int
    BY <1>1, <1>5 DEF Sums
  <2>4. TotalAfter(at, f[0]) = Total(at) - g[0]
    BY Zenon, <2>2, <2>3, FeesAdd
  <2> QED
    BY Zenon, <2>2, <2>3, <2>4
<1>7. ASSUME NEW i \in 1 .. n, i - 1 \in S PROVE i \in S
  <2> DEFINE t == order[i]
  <2>1. /\ f[i - 1] \in Good(c) /\ f[i] \in Good(c) /\ i \in 0 .. n
        /\ f[i] = IF f[i - 1].st = "ok" THEN apply_transaction(c.trie, f[i - 1], t) ELSE f[i - 1]
        /\ (f[i].st = "ok" => f[i - 1].st = "ok")
        /\ t \in Transactions /\ t.from \in c.named /\ to(t) \in c.named
    <3>1. OneStep(f, c, txs, i)
      BY Zenon, TraceFacts
    <3> QED
      BY Zenon, <3>1 DEF OneStep
  <2>2. t.kind \in {"payment", "raw"} /\ v[i] = FeeOf(t) /\ FeeOf(t) \in Int
    BY Zenon, <1>2, <1>3
  <2>3. g[i - 1] \in Int /\ g[i] = g[i - 1] + v[i]
    BY <1>1, <1>5 DEF Sums
  <2> SUFFICES ASSUME f[i].st = "ok" PROVE Apart(i) /\ TotalAfter(at, f[i]) = Total(at) - g[i]
    BY Zenon, <2>1
  <2>4. f[i - 1].st = "ok" /\ f[i] = apply_transaction(c.trie, f[i - 1], t) /\ apply_transaction(c.trie, f[i - 1], t).st = "ok"
    BY Zenon, <2>1
  <2>5. Apart(i - 1) /\ TotalAfter(at, f[i - 1]) = Total(at) - g[i - 1]
    BY Zenon, <1>7, <2>4
  <2> HIDE DEF t
  <2>6. /\ \A b \in Addresses : b \notin c.named => f[i].states[b] = f[i - 1].states[b]
        /\ TotalAfter(at, f[i - 1]) \in Int /\ FeeOf(t) \in Nat
        /\ TotalAfter(at, f[i]) = TotalAfter(at, f[i - 1]) - FeeOf(t)
    <3> DEFINE q == apply_transaction(c.trie, f[i - 1], t)
    <3>1. /\ \A b \in Addresses : b \notin c.named => q.states[b] = f[i - 1].states[b]
          /\ TotalAfter(at, f[i - 1]) \in Int /\ FeeOf(t) \in Nat
          /\ TotalAfter(at, q) = TotalAfter(at, f[i - 1]) - FeeOf(t)
      BY Zenon, <2>1, <2>2, <2>4, PlainStep
    <3> QED
      BY Zenon, <2>4, <3>1
  <2>7. TotalAfter(at, f[i]) = Total(at) - g[i]
    <3>1. TotalAfter(at, f[i]) = (Total(at) - g[i - 1]) - FeeOf(t)
      BY Zenon, <2>5, <2>6
    <3>2. (Total(at) - g[i - 1]) - FeeOf(t) = Total(at) - (g[i - 1] + FeeOf(t))
      BY Zenon, <1>6, <2>2, <2>3, FeesAdd
    <3>3. g[i] = g[i - 1] + FeeOf(t)
      BY Zenon, <2>2, <2>3 DEF t
    <3> QED
      BY Zenon, <3>1, <3>2, <3>3
  <2> QED
    BY Zenon, <2>5, <2>6, <2>7
<1>8. \A i \in 0 .. n : i \in S
  <2> HIDE DEF S, n
  <2> QED
    BY Zenon, <1>1, <1>6, <1>7, UpTo
<1>9. n \in S /\ g[n] \in Int
  <2>1. n \in 0 .. n
    BY <1>1
  <2> QED
    BY Zenon, <1>5, <1>8, <2>1 DEF Sums
<1> QED
  BY Zenon, <1>4, <1>5, <1>6, <1>9 DEF Last

(* The rewarded contents. *)
LEMMA RewardTotal ==
    ASSUME NEW r \in Runs, NEW at \in Contents, NEW b \in Block
    PROVE  /\ TotalAfter(at, r) \in Int
           /\ Total(RootOf(at, b, r)) = TotalAfter(at, r) + Reward
<1> DEFINE w == Written(at, r.states)
           k == b.coinbase
           x == AccountAt(w, k)
           y == [x EXCEPT !.free = @ + Reward]
           new == [w EXCEPT ![k] = y]
<1>1. k \in Addresses /\ Reward \in Nat
  BY BlockAssumption
<1>2. r.states \in Contents
  BY Zenon DEF Runs
<1>3. w \in Contents
  BY <1>2 DEF Written, Over, Contents
<1>4. RootOf(at, b, r) = new
  BY Zenon DEF RootOf, credit_balance
<1> HIDE DEF w, k
<1>5. x \in Account
  BY Zenon, <1>1, <1>3, AccountTypes
<1> HIDE DEF x
<1>6. y \in Account /\ Worth(y) - Worth(x) = Reward
  BY <1>1, <1>5 DEF Account, Worth
<1>7. y # None
  BY Zenon, <1>6, NoneIsNoAccount
<1> HIDE DEF y
<1>8. new \in Contents /\ new[k] = y /\ \A a \in Addresses : a # k => new[a] = w[a]
  BY <1>1, <1>3, <1>6 DEF Contents
<1> HIDE DEF new
<1>9. AccountAt(new, k) = y /\ \A a \in Addresses : a # k => Worth(AccountAt(new, a)) = Worth(AccountAt(w, a))
  BY Zenon, <1>7, <1>8 DEF AccountAt
<1>10. Total(w) \in Int /\ Total(new) = Total(w) + (Worth(AccountAt(new, k)) - Worth(AccountAt(w, k)))
  BY <1>1, <1>3, <1>8, <1>9, TotalChange
<1> QED
  BY Zenon, <1>4, <1>6, <1>9, <1>10 DEF TotalAfter, w, x

\* A block of payments as process_block and as apply_txs_no_commit execute it.
LEMMA FirstPlain ==
    ASSUME IInv, NEW parent \in headers, NEW b \in Block, Plain(b.txs), First(parent, b).st = "ok"
    PROVE  LET r == First(parent, b)
           IN  /\ Aside(parent, b) = r
               /\ \A a \in Addresses : a \notin Named(b.txs) => r.states[a] = None
               /\ Total(parent.root) \in Int /\ Fees(ExecutionOrder(b.txs)) \in Int
               /\ Total(RootOf(parent.root, b, r))
                    = Total(parent.root) + Reward - Fees(ExecutionOrder(b.txs))
<1> DEFINE r == First(parent, b)
           s == Aside(parent, b)
           root == parent.root
           txs == b.txs
           floor == [a \in Addresses |-> 0]
<1>1. /\ appdata \in Stores /\ metadata \in SUBSET Code /\ apps \in Caches
      /\ root \in Contents /\ Sound(root, appdata, metadata) /\ txs \in Seq(Transactions)
      /\ live \in Contents /\ Sound(live, appdata, metadata)
  BY Zenon, InvFacts, BlockFacts
<1>0. floor \in [Addresses -> Nat] /\ Above(root, floor) /\ Above(live, floor)
  BY Zenon, <1>1, NoFloor
<1>2. r \in Runs /\ r.apps \in Caches /\ Reward \in Nat
  BY Zenon, FirstRuns, BlockAssumption DEF Stored, Runs
<1> HIDE DEF floor, root, txs, r, s
<1>3. PICK c \in Contexts : \E f : RunsIn(c, f, root, root, txs, appdata, metadata, apps, floor)
  BY <1>0, <1>1, BlockRuns
<1>4. PICK d \in Contexts : \E f : RunsIn(d, f, root, live, txs, appdata, metadata, r.apps, floor)
  BY <1>0, <1>1, <1>2, BlockRuns
<1>5. PICK f : RunsIn(c, f, root, root, txs, appdata, metadata, apps, floor)
  BY Zenon, <1>3
<1>6. PICK g : RunsIn(d, g, root, live, txs, appdata, metadata, r.apps, floor)
  BY Zenon, <1>4
<1>7. Last(f, txs) = r /\ Last(g, txs) = s
  BY Zenon, <1>5, <1>6 DEF RunsIn, First, Aside, r, s, root, txs
<1>8. /\ Traces(f, c, root, txs) /\ Traces(g, d, root, txs) /\ c.named = Named(txs)
      /\ d.stored = c.stored /\ d.codes = c.codes /\ d.loaded = r.apps /\ Plain(txs) /\ Last(f, txs).st = "ok"
  BY Zenon, <1>5, <1>6, <1>7 DEF RunsIn, txs, r
<1>9. s = r
  <2>1. Last(g, txs) = Recached(Last(f, txs), d.loaded)
    <3>1. PlainTwice(c, d, root, txs, f, g)
      BY Zenon, <1>1, <1>8 DEF PlainTwice
    <3> QED
      BY <3>1, PlainTimeIsSame
  <2>2. s = Recached(r, r.apps)
    BY Zenon, <1>7, <1>8, <2>1
  <2> QED
    BY <1>2, <2>2, RecachedFields
<1>10. /\ \A a \in Addresses : a \notin Named(txs) => r.states[a] = None
       /\ Total(root) \in Int /\ Fees(ExecutionOrder(txs)) \in Int
       /\ TotalAfter(root, r) = Total(root) - Fees(ExecutionOrder(txs))
  <2>1. /\ \A a \in Addresses : a \notin Named(txs) => Last(f, txs).states[a] = None
        /\ Total(root) \in Int /\ Fees(ExecutionOrder(txs)) \in Int
        /\ TotalAfter(root, Last(f, txs)) = Total(root) - Fees(ExecutionOrder(txs))
    BY Zenon, <1>1, <1>8, PlainBlock
  <2> QED
    BY Zenon, <1>7, <2>1
<1>11. TotalAfter(root, r) \in Int /\ Total(RootOf(root, b, r)) = TotalAfter(root, r) + Reward
  BY Zenon, <1>1, <1>2, RewardTotal
<1>12. Total(RootOf(root, b, r)) = Total(root) + Reward - Fees(ExecutionOrder(txs))
  BY <1>2, <1>10, <1>11
<1> QED
  BY Zenon, <1>9, <1>10, <1>12 DEF r, s, root, txs

\* A block of payments conserves what there is.
LEMMA PaymentsStep == IInv /\ PaymentsConserve /\ [Next]_vars => PaymentsConserve'
<1> SUFFICES ASSUME IInv, PaymentsConserve, [Next]_vars PROVE PaymentsConserve'
  OBVIOUS
<1>1. ASSUME NEW parent \in headers, NEW b \in Block, PutBlock(parent, b) PROVE PaymentsConserve'
  <2> DEFINE root == RootOf(parent.root, b, First(parent, b))
  <2>1. CASE last'.root = root /\ last'.parent = parent /\ last'.block = b /\ First(parent, b).st = "ok"
    <3> SUFFICES ASSUME Plain(b.txs)
                 PROVE  Total(root) = Total(parent.root) + Reward - Fees(ExecutionOrder(b.txs))
      BY Zenon, <2>1 DEF PaymentsConserve
    <3> QED
      BY Zenon, <2>1, FirstPlain
  <2>2. CASE last'.outcome \notin {"head", "fork"}
    BY Zenon, <2>2 DEF PaymentsConserve, Accepted
  <2> QED
    BY <1>1, <2>1, <2>2, LastCases
<1>2. CASE Restart
  BY <1>2, RestartSays DEF PaymentsConserve, Accepted
<1>3. CASE UNCHANGED vars
  BY Zenon, <1>3 DEF vars, PaymentsConserve, Accepted
<1> QED
  BY Zenon, <1>1, <1>2, <1>3 DEF Next

\* An accepted block of payments and raw data leaves what was there, less the
\* fees of its payments and with the reward.
THEOREM PaymentsMakeNoMoney == Spec => []PaymentsConserve
<1>1. Init => PaymentsConserve
  BY InitSays DEF PaymentsConserve, Accepted
<1> QED
  BY <1>1, Invariant, PaymentsStep, PTL DEF Spec

(* The root of apply_txs_no_commit is the root of apply_txs when the       *)
(* coinbase was there and was not touched.                                 *)
LEMMA RootsAgree ==
    ASSUME NEW r \in Runs, NEW at \in Contents, NEW b \in Block, r.states[b.coinbase] = None, at[b.coinbase] # None
    PROVE  NoCommitRoot(at, b, r) = RootOf(at, b, r)
<1> DEFINE w == Written(at, r.states)
           k == b.coinbase
<1>1. k \in Addresses
  BY BlockAssumption
<1>2. w[k] = at[k]
  BY <1>1 DEF Written, Over
<1>3. AccountAt(w, k) = at[k]
  BY Zenon, <1>2 DEF AccountAt
<1> HIDE DEF w
<1>4. RootOf(at, b, r) = [w EXCEPT ![k] = [at[k] EXCEPT !.free = @ + Reward]]
  BY Zenon, <1>3 DEF RootOf, credit_balance, w
<1>5. (IF at[k] = None THEN AccountState_default ELSE at[k]) = at[k]
  OBVIOUS
<1>6. NoCommitRoot(at, b, r) = [w EXCEPT ![k] = [at[k] EXCEPT !.free = @ + Reward]]
  BY Zenon, <1>5 DEF NoCommitRoot, w
<1> QED
  BY Zenon, <1>4, <1>6

\* A rejected block is not of payments alone, or pays its coinbase, or makes
\* the account of its coinbase.
LEMMA PlainForkStep == IInv /\ PlainForkAccepted /\ [Next]_vars => PlainForkAccepted'
<1> SUFFICES ASSUME IInv, PlainForkAccepted, [Next]_vars PROVE PlainForkAccepted'
  OBVIOUS
<1>1. ASSUME NEW parent \in headers, NEW b \in Block, PutBlock(parent, b) PROVE PlainForkAccepted'
  <2> DEFINE r == First(parent, b)
             s == Aside(parent, b)
  <2>1. CASE /\ last'.parent = parent /\ last'.block = b /\ r.st = "ok"
             /\ s.st # "ok" \/ NoCommitRoot(parent.root, b, s) # RootOf(parent.root, b, r)
    <3> SUFFICES ASSUME Plain(b.txs), b.coinbase \notin Named(b.txs), parent.root[b.coinbase] # None
                 PROVE  FALSE
      BY Zenon, <2>1 DEF PlainForkAccepted
    <3>1. s = r /\ \A a \in Addresses : a \notin Named(b.txs) => r.states[a] = None
      BY Zenon, <2>1, FirstPlain
    <3>2. r \in Runs /\ parent.root \in Contents /\ b.coinbase \in Addresses
      BY Zenon, FirstRuns, InvFacts, BlockFacts DEF Stored
    <3>3. r.states[b.coinbase] = None
      BY Zenon, <3>1, <3>2
    <3> HIDE DEF r, s
    <3>4. NoCommitRoot(parent.root, b, r) = RootOf(parent.root, b, r)
      BY Zenon, <3>2, <3>3, RootsAgree
    <3> QED
      BY Zenon, <2>1, <3>1, <3>4
  <2>2. CASE last'.outcome # "rejected"
    BY Zenon, <2>2 DEF PlainForkAccepted
  <2> QED
    BY <1>1, <2>1, <2>2, LastCases
<1>2. CASE Restart
  BY <1>2, RestartSays DEF PlainForkAccepted
<1>3. CASE UNCHANGED vars
  BY Zenon, <1>3 DEF vars, PlainForkAccepted
<1> QED
  BY Zenon, <1>1, <1>2, <1>3 DEF Next

\* apply_txs_no_commit gives the root finalize gives for a block of payments
\* whose coinbase has an account and takes no part: such a fork is not rejected.
THEOREM PlainForksAccepted == Spec => []PlainForkAccepted
<1>1. Init => PlainForkAccepted
  BY InitSays DEF PlainForkAccepted
<1> QED
  BY <1>1, Invariant, PlainForkStep, PTL DEF Spec

=============================================================================
