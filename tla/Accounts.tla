------------------------------ MODULE Accounts ------------------------------
(***************************************************************************)
(* What a block does to the accounts: State (state/src/lib.rs), the Wasm   *)
(* VM with its cache of loaded applications (runtime/vm), the registration *)
(* of namespaces (dapps/builtin) and the two ways put_chain executes a     *)
(* block: on a snapshot and then on the live state when its parent is the  *)
(* head, on a snapshot and then with apply_txs_no_commit when it is not.   *)
(*                                                                         *)
(* A state root is the content it commits to, a function from addresses to *)
(* accounts (TreeDB shows that a lookup through the stored trees finds     *)
(* exactly that); the root of an application's storage is the set of slots *)
(* that are filled.  Balances are far below 2^64.                          *)
(***************************************************************************)
EXTENDS Integers, Sequences, FiniteSets

CONSTANTS
    Address,        \* addresses in their order, as a sequence
    Zero,           \* Address::default(), funded at genesis
    Registry,       \* the built-in name registry
    RegistryCode,
    AppOf,          \* tx.to() of a Create: get_address_from_package_name
    SeedOf,         \* where the VM runs a Create: get_address_from_seed
    OrgOf,          \* the namespace of a package
    Restricted,     \* namespaces the registry owns from genesis
    Slot,           \* keys of the storage of applications
    Code,           \* hashes of codes
    Method,         \* what may be called of an application
    Program,        \* what a code does for a method: a sequence of host calls
    Block,          \* [coinbase, txs] of the blocks that may arrive
    Supply,         \* credited to Zero at genesis
    Reward,         \* miner_reward, taken as constant
    MaxLevel,       \* bound: no block above this level
    MaxHeaders      \* bound: headers stored before the last block arrives

Addresses == {Address[i] : i \in DOMAIN Address}

HostCalls ==
    [op : {"transfer"}, to : Addresses, n : Nat]
    \cup [op : {"reserve", "unreserve"}, n : Nat]
    \cup [op : {"balance"}, of : Addresses]
    \cup [op : {"insert", "remove", "claim"}, slot : Slot]
    \cup [op : {"trap"}]

Transactions ==
    [kind : {"payment"}, from : Addresses, dest : Addresses, price : Nat,
     fees : Nat, nonce : Nat]
    \cup [kind : {"call"}, from : Addresses, app : Addresses, price : Nat,
          fees : Nat, nonce : Nat, method : Method]
    \cup [kind : {"create"}, from : Addresses, package : DOMAIN AppOf, code : Code,
          price : Nat, fees : Nat, nonce : Nat]
    \cup [kind : {"update", "raw"}, from : Addresses, app : Addresses, price : Nat,
          fees : Nat, nonce : Nat]

ASSUME AddressAssumption ==
    /\ Address \in Seq(Addresses)
    /\ \A i, j \in DOMAIN Address : Address[i] = Address[j] => i = j
    /\ Zero \in Addresses
    /\ Registry \in Addresses \ {Zero}
    /\ AppOf \in [DOMAIN AppOf -> Addresses]
    /\ SeedOf \in [DOMAIN AppOf -> Addresses]

ASSUME CodeAssumption ==
    /\ RegistryCode \in Code
    /\ Restricted \subseteq Slot
    /\ <<"genesis">> \in Method
    /\ \A p \in DOMAIN AppOf : <<"register", OrgOf[p]>> \in Method
    /\ Program \in [Code \X Method -> Seq(HostCalls)]

ASSUME BlockAssumption ==
    /\ Block \subseteq [coinbase : Addresses, txs : Seq(Transactions)]
    /\ Supply \in Nat
    /\ Reward \in Nat
    /\ MaxLevel \in Nat

VARIABLES
    live,           \* content of the live state
    head,           \* current header: [root, level]
    headers,        \* headers in block storage
    appdata,        \* <<application, root>> pairs in the app data store
    metadata,       \* code hashes in the metadata store
    apps,           \* WasmVM.apps: the code that was loaded for an application
    last            \* what put_chain did last

vars == <<live, head, headers, appdata, metadata, apps, last>>

None == [absent |-> TRUE]
NoApp == [none |-> TRUE]

\* A map that is not there for every address; one laid over another.
Untouched == [a \in Addresses |-> None]
Over(f, g) == [a \in Addresses |-> IF f[a] = None THEN g[a] ELSE f[a]]

AccountState_new == [free |-> 0, reserve |-> 0, nonce |-> 1, app |-> NoApp]
AccountState_default == [AccountState_new EXCEPT !.nonce = 0]

\* get_account_state: an address that is not in the trie has a new account.
AccountAt(trie, a) == IF trie[a] = None THEN AccountState_new ELSE trie[a]

HasApp(trie, a) == trie[a] # None /\ trie[a].app # NoApp

\* get_app_data of an application: storage that is not found is taken as empty.
AppData(trie, stored, a) ==
    IF <<a, trie[a].app.root>> \in stored THEN trie[a].app.root ELSE {}

-----------------------------------------------------------------------------
(* The host functions of ExecutionEnvironment.  env holds the accounts the *)
(* call has touched, its storage and whether it is still running.          *)

Env(trie, app, value, storage, sender) ==
    [ok |-> TRUE, app |-> app, sender |-> sender, storage |-> storage,
     accounts |-> [Untouched EXCEPT ![app] = [AccountAt(trie, app) EXCEPT !.free = @ + value]]]

Fail(env) == [env EXCEPT !.ok = FALSE]

\* get_account_state: a look at an account makes it one of the changes.
Touch(trie, env, a) ==
    [env EXCEPT !.accounts[a] = IF @ = None THEN AccountAt(trie, a) ELSE @]

transfer(trie, env, to, n) ==
    IF env.accounts[env.app].free - n > 0
    THEN [Touch(trie, [env EXCEPT !.accounts[env.app].free = @ - n], to)
          EXCEPT !.accounts[to].free = @ + n]
    ELSE Fail(env)

\* reserve and unreserve work on the account of the sender, already touched.
reserve(env, n) ==
    IF env.accounts[env.sender].free - n > 0
    THEN [env EXCEPT !.accounts[env.sender].free = @ - n,
                     !.accounts[env.sender].reserve = @ + n]
    ELSE Fail(env)

unreserve(env, n) ==
    IF env.accounts[env.sender].reserve - n > 0
    THEN [env EXCEPT !.accounts[env.sender].reserve = @ - n,
                     !.accounts[env.sender].free = @ + n]
    ELSE Fail(env)

\* RegisterNameSpace of the name registry panics on a name that has an owner.
claim(env, slot) ==
    IF slot \in env.storage
    THEN Fail(env)
    ELSE [env EXCEPT !.storage = @ \cup {slot}]

HostCall(trie, env, c) ==
    CASE c.op = "transfer"  -> transfer(trie, env, c.to, c.n)
      [] c.op = "reserve"   -> reserve(Touch(trie, env, env.sender), c.n)
      [] c.op = "unreserve" -> unreserve(Touch(trie, env, env.sender), c.n)
      [] c.op = "balance"   -> Touch(trie, env, c.of)
      [] c.op = "insert"    -> [env EXCEPT !.storage = @ \cup {c.slot}]
      [] c.op = "remove"    -> [env EXCEPT !.storage = @ \ {c.slot}]
      [] c.op = "claim"     -> claim(env, c.slot)
      [] c.op = "trap"      -> Fail(env)

\* A host function that fails traps: the program ends there.
Execute(trie, env, program) ==
    LET run[i \in 0 .. Len(program)] ==
            IF i = 0 THEN env
            ELSE IF run[i - 1].ok THEN HostCall(trie, run[i - 1], program[i])
            ELSE run[i - 1]
    IN  run[Len(program)]

-----------------------------------------------------------------------------
(* Executing transactions.  A run r carries the changed accounts, the      *)
(* stores it writes to at once, and the VM's cache; trie, which only the   *)
(* end of apply_txs changes, is what every call reads.                     *)

\* tx.to()
to(t) ==
    CASE t.kind = "payment" -> t.dest
      [] t.kind = "create"  -> AppOf[t.package]
      [] t.kind = "raw"     -> Zero
      [] OTHER              -> t.app

Named(txs) == {txs[i].from : i \in DOMAIN txs} \cup {to(txs[i]) : i \in DOMAIN txs}

Start(trie, txs, stored, codes, loaded) ==
    [st |-> "ok", appdata |-> stored, metadata |-> codes, apps |-> loaded,
     states |-> [a \in Addresses |-> IF a \in Named(txs) THEN AccountAt(trie, a) ELSE None]]

Stop(r, st) == [r EXCEPT !.st = st]

\* The account changes of a call replace what the block did to them so far.
ApplyChanges(r, env) == [r EXCEPT !.states = Over(env.accounts, @)]

\* Mutant: the new storage is not put into the app data store.
SaveStorage_NotStored(r, app, storage) ==
    IF r.states[app].app = NoApp
    THEN Stop(r, "err")
    ELSE [r EXCEPT !.states[app].app.root = storage]

\* Both callers of a call go on with the storage root of the application.
SaveStorage(r, app, storage) ==
    IF r.states[app].app = NoApp
    THEN Stop(r, "err")
    ELSE [r EXCEPT !.states[app].app.root = storage,
                   !.appdata = @ \cup {<<app, storage>>}]

AfterCall(r, app, env) ==
    IF env.ok THEN SaveStorage(ApplyChanges(r, env), app, env.storage)
              ELSE Stop(r, "err")

\* load_application: the cache is keyed by the address alone.
load_application(trie, r, app) ==
    [r EXCEPT !.apps[app] = IF @ = None THEN [code |-> trie[app].app.code] ELSE @]

\* The call runs the code that is in the cache.
CallLoaded(trie, r, sender, value, app, method) ==
    AfterCall(r, app,
              Execute(trie,
                      Env(trie, app, value, AppData(trie, r.appdata, app), sender),
                      Program[<<r.apps[app].code, method>>]))

ExecuteCall(trie, r, sender, value, app, method) ==
    IF /\ HasApp(trie, app)
       /\ r.apps[app] # None \/ trie[app].app.code \in r.metadata
    THEN CallLoaded(trie, load_application(trie, r, app), sender, value, app, method)
    ELSE Stop(r, "err")

\* Mutants: a payment without the balance check; the receiver read first.
execute_payment_tx_Unchecked(r, t) ==
    LET s == [r EXCEPT !.states[t.from].free = @ - (t.price + t.fees)]
    IN  [s EXCEPT !.states[to(t)].free = @ + t.price]

execute_payment_tx_ReadFirst(r, t) ==
    IF r.states[t.from].free < t.price + t.fees
    THEN Stop(r, "err")
    ELSE LET s == [r EXCEPT !.states[t.from].free = @ - (t.price + t.fees)]
         IN  [s EXCEPT !.states[to(t)].free = r.states[to(t)].free + t.price]


execute_payment_tx(r, t) ==
    IF r.states[t.from].free < t.price + t.fees
    THEN Stop(r, "err")
    ELSE LET s == [r EXCEPT !.states[t.from].free = @ - (t.price + t.fees)]
         IN  [s EXCEPT !.states[to(t)].free = @ + t.price]

AfterCreate(r, t, env) ==
    IF env.ok
    THEN [ApplyChanges(r, env) EXCEPT
             !.states[to(t)].app = [root |-> env.storage, code |-> t.code],
             !.metadata = @ \cup {t.code},
             !.appdata = @ \cup {<<to(t), env.storage>>}]
    ELSE Stop(r, "err")

\* The VM runs a new application under an address of its own (SeedOf).
execute_app_create(trie, r, t) ==
    IF r.st = "ok"
    THEN AfterCreate(r, t, Execute(trie,
                                   Env(trie, SeedOf[t.package], t.price, {}, t.from),
                                   Program[<<t.code, <<"genesis">>>>]))
    ELSE r

register_namespace(trie, r, t) ==
    ExecuteCall(trie, r, Zero, 0, Registry, <<"register", OrgOf[t.package]>>)

ExecuteCreate(trie, r, t) ==
    IF trie[to(t)] # None
    THEN Stop(r, "err")
    ELSE execute_app_create(trie, register_namespace(trie, r, t), t)

\* Mutant: the nonce is set from the transaction, higher or not.
BumpNonce_Sets(r, t) ==
    IF r.st = "ok" THEN [r EXCEPT !.states[t.from].nonce = t.nonce + 1] ELSE r


\* The transaction is not checked against the nonce, it only moves it.
BumpNonce(r, t) ==
    IF r.st = "ok"
    THEN [r EXCEPT !.states[t.from].nonce = (IF t.nonce > @ THEN t.nonce ELSE @) + 1]
    ELSE r

apply_transaction(trie, r, t) ==
    BumpNonce(CASE t.kind = "payment" -> execute_payment_tx(r, t)
                [] t.kind = "call"    -> ExecuteCall(trie, r, t.from, t.price,
                                                     to(t), t.method)
                [] t.kind = "create"  -> ExecuteCreate(trie, r, t)
                [] t.kind = "update"  -> Stop(r, "panic")
                [] t.kind = "raw"     -> r,
              t)

Rank(a) == CHOOSE i \in DOMAIN Address : Address[i] = a

\* The order of NoncePricedTransaction among the transactions of a sender;
\* two with the same nonce and price are equal to it.
NonceThenPrice(t, u) ==
    t.nonce < u.nonce \/ (t.nonce = u.nonce /\ t.price > u.price)

Before(t, u) ==
    Rank(t.from) < Rank(u.from) \/ (t.from = u.from /\ NonceThenPrice(t, u))

\* Senders by address; of transactions that are equal the set keeps the first.
Inserted(s, t) ==
    LET place == CHOOSE k \in 1 .. Len(s) + 1 :
                     /\ k = Len(s) + 1 \/ ~Before(s[k], t)
                     /\ \A i \in 1 .. k - 1 : Before(s[i], t)
    IN  IF \E i \in DOMAIN s : ~Before(s[i], t) /\ ~Before(t, s[i])
        THEN s
        ELSE SubSeq(s, 1, place - 1) \o <<t>> \o SubSeq(s, place, Len(s))

ExecutionOrder(txs) ==
    LET order[i \in 0 .. Len(txs)] ==
            IF i = 0 THEN <<>> ELSE Inserted(order[i - 1], txs[i])
    IN  order[Len(txs)]

\* The accounts of from and to are read at a root; calls, and the test for
\* an existing application, read the trie of the state they run on.
ApplyAll(at, trie, txs, stored, codes, loaded) ==
    LET order == ExecutionOrder(txs)
        run[i \in 0 .. Len(order)] ==
            IF i = 0 THEN Start(at, txs, stored, codes, loaded)
            ELSE IF run[i - 1].st = "ok" THEN apply_transaction(trie, run[i - 1], order[i])
            ELSE run[i - 1]
    IN  run[Len(order)]

\* trie.put of every account that was touched
Written(trie, states) == Over(states, trie)

credit_balance(trie, a) ==
    [trie EXCEPT ![a] = [AccountAt(trie, a) EXCEPT !.free = @ + Reward]]

\* finalize, and accept_block on the head: apply_txs, credit_balance, commit
RootOf(trie, b, r) == credit_balance(Written(trie, r.states), b.coinbase)

\* Mutant: the coinbase is put without its reward.
NoCommitRoot_NoReward(trie, b, r) ==
    [Written(trie, r.states) EXCEPT ![b.coinbase] =
        IF trie[b.coinbase] = None THEN AccountState_default ELSE trie[b.coinbase]]


\* The coinbase account as it was at the root, or a default one, is put last.
NoCommitRoot(trie, b, r) ==
    [Written(trie, r.states) EXCEPT ![b.coinbase] =
        [IF trie[b.coinbase] = None THEN AccountState_default
                                    ELSE trie[b.coinbase]
         EXCEPT !.free = @ + Reward]]

-----------------------------------------------------------------------------
(* put_chain with one block *)

Header(root, level) == [root |-> root, level |-> level]

Did(outcome, parent, b, root) ==
    [outcome |-> outcome, parent |-> parent, block |-> b, root |-> root]

Nothing(h) == Did("none", h, [coinbase |-> Zero, txs |-> <<>>], h.root)

\* ChainState::new without a stored header
Genesis ==
    [a \in Addresses |->
        CASE a = Zero     -> [AccountState_new EXCEPT !.free = Supply]
          [] a = Registry -> [AccountState_new EXCEPT !.app =
                                 [root |-> Restricted, code |-> RegistryCode]]
          [] OTHER        -> None]

Init ==
    /\ live = Genesis
    /\ head = Header(Genesis, 0)
    /\ headers = {Header(Genesis, 0)}
    /\ appdata = {<<Registry, Restricted>>}
    /\ metadata = {RegistryCode}
    /\ apps = Untouched
    /\ last = Nothing(Header(Genesis, 0))

\* The root in the header: its maker executed the block on the same parent
\* with nothing in its cache.
Declared(parent, b) ==
    LET r == ApplyAll(parent.root, parent.root, b.txs, appdata, metadata, Untouched)
    IN  RootOf(parent.root, b, r)

\* put_chain resets state and header to the parent of a block that does not
\* follow the head and is not above it.
BaseOf(parent) == IF parent # head /\ head.level > parent.level THEN parent ELSE head

\* Mutant: put_chain rolls the header back and not the state.
BaseState_NoReset(parent) == live

BaseState(parent) == IF BaseOf(parent) = head THEN live ELSE parent.root

\* process_block fails, or finds another root than the header's.
Refuse(parent, b, r) ==
    /\ head' = BaseOf(parent)
    /\ live' = BaseState(parent)
    /\ apps' = r.apps
    /\ last' = Did("refused", parent, b, parent.root)
    /\ UNCHANGED <<headers, appdata, metadata>>

\* accept_block, parent is the head (after a rollback, if there was one):
\* the live state executes the block again, and its root is not compared.
AcceptOnHead(parent, b, r) ==
    \E s \in {ApplyAll(BaseState(parent), BaseState(parent), b.txs, appdata,
                       metadata, r.apps)},
       new \in {Header(RootOf(parent.root, b, r), parent.level + 1)} :
        /\ live' = IF s.st = "ok" THEN RootOf(BaseState(parent), b, s)
                                  ELSE BaseState(parent)
        /\ head' = IF s.st = "ok" THEN new ELSE parent
        /\ headers' = headers \cup {head'}
        /\ appdata' = s.appdata
        /\ metadata' = s.metadata
        /\ apps' = s.apps
        /\ last' = Did("head", parent, b, new.root)

\* accept_block off the head: the root must come out once more; a block
\* above the head becomes the head.
AcceptFork(parent, b, r) ==
    \E s \in {ApplyAll(parent.root, live, b.txs, appdata, metadata, r.apps)},
       new \in {Header(RootOf(parent.root, b, r), parent.level + 1)} :
        /\ appdata' = s.appdata
        /\ metadata' = s.metadata
        /\ apps' = s.apps
        /\ \/ /\ s.st = "ok" /\ NoCommitRoot(parent.root, b, s) = new.root
              /\ headers' = headers \cup {new}
              /\ head' = IF new.level > head.level THEN new ELSE head
              /\ live' = IF new.level > head.level THEN new.root ELSE live
              /\ last' = Did("fork", parent, b, new.root)
           \/ /\ s.st # "ok" \/ NoCommitRoot(parent.root, b, s) # new.root
              /\ last' = Did("rejected", parent, b, new.root)
              /\ UNCHANGED <<headers, head, live>>

\* The process starts again: the state is reset to the stored head, and the
\* built-in applications are loaded.
Reopen(h) ==
    /\ head' = h
    /\ live' = h.root
    /\ apps' = [Untouched EXCEPT ![Registry] = [code |-> h.root[Registry].app.code]]
    /\ last' = Nothing(h)
    /\ UNCHANGED <<headers, appdata, metadata>>

Restart == Reopen(head)

\* unimplemented!: the thread dies with the lock, or takes the node with it,
\* after the rollback if there was one.
Panic(parent) == Reopen(BaseOf(parent))

\* put_chain: process_block executes the block on a snapshot of its parent,
\* and the result must be what the maker of the block declared.
PutBlock(parent, b) ==
    /\ parent.level < MaxLevel
    /\ Cardinality(headers) <= MaxHeaders
    /\ \E r \in {ApplyAll(parent.root, parent.root, b.txs, appdata, metadata, apps)} :
       \E valid \in {r.st = "ok" /\ RootOf(parent.root, b, r) = Declared(parent, b)} :
        \/ valid /\ BaseOf(parent) = parent /\ AcceptOnHead(parent, b, r)
        \/ valid /\ BaseOf(parent) # parent /\ AcceptFork(parent, b, r)
        \/ ~valid /\ r.st # "panic" /\ Refuse(parent, b, r)
        \/ r.st = "panic" /\ Panic(parent)

Next ==
    \/ \E parent \in headers, b \in Block : PutBlock(parent, b)
    \/ Restart

Spec == Init /\ [][Next]_vars

-----------------------------------------------------------------------------

Account ==
    [free : Nat, reserve : Nat, nonce : Nat,
     app : {NoApp} \cup [root : SUBSET Slot, code : Code]]

Contents == [Addresses -> Account \cup {None}]
Caches == [Addresses -> [code : Code] \cup {None}]

Accepted == last.outcome \in {"head", "fork"}

\* Contents are well formed: no balance falls below zero.
TypeOK ==
    /\ live \in Contents
    /\ head \in headers
    /\ headers \subseteq [root : Contents, level : 0 .. MaxLevel]
    /\ appdata \subseteq Addresses \X SUBSET Slot
    /\ metadata \subseteq Code
    /\ apps \in Caches
    /\ last.outcome \in {"none", "head", "fork", "rejected", "refused"}
    /\ last.parent \in headers

\* Between two calls of put_chain the live state is the one the current
\* header names: the second execution of a block (accept_block, which
\* compares nothing), rollbacks, adopted forks and restarts all keep it so.
LiveIsHeads == live = head.root

\* Every application of every stored header has its storage and its code on
\* disk, although snapshots write to an overlay that is thrown away and
\* apply_txs_no_commit writes directly: get_app_data never falls back to an
\* empty storage.
AppsComplete ==
    \A h \in headers : \A a \in Addresses :
        HasApp(h.root, a) => /\ <<a, h.root[a].app.root>> \in appdata
                             /\ h.root[a].app.code \in metadata

\* Transactions that neither create nor call an application.
Plain(txs) == \A i \in DOMAIN txs : txs[i].kind \in {"payment", "raw"}

\* apply_txs_no_commit agrees with finalize where it can: a block off the
\* head that only pays, with a coinbase that has an account and takes no
\* part, is not rejected.
PlainForkAccepted ==
    last.outcome = "rejected" =>
        \/ ~Plain(last.block.txs)
        \/ last.block.coinbase \in Named(last.block.txs)
        \/ last.parent.root[last.block.coinbase] = None

Worth(x) == x.free + x.reserve

SumOf(v, n) ==
    LET sum[i \in 0 .. n] == IF i = 0 THEN 0 ELSE sum[i - 1] + v[i]
    IN  sum[n]

\* What all accounts have together, and the fees of payments: nothing is
\* taken from the sender of raw data.
Total(c) ==
    SumOf([i \in 1 .. Len(Address) |-> Worth(AccountAt(c, Address[i]))], Len(Address))

Fees(txs) ==
    SumOf([i \in 1 .. Len(txs) |-> IF txs[i].kind = "payment" THEN txs[i].fees ELSE 0], Len(txs))

\* A block of payments moves money and makes none: what is there afterwards
\* is what was there, less the fees, which nobody gets, and the reward.
PaymentsConserve ==
    Accepted /\ Plain(last.block.txs) =>
        Total(last.root) = Total(last.parent.root) + Reward - Fees(ExecutionOrder(last.block.txs))

\* No accepted block lowers a nonce, whichever of its calls overwrite whose
\* account: nonce(), by which the pool tells old transactions, never falls
\* along a chain.
NoncesNeverFall ==
    Accepted => \A a \in Addresses :
        AccountAt(last.root, a).nonce >= AccountAt(last.parent.root, a).nonce

=============================================================================
