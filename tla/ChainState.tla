----------------------------- MODULE ChainState -----------------------------
(***************************************************************************)
(* The chain of one node: BlockStorage (four key-value columns written one *)
(* after another), the current header (ChainStateStorage), the state trees *)
(* on disk, the live State, and ChainState::put_chain, which several       *)
(* threads call under one write lock.  The main thread also stores blocks  *)
(* received by broadcast without that lock, and the process may crash      *)
(* between any two writes and start again.                                 *)
(*                                                                         *)
(* A block stands for its hash: header, level, parent and transactions are *)
(* functions of it.  A state root stands for the tree stored under it.     *)
(* Every write to disk is a step of its own (the stores write             *)
(* synchronously and use no batches); reads made under the lock before the *)
(* next write belong to the step of that write.                            *)
(***************************************************************************)
EXTENDS Integers, Sequences, FiniteSets

CONSTANTS
    Block,                 \* block hashes
    Genesis,               \* the block ChainState::new makes
    NoBlock,               \* no such block or no header yet
    MaxLevel,              \* bound on levels
    Parent, Level,         \* header fields of a block
    Root, NoRoot,          \* state roots; NoRoot: the empty tree of a fresh State
    StateRoot,             \* the root a header claims
    Exec,                  \* <<r, b>> |-> root after finalize of b on state r
    ForkExec,              \* <<r, b>> |-> root apply_txs_no_commit computes
    Sound,                 \* blocks whose transactions apply, proof of work and time hold
    RetargetRef,           \* the block whose time b's miner retargeted from
    RETARGETING_INTERVAL,
    Thread, NoThread,      \* threads that call put_chain
    Main,                  \* the thread of the main loop: boots, stores broadcasts
    Batches,               \* the block sequences a thread calls put_chain with
    Broadcasts,            \* blocks that peers broadcast
    MaxCrashes             \* bound on crashes

NonGenesis == Block \ {Genesis}

ASSUME BlockAssumption ==
    /\ Genesis \in Block
    /\ NoBlock \notin Block
    /\ MaxLevel \in Nat
    /\ Parent \in [Block -> Block \cup {NoBlock}]
    /\ Level \in [Block -> 0..MaxLevel]
    /\ \A b \in NonGenesis : Level[b] > 0

ASSUME RootAssumption ==
    /\ NoRoot \notin Root
    /\ StateRoot \in [Block -> Root]
    /\ Exec \in [Root \X Block -> Root]
    /\ ForkExec \in [Root \X Block -> Root]

ASSUME ParameterAssumption ==
    /\ Sound \subseteq Block
    /\ RetargetRef \in [Block -> Block \cup {NoBlock}]
    /\ RETARGETING_INTERVAL \in Nat \ {0}
    /\ Main \in Thread
    /\ NoThread \notin Thread
    /\ Batches \in [Thread -> SUBSET (Seq(NonGenesis) \ {<<>>})]
    /\ Broadcasts \subseteq NonGenesis
    /\ MaxCrashes \in Nat

VARIABLES
    \* on disk
    headers, transactions, byHash,  \* keys present in the three block columns
    byLevel,                        \* the level index
    currentHeader,                  \* ChainStateStorage "ch"
    trees,                          \* roots stored in the state database
    \* in memory
    stateHead,                      \* root of State's head tree
    phase,                          \* the process: down, boot, up
    lock, poisoned,                 \* ChainState.lock
    poolHead,                       \* head the pool's state was taken at (NoBlock: live state)
    announced,                      \* head of the last StateChanged event
    pc, todo, base, cursor, blk, after,  \* program counter and locals of a thread
    \* bound
    crashes

disk == <<headers, transactions, byHash, byLevel, currentHeader, trees>>
locals == <<pc, todo, base, cursor, blk, after>>
memory == <<stateHead, phase, lock, poisoned, poolHead, announced, locals>>
vars == <<disk, memory, crashes>>

PutPC == {"put_header", "put_transactions", "put_by_hash", "put_by_level"}
PC == {"idle", "dead", "genesis", "genesis_head", "rollback", "remove", "process",
       "set_header", "repack"} \cup PutPC

TypeOK ==
    /\ headers \in SUBSET Block
    /\ transactions \in SUBSET Block
    /\ byHash \in SUBSET Block
    /\ byLevel \in [0..MaxLevel -> Block \cup {NoBlock}]
    /\ currentHeader \in Block \cup {NoBlock}
    /\ trees \in SUBSET Root
    /\ stateHead \in Root \cup {NoRoot}
    /\ phase \in {"down", "boot", "up"}
    /\ lock \in Thread \cup {NoThread}
    /\ poisoned \in BOOLEAN
    /\ poolHead \in Block \cup {NoBlock}
    /\ announced \in Block \cup {NoBlock}
    /\ pc \in [Thread -> PC]
    /\ todo \in [Thread -> Seq(NonGenesis)]
    /\ base \in [Thread -> Block \cup {NoBlock}]
    /\ cursor \in [Thread -> Block \cup {NoBlock}]
    /\ blk \in [Thread -> Block \cup {NoBlock}]
    /\ after \in [Thread -> {"idle", "genesis_head", "process", "repack"}]
    /\ crashes \in 0..MaxCrashes

-----------------------------------------------------------------------------
(* Lookups of BlockStorage. *)

HasHeaderByHash(h) == h \in byHash /\ h \in headers

HeaderByLevel(l) ==
    IF l <= MaxLevel /\ byLevel[l] \in headers THEN byLevel[l] ELSE NoBlock

-----------------------------------------------------------------------------
(* The process: start, genesis, crash. *)

\* What a process that has just been started, or has just died, has in memory.
ClearMemory ==
    /\ stateHead' = NoRoot
    /\ lock' = NoThread
    /\ poisoned' = FALSE
    /\ poolHead' = NoBlock
    /\ announced' = NoBlock
    /\ todo' = [t \in Thread |-> <<>>]
    /\ base' = [t \in Thread |-> NoBlock]
    /\ cursor' = [t \in Thread |-> NoBlock]
    /\ blk' = [t \in Thread |-> NoBlock]
    /\ after' = [t \in Thread |-> "idle"]

Init ==
    /\ headers = {} /\ transactions = {} /\ byHash = {}
    /\ byLevel = [l \in 0..MaxLevel |-> NoBlock]
    /\ currentHeader = NoBlock
    /\ trees = {}
    /\ stateHead = NoRoot
    /\ phase = "down"
    /\ lock = NoThread /\ poisoned = FALSE
    /\ poolHead = NoBlock /\ announced = NoBlock
    /\ pc = [t \in Thread |-> "idle"]
    /\ todo = [t \in Thread |-> <<>>]
    /\ base = [t \in Thread |-> NoBlock]
    /\ cursor = [t \in Thread |-> NoBlock]
    /\ blk = [t \in Thread |-> NoBlock]
    /\ after = [t \in Thread |-> "idle"]
    /\ crashes = 0

\* ChainState::new with a stored header: the state is reset to its root.  When
\* that tree is not on disk the node exits, and may be started again.
Restore ==
    /\ phase = "down" /\ currentHeader # NoBlock
    /\ LET found == StateRoot[currentHeader] \in trees
       IN  /\ stateHead' = IF found THEN StateRoot[currentHeader] ELSE stateHead
           /\ phase' = IF found THEN "up" ELSE "down"
    /\ UNCHANGED <<disk, lock, poisoned, poolHead, announced, locals, crashes>>

\* ChainState::new on an empty database begins to make the genesis block.
BeginGenesis ==
    /\ phase = "down" /\ currentHeader = NoBlock
    /\ phase' = "boot"
    /\ pc' = [pc EXCEPT ![Main] = "genesis"]
    /\ UNCHANGED <<disk, stateHead, lock, poisoned, poolHead, announced,
                   todo, base, cursor, blk, after, crashes>>

\* state.commit() of the genesis accounts; then block_storage.put(genesis).
CommitGenesis ==
    /\ pc[Main] = "genesis"
    /\ trees' = trees \cup {StateRoot[Genesis]}
    /\ stateHead' = StateRoot[Genesis]
    /\ pc' = [pc EXCEPT ![Main] = "put_header"]
    /\ blk' = [blk EXCEPT ![Main] = Genesis]
    /\ after' = [after EXCEPT ![Main] = "genesis_head"]
    /\ UNCHANGED <<headers, transactions, byHash, byLevel, currentHeader, phase, lock,
                   poisoned, poolHead, announced, todo, base, cursor, crashes>>

SetGenesisHeader ==
    /\ pc[Main] = "genesis_head"
    /\ currentHeader' = Genesis
    /\ pc' = [pc EXCEPT ![Main] = "idle"]
    /\ phase' = "up"
    /\ UNCHANGED <<headers, transactions, byHash, byLevel, trees, stateHead, lock, poisoned,
                   poolHead, announced, todo, base, cursor, blk, after, crashes>>

\* The process dies between two writes: the disk stays, the memory goes.
Crash ==
    /\ phase \in {"boot", "up"}
    /\ crashes < MaxCrashes
    /\ crashes' = crashes + 1
    /\ phase' = "down"
    /\ pc' = [t \in Thread |-> "idle"]
    /\ ClearMemory
    /\ UNCHANGED disk

-----------------------------------------------------------------------------
(* BlockStorage::put, one step per column.  The header and the level index *)
(* are written only when absent.                                           *)

PutHeader(t) ==
    /\ pc[t] = "put_header"
    /\ headers' = headers \cup {blk[t]}
    /\ pc' = [pc EXCEPT ![t] = "put_transactions"]
    /\ UNCHANGED <<transactions, byHash, byLevel, currentHeader, trees, stateHead, phase, lock,
                   poisoned, poolHead, announced, todo, base, cursor, blk, after, crashes>>

PutTransactions(t) ==
    /\ pc[t] = "put_transactions"
    /\ transactions' = transactions \cup {blk[t]}
    /\ pc' = [pc EXCEPT ![t] = "put_by_hash"]
    /\ UNCHANGED <<headers, byHash, byLevel, currentHeader, trees, stateHead, phase, lock,
                   poisoned, poolHead, announced, todo, base, cursor, blk, after, crashes>>

PutByHash(t) ==
    /\ pc[t] = "put_by_hash"
    /\ byHash' = byHash \cup {blk[t]}
    /\ pc' = [pc EXCEPT ![t] = "put_by_level"]
    /\ UNCHANGED <<headers, transactions, byLevel, currentHeader, trees, stateHead, phase, lock,
                   poisoned, poolHead, announced, todo, base, cursor, blk, after, crashes>>

\* A block that was stored without becoming the head is done with here.
PutByLevel(t) ==
    /\ pc[t] = "put_by_level"
    /\ byLevel' = IF byLevel[Level[blk[t]]] = NoBlock
                  THEN [byLevel EXCEPT ![Level[blk[t]]] = blk[t]]
                  ELSE byLevel
    /\ pc' = [pc EXCEPT ![t] = after[t]]
    /\ todo' = IF after[t] = "process" THEN [todo EXCEPT ![t] = Tail(todo[t])] ELSE todo
    /\ UNCHANGED <<headers, transactions, byHash, currentHeader, trees, stateHead, phase, lock,
                   poisoned, poolHead, announced, base, cursor, blk, after, crashes>>

\* The main loop stores a block received by broadcast, unverified and without
\* the chain's lock.
StoreBroadcast(b) ==
    /\ phase = "up"
    /\ pc[Main] = "idle"
    /\ pc' = [pc EXCEPT ![Main] = "put_header"]
    /\ blk' = [blk EXCEPT ![Main] = b]
    /\ after' = [after EXCEPT ![Main] = "idle"]
    /\ UNCHANGED <<disk, stateHead, phase, lock, poisoned, poolHead, announced, todo, base,
                   cursor, crashes>>

-----------------------------------------------------------------------------
(* put_chain.  A call that finds the lock poisoned, or whose common block   *)
(* is unknown or has no state, returns an error and changes nothing.        *)

First(bs) == bs[1]

NeedsRollback(bs) ==
    /\ Parent[First(bs)] # currentHeader
    /\ Level[currentHeader] > Level[First(bs)] - 1

\* Takes the lock and reads the current header.
Enter(t, bs) ==
    /\ phase = "up"
    /\ pc[t] = "idle"
    /\ lock = NoThread /\ ~poisoned
    /\ lock' = t
    /\ todo' = [todo EXCEPT ![t] = bs]
    /\ base' = [base EXCEPT ![t] = currentHeader]
    /\ UNCHANGED <<disk, phase, poisoned, poolHead, announced, cursor, blk, after, crashes>>

PutChain(t, bs) ==
    /\ Enter(t, bs)
    /\ ~NeedsRollback(bs)
    /\ pc' = [pc EXCEPT ![t] = "process"]
    /\ UNCHANGED stateHead

\* Mutant: the state is not reset with the header.
PutChainRollback_NoReset(t, bs) ==
    /\ Enter(t, bs)
    /\ NeedsRollback(bs)
    /\ HasHeaderByHash(Parent[First(bs)])
    /\ pc' = [pc EXCEPT ![t] = "rollback"]
    /\ UNCHANGED stateHead

\* Mutant: the state is reset to the parent's hash in place of its root.
PutChainRollback_ToHash(t, bs) ==
    /\ Enter(t, bs)
    /\ NeedsRollback(bs)
    /\ HasHeaderByHash(Parent[First(bs)])
    /\ StateRoot[Parent[First(bs)]] \in trees
    /\ stateHead' = Parent[First(bs)]
    /\ pc' = [pc EXCEPT ![t] = "rollback"]

\* The live state is reset to the parent of the first block.
PutChainRollback(t, bs) ==
    /\ Enter(t, bs)
    /\ NeedsRollback(bs)
    /\ HasHeaderByHash(Parent[First(bs)])
    /\ StateRoot[Parent[First(bs)]] \in trees
    /\ stateHead' = StateRoot[Parent[First(bs)]]
    /\ pc' = [pc EXCEPT ![t] = "rollback"]

SetRolledBackHeader(t) ==
    /\ pc[t] = "rollback"
    /\ currentHeader' = Parent[First(todo[t])]
    /\ cursor' = [cursor EXCEPT ![t] = base[t]]
    /\ pc' = [pc EXCEPT ![t] = "remove"]
    /\ UNCHANGED <<headers, transactions, byHash, byLevel, trees, stateHead, phase, lock, poisoned,
                   poolHead, announced, todo, base, blk, after, crashes>>

\* Mutant: the loop also deletes the header, and leaves the index by hash.
RemoveStale_DeletesHeader(t) ==
    /\ pc[t] = "remove"
    /\ IF HasHeaderByHash(cursor[t])
       THEN /\ byLevel' = [byLevel EXCEPT ![Level[cursor[t]]] = NoBlock]
            /\ headers' = headers \ {cursor[t]}
       ELSE UNCHANGED <<byLevel, headers>>
    /\ pc' = [pc EXCEPT ![t] = "process"]
    /\ UNCHANGED <<transactions, byHash, currentHeader, trees, stateHead, phase, lock, poisoned,
                   poolHead, announced, todo, base, cursor, blk, after, crashes>>

\* Mutant: delete() also removes the block from the index by hash.
RemoveStale_DeletesHash(t) ==
    /\ pc[t] = "remove"
    /\ IF HasHeaderByHash(cursor[t])
       THEN /\ byLevel' = [byLevel EXCEPT ![Level[cursor[t]]] = NoBlock]
            /\ byHash' = byHash \ {cursor[t]}
       ELSE UNCHANGED <<byLevel, byHash>>
    /\ pc' = [pc EXCEPT ![t] = "process"]
    /\ UNCHANGED <<headers, transactions, currentHeader, trees, stateHead, phase, lock, poisoned,
                   poolHead, announced, todo, base, cursor, blk, after, crashes>>

\* Mutant: a block that is not found does not end the loop.
RemoveStale_NoBreak(t) ==
    /\ pc[t] = "remove"
    /\ IF HasHeaderByHash(cursor[t])
       THEN /\ byLevel' = [byLevel EXCEPT ![Level[cursor[t]]] = NoBlock]
            /\ cursor' = [cursor EXCEPT ![t] = Parent[cursor[t]]]
            /\ pc' = IF Parent[cursor[t]] # Parent[First(todo[t])] /\ Parent[cursor[t]] # NoBlock
                     THEN [pc EXCEPT ![t] = "process"]
                     ELSE pc
       ELSE UNCHANGED <<byLevel, cursor, pc>>
    /\ UNCHANGED <<headers, transactions, byHash, currentHeader, trees, stateHead, phase, lock,
                   poisoned, poolHead, announced, todo, base, blk, after, crashes>>

\* One turn of the loop that takes the old chain out of the level index.  It
\* leaves the loop when the next block is NOT the common one.
RemoveStale(t) ==
    /\ pc[t] = "remove"
    /\ IF HasHeaderByHash(cursor[t])
       THEN /\ byLevel' = [byLevel EXCEPT ![Level[cursor[t]]] = NoBlock]
            /\ cursor' = [cursor EXCEPT ![t] = Parent[cursor[t]]]
            /\ pc' = IF Parent[cursor[t]] # Parent[First(todo[t])]
                     THEN [pc EXCEPT ![t] = "process"]
                     ELSE pc
       ELSE /\ pc' = [pc EXCEPT ![t] = "process"]
            /\ UNCHANGED <<byLevel, cursor>>
    /\ UNCHANGED <<headers, transactions, byHash, currentHeader, trees, stateHead, phase, lock,
                   poisoned, poolHead, announced, todo, base, blk, after, crashes>>

\* put_chain returns, with or without an error, or unwinds: its locals go out
\* of scope and the guard drops.
LeaveTo(t, at) ==
    /\ lock' = NoThread
    /\ pc' = [pc EXCEPT ![t] = at]
    /\ todo' = [todo EXCEPT ![t] = <<>>]
    /\ base' = [base EXCEPT ![t] = NoBlock]
    /\ cursor' = [cursor EXCEPT ![t] = NoBlock]
    /\ blk' = [blk EXCEPT ![t] = NoBlock]
    /\ after' = [after EXCEPT ![t] = "idle"]
Return(t) == LeaveTo(t, "idle")
\* The sync service goes on after an error; the miner's thread ends with it.
ReturnError(t) == LeaveTo(t, IF t = Main THEN "idle" ELSE "dead")

Finish(t) ==
    /\ pc[t] = "process" /\ todo[t] = <<>>
    /\ Return(t)
    /\ UNCHANGED <<disk, stateHead, phase, poisoned, poolHead, announced, crashes>>

-----------------------------------------------------------------------------
(* process_block: what it finds in storage, and whether the block verifies. *)

\* prepare_header finds the parent under (parent_hash, level - 1).
ParentFound(b) ==
    /\ Parent[b] \in headers
    /\ Level[Parent[b]] = Level[b] - 1

\* For a header of level l, prepare_header asks for the work of l + 1.
Retargets(l) == (l + 1) % RETARGETING_INTERVAL = 0
RetargetHeader(l) == HeaderByLevel(l + 1 - RETARGETING_INTERVAL)

\* The two "qed" expects of work_required hold.
WorkKnown(parent, l) ==
    /\ HasHeaderByHash(parent)
    /\ Retargets(l) => RetargetHeader(l) # NoBlock

WorkPanics(b) == ParentFound(b) /\ ~WorkKnown(Parent[b], Level[b])

\* Mutant: only the parent's state is looked up, not the parent.
Verifies_NoParent(b) ==
    /\ Parent[b] \in Block
    /\ StateRoot[Parent[b]] \in trees
    /\ b \in Sound
    /\ StateRoot[b] = Exec[<<StateRoot[Parent[b]], b>>]

Verifies(b) ==
    /\ ParentFound(b) /\ WorkKnown(Parent[b], Level[b])
    /\ StateRoot[Parent[b]] \in trees
    /\ b \in Sound
    /\ StateRoot[b] = Exec[<<StateRoot[Parent[b]], b>>]
    /\ Retargets(Level[b]) => RetargetHeader(Level[b]) = RetargetRef[b]

Next1(t) == First(todo[t])
Processing(t) == pc[t] = "process" /\ todo[t] # <<>>

\* process_block returns an error: put_chain returns it, and what was rolled
\* back stays rolled back.
Reject(t) ==
    /\ Processing(t)
    /\ ~WorkPanics(Next1(t)) /\ ~Verifies(Next1(t))
    /\ ReturnError(t)
    /\ UNCHANGED <<disk, stateHead, phase, poisoned, poolHead, announced, crashes>>

\* A panic under the lock: the main thread takes the process down, any other
\* thread dies and leaves the lock poisoned.
Panic(t) ==
    /\ Processing(t)
    /\ WorkPanics(Next1(t))
    /\ \/ /\ t = Main
          /\ phase' = "down"
          /\ pc' = [u \in Thread |-> "idle"]
          /\ ClearMemory
       \/ /\ t # Main
          /\ poisoned' = TRUE
          /\ LeaveTo(t, "dead")
          /\ UNCHANGED <<stateHead, phase, poolHead, announced>>
    /\ UNCHANGED <<disk, crashes>>

\* Mutant: the committed tree is not written to disk.
AcceptOnHead_NotPersisted(t) ==
    /\ Processing(t)
    /\ Verifies(Next1(t))
    /\ Parent[Next1(t)] = currentHeader
    /\ stateHead' = Exec[<<stateHead, Next1(t)>>]
    /\ blk' = [blk EXCEPT ![t] = Next1(t)]
    /\ pc' = [pc EXCEPT ![t] = "set_header"]
    /\ after' = [after EXCEPT ![t] = "repack"]
    /\ UNCHANGED <<disk, phase, lock, poisoned, poolHead, announced, todo, base, cursor, crashes>>

\* accept_block on the current head: the block runs on the live state, which
\* is committed; the result is not compared with the header's root.
AcceptOnHead(t) ==
    /\ Processing(t)
    /\ Verifies(Next1(t))
    /\ Parent[Next1(t)] = currentHeader
    /\ stateHead' = Exec[<<stateHead, Next1(t)>>]
    /\ trees' = IF stateHead' = stateHead THEN trees ELSE trees \cup {stateHead'}
    /\ blk' = [blk EXCEPT ![t] = Next1(t)]
    /\ pc' = [pc EXCEPT ![t] = "set_header"]
    /\ after' = [after EXCEPT ![t] = "repack"]
    /\ UNCHANGED <<headers, transactions, byHash, byLevel, currentHeader, phase, lock, poisoned,
                   poolHead, announced, todo, base, cursor, crashes>>

\* accept_block elsewhere: apply_txs_no_commit stores a tree on the parent's.
AcceptElsewhere(t) ==
    /\ Processing(t)
    /\ Verifies(Next1(t))
    /\ Parent[Next1(t)] # currentHeader
    /\ trees' = trees \cup {ForkExec[<<StateRoot[Parent[Next1(t)]], Next1(t)>>]}

ForkRootAgrees(b) == ForkExec[<<StateRoot[Parent[b]], b>>] = StateRoot[b]

RejectFork(t) ==
    /\ AcceptElsewhere(t)
    /\ ~ForkRootAgrees(Next1(t))
    /\ ReturnError(t)
    /\ UNCHANGED <<headers, transactions, byHash, byLevel, currentHeader, stateHead, phase,
                   poisoned, poolHead, announced, crashes>>

StoreFork(t) ==
    /\ AcceptElsewhere(t)
    /\ ForkRootAgrees(Next1(t))
    /\ ~(Level[Next1(t)] > Level[currentHeader])
    /\ blk' = [blk EXCEPT ![t] = Next1(t)]
    /\ pc' = [pc EXCEPT ![t] = "put_header"]
    /\ after' = [after EXCEPT ![t] = "process"]
    /\ UNCHANGED <<headers, transactions, byHash, byLevel, currentHeader, stateHead, phase, lock,
                   poisoned, poolHead, announced, todo, base, cursor, crashes>>

\* Mutant: a block of the head's level takes over.
AdoptFork_NotHigher(t) ==
    /\ AcceptElsewhere(t)
    /\ ForkRootAgrees(Next1(t))
    /\ Level[Next1(t)] >= Level[currentHeader]
    /\ stateHead' = StateRoot[Next1(t)]
    /\ blk' = [blk EXCEPT ![t] = Next1(t)]
    /\ pc' = [pc EXCEPT ![t] = "set_header"]
    /\ after' = [after EXCEPT ![t] = "repack"]
    /\ UNCHANGED <<headers, transactions, byHash, byLevel, currentHeader, phase, lock, poisoned,
                   poolHead, announced, todo, base, cursor, crashes>>

\* A higher block: the live state is reset to its root, then it becomes head.
AdoptFork(t) ==
    /\ AcceptElsewhere(t)
    /\ ForkRootAgrees(Next1(t))
    /\ Level[Next1(t)] > Level[currentHeader]
    /\ stateHead' = StateRoot[Next1(t)]
    /\ blk' = [blk EXCEPT ![t] = Next1(t)]
    /\ pc' = [pc EXCEPT ![t] = "set_header"]
    /\ after' = [after EXCEPT ![t] = "repack"]
    /\ UNCHANGED <<headers, transactions, byHash, byLevel, currentHeader, phase, lock, poisoned,
                   poolHead, announced, todo, base, cursor, crashes>>

\* Mutant: a block that becomes the head is not stored.
SetHeader_NotStored(t) ==
    /\ pc[t] = "set_header"
    /\ currentHeader' = blk[t]
    /\ announced' = IF Parent[blk[t]] = currentHeader THEN blk[t] ELSE announced
    /\ pc' = [pc EXCEPT ![t] = "repack"]
    /\ UNCHANGED <<headers, transactions, byHash, byLevel, trees, stateHead, phase, lock, poisoned,
                   poolHead, todo, base, cursor, blk, after, crashes>>

\* set_current_header; only a block on the head is announced.  The block is
\* stored afterwards.
SetHeader(t) ==
    /\ pc[t] = "set_header"
    /\ currentHeader' = blk[t]
    /\ announced' = IF Parent[blk[t]] = currentHeader THEN blk[t] ELSE announced
    /\ pc' = [pc EXCEPT ![t] = "put_header"]
    /\ UNCHANGED <<headers, transactions, byHash, byLevel, trees, stateHead, phase, lock, poisoned,
                   poolHead, todo, base, cursor, blk, after, crashes>>

\* txpool.repack(ResetRequest(old head, block)).  The pool takes its state at
\* the block; on a walk between the two heads it may give up before that
\* ("Unrooted ... chain"), and it may fail after it.
Repack(t) ==
    /\ pc[t] = "repack"
    /\ \/ /\ \/ poolHead' = blk[t]
             \/ base[t] # Parent[blk[t]] /\ UNCHANGED poolHead
          /\ pc' = [pc EXCEPT ![t] = "process"]
          /\ todo' = [todo EXCEPT ![t] = Tail(todo[t])]
          /\ UNCHANGED <<lock, base, cursor, blk, after>>
       \/ /\ poolHead' = blk[t]
          /\ ReturnError(t)
    /\ UNCHANGED <<disk, stateHead, phase, poisoned, announced, crashes>>

-----------------------------------------------------------------------------
(* How a thread ends outside put_chain. *)

\* current_header_blocking().unwrap() in the sync service on a poisoned lock.
MainPanics ==
    /\ phase = "up" /\ pc[Main] = "idle" /\ poisoned
    /\ phase' = "down"
    /\ pc' = [t \in Thread |-> "idle"]
    /\ ClearMemory
    /\ UNCHANGED <<disk, crashes>>

\* A worker that returns an error ends its thread.
WorkerEnds(t) ==
    /\ phase = "up" /\ pc[t] = "idle" /\ t # Main
    /\ pc' = [pc EXCEPT ![t] = "dead"]
    /\ UNCHANGED <<disk, stateHead, phase, lock, poisoned, poolHead, announced,
                   todo, base, cursor, blk, after, crashes>>

-----------------------------------------------------------------------------
Step(t) ==
    \/ PutHeader(t) \/ PutTransactions(t) \/ PutByHash(t) \/ PutByLevel(t)
    \/ SetRolledBackHeader(t) \/ RemoveStale(t) \/ Finish(t)
    \/ Reject(t) \/ Panic(t) \/ AcceptOnHead(t)
    \/ RejectFork(t) \/ StoreFork(t) \/ AdoptFork(t)
    \/ SetHeader(t) \/ Repack(t)

Boot == Restore \/ BeginGenesis \/ CommitGenesis \/ SetGenesisHeader

Call ==
    \/ \E t \in Thread : \E bs \in Batches[t] : PutChain(t, bs) \/ PutChainRollback(t, bs)
    \/ \E b \in Broadcasts : StoreBroadcast(b)

End == Crash \/ MainPanics \/ \E t \in Thread : WorkerEnds(t)

Next == Boot \/ Call \/ End \/ \E t \in Thread : Step(t)

Spec == Init /\ [][Next]_vars

\* Threads keep running and a started process gets through its start.
FairSpec == Spec /\ WF_vars(Boot) /\ \A t \in Thread : WF_vars(Step(t))

-----------------------------------------------------------------------------
(* Properties. *)

\* The tree of the current header's state root is on disk at every moment, so
\* that whenever the process dies ChainState::new can reset the state to it.
HeadStatePersisted == currentHeader # NoBlock => StateRoot[currentHeader] \in trees

\* Whenever no put_chain is running, the live State that RPC, pool and miner
\* read is the state of the current header, although accept_block never
\* compares the two.
StateMatchesHead ==
    (phase = "up" /\ lock = NoThread) =>
        currentHeader # NoBlock /\ stateHead = StateRoot[currentHeader]

\* The order of the four writes of BlockStorage::put means that an index entry,
\* by hash or by level, never names a block whose header or transactions are
\* missing, also when the process dies inside put or two threads put at once.
IndexNeverDangles ==
    /\ byHash \subseteq headers \cap transactions
    /\ \A l \in 0..MaxLevel :
          byLevel[l] # NoBlock => byLevel[l] \in byHash /\ Level[byLevel[l]] = l

Putting(t) == pc[t] \in PutPC

\* As long as the process has not died, the columns agree whenever no put is
\* under way, and the head is stored: get_blocks zips two of the columns, and
\* prepare_header and work_required look the head up in two of them.
StoreComplete ==
    (crashes = 0 /\ \A t \in Thread : ~Putting(t)) =>
        /\ headers = transactions /\ transactions = byHash
        /\ currentHeader # NoBlock => currentHeader \in byHash

\* Distinct blocks lead to distinct states.
RootsDistinct ==
    /\ \A b, c \in Block : StateRoot[b] = StateRoot[c] => b = c
    /\ \A r \in Root, b, c \in Block :
          StateRoot[c] \in {Exec[<<r, b>>], ForkExec[<<r, b>>]} => b = c

\* Blocks whose state is on disk form a tree rooted at genesis and stored on
\* this node: put_chain can roll back to any of them, and none rests on a block
\* that only a broadcast brought.  (Two blocks with one state root would let
\* an unverified broadcast block pass for an executed one.)
ExecutedChainStored ==
    RootsDistinct =>
        \A b \in NonGenesis : StateRoot[b] \in trees =>
            /\ Parent[b] \in byHash
            /\ StateRoot[Parent[b]] \in trees

\* The head moves to a block that is not higher only in the rollback of
\* put_chain, under the lock, to a stored block to which the live state has
\* been reset.
HeadStep ==
    (currentHeader # NoBlock /\ currentHeader' # currentHeader) =>
        \/ Level[currentHeader'] > Level[currentHeader]
        \/ /\ lock # NoThread /\ pc[lock] = "rollback"
           /\ currentHeader' \in byHash
           /\ stateHead = StateRoot[currentHeader']
HeadFallsOnlyInRollback == [][HeadStep]_vars

\* put_chain always returns, panics or dies with the process: the removal loop
\* and the block loop end.
LockReleased == (lock # NoThread) ~> (lock = NoThread)

\* A node that is down comes up again: the start does not fail on what a crash
\* left on disk.
NodeRecovers == (phase = "down") ~> (phase = "up")

=============================================================================
