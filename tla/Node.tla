-------------------------------- MODULE Node --------------------------------
(***************************************************************************)
(* ChainState with the callers it really has: the main loop, whose sync    *)
(* service imports a batch only when it knows the first block's parent and *)
(* that parent's state, and the miner thread, which builds a template on   *)
(* the head it reads without the lock, mines, checks the head under the    *)
(* read lock, and calls put_chain after that lock is gone.                 *)
(***************************************************************************)
EXTENDS ChainState

CONSTANT Miner

ASSUME MinerAssumption ==
    /\ Miner \in Thread /\ Miner # Main
    /\ \A bs \in Batches[Miner] : bs = <<First(bs)>>

VARIABLES
    mpc,       \* the miner outside put_chain: idle, mining, found
    mparent,   \* parent of its template
    mblock     \* the block it has found

minerVars == <<mpc, mparent, mblock>>
nodeVars == <<vars, minerVars>>

NodeTypeOK ==
    /\ TypeOK
    /\ mpc \in {"idle", "mining", "found"}
    /\ mparent \in Block \cup {NoBlock}
    /\ mblock \in NonGenesis \cup {NoBlock}

ClearMiner == mpc' = "idle" /\ mparent' = NoBlock /\ mblock' = NoBlock

NodeInit == Init /\ mpc = "idle" /\ mparent = NoBlock /\ mblock = NoBlock

-----------------------------------------------------------------------------
(* start_worker *)

MinerDies == WorkerEnds(Miner) /\ ClearMiner

MinerRuns == phase = "up" /\ pc[Miner] = "idle"

\* block_template: the state of the head, the header of the head by key, and
\* the work on it, each of which the worker cannot do without.
TemplateReady ==
    /\ StateRoot[currentHeader] \in trees
    /\ currentHeader \in headers
    /\ WorkKnown(currentHeader, Level[currentHeader] + 1)

MinerTemplate ==
    /\ MinerRuns /\ mpc = "idle"
    /\ \/ /\ TemplateReady
          /\ mpc' = "mining" /\ mparent' = currentHeader
          /\ UNCHANGED <<vars, mblock>>
       \/ /\ ~TemplateReady
          /\ MinerDies

\* The network is ahead of the node: the template is dropped.
MinerDrops ==
    /\ MinerRuns /\ mpc = "mining"
    /\ ClearMiner
    /\ UNCHANGED vars

\* A nonce is found; the head is read under the lock, which is then released.
\* (A poisoned lock reads as level 0.)
MinerFinds(b) ==
    /\ MinerRuns /\ mpc = "mining"
    /\ Parent[b] = mparent
    /\ lock = NoThread
    /\ IF ~poisoned /\ Level[currentHeader] >= Level[b]
       THEN ClearMiner
       ELSE /\ mpc' = "found" /\ mblock' = b
            /\ UNCHANGED mparent
    /\ UNCHANGED vars

\* The errors put_chain returns before it changes anything are not among the
\* outcomes: SubmitAccepted shows that they cannot happen to the miner.
MinerSubmits ==
    /\ mpc = "found"
    /\ PutChain(Miner, <<mblock>>) \/ PutChainRollback(Miner, <<mblock>>)
    /\ ClearMiner

-----------------------------------------------------------------------------
(* The main loop *)

\* handle_import_blocks: has_common_ancestor.
HasCommonAncestor(bs) ==
    /\ HasHeaderByHash(Parent[First(bs)])
    /\ Parent[First(bs)] \in transactions
    /\ StateRoot[Parent[First(bs)]] \in trees

SyncImports(bs) ==
    /\ HasCommonAncestor(bs)
    /\ PutChain(Main, bs) \/ PutChainRollback(Main, bs)
    /\ UNCHANGED minerVars

\* current_header_blocking().unwrap() on a poisoned lock ends the main thread.
SyncPanics == MainPanics /\ ClearMiner

BroadcastArrives(b) == StoreBroadcast(b) /\ UNCHANGED minerVars

-----------------------------------------------------------------------------
NodeCrash == Crash /\ ClearMiner
NodeBoot == Boot /\ UNCHANGED minerVars
NodeStep(t) ==
    /\ Step(t)
    /\ IF phase' = "down" THEN ClearMiner ELSE UNCHANGED minerVars

MinerNext ==
    \/ MinerTemplate \/ MinerDrops \/ MinerSubmits
    \/ \E bs \in Batches[Miner] : MinerFinds(First(bs))

MainNext ==
    \/ \E bs \in Batches[Main] : SyncImports(bs)
    \/ SyncPanics
    \/ \E b \in Broadcasts : BroadcastArrives(b)

NodeNext == NodeBoot \/ MinerNext \/ MainNext \/ NodeCrash \/ \E t \in Thread : NodeStep(t)

NodeSpec == NodeInit /\ [][NodeNext]_nodeVars

\* Threads keep running and a started process gets through its start; nothing
\* is assumed of peers, of the time mining takes, or of the order in which
\* waiting threads get the lock.
NodeFairSpec ==
    NodeSpec /\ WF_nodeVars(NodeBoot) /\ \A t \in Thread : WF_nodeVars(NodeStep(t))

-----------------------------------------------------------------------------
(* Properties. *)

\* However stale a template is when its nonce is found, put_chain does not
\* refuse the block outright: the lock is not poisoned, and the parent the
\* template was built on is still stored with its state, to be rolled back to.
SubmitAccepted ==
    mpc = "found" =>
        /\ ~poisoned
        /\ HasHeaderByHash(Parent[mblock])
        /\ StateRoot[Parent[mblock]] \in trees

-----------------------------------------------------------------------------
(* What the code says of itself and does not keep. *)

\* genesis() panics with "genesis not found" unless level 0 is indexed: a node
\* that is up can always answer GetBlockchainInfo.
GenesisIndexed == phase = "up" => HeaderByLevel(0) = Genesis

=============================================================================
