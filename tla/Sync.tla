-------------------------------- MODULE Sync --------------------------------
(***************************************************************************)
(* How a node catches up with its peers.  The p2p task keeps NetworkState  *)
(* and turns the heads that peers announce into events; the main loop's    *)
(* SyncService asks one peer for blocks, from a level on, imports what it  *)
(* gets or searches backward for a block it knows; the miner extends the   *)
(* head meanwhile.  Events, requests and responses travel through queues   *)
(* between the two, requests may fail without an answer, peers may go.     *)
(*                                                                         *)
(* put_chain is its effect on a chain that is not crashing (ChainState has *)
(* the details): which blocks are stored, which of them have a state, and  *)
(* the head.  Of a header the service only uses the level.                 *)
(***************************************************************************)
EXTENDS Integers, Sequences

CONSTANTS
    Block, Genesis, NoBlock, Parent, Level,
    KeyOrder,          \* all blocks in the order of their keys (level, hash)
    Sound,             \* blocks that verify on their parent
    ForkOk,            \* blocks that apply_txs_no_commit accepts off the head
    Mined,             \* blocks the node's own miner may find
    Peer, NoPeer,
    PeerChain,         \* the chain of a peer, from level 1 on
    FirstTip,          \* how much of it the peer has at first
    Strays,            \* blocks that reach peers by broadcast, before their parents
    LIMIT, STEP, RESET_STEP, RESET_LIMIT,   \* 24, 5, 12 and 52 in the code
    MaxFaults

NoTip == -1

ASSUME SyncBlockAssumption ==
    /\ Genesis \in Block /\ NoBlock \notin Block
    /\ Parent \in [Block -> Block \cup {NoBlock}]
    /\ Level \in [Block -> Nat] /\ Level[Genesis] = 0
    /\ \A b \in Block \ {Genesis} : Parent[b] \in Block /\ Level[b] = Level[Parent[b]] + 1
    /\ KeyOrder \in Seq(Block)
    /\ Sound \subseteq Block /\ ForkOk \subseteq Block /\ Mined \subseteq Block \ {Genesis}
ASSUME SyncPeerAssumption ==
    /\ NoPeer \notin Peer
    /\ PeerChain \in [Peer -> Seq(Block \ {Genesis})]
    /\ FirstTip \in [Peer -> Nat]
    /\ \A p \in Peer : FirstTip[p] <= Len(PeerChain[p])
    /\ Strays \subseteq Block \ {Genesis}
ASSUME SyncBoundAssumption ==
    {LIMIT, STEP, RESET_STEP, RESET_LIMIT} \subseteq Nat \ {0} /\ MaxFaults \in Nat

VARIABLES
    chain,             \* [stored, executed, head] of the node
    peerTip, peerStray,  \* levels a peer has of its chain; blocks it only got by broadcast
    connected,
    told,              \* the last head of a peer that was gossiped to the node
    peerState, highestKnowHead,               \* NetworkState
    networkTip, highestPeer, tipBeforeSync, lastRequestIndex, syncMode,  \* SyncService
    events,            \* local queue: NetworkHighestHeadChanged
    requests, wire,    \* FindBlocks to be sent, and sent
    responses,         \* Blocks received, not yet handled
    panicked,          \* the main loop has hit an unwrap
    faults

network == <<peerTip, peerStray, connected, told>>
networkState == <<peerState, highestKnowHead>>
service == <<networkTip, highestPeer, tipBeforeSync, lastRequestIndex, syncMode>>
vars == <<chain, network, networkState, service, events, requests, wire, responses,
          panicked, faults>>

Tip == Nat \cup {NoTip}
Request == [peer : Peer \cup {NoPeer}, from : Nat, limit : Nat]

TypeOK ==
    /\ chain \in [stored : SUBSET Block, executed : SUBSET Block, head : Block]
    /\ peerTip \in [Peer -> Nat] /\ peerStray \in [Peer -> SUBSET Block]
    /\ connected \subseteq Peer
    /\ told \in [Peer -> Tip]
    /\ peerState \in [Peer -> Tip]
    /\ highestKnowHead \in Peer \cup {NoPeer}
    /\ networkTip \in Nat
    /\ highestPeer \in Peer \cup {NoPeer}
    /\ tipBeforeSync \in [peer : Peer \cup {NoPeer}, level : Tip]
    /\ lastRequestIndex \in Nat
    /\ syncMode \in {"Normal", "Forward", "Backward"}
    /\ events \in Seq([peer : Peer, tip : Tip])
    /\ requests \in Seq(Request) /\ wire \in Seq(Request)
    /\ responses \in Seq(Seq(Block))
    /\ panicked \in BOOLEAN /\ faults \in Nat

-----------------------------------------------------------------------------
(* The chain. *)

NodeLevel == Level[chain.head]

Verifies(c, b) == b \in Sound /\ Parent[b] \in c.stored /\ Parent[b] \in c.executed

\* process_block and accept_block for one block.
Accept(c, b) ==
    IF ~c.ok \/ ~Verifies(c, b) \/ (Parent[b] # c.head /\ b \notin ForkOk)
    THEN [c EXCEPT !.ok = FALSE]
    ELSE [stored |-> c.stored \cup {b}, executed |-> c.executed \cup {b},
          head |-> IF Parent[b] = c.head \/ Level[b] > Level[c.head] THEN b ELSE c.head,
          ok |-> TRUE]

\* put_chain: perhaps a rollback, then block after block up to the first that
\* fails.
PutChain(bs) ==
    LET first == bs[1]
        rolled == IF Parent[first] # chain.head /\ NodeLevel > Level[first] - 1
                  THEN Parent[first] ELSE chain.head
        after[i \in 0..Len(bs)] ==
            IF i = 0
            THEN [stored |-> chain.stored, executed |-> chain.executed, head |-> rolled, ok |-> TRUE]
            ELSE Accept(after[i-1], bs[i])
    IN  after[Len(bs)]

Become(c) == chain' = [stored |-> c.stored, executed |-> c.executed, head |-> c.head]

-----------------------------------------------------------------------------
(* NetworkState and the p2p task. *)

NoSync == [peer |-> NoPeer, level |-> NoTip]

Init ==
    /\ chain = [stored |-> {Genesis}, executed |-> {Genesis}, head |-> Genesis]
    /\ peerTip = FirstTip /\ peerStray = [p \in Peer |-> {}]
    /\ connected = Peer
    /\ told = FirstTip
    /\ peerState = [p \in Peer |-> NoTip] /\ highestKnowHead = NoPeer
    /\ networkTip = 0 /\ highestPeer = NoPeer
    /\ tipBeforeSync = NoSync
    /\ lastRequestIndex = 0
    /\ syncMode = "Normal"
    /\ events = <<>> /\ requests = <<>> /\ wire = <<>> /\ responses = <<>>
    /\ panicked = FALSE /\ faults = 0

\* A peer's head moves on, and is gossiped.
PeerExtends(p) ==
    /\ peerTip[p] < Len(PeerChain[p])
    /\ peerTip' = [peerTip EXCEPT ![p] = @ + 1]
    /\ UNCHANGED <<chain, peerStray, connected, told, networkState, service, events, requests,
                   wire, responses, panicked, faults>>

\* A peer stores a block it got by broadcast.
PeerStores(p, b) ==
    /\ b \notin peerStray[p]
    /\ peerStray' = [peerStray EXCEPT ![p] = @ \cup {b}]
    /\ UNCHANGED <<chain, peerTip, connected, told, networkState, service, events, requests,
                   wire, responses, panicked, faults>>

\* update_peer_current_head.  The head of the peer that is the highest already
\* is not recorded.
Leads(p, level) ==
    \/ highestKnowHead = NoPeer
    \/ highestKnowHead # p /\ level > peerState[highestKnowHead]
HighestLost(p) == highestKnowHead \notin {NoPeer, p} /\ peerState[highestKnowHead] = NoTip

\* The head of o arrives through p, which passes for its own: the message is
\* taken for one of its propagation_source.  A head of another peer counts as a
\* fault.
HeadArrives(p, o) ==
    /\ p \in connected /\ told[o] # peerTip[o]
    /\ told' = [told EXCEPT ![o] = peerTip[o]]
    /\ faults' = (IF p = o THEN faults ELSE faults + 1) /\ faults' <= MaxFaults
    /\ IF HighestLost(p)
       THEN UNCHANGED <<networkState, events>>
       ELSE /\ highestKnowHead' = IF Leads(p, peerTip[o]) THEN p ELSE highestKnowHead
            /\ peerState' = IF Leads(p, peerTip[o])
                            THEN [peerState EXCEPT ![p] = peerTip[o]] ELSE peerState
            /\ events' = Append(events, [peer |-> p, tip |-> peerTip[o]])
    /\ UNCHANGED <<chain, peerTip, peerStray, connected, service, requests, wire, responses,
                   panicked>>

NetworkHead == IF highestKnowHead = NoPeer THEN NoTip ELSE peerState[highestKnowHead]

Disconnect(p) ==
    /\ faults < MaxFaults /\ faults' = faults + 1
    /\ p \in connected /\ connected' = connected \ {p}
    /\ wire' = [i \in DOMAIN wire |-> IF wire[i].peer = p THEN [wire[i] EXCEPT !.peer = NoPeer]
                                      ELSE wire[i]]
    /\ UNCHANGED <<chain, peerTip, peerStray, told, service, requests, responses, panicked>>

\* Mutant: the peer that left stays the highest.
HighestWithout_Kept(p) == highestKnowHead

\* The highest peer, once p is removed.
HighestWithout(p) == IF highestKnowHead = p THEN NoPeer ELSE highestKnowHead

\* The node had dialled the peer and learns why the connection closed:
\* remove_peer.
PeerLeaves(p) ==
    /\ Disconnect(p)
    /\ highestKnowHead' = HighestWithout(p)
    /\ peerState' = [peerState EXCEPT ![p] = NoTip]
    /\ events' = Append(events, [peer |-> p, tip |-> NetworkHead'])

\* Otherwise nothing is updated.
PeerLeavesUnnoticed(p) == Disconnect(p) /\ UNCHANGED <<networkState, events>>

PeerReturns(p) ==
    /\ p \notin connected /\ connected' = connected \cup {p}
    /\ UNCHANGED <<chain, peerTip, peerStray, told, networkState, service, events, requests,
                   wire, responses, panicked, faults>>

SendRequest ==
    /\ requests # <<>> /\ requests' = Tail(requests)
    /\ wire' = Append(wire, IF Head(requests).peer \in connected THEN Head(requests)
                            ELSE [Head(requests) EXCEPT !.peer = NoPeer])
    /\ UNCHANGED <<chain, network, networkState, service, events, responses, panicked, faults>>

Without(q, i) == SubSeq(q, 1, i - 1) \o SubSeq(q, i + 1, Len(q))

\* OutboundFailure: a timeout, or the connection of the request is gone.
RequestFails(i) ==
    /\ wire' = Without(wire, i)
    /\ \/ wire[i].peer \notin connected /\ UNCHANGED faults
       \/ wire[i].peer \in connected /\ faults < MaxFaults /\ faults' = faults + 1
    /\ UNCHANGED <<chain, network, networkState, service, events, requests, responses, panicked>>

\* The peer's answer to FindBlocks: what it has stored, in the order of the
\* keys, from the level on.
PeerHas(p) == {Genesis} \cup {PeerChain[p][l] : l \in 1..peerTip[p]} \cup peerStray[p]
FindBlocks(p, from, limit) ==
    LET found[i \in 0..Len(KeyOrder)] ==
            IF i = 0 THEN <<>>
            ELSE IF /\ KeyOrder[i] \in PeerHas(p) /\ Level[KeyOrder[i]] >= from
                    /\ Len(found[i-1]) < limit
                 THEN Append(found[i-1], KeyOrder[i])
                 ELSE found[i-1]
    IN  found[Len(KeyOrder)]

Answer(i) ==
    /\ wire[i].peer \in connected
    /\ wire' = Without(wire, i)
    /\ responses' = Append(responses, FindBlocks(wire[i].peer, wire[i].from, wire[i].limit))
    /\ UNCHANGED <<chain, network, networkState, service, events, requests, panicked, faults>>

-----------------------------------------------------------------------------
(* SyncService. *)

\* send_peer_message, when the sync target is t.
SendTo(t, from, limit) ==
    requests' = IF t.level = NoTip THEN requests
                ELSE Append(requests, [peer |-> t.peer, from |-> from, limit |-> limit])

\* The node's own head stands for an unknown tip.
TipOf(e) == IF e.tip = NoTip THEN NodeLevel ELSE e.tip

\* Mutant: a sync under way is not looked for.
StartsSync_Always(tip) == tip > NodeLevel

\* Only when no sync is under way.
StartsSync(tip) == tipBeforeSync = NoSync /\ tip > NodeLevel

\* handle_local_message
HandleTip ==
    /\ ~panicked
    /\ events # <<>> /\ events' = Tail(events)
    /\ LET e == Head(events)
           tip == TipOf(e)
       IN  /\ networkTip' = tip /\ highestPeer' = e.peer
           /\ IF StartsSync(tip)
              THEN /\ lastRequestIndex' = tip
                   /\ tipBeforeSync' = [peer |-> e.peer, level |-> tip]
                   /\ SendTo(tipBeforeSync', NodeLevel + 1, LIMIT)
              ELSE UNCHANGED <<lastRequestIndex, tipBeforeSync, requests>>
    /\ UNCHANGED <<chain, network, networkState, syncMode, wire, responses, panicked, faults>>

Receive == ~panicked /\ responses # <<>> /\ responses' = Tail(responses)

EmptyResponse ==
    /\ Receive /\ Head(responses) = <<>>
    /\ IF NodeLevel >= networkTip
       THEN /\ syncMode' = "Normal"
            /\ UNCHANGED <<tipBeforeSync, requests>>
       ELSE /\ tipBeforeSync' = [peer |-> highestPeer, level |-> networkTip]
            /\ SendTo(tipBeforeSync', lastRequestIndex, LIMIT)
            /\ UNCHANGED syncMode
    /\ UNCHANGED <<chain, network, networkState, networkTip, highestPeer, lastRequestIndex,
                   events, wire, panicked, faults>>

\* validate_chain: the loop runs upward from the highest level to the lowest.
ValidateChain(bs) ==
    LET level(i) == Level[bs[i]]
        levels == {level(i) : i \in DOMAIN bs}
    IN  \A high, low \in levels :
            (high # low /\ \A l \in levels : low <= l /\ l <= high) =>
                \A l \in high..(low - 1) : l \in levels /\ l - 1 \in levels

HasCommonAncestor(b) == (Parent[b] \in chain.stored /\ Parent[b] \in chain.executed) \/ Level[b] = 0

\* Mutant: a newer tip is forgotten when the target is reached.
NextTarget_NoSwitch(level) == IF tipBeforeSync.level > level THEN tipBeforeSync ELSE NoSync

\* The target once the node is at a level: the same, the latest tip, or none.
NextTarget(level) ==
    IF tipBeforeSync.level > level THEN tipBeforeSync
    ELSE IF level < networkTip THEN [peer |-> highestPeer, level |-> networkTip]
    ELSE NoSync

\* The blocks are imported; the target is asked again, replaced or reached.
Import ==
    /\ Receive /\ Head(responses) # <<>>
    /\ ValidateChain(Head(responses)) /\ HasCommonAncestor(Head(responses)[1])
    /\ LET after == PutChain(Head(responses))
           level == Level[after.head]
       IN  /\ after.ok /\ Become(after)
           /\ syncMode' = "Forward"
           /\ panicked' = (tipBeforeSync = NoSync)
           /\ tipBeforeSync' = NextTarget(level)
           /\ lastRequestIndex' = IF tipBeforeSync' = NoSync THEN lastRequestIndex ELSE level + 1
           /\ SendTo(tipBeforeSync', level + 1, LIMIT)
    /\ UNCHANGED <<network, networkState, networkTip, highestPeer, events, wire, faults>>

\* Mutant: 0 is not replaced by 1.
GoBack_ToZero(index, by) == IF index > by THEN index - by ELSE 0

\* How far back to ask: saturating_sub, and 1 for 0.
GoBack(index, by) == IF index > by THEN index - by ELSE 1

Refused(bs) == ~ValidateChain(bs) \/ (HasCommonAncestor(bs[1]) /\ ~PutChain(bs).ok)

\* An error anywhere resets the sync; what put_chain did before it stays.
ImportFails ==
    /\ Receive /\ Head(responses) # <<>> /\ Refused(Head(responses))
    /\ IF ValidateChain(Head(responses)) THEN Become(PutChain(Head(responses))) ELSE UNCHANGED chain
    /\ lastRequestIndex' = GoBack(lastRequestIndex, RESET_STEP)
    /\ SendTo(tipBeforeSync, lastRequestIndex', RESET_LIMIT)
    /\ UNCHANGED <<network, networkState, networkTip, highestPeer, tipBeforeSync, syncMode,
                   events, wire, panicked, faults>>

\* No block of the response can be attached: ask again further back.
SearchBackward ==
    /\ Receive /\ Head(responses) # <<>>
    /\ ValidateChain(Head(responses)) /\ ~HasCommonAncestor(Head(responses)[1])
    /\ syncMode' = "Backward"
    /\ LET last == IF lastRequestIndex > NodeLevel THEN NodeLevel ELSE lastRequestIndex
       IN  IF last = 0
           THEN lastRequestIndex' = 0 /\ UNCHANGED requests
           ELSE /\ lastRequestIndex' = GoBack(last, STEP)
                /\ SendTo(tipBeforeSync, lastRequestIndex', LIMIT)
    /\ UNCHANGED <<chain, network, networkState, networkTip, highestPeer, tipBeforeSync,
                   events, wire, panicked, faults>>

\* The miner extends the head unless it knows the network to be ahead.
MinerExtends(b) ==
    /\ b \in Mined /\ Parent[b] = chain.head
    /\ NetworkHead <= NodeLevel
    /\ chain' = [stored |-> chain.stored \cup {b}, executed |-> chain.executed \cup {b}, head |-> b]
    /\ UNCHANGED <<network, networkState, service, events, requests, wire, responses,
                   panicked, faults>>

-----------------------------------------------------------------------------
PeerNext ==
    \E p \in Peer :
        \/ PeerExtends(p) \/ PeerLeaves(p) \/ PeerLeavesUnnoticed(p) \/ PeerReturns(p)
        \/ \E b \in Strays : PeerStores(p, b)

MainLoop == HandleTip \/ EmptyResponse \/ Import \/ ImportFails \/ SearchBackward

P2PTask ==
    \/ SendRequest
    \/ \E p, o \in Peer : HeadArrives(p, o)
    \/ \E i \in DOMAIN wire : Answer(i) \/ RequestFails(i)

Next == PeerNext \/ MainLoop \/ P2PTask \/ \E b \in Mined : MinerExtends(b)

Spec == Init /\ [][Next]_vars

\* The main loop and the p2p task go on: what is queued is handled, what is
\* gossiped arrives, and a request is answered or fails.  Nothing is assumed of
\* peers and of the miner.
FairSpec == Spec /\ WF_vars(MainLoop) /\ WF_vars(P2PTask)

-----------------------------------------------------------------------------
(* Properties. *)

\* At most one request is under way, from the moment it is queued until its
\* blocks are handled, and none without a sync target that is a peer: blocks
\* never meet tip_before_sync.as_ref().unwrap() with nothing in it, nor are they
\* the answer to another question, and PeerId::from_str(&peer_id).unwrap() in the
\* p2p task never sees the empty name.
OneRequest ==
    /\ Len(requests) + Len(wire) + Len(responses) <= 1
    /\ tipBeforeSync = NoSync => requests = <<>> /\ wire = <<>> /\ responses = <<>>
    /\ \A i \in DOMAIN requests : requests[i].peer \in Peer
    /\ ~panicked

\* No search, reset or switch of peers asks for level 0: put_chain never sees
\* the genesis block, on which first_block.level() - 1 would underflow.
GenesisNotAsked ==
    /\ \A i \in DOMAIN requests : requests[i].from >= 1
    /\ \A i \in DOMAIN responses : \A j \in DOMAIN responses[i] : responses[i][j] # Genesis

\* The peer known as highest is one whose head is known, so that
\* update_peer_current_head does not fail with "Current highest peer not found"
\* and the miner's network_head is not empty.
HighestIsKnown == highestKnowHead # NoPeer => peerState[highestKnowHead] # NoTip

\* As long as no request fails, no peer goes, heads come from their owners and
\* peers hold no block without its parent, the node gets level with the head it
\* has heard of last, from whatever fork its own miner has put it on and whatever
\* peers announce meanwhile.  (Not with the highest: handle_local_message takes
\* the tip of whichever peer spoke last.)
Gap == \E p \in Peer : \E b \in peerStray[p] : Parent[b] \notin PeerHas(p)
SyncCompletes == []<>(NodeLevel >= networkTip \/ faults > 0 \/ Gap)

-----------------------------------------------------------------------------
(* What the comments say and the code does not do. *)

\* "Tipped peer is offline or Network is at a fork / Get the new tip peer and
\* sync from it": when the peer asked is gone and another one, connected, has the
\* tip, that one gets asked.
Stranded(p) ==
    /\ p \in connected /\ highestPeer = p /\ networkTip > NodeLevel
    /\ tipBeforeSync # NoSync /\ tipBeforeSync.peer \notin connected
    /\ requests = <<>> /\ wire = <<>> /\ responses = <<>>
SyncResumes == \A p \in Peer : Stranded(p) ~> ~Stranded(p)

=============================================================================
