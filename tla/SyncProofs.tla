----------------------------- MODULE SyncProofs -----------------------------
(***************************************************************************)
(* For any peers, chains, limits and number of faults: the node has at     *)
(* most one request under way and knows whose it is, the peer taken for    *)
(* the highest is one whose head is known, and level 0 is never asked for. *)
(*                                                                         *)
(* A request is only made while the one before it is being handled or when *)
(* no sync is under way, so the queues hold one thing at a time, and only  *)
(* while there is a target.  As long as there is a request, the last index *)
(* it was derived from is above 0: a search that comes to 0 asks no more.  *)
(***************************************************************************)
EXTENDS Sync, Recursion

HeadEvent == [peer : Peer, tip : Tip]
Chain     == [stored : SUBSET Block, executed : SUBSET Block, head : Block]

NetInv ==
    /\ peerTip \in [Peer -> Nat]
    /\ peerState \in [Peer -> Tip]
    /\ highestKnowHead \in Peer \cup {NoPeer}
    /\ events \in Seq(HeadEvent)
    /\ HighestIsKnown

\* Where the one request is: queued, sent, or answered.
AboveZero(q) == q \in Request /\ q.from >= 1
Responses    == Seq(Block \ {Genesis})

Queued   == wire = <<>> /\ responses = <<>> /\ \E q : requests = <<q>> /\ AboveZero(q) /\ q.peer \in Peer
Sent     == requests = <<>> /\ responses = <<>> /\ \E q : wire = <<q>> /\ AboveZero(q)
Answered == requests = <<>> /\ wire = <<>> /\ \E r : responses = <<r>> /\ r \in Responses
Quiet    == requests = <<>> /\ wire = <<>> /\ responses = <<>>

Target == tipBeforeSync.peer \in Peer /\ highestPeer \in Peer

SyncInv ==
    /\ Quiet \/ (Target /\ lastRequestIndex >= 1 /\ (Queued \/ Sent \/ Answered))
    /\ tipBeforeSync = NoSync \/ Target
    /\ panicked = FALSE

SyncTarget == [peer : Peer \cup {NoPeer}, level : Tip]

ServiceTypes ==
    /\ chain \in Chain
    /\ networkTip \in Nat
    /\ highestPeer \in Peer \cup {NoPeer}
    /\ tipBeforeSync \in SyncTarget
    /\ lastRequestIndex \in Nat
    /\ syncMode \in {"Normal", "Forward", "Backward"}

PeerTypes ==
    /\ peerStray \in [Peer -> SUBSET Block]
    /\ connected \subseteq Peer
    /\ told \in [Peer -> Tip]
    /\ faults \in Nat

IInv == NetInv /\ SyncInv /\ ServiceTypes /\ PeerTypes

-----------------------------------------------------------------------------
(* What put_chain leaves and what a peer answers. *)

Run == [stored : SUBSET Block, executed : SUBSET Block, head : Block, ok : BOOLEAN]

LEMMA AcceptRuns == ASSUME NEW c \in Run, NEW b \in Block PROVE Accept(c, b) \in Run
BY Zenon DEF Accept, Run

\* put_chain never leaves the node without a head, unless it is given genesis.
LEMMA PutChainRuns ==
    ASSUME chain \in Chain,
           NEW bs \in Seq(Block), bs # <<>>, bs[1] # Genesis
    PROVE  PutChain(bs) \in Run
<1> DEFINE rolled == IF Parent[bs[1]] # chain.head /\ NodeLevel > Level[bs[1]] - 1
                     THEN Parent[bs[1]] ELSE chain.head
           start == [stored |-> chain.stored, executed |-> chain.executed, head |-> rolled, ok |-> TRUE]
           n == Len(bs)
           step == [x \in Run \X (1 .. n) |-> Accept(x[1], bs[x[2]])]
           Body(f) == [i \in 0 .. n |-> IF i = 0 THEN start ELSE Accept(f[i - 1], bs[i])]
           after == CHOOSE f : f = Body(f)
<1>1. PutChain(bs) = after[n]
  BY Zenon DEF PutChain
<1>2. n \in Nat /\ \A i \in 1 .. n : bs[i] \in Block
  OBVIOUS
<1>3. start \in Run
  <2>1. bs[1] \in Block
    OBVIOUS
  <2>2. rolled \in Block
    BY Zenon, <2>1, SyncBlockAssumption DEF Chain
  <2> QED
    BY Zenon, <2>2 DEF Run, Chain
<1>4. step \in StepsOf(Run, n)
  BY Zenon, <1>2, AcceptRuns DEF StepsOf
<1> HIDE DEF start, n
<1>5. PICK f : IsRun(f, Run, start, n, step)
  <2> HIDE DEF step
  <2>1. n \in Nat
    BY Zenon, <1>2
  <2> QED
    BY Zenon, <2>1, <1>3, <1>4, Iterates
<1>6. \A i \in 1 .. n : f[i] = Accept(f[i - 1], bs[i])
  <2> SUFFICES ASSUME NEW i \in 1 .. n PROVE f[i] = Accept(f[i - 1], bs[i])
    OBVIOUS
  <2>1. f[i - 1] \in Run
    BY <1>2, <1>5 DEF IsRun
  <2> QED
    BY Zenon, <1>5, <2>1 DEF IsRun
<1>7. f = Body(f)
  BY <1>2, <1>5, <1>6 DEF IsRun
<1>8. after = Body(after)
  BY <1>7, Zenon
<1> HIDE DEF after
<1>9. after[0] = start /\ \A i \in 1 .. n : after[i] = Accept(after[i - 1], bs[i])
  BY <1>2, <1>8
<1>10. \A i \in 0 .. n : after[i] \in Run
  <2> DEFINE S == {i \in 0 .. n : after[i] \in Run}
  <2>1. 0 \in S
    BY <1>2, <1>3, <1>9
  <2>2. \A i \in 1 .. n : i - 1 \in S => i \in S
    BY <1>2, <1>9, AcceptRuns
  <2>3. \A i \in 0 .. n : i \in S
    <3> HIDE DEF S
    <3> QED
      BY Zenon, <1>2, <2>1, <2>2, UpTo
  <2> QED
    BY Zenon, <2>3
<1> QED
  BY <1>1, <1>2, <1>10

\* A peer asked from a level on answers with blocks from that level on.
LEMMA FindBlocksAnswers ==
    ASSUME NEW p, NEW from \in Nat, from >= 1, NEW limit
    PROVE  FindBlocks(p, from, limit) \in Responses
<1> DEFINE n == Len(KeyOrder)
           Takes(q, i) == /\ KeyOrder[i] \in PeerHas(p) /\ Level[KeyOrder[i]] >= from
                          /\ Len(q) < limit
           Scan(q, i) == IF Takes(q, i) THEN Append(q, KeyOrder[i]) ELSE q
           step == [x \in Responses \X (1 .. n) |-> Scan(x[1], x[2])]
           Body(f) == [i \in 0 .. n |-> IF i = 0 THEN <<>> ELSE Scan(f[i - 1], i)]
           found == CHOOSE f : f = Body(f)
<1>1. FindBlocks(p, from, limit) = found[n]
  BY Zenon DEF FindBlocks
<1>2. n \in Nat /\ \A i \in 1 .. n : KeyOrder[i] \in Block
  BY SyncBlockAssumption
<1>3. <<>> \in Responses
  BY DEF Responses
<1>4. ASSUME NEW q \in Responses, NEW i \in 1 .. n PROVE Scan(q, i) \in Responses
  <2>1. CASE Takes(q, i)
    <3>1. KeyOrder[i] \in Block \ {Genesis}
      BY <1>2, <2>1, SyncBlockAssumption
    <3> HIDE DEF Takes
    <3> QED
      BY <2>1, <3>1 DEF Responses
  <2>2. CASE ~Takes(q, i)
    <3> HIDE DEF Takes
    <3> QED
      BY Zenon, <2>2
  <2> QED
    BY Zenon, <2>1, <2>2
<1> HIDE DEF n, Scan
<1>5. step \in StepsOf(Responses, n)
  BY Zenon, <1>4 DEF StepsOf
<1>6. PICK f : IsRun(f, Responses, <<>>, n, step)
  <2> HIDE DEF step
  <2> QED
    BY Zenon, <1>2, <1>3, <1>5, Iterates
<1>7. \A i \in 1 .. n : f[i] = Scan(f[i - 1], i)
  <2> SUFFICES ASSUME NEW i \in 1 .. n PROVE f[i] = Scan(f[i - 1], i)
    OBVIOUS
  <2>1. f[i - 1] \in Responses
    BY <1>2, <1>6 DEF IsRun
  <2> QED
    BY Zenon, <1>6, <2>1 DEF IsRun
<1>8. f = Body(f)
  BY <1>2, <1>6, <1>7 DEF IsRun
<1>9. found = Body(found)
  BY <1>8, Zenon
<1> HIDE DEF found
<1>10. found[0] = <<>> /\ \A i \in 1 .. n : found[i] = Scan(found[i - 1], i)
  BY <1>2, <1>9
<1>11. \A i \in 0 .. n : found[i] \in Responses
  <2> DEFINE S == {i \in 0 .. n : found[i] \in Responses}
  <2>1. 0 \in S
    BY <1>2, <1>3, <1>10
  <2>2. \A i \in 1 .. n : i - 1 \in S => i \in S
    BY <1>2, <1>4, <1>10
  <2>3. \A i \in 0 .. n : i \in S
    <3> HIDE DEF S
    <3> QED
      BY Zenon, <1>2, <2>1, <2>2, UpTo
  <2> QED
    BY Zenon, <2>3
<1> QED
  BY <1>1, <1>2, <1>11

-----------------------------------------------------------------------------
(* Sequences of one element. *)

LEMMA One ==
    ASSUME NEW x
    PROVE  /\ Len(<<x>>) = 1 /\ DOMAIN <<x>> = {1} /\ <<x>>[1] = x
           /\ Head(<<x>>) = x /\ Tail(<<x>>) = <<>>
           /\ Append(<<>>, x) = <<x>> /\ <<x>> # <<>>
           /\ Without(<<x>>, 1) = <<>>
<1>1. Len(<<x>>) = 1 /\ DOMAIN <<x>> = {1} /\ <<x>>[1] = x OBVIOUS
<1>2. Head(<<x>>) = x /\ Tail(<<x>>) = <<>> OBVIOUS
<1>3. Append(<<>>, x) = <<x>> /\ <<x>> # <<>> OBVIOUS
<1>4. Without(<<x>>, 1) = <<>> BY DEF Without
<1> QED BY Zenon, <1>1, <1>2, <1>3, <1>4

LEMMA Events ==
    ASSUME events \in Seq(HeadEvent)
    PROVE  /\ events # <<>> => Head(events) \in HeadEvent /\ Tail(events) \in Seq(HeadEvent)
           /\ \A e \in HeadEvent : Append(events, e) \in Seq(HeadEvent)
OBVIOUS

LEMMA TargetIsNotNoSync == Target => tipBeforeSync # NoSync
BY SyncPeerAssumption DEF Target, NoSync

-----------------------------------------------------------------------------
(* Peers and the p2p task. *)

\* What a step that leaves the sync and its queues alone preserves.
LEMMA SyncUntouched ==
    ASSUME SyncInv, UNCHANGED <<requests, wire, responses, service, panicked>>
    PROVE  SyncInv'
BY Zenon DEF SyncInv, Quiet, Queued, Sent, Answered, Target, service

LEMMA NetUntouched ==
    ASSUME NetInv, UNCHANGED <<peerTip, networkState, events>>
    PROVE  NetInv'
BY Zenon DEF NetInv, networkState, HighestIsKnown

LEMMA ServiceUntouched ==
    ASSUME ServiceTypes, UNCHANGED <<chain, service>>
    PROVE  ServiceTypes'
BY Zenon DEF ServiceTypes, service

LEMMA PeersUntouched ==
    ASSUME PeerTypes, UNCHANGED <<peerStray, connected, told, faults>>
    PROVE  PeerTypes'
BY Zenon DEF PeerTypes

LEMMA DisconnectIInv ==
    ASSUME SyncInv, ServiceTypes, PeerTypes, NEW p \in Peer, Disconnect(p)
    PROVE  SyncInv' /\ ServiceTypes' /\ PeerTypes'
<1>1. UNCHANGED <<requests, responses, service, panicked>>
  BY Zenon DEF Disconnect
<1>2. ServiceTypes'
  BY Zenon, ServiceUntouched DEF Disconnect
<1>3. PeerTypes'
  BY DEF Disconnect, PeerTypes
<1>4. CASE Sent
  <2>1. PICK q : wire = <<q>> /\ AboveZero(q) BY Zenon, <1>4 DEF Sent
  <2> DEFINE q1 == IF q.peer = p THEN [q EXCEPT !.peer = NoPeer] ELSE q
  <2>2. wire' = [i \in {1} |-> q1] BY ZenonT(60), <2>1, One DEF Disconnect
  <2>3. AboveZero(q1) BY Zenon, <2>1 DEF AboveZero, Request
  <2> HIDE DEF q1
  <2>4. [i \in {1} |-> q1] = <<q1>> OBVIOUS
  <2>5. Sent' BY Zenon, <1>1, <1>4, <2>2, <2>3, <2>4 DEF Sent
  <2>6. Target /\ lastRequestIndex >= 1
    BY Zenon, <1>4, <2>1, One DEF SyncInv, Sent, Quiet, Queued, Answered
  <2>7. SyncInv' BY Zenon, <1>1, <2>5, <2>6 DEF SyncInv, Target, service
  <2> QED BY Zenon, <1>2, <1>3, <2>7
<1>5. CASE ~Sent
  <2>1. wire = <<>> BY Zenon, <1>5 DEF SyncInv, Quiet, Queued, Sent, Answered
  <2>2. wire' = <<>> BY <2>1 DEF Disconnect
  <2> QED BY Zenon, <1>1, <1>2, <1>3, <2>1, <2>2, SyncUntouched
<1> QED BY Zenon, <1>4, <1>5

LEMMA PeerNextIInv ==
    ASSUME IInv, NEW p \in Peer,
           \/ PeerExtends(p) \/ PeerLeaves(p) \/ PeerLeavesUnnoticed(p) \/ PeerReturns(p)
           \/ \E b \in Strays : PeerStores(p, b)
    PROVE  IInv'
<1> USE DEF IInv
<1>1. CASE PeerExtends(p)
  <2>1. peerTip' \in [Peer -> Nat] BY <1>1 DEF PeerExtends, NetInv
  <2>2. NetInv' BY Zenon, <1>1, <2>1 DEF PeerExtends, NetInv, networkState, HighestIsKnown
  <2>3. UNCHANGED <<chain, requests, wire, responses, service, panicked, peerStray, connected, told,
                    faults>>
    BY Zenon, <1>1 DEF PeerExtends
  <2> QED BY Zenon, <2>2, <2>3, SyncUntouched, ServiceUntouched, PeersUntouched
<1>2. CASE PeerLeaves(p)
  <2>1. UNCHANGED peerTip BY Zenon, <1>2 DEF PeerLeaves, Disconnect
  <2>2. peerState' \in [Peer -> Tip] /\ highestKnowHead' \in Peer \cup {NoPeer}
    BY Zenon, <1>2 DEF PeerLeaves, NetInv, Tip, HighestWithout
  <2>3. HighestIsKnown'
    BY Zenon, <1>2, SyncPeerAssumption DEF PeerLeaves, NetInv, HighestWithout, HighestIsKnown
  <2>4. NetworkHead' \in Tip BY Zenon, <2>2 DEF NetworkHead, Tip
  <2>5. events' \in Seq(HeadEvent) BY Zenon, <1>2, <2>4, Events DEF PeerLeaves, NetInv, HeadEvent
  <2>6. NetInv' BY Zenon, <2>1, <2>2, <2>3, <2>5 DEF NetInv
  <2> QED BY Zenon, <1>2, <2>6, DisconnectIInv DEF PeerLeaves
<1>3. CASE PeerLeavesUnnoticed(p)
  <2>1. NetInv' BY Zenon, <1>3, NetUntouched DEF PeerLeavesUnnoticed, Disconnect
  <2> QED BY Zenon, <1>3, <2>1, DisconnectIInv DEF PeerLeavesUnnoticed
<1>4. CASE PeerReturns(p)
  <2>1. UNCHANGED <<chain, peerTip, networkState, events, requests, wire, responses, service, panicked>>
    BY Zenon, <1>4 DEF PeerReturns
  <2>2. PeerTypes' BY Zenon, <1>4 DEF PeerReturns, PeerTypes
  <2> QED BY Zenon, <2>1, <2>2, SyncUntouched, NetUntouched, ServiceUntouched
<1>5. CASE \E b \in Strays : PeerStores(p, b)
  <2>1. UNCHANGED <<chain, peerTip, networkState, events, requests, wire, responses, service, panicked>>
    BY Zenon, <1>5 DEF PeerStores
  <2>2. PeerTypes' BY <1>5, SyncPeerAssumption DEF PeerStores, PeerTypes
  <2> QED BY Zenon, <2>1, <2>2, SyncUntouched, NetUntouched, ServiceUntouched
<1> QED BY Zenon, <1>1, <1>2, <1>3, <1>4, <1>5

LEMMA HeadArrivesIInv ==
    ASSUME IInv, NEW p \in Peer, NEW o \in Peer, HeadArrives(p, o)
    PROVE  IInv'
<1>1. SyncInv' /\ ServiceTypes' BY Zenon, SyncUntouched, ServiceUntouched DEF IInv, HeadArrives
<1>2. peerTip[o] \in Nat BY Zenon DEF IInv, NetInv
<1>0. PeerTypes' BY <1>2 DEF IInv, PeerTypes, HeadArrives, Tip
<1>3. NetInv'
  <2>1. CASE HighestLost(p) BY Zenon, <2>1, NetUntouched DEF IInv, HeadArrives
  <2>2. CASE ~HighestLost(p)
    <3>1. UNCHANGED peerTip BY Zenon DEF HeadArrives
    <3>2. events' \in Seq(HeadEvent)
      BY ZenonT(60), <1>2, <2>2, Events DEF IInv, NetInv, HeadArrives, HeadEvent, Tip
    <3>3. CASE Leads(p, peerTip[o])
      <4>1. highestKnowHead' = p /\ peerState' = [peerState EXCEPT ![p] = peerTip[o]]
        BY Zenon, <2>2, <3>3 DEF HeadArrives
      <4>2. peerState' \in [Peer -> Tip] /\ peerState'[p] = peerTip[o]
        BY Zenon, <1>2, <4>1 DEF IInv, NetInv, Tip
      <4> QED BY <1>2, <3>1, <3>2, <4>1, <4>2 DEF IInv, NetInv, HighestIsKnown, NoTip
    <3>4. CASE ~Leads(p, peerTip[o])
      BY Zenon, <2>2, <3>1, <3>2, <3>4 DEF HeadArrives, IInv, NetInv, HighestIsKnown
    <3> QED BY Zenon, <3>3, <3>4
  <2> QED BY Zenon, <2>1, <2>2
<1> QED BY Zenon, <1>0, <1>1, <1>3 DEF IInv

\* A request moves from the queue to the wire, and from there to the answers or
\* out of sight.
LEMMA WireIInv ==
    ASSUME IInv, SendRequest \/ \E i \in DOMAIN wire : Answer(i) \/ RequestFails(i)
    PROVE  IInv'
<1>1. UNCHANGED <<chain, network, networkState, events, service, panicked>>
  BY Zenon DEF SendRequest, Answer, RequestFails
<1>2. NetInv' /\ ServiceTypes' BY Zenon, <1>1, NetUntouched, ServiceUntouched DEF IInv, network
<1>3. PeerTypes' BY <1>1 DEF IInv, PeerTypes, network, SendRequest, Answer, RequestFails
<1>4. CASE SendRequest
  <2>1. Queued /\ Target /\ lastRequestIndex >= 1
    BY Zenon, <1>4 DEF SendRequest, IInv, SyncInv, Quiet, Queued, Sent, Answered
  <2>2. PICK q : requests = <<q>> /\ AboveZero(q) BY Zenon, <2>1 DEF Queued
  <2>3. requests' = <<>> BY Zenon, <1>4, <2>2, One DEF SendRequest
  <2> DEFINE q1 == IF q.peer \in connected THEN q ELSE [q EXCEPT !.peer = NoPeer]
  <2>4. wire' = Append(wire, q1) BY Zenon, <1>4, <2>2, One DEF SendRequest
  <2>5. AboveZero(q1) BY Zenon, <2>2 DEF AboveZero, Request
  <2> HIDE DEF q1
  <2>6. wire' = <<q1>> BY Zenon, <2>1, <2>4, One DEF Queued
  <2>7. responses' = <<>> BY Zenon, <1>4, <2>1 DEF SendRequest, Queued
  <2>8. Sent' BY Zenon, <2>3, <2>5, <2>6, <2>7 DEF Sent
  <2>9. SyncInv' BY Zenon, <1>1, <2>1, <2>8 DEF IInv, SyncInv, Target, service
  <2> QED BY Zenon, <1>2, <1>3, <2>9 DEF IInv
<1>5. ASSUME NEW i \in DOMAIN wire, Answer(i) \/ RequestFails(i) PROVE IInv'
  <2>1. wire # <<>> BY <1>5
  <2>2. Sent /\ Target /\ lastRequestIndex >= 1
    BY Zenon, <2>1 DEF IInv, SyncInv, Quiet, Queued, Sent, Answered
  <2>3. PICK q : wire = <<q>> /\ AboveZero(q) BY Zenon, <2>2 DEF Sent
  <2>4. i = 1 /\ wire[i] = q BY Zenon, <1>5, <2>3, One
  <2>5. wire' = <<>> BY Zenon, <1>5, <2>3, <2>4, One DEF Answer, RequestFails
  <2>6. requests' = <<>> BY Zenon, <1>5, <2>2 DEF Answer, RequestFails, Sent
  <2>7. Quiet' \/ Answered'
    <3>1. CASE RequestFails(i) BY Zenon, <2>2, <2>5, <2>6, <3>1 DEF RequestFails, Sent, Quiet
    <3>2. CASE Answer(i)
      <4> DEFINE r == FindBlocks(q.peer, q.from, q.limit)
      <4>1. responses' = Append(responses, r) BY Zenon, <3>2, <2>4 DEF Answer
      <4>2. r \in Responses BY Zenon, <2>3, FindBlocksAnswers DEF AboveZero, Request
      <4> HIDE DEF r
      <4>3. responses' = <<r>> BY Zenon, <2>2, <4>1, One DEF Sent
      <4> QED BY Zenon, <2>5, <2>6, <4>2, <4>3 DEF Answered
    <3> QED BY Zenon, <1>5, <3>1, <3>2
  <2>8. SyncInv' BY Zenon, <1>1, <2>2, <2>7 DEF IInv, SyncInv, Target, service
  <2> QED BY Zenon, <1>2, <1>3, <2>8 DEF IInv
<1> QED BY Zenon, <1>4, <1>5

-----------------------------------------------------------------------------
(* The sync service. *)

\* What the queue holds once a target has been asked from a level above 0.
Asked == requests' = <<>> \/ \E q : requests' = <<q>> /\ AboveZero(q) /\ q.peer \in Peer

\* Asking a target that is a peer queues a request to that peer or nothing.
LEMMA SendToFacts ==
    ASSUME requests = <<>>, NEW t, t.peer \in Peer, NEW from \in Nat, from >= 1,
           NEW limit \in Nat, SendTo(t, from, limit)
    PROVE  Asked
<1> DEFINE q == [peer |-> t.peer, from |-> from, limit |-> limit]
<1>1. CASE t.level = NoTip BY Zenon, <1>1 DEF SendTo, Asked
<1>2. CASE t.level # NoTip
  <2>1. requests' = Append(<<>>, q) BY Zenon, <1>2 DEF SendTo
  <2>2. requests' = <<q>> BY Zenon, <2>1, One
  <2>3. q.peer \in Peer /\ AboveZero(q) BY Zenon DEF AboveZero, Request
  <2> HIDE DEF q
  <2> QED BY Zenon, <2>2, <2>3 DEF Asked
<1> QED BY Zenon, <1>1, <1>2

\* When the answer is taken and the target, a peer, may have been asked again,
\* there is one request or none.
LEMMA AskedAgain ==
    ASSUME requests' = <<>> \/ (Target' /\ lastRequestIndex' >= 1 /\ Asked),
           wire' = <<>>, responses' = <<>>,
           tipBeforeSync' = NoSync \/ Target', panicked' = FALSE
    PROVE  SyncInv'
BY Zenon DEF SyncInv, Quiet, Queued, Asked

LEMMA ReceiveFacts ==
    ASSUME IInv, Receive
    PROVE  /\ requests = <<>> /\ wire = <<>> /\ responses' = <<>>
           /\ Target /\ tipBeforeSync # NoSync /\ lastRequestIndex >= 1
           /\ Head(responses) \in Responses
<1>1. Answered /\ Target /\ lastRequestIndex >= 1
  BY Zenon DEF Receive, IInv, SyncInv, Quiet, Queued, Sent, Answered
<1>2. PICK r : responses = <<r>> /\ r \in Responses BY Zenon, <1>1 DEF Answered
<1>3. responses' = <<>> /\ Head(responses) = r BY Zenon, <1>2, One DEF Receive
<1> QED BY Zenon, <1>1, <1>2, <1>3, TargetIsNotNoSync DEF Answered

\* The level of the node, and the limits of the requests.
LEMMA Levels ==
    ASSUME ServiceTypes
    PROVE  NodeLevel \in Nat /\ NodeLevel + 1 >= 1 /\ LIMIT \in Nat /\ RESET_LIMIT \in Nat
<1>1. chain.head \in Block BY Zenon DEF ServiceTypes, Chain
<1>2. NodeLevel \in Nat BY Zenon, <1>1, SyncBlockAssumption DEF NodeLevel
<1> QED BY <1>2, SyncBoundAssumption

\* What put_chain makes of a response.
LEMMA ResponseRuns ==
    ASSUME ServiceTypes, NEW bs \in Responses, bs # <<>>
    PROVE  PutChain(bs) \in Run
<1>1. bs \in Seq(Block) /\ bs[1] # Genesis BY DEF Responses
<1> QED BY Zenon, <1>1, PutChainRuns DEF ServiceTypes

LEMMA BecomeIsChain ==
    ASSUME NEW c \in Run, Become(c)
    PROVE  chain' \in Chain
BY Zenon DEF Become, Run, Chain

LEMMA HandleTipIInv == ASSUME IInv, HandleTip PROVE IInv'
<1> DEFINE e == Head(events)
<1>1. e \in HeadEvent /\ events' \in Seq(HeadEvent) BY Zenon, Events DEF HandleTip, IInv, NetInv
<1>2. NetInv' /\ PeerTypes'
  <2>1. UNCHANGED <<network, networkState>> BY Zenon DEF HandleTip
  <2>2. NetInv' BY Zenon, <1>1, <2>1 DEF IInv, NetInv, network, networkState, HighestIsKnown
  <2>3. PeerTypes' BY Zenon, <2>1, PeersUntouched DEF IInv, network, HandleTip
  <2> QED BY Zenon, <2>2, <2>3
<1>3. highestPeer' = e.peer /\ e.peer \in Peer BY Zenon, <1>1 DEF HandleTip, HeadEvent
<1>4. UNCHANGED <<chain, wire, responses, syncMode, panicked>> BY Zenon DEF HandleTip
<1>5. TipOf(e) \in Nat /\ networkTip' = TipOf(e)
  BY Zenon, <1>1, Levels DEF HandleTip, TipOf, IInv, HeadEvent, Tip
<1> HIDE DEF e
<1>6. CASE StartsSync(TipOf(e))
  <2>1. tipBeforeSync = NoSync /\ TipOf(e) > NodeLevel BY Zenon, <1>6 DEF StartsSync
  <2>2. Quiet BY Zenon, <2>1, TargetIsNotNoSync DEF IInv, SyncInv
  <2>3. /\ tipBeforeSync' = [peer |-> e.peer, level |-> TipOf(e)]
        /\ lastRequestIndex' = TipOf(e)
        /\ SendTo(tipBeforeSync', NodeLevel + 1, LIMIT)
    BY Zenon, <1>6 DEF HandleTip, e
  <2>4. Target' BY Zenon, <1>3, <2>3 DEF Target
  <2>5. lastRequestIndex' >= 1 BY <1>5, <2>1, <2>3, Levels DEF IInv
  <2>6. Asked BY <2>2, <2>3, <2>4, SendToFacts, Levels DEF Quiet, Target, IInv
  <2>7. SyncInv' BY Zenon, <1>4, <2>2, <2>4, <2>5, <2>6, AskedAgain DEF Quiet, IInv, SyncInv
  <2>8. tipBeforeSync' \in SyncTarget BY Zenon, <1>3, <1>5, <2>3 DEF SyncTarget, Tip
  <2>9. ServiceTypes' BY Zenon, <1>3, <1>4, <1>5, <2>3, <2>8 DEF IInv, ServiceTypes
  <2> QED BY Zenon, <1>2, <2>7, <2>9 DEF IInv
<1>7. CASE ~StartsSync(TipOf(e))
  <2>1. UNCHANGED <<tipBeforeSync, requests, lastRequestIndex>> BY Zenon, <1>7 DEF HandleTip, e
  <2>2. Target => Target' BY Zenon, <1>3, <2>1 DEF Target
  <2>3. SyncInv' BY Zenon, <1>4, <2>1, <2>2 DEF IInv, SyncInv, Quiet, Queued, Sent, Answered
  <2>4. ServiceTypes' BY Zenon, <1>3, <1>4, <1>5, <2>1 DEF IInv, ServiceTypes
  <2> QED BY Zenon, <1>2, <2>3, <2>4 DEF IInv
<1> QED BY Zenon, <1>6, <1>7

LEMMA EmptyResponseIInv == ASSUME IInv, EmptyResponse PROVE IInv'
<1>1. requests = <<>> /\ wire = <<>> /\ responses' = <<>> /\ Target /\ lastRequestIndex >= 1
  BY Zenon, ReceiveFacts DEF EmptyResponse
<1>2. NetInv' /\ PeerTypes' BY Zenon, NetUntouched, PeersUntouched DEF EmptyResponse, IInv, network
<1>3. UNCHANGED <<chain, networkTip, highestPeer, lastRequestIndex, wire, panicked>>
  BY Zenon DEF EmptyResponse
<1>4. CASE NodeLevel >= networkTip
  <2>1. UNCHANGED <<tipBeforeSync, requests>> /\ syncMode' = "Normal"
    BY Zenon, <1>4 DEF EmptyResponse
  <2>2. Target' BY Zenon, <1>1, <1>3, <2>1 DEF Target
  <2>3. SyncInv' BY Zenon, <1>1, <1>3, <2>1, <2>2, AskedAgain DEF IInv, SyncInv
  <2>4. ServiceTypes' BY Zenon, <1>3, <2>1 DEF IInv, ServiceTypes
  <2> QED BY Zenon, <1>2, <2>3, <2>4 DEF IInv
<1>5. CASE ~(NodeLevel >= networkTip)
  <2>1. /\ tipBeforeSync' = [peer |-> highestPeer, level |-> networkTip]
        /\ SendTo(tipBeforeSync', lastRequestIndex, LIMIT)
        /\ UNCHANGED syncMode
    BY Zenon, <1>5 DEF EmptyResponse
  <2>2. Target' BY Zenon, <1>1, <1>3, <2>1 DEF Target
  <2>3. Asked BY Zenon, <1>1, <2>1, <2>2, SendToFacts, Levels DEF Target, IInv, ServiceTypes
  <2>4. SyncInv' BY Zenon, <1>1, <1>3, <2>2, <2>3, AskedAgain DEF IInv, SyncInv
  <2>5. tipBeforeSync' \in SyncTarget BY Zenon, <2>1 DEF IInv, ServiceTypes, SyncTarget, Tip
  <2>6. ServiceTypes' BY Zenon, <1>3, <2>1, <2>5 DEF IInv, ServiceTypes
  <2> QED BY Zenon, <1>2, <2>4, <2>6 DEF IInv
<1> QED BY Zenon, <1>4, <1>5

LEMMA ImportIInv == ASSUME IInv, Import PROVE IInv'
<1> DEFINE after == PutChain(Head(responses))
           level == Level[after.head]
<1>1. /\ requests = <<>> /\ wire = <<>> /\ responses' = <<>>
      /\ Target /\ tipBeforeSync # NoSync
      /\ Head(responses) \in Responses /\ Head(responses) # <<>>
  BY Zenon, ReceiveFacts DEF Import
<1>2. NetInv' /\ PeerTypes' BY Zenon, NetUntouched, PeersUntouched DEF Import, IInv, network
<1>3. UNCHANGED <<networkTip, highestPeer, wire>> /\ panicked' = FALSE /\ syncMode' = "Forward"
  BY Zenon, <1>1 DEF Import
<1>4. /\ tipBeforeSync' = NextTarget(level)
      /\ lastRequestIndex' = IF tipBeforeSync' = NoSync THEN lastRequestIndex ELSE level + 1
      /\ SendTo(tipBeforeSync', level + 1, LIMIT)
      /\ Become(after)
  BY Zenon DEF Import
<1>5. after \in Run BY Zenon, <1>1, ResponseRuns DEF IInv
<1> HIDE DEF after
<1>6. chain' \in Chain BY Zenon, <1>4, <1>5, BecomeIsChain
<1>7. level \in Nat BY Zenon, <1>5, SyncBlockAssumption DEF Run
<1> HIDE DEF level
<1>8. tipBeforeSync' \in SyncTarget /\ lastRequestIndex' \in Nat
  <2>1. NoSync \in SyncTarget BY Zenon DEF NoSync, SyncTarget, Tip
  <2>2. [peer |-> highestPeer, level |-> networkTip] \in SyncTarget
    BY Zenon DEF IInv, ServiceTypes, SyncTarget, Tip
  <2> QED BY <1>4, <1>7, <2>1, <2>2 DEF NextTarget, IInv, ServiceTypes
<1>9. ServiceTypes' BY Zenon, <1>3, <1>6, <1>8 DEF IInv, ServiceTypes
<1>10. CASE tipBeforeSync' = NoSync
  <2>1. requests' = <<>> BY <1>1, <1>4, <1>10 DEF SendTo, NoSync
  <2>2. SyncInv' BY Zenon, <1>1, <1>3, <1>10, <2>1, AskedAgain
  <2> QED BY Zenon, <1>2, <1>9, <2>2 DEF IInv
<1>11. CASE tipBeforeSync' # NoSync
  <2>1. Target' BY Zenon, <1>1, <1>3, <1>4, <1>11 DEF Target, NextTarget
  <2>2. lastRequestIndex' >= 1 BY <1>4, <1>7, <1>11
  <2>3. Asked
    BY <1>1, <1>4, <1>7, <2>1, SendToFacts, Levels DEF Target, IInv
  <2>4. SyncInv' BY Zenon, <1>1, <1>3, <2>1, <2>2, <2>3, AskedAgain
  <2> QED BY Zenon, <1>2, <1>9, <2>4 DEF IInv
<1> QED BY ONLY <1>10, <1>11

\* GoBack ends at 1.
LEMMA GoBackFacts ==
    ASSUME NEW index \in Nat, NEW by \in Nat
    PROVE  GoBack(index, by) \in Nat /\ GoBack(index, by) >= 1
BY DEF GoBack

LEMMA ImportFailsIInv == ASSUME IInv, ImportFails PROVE IInv'
<1>1. /\ requests = <<>> /\ wire = <<>> /\ responses' = <<>> /\ Target
      /\ Head(responses) \in Responses /\ Head(responses) # <<>>
  BY Zenon, ReceiveFacts DEF ImportFails
<1>2. UNCHANGED <<network, networkState, events, networkTip, highestPeer, tipBeforeSync, syncMode,
                  wire, panicked, faults>>
  BY Zenon DEF ImportFails
<1>3. NetInv' /\ PeerTypes' BY Zenon, <1>2, NetUntouched, PeersUntouched DEF IInv, network
<1>4. Target' BY Zenon, <1>1, <1>2 DEF Target
<1>5. PutChain(Head(responses)) \in Run BY Zenon, <1>1, ResponseRuns DEF IInv
<1>6. chain' \in Chain BY Zenon, <1>5, BecomeIsChain DEF ImportFails, IInv, ServiceTypes
<1>7. lastRequestIndex' \in Nat /\ lastRequestIndex' >= 1
  BY Zenon, GoBackFacts, SyncBoundAssumption DEF ImportFails, IInv, ServiceTypes
<1>8. SendTo(tipBeforeSync, lastRequestIndex', RESET_LIMIT) BY Zenon DEF ImportFails
<1>9. Asked BY Zenon, <1>1, <1>7, <1>8, SendToFacts, Levels DEF Target, IInv
<1>10. SyncInv' BY Zenon, <1>1, <1>2, <1>4, <1>7, <1>9, AskedAgain DEF IInv, SyncInv
<1>11. ServiceTypes' BY Zenon, <1>2, <1>6, <1>7 DEF IInv, ServiceTypes
<1> QED BY Zenon, <1>3, <1>10, <1>11 DEF IInv

LEMMA SearchBackwardIInv == ASSUME IInv, SearchBackward PROVE IInv'
<1> DEFINE last == IF lastRequestIndex > NodeLevel THEN NodeLevel ELSE lastRequestIndex
<1>1. requests = <<>> /\ wire = <<>> /\ responses' = <<>> /\ Target
  BY Zenon, ReceiveFacts DEF SearchBackward
<1>2. UNCHANGED <<chain, network, networkState, events, networkTip, highestPeer, tipBeforeSync,
                  wire, panicked, faults>> /\ syncMode' = "Backward"
  BY Zenon DEF SearchBackward
<1>3. NetInv' /\ PeerTypes' BY Zenon, <1>2, NetUntouched, PeersUntouched DEF IInv, network
<1>4. Target' BY Zenon, <1>1, <1>2 DEF Target
<1>5. last \in Nat BY Zenon, Levels DEF IInv, ServiceTypes
<1>6. CASE last = 0
  <2>1. lastRequestIndex' = 0 /\ requests' = <<>> BY Zenon, <1>1, <1>6 DEF SearchBackward
  <2>2. SyncInv' BY Zenon, <1>1, <1>2, <1>4, <2>1, AskedAgain DEF IInv, SyncInv
  <2>3. ServiceTypes' BY Zenon, <1>2, <2>1 DEF IInv, ServiceTypes
  <2> QED BY Zenon, <1>3, <2>2, <2>3 DEF IInv
<1>7. CASE last # 0
  <2>1. lastRequestIndex' = GoBack(last, STEP) /\ SendTo(tipBeforeSync, lastRequestIndex', LIMIT)
    BY Zenon, <1>7 DEF SearchBackward
  <2> HIDE DEF last
  <2>2. lastRequestIndex' \in Nat /\ lastRequestIndex' >= 1
    BY Zenon, <1>5, <2>1, GoBackFacts, SyncBoundAssumption
  <2>3. Asked BY Zenon, <1>1, <2>1, <2>2, SendToFacts, Levels DEF Target, IInv
  <2>4. SyncInv' BY Zenon, <1>1, <1>2, <1>4, <2>2, <2>3, AskedAgain DEF IInv, SyncInv
  <2>5. ServiceTypes' BY Zenon, <1>2, <2>2 DEF IInv, ServiceTypes
  <2> QED BY Zenon, <1>3, <2>4, <2>5 DEF IInv
<1> QED BY Zenon, <1>6, <1>7

LEMMA MinerIInv == ASSUME IInv, NEW b \in Mined, MinerExtends(b) PROVE IInv'
<1>1. UNCHANGED <<network, networkState, service, events, requests, wire, responses, panicked, faults>>
  BY Zenon DEF MinerExtends
<1>2. NetInv' /\ SyncInv' /\ PeerTypes'
  BY <1>1, SyncUntouched, NetUntouched, PeersUntouched DEF IInv, network
<1>3. chain' \in Chain BY SyncBlockAssumption DEF MinerExtends, IInv, ServiceTypes, Chain
<1>4. ServiceTypes' BY Zenon, <1>1, <1>3 DEF IInv, ServiceTypes, service
<1> QED BY Zenon, <1>2, <1>4 DEF IInv

-----------------------------------------------------------------------------
LEMMA InitIInv == Init => IInv
<1> SUFFICES ASSUME Init PROVE IInv OBVIOUS
<1>1. NetInv
  BY SyncPeerAssumption DEF Init, NetInv, Tip, NoTip, HeadEvent, HighestIsKnown
<1>2. SyncInv BY Zenon DEF Init, SyncInv, Quiet
<1>3. chain \in Chain BY Zenon, SyncBlockAssumption DEF Init, Chain
<1>4. tipBeforeSync \in SyncTarget BY Zenon DEF Init, NoSync, SyncTarget, Tip
<1>5. ServiceTypes BY Zenon, <1>3, <1>4 DEF Init, ServiceTypes
<1>6. PeerTypes BY Zenon, SyncPeerAssumption DEF Init, PeerTypes, Tip
<1> QED BY Zenon, <1>1, <1>2, <1>5, <1>6 DEF IInv

LEMMA StepIInv == IInv /\ [Next]_vars => IInv'
<1> SUFFICES ASSUME IInv, [Next]_vars PROVE IInv' OBVIOUS
<1>1. CASE UNCHANGED vars
  BY <1>1, SyncUntouched, NetUntouched, ServiceUntouched, PeersUntouched DEF IInv, vars, network
<1>2. CASE PeerNext BY Zenon, <1>2, PeerNextIInv DEF PeerNext
<1>3. CASE MainLoop
  BY <1>3, HandleTipIInv, EmptyResponseIInv, ImportIInv, ImportFailsIInv, SearchBackwardIInv
     DEF MainLoop
<1>4. CASE P2PTask BY Zenon, <1>4, HeadArrivesIInv, WireIInv DEF P2PTask
<1>5. CASE \E b \in Mined : MinerExtends(b) BY Zenon, <1>5, MinerIInv
<1> QED BY <1>1, <1>2, <1>3, <1>4, <1>5 DEF Next

LEMMA IInvGivesOneRequest == IInv => OneRequest
<1> SUFFICES ASSUME IInv PROVE OneRequest OBVIOUS
<1>1. ~panicked BY Zenon DEF IInv, SyncInv
<1>2. CASE Quiet
  <2>1. Len(<<>>) = 0 /\ DOMAIN <<>> = {} OBVIOUS
  <2> QED BY <1>1, <1>2, <2>1 DEF Quiet, OneRequest
<1>3. CASE Target /\ Queued
  <2>1. PICK q : requests = <<q>> /\ q.peer \in Peer BY Zenon, <1>3 DEF Queued
  <2>2. \A i \in DOMAIN requests : requests[i].peer \in Peer BY <2>1, One
  <2>3. Len(requests) = 1 /\ Len(wire) = 0 /\ Len(responses) = 0
    BY Zenon, <1>3, <2>1, One DEF Queued
  <2> QED BY <1>1, <1>3, <2>2, <2>3, TargetIsNotNoSync DEF OneRequest
<1>4. CASE Target /\ (Sent \/ Answered)
  <2>1. Len(requests) + Len(wire) + Len(responses) = 1 /\ DOMAIN requests = {}
    <3>1. CASE Sent
      <4>1. PICK q : wire = <<q>> BY Zenon, <3>1 DEF Sent
      <4>2. Len(wire) = 1 BY Zenon, <4>1, One
      <4> QED BY <3>1, <4>2 DEF Sent
    <3>2. CASE Answered
      <4>1. PICK r : responses = <<r>> BY Zenon, <3>2 DEF Answered
      <4>2. Len(responses) = 1 BY Zenon, <4>1, One
      <4> QED BY <3>2, <4>2 DEF Answered
    <3> QED BY Zenon, <1>4, <3>1, <3>2
  <2> QED BY <1>1, <1>4, <2>1, TargetIsNotNoSync DEF OneRequest
<1> QED BY Zenon, <1>2, <1>3, <1>4 DEF IInv, SyncInv

\* However heads, disconnections, failed requests, answers and mined blocks
\* interleave, SyncService has one request under way at most, knows its target,
\* and never unwraps an empty tip_before_sync.
THEOREM OneRequestAtATime == Spec => []OneRequest
<1>1. Spec => []IInv BY InitIInv, StepIInv, PTL DEF Spec
<1> QED BY <1>1, IInvGivesOneRequest, PTL

\* NetworkState never points at a peer whose head it has forgotten, whatever
\* order update_peer_current_head and remove_peer run in.
THEOREM HighestStaysKnown == Spec => []HighestIsKnown
<1>1. Spec => []IInv BY InitIInv, StepIInv, PTL DEF Spec
<1>2. IInv => HighestIsKnown BY Zenon DEF IInv, NetInv
<1> QED BY <1>1, <1>2, PTL

\* Whatever searches, resets and switches of peers do to last_request_index, no
\* request is for level 0 and no response brings the genesis block, on which
\* put_chain would compute level() - 1.
THEOREM NeverBelowLevelOne == Spec => []GenesisNotAsked
<1>1. Spec => []IInv BY InitIInv, StepIInv, PTL DEF Spec
<1>2. IInv => GenesisNotAsked
  <2> SUFFICES ASSUME IInv PROVE GenesisNotAsked OBVIOUS
  <2>1. CASE requests = <<>> /\ responses = <<>>
    BY <2>1 DEF GenesisNotAsked
  <2>2. CASE Queued
    <3>1. PICK q : requests = <<q>> /\ q.from >= 1 BY Zenon, <2>2 DEF Queued, AboveZero
    <3> QED BY <2>2, <3>1, One DEF Queued, GenesisNotAsked
  <2>3. CASE Answered
    <3>1. PICK r : responses = <<r>> /\ r \in Responses BY Zenon, <2>3 DEF Answered
    <3>2. \A j \in DOMAIN r : r[j] # Genesis BY <3>1 DEF Responses
    <3> QED BY <2>3, <3>1, <3>2, One DEF Answered, GenesisNotAsked
  <2> QED BY Zenon, <2>1, <2>2, <2>3 DEF IInv, SyncInv, Quiet, Sent
<1> QED BY <1>1, <1>2, PTL

\* Every variable of the node's sync has its type: put_chain never leaves the
\* node without a head, and no index falls below 0.
THEOREM SyncTypes == Spec => []TypeOK
<1>1. Spec => []IInv BY InitIInv, StepIInv, PTL DEF Spec
<1>2. IInv => TypeOK
  <2> SUFFICES ASSUME IInv PROVE TypeOK OBVIOUS
  <2>1. requests \in Seq(Request) /\ wire \in Seq(Request) /\ responses \in Seq(Seq(Block))
    <3>1. CASE Quiet BY <3>1 DEF Quiet
    <3>2. CASE Queued
      <4>1. PICK q : requests = <<q>> /\ q \in Request BY Zenon, <3>2 DEF Queued, AboveZero
      <4> QED BY <3>2, <4>1 DEF Queued
    <3>3. CASE Sent
      <4>1. PICK q : wire = <<q>> /\ q \in Request BY Zenon, <3>3 DEF Sent, AboveZero
      <4> QED BY <3>3, <4>1 DEF Sent
    <3>4. CASE Answered
      <4>1. PICK r : responses = <<r>> /\ r \in Seq(Block) BY <3>4 DEF Answered, Responses
      <4> QED BY <3>4, <4>1 DEF Answered
    <3> QED BY Zenon, <3>1, <3>2, <3>3, <3>4 DEF IInv, SyncInv
  <2>2. panicked \in BOOLEAN BY Zenon DEF IInv, SyncInv
  <2> QED
    BY Zenon, <2>1, <2>2
       DEF TypeOK, IInv, NetInv, ServiceTypes, PeerTypes, Chain, SyncTarget, HeadEvent
<1> QED BY <1>1, <1>2, PTL

=============================================================================
