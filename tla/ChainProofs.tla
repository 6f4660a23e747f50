---------------------------- MODULE ChainProofs -----------------------------
(***************************************************************************)
(* Proofs about ChainState: the inductive invariant, and that every step   *)
(* keeps it.  The live state is the state of the head, the state of the    *)
(* head is on disk, and the head falls only in a rollback.  What the four  *)
(* block columns hold: the indices never dangle, the head is stored, and   *)
(* every executed block has its ancestors.  Blocks, threads and batches    *)
(* are arbitrary.  Then proofs about Node: with its real callers it        *)
(* implements ChainState, so that all of this holds of it, and a block the *)
(* miner has found can always be attached to its parent.                   *)
(***************************************************************************)
EXTENDS Node, TLAPS

-----------------------------------------------------------------------------
(* The inductive invariant, in parts. *)

Importing(t) ==
    \/ pc[t] \in {"rollback", "remove", "process", "set_header", "repack"}
    \/ Putting(t) /\ after[t] \in {"process", "repack"}

\* The lock is held by exactly the thread that is inside put_chain, and a
\* poisoned lock by none.
LockInv ==
    /\ \A t \in Thread : Importing(t) <=> lock = t
    /\ poisoned => lock = NoThread

\* What a thread may be doing in each phase of the process.
PhaseInv ==
    /\ phase = "up" => currentHeader # NoBlock
    /\ phase = "down" => \A t \in Thread : pc[t] = "idle"
    /\ phase = "boot" =>
          /\ currentHeader = NoBlock
          /\ pc[Main] # "genesis" =>
                StateRoot[Genesis] \in trees /\ stateHead = StateRoot[Genesis]
    /\ \A t \in Thread :
          (pc[t] \in {"genesis", "genesis_head"} \/ (Putting(t) /\ after[t] = "genesis_head"))
             <=> (phase = "boot" /\ t = Main)
    /\ \A t \in Thread : (Putting(t) /\ after[t] = "idle") => t = Main

\* What put_chain knows at each of its program points.
LocalFacts(t) ==
    /\ Importing(t) => phase = "up"
    /\ pc[t] \in {"rollback", "remove", "set_header", "repack"} => todo[t] # <<>>
    /\ Putting(t) /\ after[t] \in {"process", "repack"} => todo[t] # <<>>
    /\ Putting(t) \/ pc[t] \in {"set_header", "repack"} => blk[t] \in Block
    /\ pc[t] = "rollback" =>
          /\ Parent[First(todo[t])] \in byHash
          /\ StateRoot[Parent[First(todo[t])]] \in trees
          /\ stateHead = StateRoot[Parent[First(todo[t])]]
    /\ pc[t] = "set_header" =>
          /\ after[t] = "repack"
          /\ StateRoot[blk[t]] \in trees
          /\ stateHead = StateRoot[blk[t]]
          /\ Level[blk[t]] > Level[currentHeader]
    /\ (Importing(t) /\ pc[t] \notin {"rollback", "set_header"}) =>
          stateHead = StateRoot[currentHeader]

LocalInv == \A t \in Thread : LocalFacts(t)

IInv ==
    /\ TypeOK
    /\ LockInv
    /\ PhaseInv
    /\ LocalInv
    /\ HeadStatePersisted
    /\ StateMatchesHead

-----------------------------------------------------------------------------
(* Facts used by several actions. *)

USE DEF disk, locals, memory, PutPC, PC, Putting, LocalFacts

\* A batch that is not empty has a first block and a rest.
LEMMA BatchFacts ==
    ASSUME NEW bs \in Seq(NonGenesis), bs # <<>>
    PROVE  /\ First(bs) \in NonGenesis
           /\ First(bs) \in Block
           /\ Tail(bs) \in Seq(NonGenesis)
BY DEF First, NonGenesis

\* What put_chain knows before it processes a block.
LEMMA ProcessingFacts ==
    ASSUME NEW t \in Thread, IInv, Processing(t)
    PROVE  /\ lock = t /\ phase = "up" /\ Importing(t)
           /\ currentHeader \in Block
           /\ stateHead = StateRoot[currentHeader]
           /\ StateRoot[currentHeader] \in trees
           /\ Next1(t) \in Block
           /\ todo[t] # <<>>
<1>1. Importing(t) /\ pc[t] = "process" BY Zenon DEF Processing, Importing
<1>2. lock = t BY Zenon, <1>1 DEF IInv, LockInv
<1>3. phase = "up" /\ stateHead = StateRoot[currentHeader]
  BY Zenon, <1>1 DEF IInv, LocalInv
<1>4. currentHeader \in Block
  BY Zenon, <1>3 DEF IInv, TypeOK, PhaseInv
<1>5. Next1(t) \in Block /\ todo[t] # <<>>
  BY Zenon, BatchFacts DEF IInv, TypeOK, Processing, Next1
<1> QED BY Zenon, <1>1, <1>2, <1>3, <1>4, <1>5, BlockAssumption DEF IInv, HeadStatePersisted

\* What holds of a thread inside put_chain.
LEMMA ImportingFacts ==
    ASSUME NEW t \in Thread, IInv, Importing(t)
    PROVE  /\ phase = "up" /\ lock = t
           /\ currentHeader \in Block /\ StateRoot[currentHeader] \in trees
           /\ LocalFacts(t)
<1>1. LocalFacts(t) BY Zenon DEF IInv, LocalInv
<1>2. phase = "up" /\ lock = t BY Zenon, <1>1 DEF IInv, LockInv
<1>3. currentHeader \in Block /\ currentHeader # NoBlock
  BY Zenon, <1>2 DEF IInv, TypeOK, PhaseInv
<1> QED BY Zenon, <1>1, <1>2, <1>3 DEF IInv, HeadStatePersisted

\* A thread that holds the lock and stays inside put_chain keeps what is said
\* of the other threads, none of which is inside.
LEMMA InsideIInv ==
    ASSUME NEW t \in Thread, IInv, Importing(t), Importing(t)', LocalFacts(t)',
           \A u \in Thread \ {t} : pc'[u] = pc[u] /\ blk'[u] = blk[u] /\ after'[u] = after[u],
           UNCHANGED <<phase, lock, poisoned>>,
           currentHeader' # NoBlock, TypeOK', HeadStatePersisted'
    PROVE  IInv'
<1>1. phase = "up" /\ lock = t BY Zenon DEF IInv, LockInv, LocalInv
<1>2. ASSUME NEW u \in Thread, u # t
      PROVE  ~Importing(u) /\ pc'[u] = pc[u] /\ blk'[u] = blk[u] /\ after'[u] = after[u]
  BY Zenon, <1>1, <1>2 DEF IInv, LockInv
<1>3. ASSUME NEW u \in Thread, u # t PROVE ~Importing(u)' BY Zenon, <1>2, <1>3 DEF Importing
<1>4. LockInv' BY Zenon, <1>1, <1>3, ParameterAssumption DEF IInv, LockInv
<1>5. PhaseInv'
  <2>1. ASSUME NEW u \in Thread
        PROVE  /\ pc'[u] \notin {"genesis", "genesis_head"}
               /\ Putting(u)' => after'[u] # "genesis_head"
               /\ (Putting(u)' /\ after'[u] = "idle") => u = Main
    <3>1. CASE u = t BY Zenon, <3>1 DEF Importing
    <3>2. CASE u # t BY Zenon, <1>1, <1>2, <3>2 DEF IInv, PhaseInv
    <3> QED BY <3>1, <3>2
  <2> QED BY Zenon, <1>1, <2>1 DEF PhaseInv
<1>6. LocalInv'
  <2>1. ASSUME NEW u \in Thread, u # t PROVE LocalFacts(u)'
    <3>1. /\ pc[u] \notin {"rollback", "remove", "set_header", "repack"}
          /\ ~(Putting(u) /\ after[u] \in {"process", "repack"})
      BY Zenon, <1>2, <2>1 DEF Importing
    <3>2. Putting(u) => blk[u] \in Block BY Zenon DEF IInv, LocalInv
    <3> QED BY Zenon, <1>2, <1>3, <2>1, <3>1, <3>2
  <2> QED BY Zenon, <2>1 DEF LocalInv
<1>7. StateMatchesHead' BY Zenon, <1>1, ParameterAssumption DEF StateMatchesHead
<1> QED BY Zenon, <1>4, <1>5, <1>6, <1>7 DEF IInv

\* A process that dies leaves the invariant to its successor.
LEMMA DeathIInv ==
    ASSUME IInv, ClearMemory, phase' = "down", pc' = [t \in Thread |-> "idle"],
           UNCHANGED disk, crashes' \in 0..MaxCrashes
    PROVE  IInv'
<1> USE BlockAssumption, RootAssumption, ParameterAssumption
<1>1. TypeOK'
  <2>1. todo' \in [Thread -> Seq(NonGenesis)] BY DEF ClearMemory
  <2>2. /\ base' \in [Thread -> Block \cup {NoBlock}]
        /\ cursor' \in [Thread -> Block \cup {NoBlock}]
        /\ blk' \in [Thread -> Block \cup {NoBlock}]
    BY Zenon DEF ClearMemory
  <2>3. /\ pc' \in [Thread -> PC]
        /\ after' \in [Thread -> {"idle", "genesis_head", "process", "repack"}]
    BY Zenon DEF ClearMemory
  <2>4. /\ stateHead' \in Root \cup {NoRoot} /\ lock' \in Thread \cup {NoThread}
        /\ poisoned' \in BOOLEAN /\ poolHead' \in Block \cup {NoBlock}
        /\ announced' \in Block \cup {NoBlock}
    BY Zenon DEF ClearMemory
  <2>5. /\ headers' \in SUBSET Block /\ transactions' \in SUBSET Block /\ byHash' \in SUBSET Block
        /\ byLevel' \in [0..MaxLevel -> Block \cup {NoBlock}]
        /\ currentHeader' \in Block \cup {NoBlock} /\ trees' \in SUBSET Root
    BY ZenonT(60) DEF IInv, TypeOK
  <2>6. phase' \in {"down", "boot", "up"} OBVIOUS
  <2> QED BY ZenonT(60), <2>1, <2>2, <2>3, <2>4, <2>5, <2>6 DEF TypeOK
<1>2. LockInv' BY Zenon DEF LockInv, Importing, ClearMemory
<1>3. PhaseInv' BY Zenon DEF PhaseInv, ClearMemory
<1>4. LocalInv' BY Zenon DEF LocalInv, Importing, ClearMemory
<1>5. HeadStatePersisted' BY Zenon DEF IInv, HeadStatePersisted
<1>6. StateMatchesHead' BY Zenon DEF StateMatchesHead
<1> QED BY Zenon, <1>1, <1>2, <1>3, <1>4, <1>5, <1>6 DEF IInv

\* put_chain may return whenever the live state is the state of the head.
LEMMA LeaveIInv ==
    ASSUME NEW t \in Thread, NEW at \in {"idle", "dead"}, IInv, LeaveTo(t, at),
           Importing(t), stateHead = StateRoot[currentHeader],
           UNCHANGED <<headers, transactions, byHash, byLevel, currentHeader,
                       stateHead, phase, announced, crashes>>,
           trees \subseteq trees', trees' \subseteq Root,
           poisoned' \in BOOLEAN, poolHead' \in Block \cup {NoBlock}
    PROVE  IInv'
<1>1. TypeOK'
  <2>1. /\ todo' \in [Thread -> Seq(NonGenesis)]
        /\ base' \in [Thread -> Block \cup {NoBlock}]
        /\ cursor' \in [Thread -> Block \cup {NoBlock}]
        /\ blk' \in [Thread -> Block \cup {NoBlock}]
        /\ pc' \in [Thread -> PC]
        /\ after' \in [Thread -> {"idle", "genesis_head", "process", "repack"}]
    <3>1. <<>> \in Seq(NonGenesis) OBVIOUS
    <3> QED BY Zenon, <3>1 DEF IInv, TypeOK, LeaveTo
  <2>2. /\ stateHead' \in Root \cup {NoRoot} /\ lock' \in Thread \cup {NoThread}
        /\ announced' \in Block \cup {NoBlock} /\ crashes' \in 0..MaxCrashes
    BY ZenonT(60) DEF IInv, TypeOK, LeaveTo
  <2>3. /\ headers' \in SUBSET Block /\ transactions' \in SUBSET Block /\ byHash' \in SUBSET Block
        /\ byLevel' \in [0..MaxLevel -> Block \cup {NoBlock}]
        /\ currentHeader' \in Block \cup {NoBlock} /\ phase' \in {"down", "boot", "up"}
    BY ZenonT(60) DEF IInv, TypeOK
  <2>4. trees' \in SUBSET Root OBVIOUS
  <2> QED BY ZenonT(60), <2>1, <2>2, <2>3, <2>4 DEF TypeOK
<1>2. phase = "up" /\ currentHeader # NoBlock BY Zenon DEF IInv, PhaseInv, LocalInv
<1>3. pc'[t] = at /\ pc'[t] \in {"idle", "dead"} BY Zenon DEF IInv, TypeOK, LeaveTo
<1>4. ASSUME NEW u \in Thread, u # t
      PROVE  ~Importing(u) /\ pc'[u] = pc[u] /\ blk'[u] = blk[u] /\ after'[u] = after[u]
  BY Zenon, <1>4 DEF IInv, TypeOK, LockInv, LeaveTo
<1>5. LockInv'
  <2>1. ASSUME NEW u \in Thread PROVE ~Importing(u)' BY Zenon, <1>3, <1>4 DEF Importing
  <2>2. lock' = NoThread BY Zenon DEF LeaveTo
  <2> QED BY Zenon, <2>1, <2>2, ParameterAssumption DEF LockInv
<1>6. PhaseInv'
  <2>1. ASSUME NEW u \in Thread
        PROVE  /\ pc'[u] \notin {"genesis", "genesis_head"}
               /\ Putting(u)' => after'[u] # "genesis_head"
               /\ (Putting(u)' /\ after'[u] = "idle") => u = Main
    BY Zenon, <1>2, <1>3, <1>4 DEF IInv, PhaseInv
  <2> QED BY Zenon, <1>2, <2>1 DEF PhaseInv
<1>7. LocalInv'
  <2>1. LocalFacts(t)' BY Zenon, <1>3 DEF Importing
  <2>2. ASSUME NEW u \in Thread, u # t PROVE LocalFacts(u)'
    <3>1. /\ pc[u] \notin {"rollback", "remove", "set_header", "repack"}
          /\ ~(Putting(u) /\ after[u] \in {"process", "repack"})
      BY Zenon, <1>4, <2>2 DEF Importing
    <3>2. Putting(u) => blk[u] \in Block BY Zenon DEF IInv, LocalInv
    <3>3. ~Importing(u)' BY Zenon, <1>4, <2>2 DEF Importing
    <3> QED BY Zenon, <1>4, <2>2, <3>1, <3>2, <3>3
  <2> QED BY Zenon, <2>1, <2>2 DEF LocalInv
<1>8. HeadStatePersisted' BY Zenon DEF IInv, HeadStatePersisted
<1>9. StateMatchesHead' BY Zenon, <1>2 DEF StateMatchesHead
<1> QED BY Zenon, <1>1, <1>5, <1>6, <1>7, <1>8, <1>9 DEF IInv

\* A verified block may become the head once the live state is its state.
LEMMA ToSetHeaderIInv ==
    ASSUME NEW t \in Thread, NEW b \in Block, IInv, Processing(t),
           stateHead' = StateRoot[b], StateRoot[b] \in trees',
           trees \subseteq trees', trees' \subseteq Root,
           Level[b] > Level[currentHeader],
           blk' = [blk EXCEPT ![t] = b],
           pc' = [pc EXCEPT ![t] = "set_header"],
           after' = [after EXCEPT ![t] = "repack"],
           UNCHANGED <<headers, transactions, byHash, byLevel, currentHeader, phase, lock,
                       poisoned, poolHead, announced, todo, base, cursor, crashes>>
    PROVE  IInv'
<1>1. /\ currentHeader \in Block /\ StateRoot[currentHeader] \in trees /\ stateHead' \in Root
      /\ Importing(t) /\ todo[t] # <<>>
  BY Zenon, ProcessingFacts, RootAssumption
<1>2. TypeOK' BY Zenon, <1>1 DEF IInv, TypeOK
<1>3. pc'[t] = "set_header" /\ blk'[t] = b /\ after'[t] = "repack" BY Zenon DEF IInv, TypeOK
<1>4. ASSUME NEW u \in Thread \ {t}
      PROVE  pc'[u] = pc[u] /\ blk'[u] = blk[u] /\ after'[u] = after[u]
  BY Zenon DEF IInv, TypeOK
<1>5. phase = "up" BY Zenon, ProcessingFacts
<1>6. Importing(t)' /\ LocalFacts(t)' BY Zenon, <1>1, <1>3, <1>5 DEF Importing
<1>7. HeadStatePersisted' BY Zenon, <1>1 DEF HeadStatePersisted
<1> QED BY Zenon, <1>1, <1>2, <1>4, <1>6, <1>7, InsideIInv, BlockAssumption

-----------------------------------------------------------------------------
(* Every action keeps the invariant. *)

LEMMA RestoreIInv ==
    ASSUME IInv, Restore
    PROVE  IInv'
<1>1. TypeOK' BY Zenon DEF IInv, TypeOK, Restore
<1>2. LockInv' BY Zenon DEF IInv, TypeOK, LockInv, Importing, Restore
<1>3. PhaseInv' BY Zenon DEF IInv, TypeOK, PhaseInv, Restore
<1>4. LocalInv' BY Zenon DEF IInv, TypeOK, LocalInv, Importing, Restore
<1>5. HeadStatePersisted' BY Zenon DEF IInv, HeadStatePersisted, Restore
<1>6. StateMatchesHead' BY Zenon DEF IInv, StateMatchesHead, Restore
<1> QED BY Zenon, <1>1, <1>2, <1>3, <1>4, <1>5, <1>6 DEF IInv

LEMMA BeginGenesisIInv ==
    ASSUME IInv, BeginGenesis
    PROVE  IInv'
<1>1. TypeOK' BY Zenon, ParameterAssumption DEF IInv, TypeOK, BeginGenesis
<1>2. LockInv' BY Zenon DEF IInv, TypeOK, LockInv, LocalInv, Importing, BeginGenesis
<1>3. PhaseInv' BY Zenon, ParameterAssumption DEF IInv, TypeOK, PhaseInv, BeginGenesis
<1>4. LocalInv' BY Zenon DEF IInv, TypeOK, LocalInv, Importing, BeginGenesis
<1>5. HeadStatePersisted' BY Zenon DEF IInv, HeadStatePersisted, BeginGenesis
<1>6. StateMatchesHead' BY Zenon DEF IInv, StateMatchesHead, BeginGenesis
<1> QED BY Zenon, <1>1, <1>2, <1>3, <1>4, <1>5, <1>6 DEF IInv

LEMMA CommitGenesisIInv ==
    ASSUME IInv, CommitGenesis
    PROVE  IInv'
<1>1. TypeOK'
  BY SMTT(60), BlockAssumption, RootAssumption, ParameterAssumption DEF IInv, TypeOK, CommitGenesis
<1>2. LockInv' BY Zenon DEF IInv, TypeOK, LockInv, Importing, CommitGenesis
<1>3. PhaseInv' BY Zenon DEF IInv, TypeOK, PhaseInv, CommitGenesis
<1>4. LocalInv'
  BY SMTT(60), BlockAssumption, ParameterAssumption
     DEF IInv, TypeOK, PhaseInv, LocalInv, Importing, CommitGenesis
<1>5. HeadStatePersisted' BY Zenon DEF IInv, HeadStatePersisted, CommitGenesis
<1>6. StateMatchesHead'
  BY Zenon, ParameterAssumption DEF IInv, TypeOK, PhaseInv, StateMatchesHead, CommitGenesis
<1> QED BY Zenon, <1>1, <1>2, <1>3, <1>4, <1>5, <1>6 DEF IInv

LEMMA SetGenesisHeaderIInv ==
    ASSUME IInv, SetGenesisHeader
    PROVE  IInv'
<1>1. TypeOK' BY Zenon, BlockAssumption, ParameterAssumption DEF IInv, TypeOK, SetGenesisHeader
<1>2. LockInv' BY Zenon DEF IInv, TypeOK, LockInv, Importing, SetGenesisHeader
<1>3. PhaseInv' BY Zenon, BlockAssumption DEF IInv, TypeOK, PhaseInv, SetGenesisHeader
<1>4. LocalInv'
  BY Zenon, ParameterAssumption DEF IInv, TypeOK, PhaseInv, LocalInv, Importing, SetGenesisHeader
<1>5. HeadStatePersisted'
  BY Zenon, ParameterAssumption DEF IInv, TypeOK, PhaseInv, HeadStatePersisted, SetGenesisHeader
<1>6. StateMatchesHead'
  BY Zenon, BlockAssumption, ParameterAssumption
     DEF IInv, TypeOK, PhaseInv, StateMatchesHead, SetGenesisHeader
<1> QED BY Zenon, <1>1, <1>2, <1>3, <1>4, <1>5, <1>6 DEF IInv

LEMMA CrashIInv ==
    ASSUME IInv, Crash
    PROVE  IInv'
<1>1. crashes' \in 0..MaxCrashes BY SMTT(60), ParameterAssumption DEF IInv, TypeOK, Crash
<1> QED BY Zenon, <1>1, DeathIInv DEF Crash

LEMMA MainPanicsIInv ==
    ASSUME IInv, MainPanics
    PROVE  IInv'
BY Zenon, DeathIInv DEF IInv, TypeOK, MainPanics

LEMMA WorkerEndsIInv ==
    ASSUME NEW t \in Thread, IInv, WorkerEnds(t)
    PROVE  IInv'
<1>1. TypeOK' BY Zenon DEF IInv, TypeOK, WorkerEnds
<1>2. LockInv' BY Zenon DEF IInv, TypeOK, LockInv, Importing, WorkerEnds
<1>3. PhaseInv' BY Zenon DEF IInv, TypeOK, PhaseInv, WorkerEnds
<1>4. LocalInv' BY SMTT(60) DEF IInv, TypeOK, LocalInv, Importing, WorkerEnds
<1>5. HeadStatePersisted' BY Zenon DEF IInv, HeadStatePersisted, WorkerEnds
<1>6. StateMatchesHead' BY Zenon DEF IInv, StateMatchesHead, WorkerEnds
<1> QED BY Zenon, <1>1, <1>2, <1>3, <1>4, <1>5, <1>6 DEF IInv

LEMMA PutHeaderIInv ==
    ASSUME NEW t \in Thread, IInv, PutHeader(t)
    PROVE  IInv'
<1>1. TypeOK' BY SMTT(60) DEF IInv, TypeOK, LocalInv, PutHeader
<1>2. LockInv' BY Zenon DEF IInv, TypeOK, LockInv, Importing, PutHeader
<1>3. PhaseInv' BY SMTT(60) DEF IInv, TypeOK, PhaseInv, PutHeader
<1>4. LocalInv' BY SMTT(60) DEF IInv, TypeOK, LocalInv, Importing, PutHeader
<1>5. HeadStatePersisted' BY Zenon DEF IInv, HeadStatePersisted, PutHeader
<1>6. StateMatchesHead' BY Zenon DEF IInv, StateMatchesHead, PutHeader
<1> QED BY Zenon, <1>1, <1>2, <1>3, <1>4, <1>5, <1>6 DEF IInv

LEMMA PutTransactionsIInv ==
    ASSUME NEW t \in Thread, IInv, PutTransactions(t)
    PROVE  IInv'
<1>1. TypeOK' BY SMTT(60) DEF IInv, TypeOK, LocalInv, PutTransactions
<1>2. LockInv' BY Zenon DEF IInv, TypeOK, LockInv, Importing, PutTransactions
<1>3. PhaseInv' BY SMTT(60) DEF IInv, TypeOK, LockInv, PhaseInv, Importing, PutTransactions
<1>4. LocalInv' BY SMTT(60) DEF IInv, TypeOK, LockInv, LocalInv, Importing, PutTransactions
<1>5. HeadStatePersisted' BY Zenon DEF IInv, HeadStatePersisted, PutTransactions
<1>6. StateMatchesHead' BY Zenon DEF IInv, StateMatchesHead, PutTransactions
<1> QED BY Zenon, <1>1, <1>2, <1>3, <1>4, <1>5, <1>6 DEF IInv

LEMMA PutByHashIInv ==
    ASSUME NEW t \in Thread, IInv, PutByHash(t)
    PROVE  IInv'
<1>1. TypeOK' BY SMTT(60) DEF IInv, TypeOK, LocalInv, PutByHash
<1>2. LockInv' BY Zenon DEF IInv, TypeOK, LockInv, Importing, PutByHash
<1>3. PhaseInv' BY SMTT(60) DEF IInv, TypeOK, PhaseInv, PutByHash
<1>4. LocalInv' BY SMTT(60) DEF IInv, TypeOK, LockInv, LocalInv, Importing, PutByHash
<1>5. HeadStatePersisted' BY Zenon DEF IInv, HeadStatePersisted, PutByHash
<1>6. StateMatchesHead' BY Zenon DEF IInv, StateMatchesHead, PutByHash
<1> QED BY Zenon, <1>1, <1>2, <1>3, <1>4, <1>5, <1>6 DEF IInv

LEMMA PutByLevelIInv ==
    ASSUME NEW t \in Thread, IInv, PutByLevel(t)
    PROVE  IInv'
<1>0. after[t] = "process" => Tail(todo[t]) \in Seq(NonGenesis)
  BY Zenon, BatchFacts DEF IInv, TypeOK, LocalInv, PutByLevel
<1>1. TypeOK'
  <2>1. byLevel' \in [0..MaxLevel -> Block \cup {NoBlock}]
    BY Zenon, BlockAssumption DEF IInv, TypeOK, LocalInv, PutByLevel
  <2>2. pc' \in [Thread -> PC] BY Zenon DEF IInv, TypeOK, PutByLevel
  <2>3. todo' \in [Thread -> Seq(NonGenesis)] BY Zenon, <1>0 DEF IInv, TypeOK, PutByLevel
  <2> QED BY ZenonT(60), <2>1, <2>2, <2>3 DEF IInv, TypeOK, PutByLevel
<1>2. LockInv'
  <2>1. \A u \in Thread : Importing(u)' <=> Importing(u)
    BY Zenon DEF IInv, TypeOK, Importing, PutByLevel
  <2> QED BY Zenon, <2>1 DEF IInv, LockInv, PutByLevel
<1>3. PhaseInv' BY SMTT(60), <1>0 DEF IInv, TypeOK, PhaseInv, PutByLevel
<1>4. LocalInv' BY SMTT(60), <1>0 DEF IInv, TypeOK, PhaseInv, LocalInv, Importing, PutByLevel
<1>5. HeadStatePersisted' BY Zenon DEF IInv, TypeOK, PhaseInv, HeadStatePersisted, PutByLevel
<1>6. StateMatchesHead' BY Zenon DEF IInv, StateMatchesHead, PutByLevel
<1> QED BY Zenon, <1>1, <1>2, <1>3, <1>4, <1>5, <1>6 DEF IInv

LEMMA StoreBroadcastIInv ==
    ASSUME NEW b \in Broadcasts, IInv, StoreBroadcast(b)
    PROVE  IInv'
<1>1. TypeOK'
  BY Zenon, ParameterAssumption DEF IInv, TypeOK, LocalInv, StoreBroadcast, NonGenesis
<1>2. LockInv' BY Zenon DEF IInv, TypeOK, LockInv, Importing, StoreBroadcast, NonGenesis
<1>3. PhaseInv' BY Zenon DEF IInv, TypeOK, PhaseInv, StoreBroadcast, NonGenesis
<1>4. LocalInv'
  BY SMTT(60), ParameterAssumption DEF IInv, TypeOK, LocalInv, Importing, StoreBroadcast, NonGenesis
<1>5. HeadStatePersisted' BY Zenon DEF IInv, HeadStatePersisted, StoreBroadcast, NonGenesis
<1>6. StateMatchesHead' BY Zenon DEF IInv, StateMatchesHead, StoreBroadcast, NonGenesis
<1> QED BY Zenon, <1>1, <1>2, <1>3, <1>4, <1>5, <1>6 DEF IInv

LEMMA PutChainIInv ==
    ASSUME NEW t \in Thread, NEW bs \in Batches[t], IInv, PutChain(t, bs)
    PROVE  IInv'
<1>0. bs \in Seq(NonGenesis) /\ bs # <<>> BY Zenon, ParameterAssumption
<1>1. TypeOK'
  BY Zenon, <1>0, BatchFacts DEF IInv, TypeOK, LocalInv, PutChain, Enter, HasHeaderByHash
<1>2. LockInv'
  BY Zenon, ParameterAssumption
     DEF IInv, TypeOK, LockInv, LocalInv, Importing, PutChain, Enter, HasHeaderByHash
<1>3. PhaseInv'
  BY Zenon, <1>0, BatchFacts
     DEF IInv, TypeOK, LockInv, PhaseInv, Importing, PutChain, Enter, HasHeaderByHash
<1>4. LocalInv'
  BY SMTT(60), <1>0, BatchFacts
     DEF IInv, TypeOK, LockInv, PhaseInv, LocalInv, Importing, StateMatchesHead, PutChain, Enter
<1>5. HeadStatePersisted'
  BY Zenon DEF IInv, TypeOK, PhaseInv, HeadStatePersisted, PutChain, Enter, HasHeaderByHash
<1>6. StateMatchesHead' BY Zenon DEF IInv, StateMatchesHead, PutChain, Enter, HasHeaderByHash
<1> QED BY Zenon, <1>1, <1>2, <1>3, <1>4, <1>5, <1>6 DEF IInv

LEMMA PutChainRollbackIInv ==
    ASSUME NEW t \in Thread, NEW bs \in Batches[t], IInv, PutChainRollback(t, bs)
    PROVE  IInv'
<1>0. bs \in Seq(NonGenesis) /\ bs # <<>> BY Zenon, ParameterAssumption
<1>1. TypeOK'
  BY Zenon, <1>0, BatchFacts DEF IInv, TypeOK, LocalInv, PutChainRollback, Enter, HasHeaderByHash
<1>2. LockInv'
  BY Zenon, ParameterAssumption
     DEF IInv, TypeOK, LockInv, Importing, PutChainRollback, Enter, HasHeaderByHash
<1>3. PhaseInv'
  BY Zenon, <1>0, BatchFacts DEF IInv, TypeOK, PhaseInv, PutChainRollback, Enter, HasHeaderByHash
<1>4. LocalInv'
  BY SMTT(60), ParameterAssumption, <1>0, BatchFacts
     DEF IInv, TypeOK, LockInv, LocalInv, Importing, PutChainRollback, Enter, HasHeaderByHash
<1>5. HeadStatePersisted'
  BY Zenon DEF IInv, HeadStatePersisted, PutChainRollback, Enter, HasHeaderByHash
<1>6. StateMatchesHead'
  BY Zenon, ParameterAssumption DEF IInv, StateMatchesHead, PutChainRollback, Enter, HasHeaderByHash
<1> QED BY Zenon, <1>1, <1>2, <1>3, <1>4, <1>5, <1>6 DEF IInv

LEMMA SetRolledBackHeaderIInv ==
    ASSUME NEW t \in Thread, IInv, SetRolledBackHeader(t)
    PROVE  IInv'
<1> DEFINE common == Parent[First(todo[t])]
<1>1. Importing(t) /\ pc[t] = "rollback" BY Zenon DEF SetRolledBackHeader, Importing
<1>2. /\ phase = "up" /\ todo[t] # <<>>
      /\ common \in byHash /\ StateRoot[common] \in trees /\ stateHead = StateRoot[common]
  BY Zenon, <1>1, ImportingFacts
<1>3. common \in Block /\ common # NoBlock BY Zenon, <1>2, BlockAssumption DEF IInv, TypeOK
<1>4. currentHeader' = common BY Zenon DEF SetRolledBackHeader
<1> HIDE DEF common
<1>5. TypeOK' BY Zenon, <1>3, <1>4 DEF IInv, TypeOK, SetRolledBackHeader
<1>6. pc'[t] = "remove" BY Zenon DEF IInv, TypeOK, SetRolledBackHeader
<1>7. \A u \in Thread \ {t} : pc'[u] = pc[u] /\ blk'[u] = blk[u] /\ after'[u] = after[u]
  BY Zenon DEF IInv, TypeOK, SetRolledBackHeader
<1>8. Importing(t)' /\ LocalFacts(t)'
  BY Zenon, <1>2, <1>4, <1>6 DEF Importing, SetRolledBackHeader
<1>9. HeadStatePersisted' BY Zenon, <1>2, <1>4 DEF HeadStatePersisted, SetRolledBackHeader
<1>10. UNCHANGED <<phase, lock, poisoned>> BY Zenon DEF SetRolledBackHeader
<1> QED BY Zenon, <1>1, <1>3, <1>4, <1>5, <1>7, <1>8, <1>9, <1>10, InsideIInv

-----------------------------------------------------------------------------
(* The steps of put_chain *)

LEMMA RemoveStaleIInv ==
    ASSUME NEW t \in Thread, IInv, RemoveStale(t)
    PROVE  IInv'
<1> USE BlockAssumption, RootAssumption, ParameterAssumption
<1>1. TypeOK'
  <2> DEFINE Typed == /\ byLevel' \in [0..MaxLevel -> Block \cup {NoBlock}]
                      /\ cursor' \in [Thread -> Block \cup {NoBlock}]
                      /\ pc' \in [Thread -> PC]
  <2>1. ASSUME HasHeaderByHash(cursor[t]) PROVE Typed
    <3>1. cursor[t] \in Block BY Zenon, <2>1 DEF HasHeaderByHash, IInv, TypeOK
    <3>2. Parent[cursor[t]] \in Block \cup {NoBlock} /\ Level[cursor[t]] \in 0..MaxLevel
      BY Zenon, <3>1
    <3>3. byLevel' = [byLevel EXCEPT ![Level[cursor[t]]] = NoBlock]
      BY Zenon, <2>1 DEF RemoveStale
    <3>4. byLevel' \in [0..MaxLevel -> Block \cup {NoBlock}]
      BY Zenon, <3>3 DEF IInv, TypeOK
    <3>5. cursor' = [cursor EXCEPT ![t] = Parent[cursor[t]]] BY Zenon, <2>1 DEF RemoveStale
    <3>6. cursor' \in [Thread -> Block \cup {NoBlock}] BY Zenon, <3>2, <3>5 DEF IInv, TypeOK
    <3>7. pc' = pc \/ pc' = [pc EXCEPT ![t] = "process"] BY Zenon, <2>1 DEF RemoveStale
    <3>8. pc' \in [Thread -> PC] BY Zenon, <3>7 DEF IInv, TypeOK
    <3> QED BY Zenon, <3>4, <3>6, <3>8
  <2>2. ASSUME ~HasHeaderByHash(cursor[t]) PROVE Typed
    <3>1. UNCHANGED <<byLevel, cursor>> /\ pc' = [pc EXCEPT ![t] = "process"]
      BY Zenon, <2>2 DEF RemoveStale
    <3> QED BY Zenon, <3>1 DEF IInv, TypeOK
  <2> QED BY Zenon, <2>1, <2>2 DEF IInv, TypeOK, RemoveStale
<1>2. Importing(t) /\ phase = "up" /\ todo[t] # <<>> /\ stateHead = StateRoot[currentHeader]
  <2>1. Importing(t) /\ pc[t] = "remove" BY Zenon DEF RemoveStale, Importing
  <2> QED BY Zenon, <2>1, ImportingFacts
<1>3. pc'[t] \in {"remove", "process"}
  <2>1. pc' = pc \/ pc' = [pc EXCEPT ![t] = "process"] BY Zenon DEF RemoveStale
  <2> QED BY Zenon, <2>1 DEF IInv, TypeOK, RemoveStale
<1>4. \A u \in Thread \ {t} : pc'[u] = pc[u] /\ blk'[u] = blk[u] /\ after'[u] = after[u]
  <2>1. pc' = pc \/ pc' = [pc EXCEPT ![t] = "process"] BY Zenon DEF RemoveStale
  <2> QED BY Zenon, <2>1 DEF IInv, TypeOK, RemoveStale
<1>5. /\ UNCHANGED <<phase, lock, poisoned>>
      /\ UNCHANGED <<currentHeader, stateHead, trees, todo>>
  BY Zenon DEF RemoveStale
<1>6. Importing(t)' /\ LocalFacts(t)' BY Zenon, <1>2, <1>3, <1>5 DEF Importing
<1>7. HeadStatePersisted' BY Zenon, <1>5 DEF IInv, HeadStatePersisted
<1>8. currentHeader' # NoBlock BY Zenon, <1>2, <1>5, ImportingFacts
<1> QED BY Zenon, <1>1, <1>2, <1>4, <1>5, <1>6, <1>7, <1>8, InsideIInv

LEMMA FinishIInv ==
    ASSUME NEW t \in Thread, IInv, Finish(t)
    PROVE  IInv'
<1>1. Importing(t) /\ stateHead = StateRoot[currentHeader]
  BY Zenon DEF IInv, LocalInv, Importing, Finish
<1> QED BY Zenon, <1>1, LeaveIInv DEF IInv, TypeOK, Finish, Return

LEMMA RejectIInv ==
    ASSUME NEW t \in Thread, IInv, Reject(t)
    PROVE  IInv'
<1> USE ProcessingFacts
<1> QED BY ZenonT(60), LeaveIInv DEF IInv, TypeOK, Reject, ReturnError

LEMMA PanicIInv ==
    ASSUME NEW t \in Thread, IInv, Panic(t)
    PROVE  IInv'
<1>1. CASE t = Main
  BY Zenon, <1>1, DeathIInv DEF IInv, TypeOK, Panic
<1>2. CASE t # Main
  BY ZenonT(60), <1>2, LeaveIInv, ProcessingFacts DEF IInv, TypeOK, Panic
<1> QED BY Zenon, <1>1, <1>2

LEMMA AcceptOnHeadIInv ==
    ASSUME NEW t \in Thread, IInv, AcceptOnHead(t)
    PROVE  IInv'
<1> USE BlockAssumption, RootAssumption, ProcessingFacts
<1> DEFINE b == Next1(t)
<1>1. Processing(t) /\ Verifies(b) /\ Parent[b] = currentHeader BY Zenon DEF AcceptOnHead
<1>2. b \in Block /\ stateHead = StateRoot[currentHeader] /\ stateHead \in trees
  BY Zenon, <1>1
<1>3. stateHead' = StateRoot[b] BY Zenon, <1>1, <1>2 DEF AcceptOnHead, Verifies
<1>4. Level[b] > Level[currentHeader]
  <2>1. Level[currentHeader] = Level[b] - 1 BY Zenon, <1>1 DEF Verifies, ParentFound
  <2>2. Level[b] \in Int BY SMTT(60), <1>2
  <2> QED BY <2>1, <2>2
<1>5. StateRoot[b] \in trees' /\ trees \subseteq trees' /\ trees' \subseteq Root
  BY <1>2, <1>3 DEF AcceptOnHead, IInv, TypeOK
<1> HIDE DEF b
<1> QED BY Zenon, <1>1, <1>2, <1>3, <1>4, <1>5, ToSetHeaderIInv DEF AcceptOnHead, b

\* The tree apply_txs_no_commit stores is one more tree.
LEMMA AcceptElsewhereFacts ==
    ASSUME NEW t \in Thread, IInv, AcceptElsewhere(t)
    PROVE  /\ Processing(t)
           /\ trees \subseteq trees' /\ trees' \subseteq Root
           /\ ForkRootAgrees(Next1(t)) => StateRoot[Next1(t)] \in trees'
<1>1. Processing(t) /\ Verifies(Next1(t)) BY Zenon DEF AcceptElsewhere
<1>2. Next1(t) \in Block BY Zenon, <1>1, ProcessingFacts
<1>3. StateRoot[Parent[Next1(t)]] \in Root BY Zenon, <1>1 DEF Verifies, IInv, TypeOK
<1>4. ForkExec[<<StateRoot[Parent[Next1(t)]], Next1(t)>>] \in Root
  BY Zenon, <1>2, <1>3, RootAssumption
<1> QED BY Zenon, <1>1, <1>4 DEF AcceptElsewhere, ForkRootAgrees, IInv, TypeOK

LEMMA RejectForkIInv ==
    ASSUME NEW t \in Thread, IInv, RejectFork(t)
    PROVE  IInv'
<1> USE AcceptElsewhereFacts, ProcessingFacts
<1> QED BY ZenonT(60), LeaveIInv DEF IInv, TypeOK, RejectFork, ReturnError

LEMMA StoreForkIInv ==
    ASSUME NEW t \in Thread, IInv, StoreFork(t)
    PROVE  IInv'
<1> USE BlockAssumption, RootAssumption, ParameterAssumption
<1>0. /\ Processing(t) /\ Next1(t) \in Block /\ todo[t] # <<>>
      /\ trees \subseteq trees' /\ trees' \subseteq Root
      /\ Importing(t) /\ lock = t /\ stateHead = StateRoot[currentHeader]
  BY ZenonT(60), AcceptElsewhereFacts, ProcessingFacts DEF StoreFork
<1>1. TypeOK' BY Zenon, <1>0 DEF IInv, TypeOK, StoreFork
<1>2. /\ pc'[t] = "put_header" /\ blk'[t] = Next1(t) /\ after'[t] = "process"
      /\ \A u \in Thread \ {t} : pc'[u] = pc[u] /\ blk'[u] = blk[u] /\ after'[u] = after[u]
  BY Zenon DEF IInv, TypeOK, StoreFork
<1>3. /\ UNCHANGED <<phase, lock, poisoned>>
      /\ UNCHANGED <<currentHeader, stateHead, todo>>
  BY Zenon DEF StoreFork
<1>4. phase = "up" /\ currentHeader \in Block BY Zenon, <1>0, ImportingFacts
<1>5. Importing(t)' /\ LocalFacts(t)' BY Zenon, <1>0, <1>2, <1>3, <1>4 DEF Importing
<1>6. HeadStatePersisted' BY Zenon, <1>0, <1>3 DEF IInv, HeadStatePersisted
<1> QED BY Zenon, <1>0, <1>1, <1>2, <1>3, <1>4, <1>5, <1>6, InsideIInv

LEMMA AdoptForkIInv ==
    ASSUME NEW t \in Thread, IInv, AdoptFork(t)
    PROVE  IInv'
<1>1. Processing(t) /\ Next1(t) \in Block
  BY Zenon, AcceptElsewhereFacts, ProcessingFacts DEF AdoptFork
<1>2. /\ trees \subseteq trees' /\ trees' \subseteq Root
      /\ StateRoot[Next1(t)] \in trees'
  BY Zenon, AcceptElsewhereFacts DEF AdoptFork
<1> QED BY ZenonT(60), <1>1, <1>2, ToSetHeaderIInv DEF AdoptFork

LEMMA SetHeaderIInv ==
    ASSUME NEW t \in Thread, IInv, SetHeader(t)
    PROVE  IInv'
<1> USE BlockAssumption, RootAssumption, ParameterAssumption
<1>1. Importing(t) /\ pc[t] = "set_header" BY Zenon DEF SetHeader, Importing
<1>2. /\ phase = "up" /\ todo[t] # <<>> /\ after[t] = "repack"
      /\ blk[t] \in Block /\ StateRoot[blk[t]] \in trees /\ stateHead = StateRoot[blk[t]]
  BY Zenon, <1>1, ImportingFacts
<1>3. announced' \in Block \cup {NoBlock} BY Zenon, <1>2 DEF IInv, TypeOK, SetHeader
<1>4. TypeOK' BY Zenon, <1>2, <1>3 DEF IInv, TypeOK, SetHeader
<1>5. pc'[t] = "put_header" /\ \A u \in Thread \ {t} : pc'[u] = pc[u]
  BY Zenon DEF IInv, TypeOK, SetHeader
<1>6. /\ UNCHANGED <<phase, lock, poisoned>>
      /\ UNCHANGED <<stateHead, todo, trees, blk, after>>
      /\ currentHeader' = blk[t]
  BY Zenon DEF SetHeader
<1>7. Importing(t)' /\ LocalFacts(t)' BY Zenon, <1>2, <1>5, <1>6 DEF Importing
<1>8. HeadStatePersisted' BY Zenon, <1>2, <1>6 DEF HeadStatePersisted
<1> QED BY Zenon, <1>1, <1>2, <1>4, <1>5, <1>6, <1>7, <1>8, InsideIInv

LEMMA RepackIInv ==
    ASSUME NEW t \in Thread, IInv, Repack(t)
    PROVE  IInv'
<1> USE BlockAssumption, RootAssumption, ParameterAssumption
<1>1. /\ Importing(t) /\ stateHead = StateRoot[currentHeader] /\ lock = t
      /\ blk[t] \in Block /\ todo[t] # <<>> /\ todo[t] \in Seq(NonGenesis)
  BY Zenon DEF IInv, TypeOK, LockInv, LocalInv, Importing, Repack
<1>2. CASE ReturnError(t) /\ poolHead' = blk[t]
  BY ZenonT(60), <1>1, <1>2, LeaveIInv DEF IInv, TypeOK, Repack, ReturnError
<1>3. CASE /\ poolHead' \in {poolHead, blk[t]}
           /\ pc' = [pc EXCEPT ![t] = "process"]
           /\ todo' = [todo EXCEPT ![t] = Tail(todo[t])]
           /\ UNCHANGED <<lock, base, cursor, blk, after>>
  <2>1. Tail(todo[t]) \in Seq(NonGenesis) BY ZenonT(60), <1>1, BatchFacts
  <2>2. TypeOK'
    <3>1. pc' \in [Thread -> PC] BY Zenon, <1>3 DEF IInv, TypeOK
    <3>2. todo' \in [Thread -> Seq(NonGenesis)] BY Zenon, <1>3, <2>1 DEF IInv, TypeOK
    <3>3. poolHead' \in Block \cup {NoBlock} BY Zenon, <1>1, <1>3 DEF IInv, TypeOK
    <3>4. UNCHANGED <<lock, base, cursor, blk, after>> BY Zenon, <1>3
    <3> QED BY Zenon, <3>1, <3>2, <3>3, <3>4 DEF IInv, TypeOK, Repack
  <2>3. pc'[t] = "process" /\ \A u \in Thread \ {t} : pc'[u] = pc[u]
    BY Zenon, <1>3 DEF IInv, TypeOK
  <2>4. /\ UNCHANGED <<phase, lock, poisoned>>
        /\ UNCHANGED <<currentHeader, stateHead, trees, blk, after>>
    BY Zenon, <1>3 DEF Repack
  <2>5. phase = "up" /\ currentHeader \in Block BY Zenon, <1>1, ImportingFacts
  <2>6. Importing(t)' /\ LocalFacts(t)' BY Zenon, <1>1, <2>3, <2>4, <2>5 DEF Importing
  <2>7. HeadStatePersisted' BY Zenon, <2>4 DEF IInv, HeadStatePersisted
  <2> QED BY Zenon, <1>1, <2>2, <2>3, <2>4, <2>5, <2>6, <2>7, InsideIInv
<1> QED BY ZenonT(60), <1>2, <1>3 DEF Repack

-----------------------------------------------------------------------------
LEMMA InitIInv == Init => IInv
<1> SUFFICES ASSUME Init PROVE IInv OBVIOUS
<1> USE BlockAssumption, RootAssumption, ParameterAssumption
<1>1. TypeOK
  <2>1. todo \in [Thread -> Seq(NonGenesis)] BY DEF Init
  <2>2. /\ base \in [Thread -> Block \cup {NoBlock}]
        /\ cursor \in [Thread -> Block \cup {NoBlock}]
        /\ blk \in [Thread -> Block \cup {NoBlock}]
    BY Zenon DEF Init
  <2>3. /\ pc \in [Thread -> PC]
        /\ after \in [Thread -> {"idle", "genesis_head", "process", "repack"}]
    BY Zenon DEF Init
  <2>4. byLevel \in [0..MaxLevel -> Block \cup {NoBlock}] BY Zenon DEF Init
  <2>5. crashes \in 0..MaxCrashes BY DEF Init
  <2> QED BY Zenon, <2>1, <2>2, <2>3, <2>4, <2>5 DEF Init, TypeOK
<1> QED
  BY Zenon, <1>1
     DEF Init, IInv, LockInv, PhaseInv, LocalInv, Importing, HeadStatePersisted, StateMatchesHead

LEMMA StepIInv ==
    ASSUME NEW t \in Thread, IInv, Step(t)
    PROVE  IInv'
BY Zenon, PutHeaderIInv, PutTransactionsIInv, PutByHashIInv, PutByLevelIInv,
   SetRolledBackHeaderIInv, RemoveStaleIInv, FinishIInv, RejectIInv, PanicIInv, AcceptOnHeadIInv,
   RejectForkIInv, StoreForkIInv, AdoptForkIInv, SetHeaderIInv, RepackIInv
   DEF Step

LEMMA StutterIInv == IInv /\ UNCHANGED vars => IInv'
<1> SUFFICES ASSUME IInv, UNCHANGED vars PROVE IInv' BY Zenon
<1>1. TypeOK' BY DEF vars, IInv, TypeOK
<1>2. LockInv' BY ZenonT(60) DEF vars, IInv, LockInv, Importing
<1>3. PhaseInv' BY Zenon DEF vars, IInv, PhaseInv
<1>4. LocalInv' BY DEF vars, IInv, LocalInv, Importing
<1>5. HeadStatePersisted' /\ StateMatchesHead'
  BY Zenon DEF vars, IInv, HeadStatePersisted, StateMatchesHead
<1> QED BY Zenon, <1>1, <1>2, <1>3, <1>4, <1>5 DEF IInv

LEMMA NextIInv == IInv /\ [Next]_vars => IInv'
<1> SUFFICES ASSUME IInv, [Next]_vars PROVE IInv' OBVIOUS
<1>1. CASE Boot
  BY Zenon, <1>1, RestoreIInv, BeginGenesisIInv, CommitGenesisIInv, SetGenesisHeaderIInv DEF Boot
<1>2. CASE Call BY Zenon, <1>2, PutChainIInv, PutChainRollbackIInv, StoreBroadcastIInv DEF Call
<1>3. CASE End BY Zenon, <1>3, CrashIInv, MainPanicsIInv, WorkerEndsIInv DEF End
<1>4. CASE \E t \in Thread : Step(t) BY Zenon, <1>4, StepIInv
<1>5. CASE UNCHANGED vars BY Zenon, <1>5, StutterIInv
<1> QED BY Zenon, <1>1, <1>2, <1>3, <1>4, <1>5 DEF Next

\* The inductive invariant holds in every state of every node.
THEOREM Invariance == Spec => []IInv
BY InitIInv, NextIInv, PTL DEF Spec

\* Every variable keeps its type (TypeOK).
THEOREM TypeCorrect == Spec => []TypeOK
<1>1. IInv => TypeOK BY Zenon DEF IInv
<1> QED BY Invariance, <1>1, PTL

\* Whenever the process dies, the tree of the stored head's state root is on
\* disk: ChainState::new can reset the state to it.
THEOREM HeadStateIsPersisted == Spec => []HeadStatePersisted
<1>1. IInv => HeadStatePersisted BY Zenon DEF IInv
<1> QED BY Invariance, <1>1, PTL

\* Whenever the chain lock is free, the live state is the state of the head,
\* whatever rollbacks, forks, failures, panics and crashes came before.
THEOREM LiveStateMatchesHead == Spec => []StateMatchesHead
<1>1. IInv => StateMatchesHead BY Zenon DEF IInv
<1> QED BY Invariance, <1>1, PTL

\* The head moves to a block that is not higher only in the rollback of
\* put_chain, to a stored block whose state is live (HeadFallsOnlyInRollback).
THEOREM HeadFallsInRollback == Spec => HeadFallsOnlyInRollback
<1>1. ASSUME IInv, [Next]_vars PROVE [HeadStep]_vars
  <2> USE BlockAssumption, ParameterAssumption
  <2> SUFFICES ASSUME Next, currentHeader # NoBlock, currentHeader' # currentHeader
               PROVE  HeadStep
    BY Zenon, <1>1 DEF HeadStep, vars
  <2>1. CASE Boot
    BY Zenon, <1>1, <2>1
       DEF Boot, Restore, BeginGenesis, CommitGenesis, SetGenesisHeader, IInv, PhaseInv
  <2>2. CASE Call \/ End
    BY Zenon, <2>2
       DEF Call, PutChain, PutChainRollback, Enter, StoreBroadcast, End, Crash, MainPanics,
           WorkerEnds
  <2>3. ASSUME NEW t \in Thread, SetRolledBackHeader(t) PROVE HeadStep
    <3>1. pc[t] = "rollback" /\ currentHeader' = Parent[First(todo[t])]
      BY Zenon, <2>3 DEF SetRolledBackHeader
    <3>2. lock = t BY Zenon, <1>1, <3>1 DEF IInv, LockInv, Importing
    <3>3. currentHeader' \in byHash /\ stateHead = StateRoot[currentHeader']
      BY Zenon, <1>1, <3>1 DEF IInv, LocalInv
    <3> QED BY Zenon, <3>1, <3>2, <3>3 DEF HeadStep
  <2>4. ASSUME NEW t \in Thread, SetHeader(t) PROVE HeadStep
    BY Zenon, <1>1, <2>4 DEF HeadStep, SetHeader, IInv, LocalInv
  <2>5. ASSUME NEW t \in Thread, Step(t), ~SetRolledBackHeader(t), ~SetHeader(t) PROVE FALSE
    BY Zenon, <2>5 DEF Step, PutHeader, PutTransactions, PutByHash, PutByLevel, RemoveStale, Finish,
                Reject, Panic, AcceptOnHead, RejectFork, StoreFork, AdoptFork, Repack
  <2> QED BY Zenon, <2>1, <2>2, <2>3, <2>4, <2>5 DEF Next
<1> QED BY Invariance, <1>1, PTL DEF Spec, HeadFallsOnlyInRollback

-----------------------------------------------------------------------------
(* The block columns. *)

\* How far a put has come.
PutInv ==
    \A t \in Thread :
        /\ pc[t] = "put_transactions" => blk[t] \in headers
        /\ pc[t] = "put_by_hash" => blk[t] \in headers /\ blk[t] \in transactions
        /\ pc[t] = "put_by_level" => blk[t] \in byHash
        /\ Putting(t) /\ after[t] = "genesis_head" => blk[t] = Genesis
        /\ pc[t] = "genesis_head" => Genesis \in byHash

IndexInv == IndexNeverDangles /\ PutInv

LEMMA InitIndexInv == Init => IndexInv
BY Zenon, BlockAssumption DEF Init, IndexInv, IndexNeverDangles, PutInv

\* A step that writes no block column, and starts puts only at their header.
LEMMA NoWriteIndexInv ==
    ASSUME IInv, IndexInv, UNCHANGED <<headers, transactions, byHash, byLevel>>,
           \A t \in Thread :
               \/ pc'[t] \notin PutPC \cup {"genesis_head"}
               \/ pc'[t] = "put_header" /\ (after'[t] = "genesis_head" => blk'[t] = Genesis)
               \/ pc'[t] = pc[t] /\ blk'[t] = blk[t] /\ after'[t] = after[t]
    PROVE  IndexInv'
BY DEF IndexInv, IndexNeverDangles, PutInv

LEMMA StepIndexInv ==
    ASSUME NEW t \in Thread, IInv, IndexInv, Step(t)
    PROVE  IndexInv'
<1> USE BlockAssumption
<1>1. CASE PutHeader(t)
  BY <1>1 DEF IndexInv, IndexNeverDangles, PutInv, PutHeader, IInv, TypeOK
<1>2. CASE PutTransactions(t)
  BY <1>2 DEF IndexInv, IndexNeverDangles, PutInv, PutTransactions, IInv, TypeOK
<1>3. CASE PutByHash(t)
  BY SMTT(60), <1>3 DEF IndexInv, IndexNeverDangles, PutInv, PutByHash, IInv, TypeOK
<1>4. CASE PutByLevel(t)
  <2>1. blk[t] \in byHash /\ blk[t] \in Block
    BY ZenonT(60), <1>4 DEF IndexInv, PutInv, PutByLevel, IInv, LocalInv
  <2>2. IndexNeverDangles'
    <3>1. Level[blk[t]] \in 0..MaxLevel BY Zenon, <2>1
    <3> QED BY Zenon, <1>4, <2>1, <3>1 DEF IndexInv, IndexNeverDangles, PutByLevel, IInv, TypeOK
  <2>3. PutInv' BY ZenonT(60), <1>4 DEF IndexInv, PutInv, PutByLevel, IInv, TypeOK
  <2> QED BY Zenon, <2>2, <2>3 DEF IndexInv
<1>5. CASE RemoveStale(t)
  <2>1. PutInv'
    <3>1. pc' = pc \/ pc' = [pc EXCEPT ![t] = "process"] BY Zenon, <1>5 DEF RemoveStale
    <3>2. \A u \in Thread : pc'[u] = pc[u] \/ pc'[u] = "process"
      BY Zenon, <3>1 DEF IInv, TypeOK
    <3>3. UNCHANGED <<headers, transactions, byHash, blk, after>> BY Zenon, <1>5 DEF RemoveStale
    <3> QED BY Zenon, <3>2, <3>3 DEF IndexInv, PutInv
  <2>2. CASE HasHeaderByHash(cursor[t])
    <3>1. \A l \in 0..MaxLevel : byLevel'[l] \in {byLevel[l], NoBlock}
      BY Zenon, <1>5, <2>2 DEF RemoveStale, IInv, TypeOK
    <3>2. UNCHANGED <<headers, transactions, byHash>> BY Zenon, <1>5 DEF RemoveStale
    <3> QED BY Zenon, <2>1, <3>1, <3>2 DEF IndexInv, IndexNeverDangles
  <2>3. CASE ~HasHeaderByHash(cursor[t])
    BY Zenon, <1>5, <2>1, <2>3 DEF IndexInv, IndexNeverDangles, RemoveStale
  <2> QED BY Zenon, <2>2, <2>3
<1>6. CASE SetRolledBackHeader(t) \/ SetHeader(t)
  <2>1. CASE SetRolledBackHeader(t)
    BY Zenon, <2>1, NoWriteIndexInv DEF SetRolledBackHeader, IInv, TypeOK
  <2>2. CASE SetHeader(t)
    <3>1. after[t] = "repack" BY Zenon, <2>2 DEF SetHeader, IInv, LocalInv
    <3> QED BY Zenon, <2>2, <3>1, NoWriteIndexInv DEF SetHeader, IInv, TypeOK
  <2> QED BY Zenon, <1>6, <2>1, <2>2
<1>7. CASE Finish(t) \/ Reject(t) \/ RejectFork(t)
  <2>1. CASE Finish(t)
    BY Zenon, <2>1, NoWriteIndexInv DEF Finish, Return, LeaveTo, IInv, TypeOK
  <2>2. CASE Reject(t)
    BY Zenon, <2>2, NoWriteIndexInv DEF Reject, ReturnError, LeaveTo, IInv, TypeOK
  <2>3. CASE RejectFork(t)
    BY Zenon, <2>3, NoWriteIndexInv DEF RejectFork, ReturnError, LeaveTo, IInv, TypeOK
  <2> QED BY Zenon, <1>7, <2>1, <2>2, <2>3
<1>8. CASE Panic(t)
  BY <1>8, NoWriteIndexInv DEF Panic, LeaveTo, IInv, TypeOK
<1>9. CASE AcceptOnHead(t) \/ StoreFork(t) \/ AdoptFork(t)
  <2>1. CASE AcceptOnHead(t)
    BY Zenon, <2>1, NoWriteIndexInv DEF AcceptOnHead, IInv, TypeOK
  <2>2. CASE StoreFork(t)
    BY Zenon, <2>2, NoWriteIndexInv DEF StoreFork, IInv, TypeOK
  <2>3. CASE AdoptFork(t)
    BY Zenon, <2>3, NoWriteIndexInv DEF AdoptFork, IInv, TypeOK
  <2> QED BY Zenon, <1>9, <2>1, <2>2, <2>3
<1>10. CASE Repack(t)
  <2>1. CASE ReturnError(t)
    BY Zenon, <1>10, <2>1, NoWriteIndexInv DEF Repack, ReturnError, LeaveTo, IInv, TypeOK
  <2>2. CASE pc' = [pc EXCEPT ![t] = "process"] /\ UNCHANGED <<blk, after>>
    BY Zenon, <1>10, <2>2, NoWriteIndexInv DEF Repack, IInv, TypeOK
  <2> QED BY Zenon, <1>10, <2>1, <2>2 DEF Repack
<1> QED BY Zenon, <1>1, <1>2, <1>3, <1>4, <1>5, <1>6, <1>7, <1>8, <1>9, <1>10 DEF Step

LEMMA NextIndexInv == IInv /\ IndexInv /\ [Next]_vars => IndexInv'
<1> SUFFICES ASSUME IInv, IndexInv, [Next]_vars PROVE IndexInv' OBVIOUS
<1>1. CASE Boot
  <2>1. CASE Restore BY Zenon, <2>1, NoWriteIndexInv DEF Restore
  <2>2. CASE BeginGenesis BY Zenon, <2>2, NoWriteIndexInv DEF BeginGenesis, IInv, TypeOK
  <2>3. CASE CommitGenesis
    BY Zenon, <2>3, NoWriteIndexInv, ParameterAssumption DEF CommitGenesis, IInv, TypeOK
  <2>4. CASE SetGenesisHeader
    BY Zenon, <2>4, NoWriteIndexInv DEF SetGenesisHeader, IInv, TypeOK
  <2> QED BY Zenon, <1>1, <2>1, <2>2, <2>3, <2>4 DEF Boot
<1>2. CASE Call
  <2>1. CASE \E t \in Thread : \E bs \in Batches[t] : PutChain(t, bs) \/ PutChainRollback(t, bs)
    <3>1. ASSUME NEW t \in Thread, NEW bs \in Batches[t], PutChain(t, bs) PROVE IndexInv'
      BY Zenon, <3>1, NoWriteIndexInv DEF PutChain, Enter, IInv, TypeOK
    <3>2. ASSUME NEW t \in Thread, NEW bs \in Batches[t], PutChainRollback(t, bs) PROVE IndexInv'
      BY Zenon, <3>2, NoWriteIndexInv DEF PutChainRollback, Enter, IInv, TypeOK
    <3> QED BY Zenon, <2>1, <3>1, <3>2
  <2>2. CASE \E b \in Broadcasts : StoreBroadcast(b)
    BY <2>2, NoWriteIndexInv DEF StoreBroadcast, IInv, TypeOK
  <2> QED BY Zenon, <1>2, <2>1, <2>2 DEF Call
<1>3. CASE End
  BY <1>3, NoWriteIndexInv DEF End, Crash, MainPanics, WorkerEnds, IInv, TypeOK
<1>4. CASE \E t \in Thread : Step(t) BY Zenon, <1>4, StepIndexInv
<1>5. CASE UNCHANGED vars BY Zenon, <1>5, NoWriteIndexInv DEF vars
<1> QED BY Zenon, <1>1, <1>2, <1>3, <1>4, <1>5 DEF Next

\* An entry of the index by hash or by level always names a block that is
\* stored whole, at the level it is indexed under (IndexNeverDangles).
THEOREM IndexSound == Spec => []IndexNeverDangles
<1>1. IndexInv => IndexNeverDangles BY Zenon DEF IndexInv
<1> QED BY Invariance, InitIndexInv, NextIndexInv, <1>1, PTL DEF Spec

-----------------------------------------------------------------------------
(* Blocks that are stored whole, as long as the process has not died. *)

UnderWay(b) == \E t \in Thread : Putting(t) /\ blk[t] = b

StoreInv ==
    crashes = 0 =>
        /\ transactions \subseteq headers
        /\ \A b \in headers : b \in byHash \/ UnderWay(b)
        /\ currentHeader # NoBlock => currentHeader \in byHash \/ UnderWay(currentHeader)

LEMMA InitStoreInv == Init => StoreInv
BY Zenon DEF Init, StoreInv

\* A step that leaves the columns and the head alone and ends no put.
LEMMA NoWriteStoreInv ==
    ASSUME StoreInv, crashes' = 0 => crashes = 0,
           UNCHANGED <<headers, transactions, byHash, currentHeader>>,
           \A t \in Thread : Putting(t) => Putting(t)' /\ blk'[t] = blk[t]
    PROVE  StoreInv'
BY Zenon DEF StoreInv, UnderWay

LEMMA StepStoreInv ==
    ASSUME NEW t \in Thread, IInv, IndexInv, StoreInv, Step(t)
    PROVE  StoreInv'
<1> USE BlockAssumption
<1>1. CASE PutHeader(t)
  <2>1. UnderWay(blk[t])' /\ \A b : UnderWay(b) => UnderWay(b)'
    BY Zenon, <1>1 DEF UnderWay, PutHeader, IInv, TypeOK
  <2> QED BY ZenonT(60), <1>1, <2>1 DEF StoreInv, PutHeader
<1>2. CASE PutTransactions(t)
  <2>1. \A b : UnderWay(b) => UnderWay(b)'
    BY Zenon, <1>2 DEF UnderWay, PutTransactions, IInv, TypeOK
  <2> QED BY ZenonT(60), <1>2, <2>1 DEF StoreInv, PutTransactions, IndexInv, PutInv
<1>3. CASE PutByHash(t)
  <2>1. \A b : UnderWay(b) => UnderWay(b)'
    BY Zenon, <1>3 DEF UnderWay, PutByHash, IInv, TypeOK
  <2> QED BY Zenon, <1>3, <2>1 DEF StoreInv, PutByHash
<1>4. CASE PutByLevel(t)
  <2>1. \A b : UnderWay(b) => b = blk[t] \/ UnderWay(b)'
    BY Zenon, <1>4 DEF UnderWay, PutByLevel, IInv, TypeOK
  <2>2. blk[t] \in byHash BY ZenonT(60), <1>4 DEF IndexInv, PutInv, PutByLevel
  <2> QED BY ZenonT(60), <1>4, <2>1, <2>2 DEF StoreInv, PutByLevel
<1>5. CASE RemoveStale(t)
  BY Zenon, <1>5, NoWriteStoreInv DEF RemoveStale, IInv, TypeOK
<1>6. CASE SetRolledBackHeader(t)
  <2>1. currentHeader' \in byHash BY ZenonT(60), <1>6 DEF SetRolledBackHeader, IInv, LocalInv
  <2>2. \A b : UnderWay(b) => UnderWay(b)'
    BY Zenon, <1>6 DEF UnderWay, SetRolledBackHeader, IInv, TypeOK
  <2> QED BY Zenon, <1>6, <2>1, <2>2 DEF StoreInv, SetRolledBackHeader
<1>7. CASE SetHeader(t)
  <2>1. UnderWay(currentHeader)' /\ \A b : UnderWay(b) => UnderWay(b)'
    BY Zenon, <1>7 DEF UnderWay, SetHeader, IInv, TypeOK
  <2> QED BY ZenonT(60), <1>7, <2>1 DEF StoreInv, SetHeader
<1>8. CASE Finish(t) \/ Reject(t) \/ RejectFork(t)
  <2>1. CASE Finish(t)
    BY Zenon, <2>1, NoWriteStoreInv DEF Finish, Return, LeaveTo, IInv, TypeOK
  <2>2. CASE Reject(t)
    BY Zenon, <2>2, NoWriteStoreInv DEF Reject, Processing, ReturnError, LeaveTo, IInv, TypeOK
  <2>3. CASE RejectFork(t)
    BY Zenon, <2>3, NoWriteStoreInv
       DEF RejectFork, AcceptElsewhere, Processing, ReturnError, LeaveTo, IInv, TypeOK
  <2> QED BY Zenon, <1>8, <2>1, <2>2, <2>3
<1>9. CASE Panic(t)
  <2>1. lock = t /\ phase = "up" BY ZenonT(60), <1>9, ProcessingFacts DEF Panic
  <2>2. CASE t # Main
    BY <1>9, <2>2, NoWriteStoreInv DEF Panic, Processing, LeaveTo, IInv, TypeOK
  <2>3. CASE t = Main
    <3>1. \A u \in Thread : ~Putting(u)
      BY ZenonT(60), <1>9, <2>1, <2>3 DEF Panic, Processing, IInv, TypeOK, LockInv, PhaseInv,
                                          Importing
    <3> QED BY ZenonT(60), <1>9, <2>3, <3>1, NoWriteStoreInv DEF Panic
  <2> QED BY Zenon, <2>2, <2>3
<1>10. CASE AcceptOnHead(t) \/ StoreFork(t) \/ AdoptFork(t)
  <2>1. CASE AcceptOnHead(t)
    BY Zenon, <2>1, NoWriteStoreInv DEF AcceptOnHead, Processing, IInv, TypeOK
  <2>2. CASE StoreFork(t)
    BY Zenon, <2>2, NoWriteStoreInv DEF StoreFork, AcceptElsewhere, Processing, IInv, TypeOK
  <2>3. CASE AdoptFork(t)
    BY Zenon, <2>3, NoWriteStoreInv DEF AdoptFork, AcceptElsewhere, Processing, IInv, TypeOK
  <2> QED BY Zenon, <1>10, <2>1, <2>2, <2>3
<1>11. CASE Repack(t)
  <2>1. pc[t] = "repack" /\ UNCHANGED <<disk, crashes>> BY Zenon, <1>11 DEF Repack
  <2>2. \A u \in Thread \ {t} : pc'[u] = pc[u] /\ blk'[u] = blk[u]
    BY Zenon, <1>11 DEF Repack, ReturnError, LeaveTo, IInv, TypeOK
  <2> QED BY Zenon, <2>1, <2>2, NoWriteStoreInv
<1> QED BY <1>1, <1>2, <1>3, <1>4, <1>5, <1>6, <1>7, <1>8, <1>9, <1>10, <1>11 DEF Step

LEMMA NextStoreInv == IInv /\ IndexInv /\ StoreInv /\ [Next]_vars => StoreInv'
<1> SUFFICES ASSUME IInv, IndexInv, StoreInv, [Next]_vars PROVE StoreInv' OBVIOUS
<1> USE BlockAssumption
<1>1. CASE Restore \/ BeginGenesis \/ CommitGenesis
  <2>1. CASE Restore BY Zenon, <2>1, NoWriteStoreInv DEF Restore
  <2>2. CASE BeginGenesis
    BY Zenon, <2>2, NoWriteStoreInv DEF BeginGenesis, IInv, TypeOK, PhaseInv
  <2>3. CASE CommitGenesis
    BY Zenon, <2>3, NoWriteStoreInv DEF CommitGenesis, IInv, TypeOK
  <2> QED BY Zenon, <1>1, <2>1, <2>2, <2>3
<1>2. CASE SetGenesisHeader
  <2>1. currentHeader' \in byHash
    BY Zenon, <1>2, ParameterAssumption DEF SetGenesisHeader, IndexInv, PutInv
  <2>2. \A b : UnderWay(b) => UnderWay(b)'
    BY Zenon, <1>2 DEF UnderWay, SetGenesisHeader, IInv, TypeOK
  <2> QED BY Zenon, <1>2, <2>1, <2>2 DEF StoreInv, SetGenesisHeader
<1>3. CASE Call
  <2>1. ASSUME NEW t \in Thread, NEW bs \in Batches[t], PutChain(t, bs) PROVE StoreInv'
    BY Zenon, <2>1, NoWriteStoreInv DEF PutChain, Enter, IInv, TypeOK
  <2>2. ASSUME NEW t \in Thread, NEW bs \in Batches[t], PutChainRollback(t, bs) PROVE StoreInv'
    BY Zenon, <2>2, NoWriteStoreInv DEF PutChainRollback, Enter, IInv, TypeOK
  <2>3. ASSUME NEW b \in Broadcasts, StoreBroadcast(b) PROVE StoreInv'
    BY Zenon, <2>3, NoWriteStoreInv DEF StoreBroadcast, IInv, TypeOK
  <2> QED BY Zenon, <1>3, <2>1, <2>2, <2>3 DEF Call
<1>4. CASE End
  <2>1. CASE Crash BY <2>1 DEF Crash, StoreInv, IInv, TypeOK
  <2>2. CASE MainPanics
    <3>1. \A t \in Thread : ~Putting(t)
      BY Zenon, <2>2, ParameterAssumption DEF MainPanics, IInv, TypeOK, LockInv, PhaseInv, Importing
    <3> QED BY Zenon, <2>2, <3>1, NoWriteStoreInv DEF MainPanics
  <2>3. ASSUME NEW t \in Thread, WorkerEnds(t) PROVE StoreInv'
    BY Zenon, <2>3, NoWriteStoreInv DEF WorkerEnds, IInv, TypeOK
  <2> QED BY Zenon, <1>4, <2>1, <2>2, <2>3 DEF End
<1>5. CASE \E t \in Thread : Step(t) BY Zenon, <1>5, StepStoreInv
<1>6. CASE UNCHANGED vars BY Zenon, <1>6, NoWriteStoreInv DEF vars
<1> QED BY Zenon, <1>1, <1>2, <1>3, <1>4, <1>5, <1>6 DEF Next, Boot

\* Until the process first dies, whenever no put is under way the block columns
\* hold the same blocks and the head is one of them (StoreComplete).
THEOREM StoreIsComplete == Spec => []StoreComplete
<1>1. IndexInv /\ StoreInv => StoreComplete
  BY Zenon DEF IndexInv, IndexNeverDangles, StoreInv, UnderWay, StoreComplete
<1> QED BY Invariance, InitIndexInv, NextIndexInv, InitStoreInv, NextStoreInv, <1>1, PTL DEF Spec

-----------------------------------------------------------------------------
(* Blocks whose state is on disk. *)

LEMMA NoNewTree ==
    ASSUME ExecutedChainStored, UNCHANGED trees, byHash \subseteq byHash'
    PROVE  ExecutedChainStored'
BY Zenon DEF ExecutedChainStored, RootsDistinct

\* The tree of a verified block, however it was computed, is that block's.
LEMMA NewTree ==
    ASSUME ExecutedChainStored, NEW b \in Block, NEW r \in Root, Verifies(b),
           \/ trees' = trees
           \/ trees' = trees \cup {Exec[<<r, b>>]}
           \/ trees' = trees \cup {ForkExec[<<r, b>>]},
           UNCHANGED byHash
    PROVE  ExecutedChainStored'
<1> SUFFICES ASSUME RootsDistinct, NEW c \in NonGenesis, StateRoot[c] \in trees'
             PROVE  Parent[c] \in byHash' /\ StateRoot[Parent[c]] \in trees'
  BY Zenon DEF ExecutedChainStored, RootsDistinct
<1>1. CASE StateRoot[c] \in trees BY Zenon, <1>1 DEF ExecutedChainStored
<1>2. CASE c = b BY Zenon, <1>2 DEF Verifies, WorkKnown, HasHeaderByHash
<1> QED BY <1>1, <1>2 DEF RootsDistinct, NonGenesis

LEMMA StepExecuted ==
    ASSUME NEW t \in Thread, IInv, ExecutedChainStored, Step(t)
    PROVE  ExecutedChainStored'
<1> USE ProcessingFacts, BlockAssumption, RootAssumption
<1>1. CASE AcceptOnHead(t)
  BY Zenon, <1>1, NewTree DEF AcceptOnHead
<1>2. CASE AcceptElsewhere(t) /\ UNCHANGED byHash
  <2>1. StateRoot[Parent[Next1(t)]] \in Root
    BY Zenon, <1>2 DEF AcceptElsewhere, Verifies, IInv, TypeOK
  <2> QED BY Zenon, <1>2, <2>1, NewTree DEF AcceptElsewhere
<1>3. CASE PutHeader(t) \/ PutTransactions(t) \/ PutByHash(t) \/ PutByLevel(t)
           \/ SetRolledBackHeader(t) \/ RemoveStale(t) \/ SetHeader(t)
  BY Zenon, <1>3, NoNewTree DEF PutHeader, PutTransactions, PutByHash, PutByLevel,
                         SetRolledBackHeader, RemoveStale, SetHeader
<1>4. CASE Finish(t) \/ Reject(t) \/ Panic(t) \/ Repack(t)
  BY Zenon, <1>4, NoNewTree DEF Finish, Reject, Panic, Repack
<1> QED BY Zenon, <1>1, <1>2, <1>3, <1>4 DEF Step, RejectFork, StoreFork, AdoptFork

LEMMA NextExecuted == IInv /\ ExecutedChainStored /\ [Next]_vars => ExecutedChainStored'
<1> SUFFICES ASSUME IInv, ExecutedChainStored, [Next]_vars PROVE ExecutedChainStored' OBVIOUS
<1>1. CASE Restore \/ BeginGenesis \/ SetGenesisHeader
  BY Zenon, <1>1, NoNewTree DEF Restore, BeginGenesis, SetGenesisHeader
<1>2. CASE CommitGenesis
  BY Zenon, <1>2, BlockAssumption DEF CommitGenesis, ExecutedChainStored, RootsDistinct, NonGenesis
<1>3. CASE Call
  BY ZenonT(60), <1>3, NoNewTree DEF Call, PutChain, PutChainRollback, Enter, StoreBroadcast
<1>4. CASE End BY Zenon, <1>4, NoNewTree DEF End, Crash, MainPanics, WorkerEnds
<1>5. CASE \E t \in Thread : Step(t) BY Zenon, <1>5, StepExecuted
<1>6. CASE UNCHANGED vars BY Zenon, <1>6, NoNewTree DEF vars
<1> QED BY Zenon, <1>1, <1>2, <1>3, <1>4, <1>5, <1>6 DEF Next, Boot

\* When distinct blocks lead to distinct states, the blocks whose state is on
\* disk form a tree rooted at genesis whose parents are all indexed
\* (ExecutedChainStored).
THEOREM ExecutedChainIsStored == Spec => []ExecutedChainStored
<1>1. Init => ExecutedChainStored BY Zenon DEF Init, ExecutedChainStored
<1> QED BY Invariance, NextExecuted, <1>1, PTL DEF Spec

-----------------------------------------------------------------------------
(* The node *)

\* What the miner knows of its template and of the block it has found.
MinerInv ==
    /\ mpc \in {"mining", "found"} => mparent \in byHash /\ StateRoot[mparent] \in trees
    /\ mpc = "found" => <<mblock>> \in Batches[Miner] /\ Parent[mblock] = mparent

\* No step takes a block out of the index by hash or a tree off the disk.
LEMMA DiskGrows ==
    ASSUME [Next]_vars
    PROVE  byHash \subseteq byHash' /\ trees \subseteq trees'
<1> USE DEF disk
<1>1. CASE Boot
  BY Zenon, <1>1 DEF Boot, Restore, BeginGenesis, CommitGenesis, SetGenesisHeader
<1>2. CASE Call
  BY Zenon, <1>2 DEF Call, PutChain, PutChainRollback, Enter, StoreBroadcast
<1>3. CASE End
  BY Zenon, <1>3 DEF End, Crash, MainPanics, WorkerEnds
<1>4. ASSUME NEW t \in Thread, Step(t) PROVE byHash \subseteq byHash' /\ trees \subseteq trees'
  <2>1. CASE PutHeader(t) \/ PutTransactions(t) \/ PutByHash(t) \/ PutByLevel(t)
    BY Zenon, <2>1 DEF PutHeader, PutTransactions, PutByHash, PutByLevel
  <2>2. CASE SetRolledBackHeader(t) \/ RemoveStale(t) \/ SetHeader(t)
    BY Zenon, <2>2 DEF SetRolledBackHeader, RemoveStale, SetHeader
  <2>3. CASE Finish(t) \/ Reject(t) \/ Panic(t) \/ Repack(t)
    BY Zenon, <2>3 DEF Finish, Reject, Panic, Repack
  <2>4. CASE AcceptOnHead(t)
    BY Zenon, <2>4 DEF AcceptOnHead
  <2>5. CASE RejectFork(t) \/ StoreFork(t) \/ AdoptFork(t)
    BY Zenon, <2>5 DEF RejectFork, StoreFork, AdoptFork, AcceptElsewhere
  <2> QED BY Zenon, <1>4, <2>1, <2>2, <2>3, <2>4, <2>5 DEF Step
<1>5. CASE UNCHANGED vars BY Zenon, <1>5 DEF vars
<1> QED BY Zenon, <1>1, <1>2, <1>3, <1>4, <1>5 DEF Next

\* Every step of the node is a step of the chain or none of it.
LEMMA NodeStepsAreSteps == MinerInv /\ [NodeNext]_nodeVars => [Next]_vars
<1> SUFFICES ASSUME MinerInv, [NodeNext]_nodeVars PROVE [Next]_vars OBVIOUS
<1> USE ParameterAssumption, MinerAssumption
<1>1. CASE NodeBoot BY Zenon, <1>1 DEF NodeBoot, Next
<1>2. CASE MinerNext
  <2>1. CASE MinerTemplate
    BY Zenon, <2>1 DEF MinerTemplate, MinerDies, Next, End
  <2>2. CASE MinerDrops BY Zenon, <2>2 DEF MinerDrops
  <2>3. CASE \E bs \in Batches[Miner] : MinerFinds(First(bs))
    BY Zenon, <2>3 DEF MinerFinds
  <2>4. CASE MinerSubmits
    BY Zenon, <2>4 DEF MinerSubmits, MinerInv, Next, Call
  <2> QED BY Zenon, <1>2, <2>1, <2>2, <2>3, <2>4 DEF MinerNext
<1>3. CASE MainNext
  BY Zenon, <1>3 DEF MainNext, SyncImports, SyncPanics, BroadcastArrives, Next, Call, End
<1>4. CASE NodeCrash BY Zenon, <1>4 DEF NodeCrash, Next, End
<1>5. CASE \E t \in Thread : NodeStep(t) BY Zenon, <1>5 DEF NodeStep, Next
<1>6. CASE UNCHANGED nodeVars BY Zenon, <1>6 DEF nodeVars
<1> QED BY Zenon, <1>1, <1>2, <1>3, <1>4, <1>5, <1>6 DEF NodeNext

LEMMA MinerInvKept == MinerInv /\ [NodeNext]_nodeVars => MinerInv'
<1> SUFFICES ASSUME MinerInv, [NodeNext]_nodeVars PROVE MinerInv' OBVIOUS
<1>0. byHash \subseteq byHash' /\ trees \subseteq trees'
  BY Zenon, NodeStepsAreSteps, DiskGrows
<1> USE DEF MinerInv, ClearMiner
<1>1. CASE UNCHANGED minerVars BY Zenon, <1>0, <1>1 DEF minerVars
<1>2. CASE MinerNext
  <2>1. CASE MinerTemplate
    BY Zenon, <1>0, <2>1 DEF MinerTemplate, MinerDies, TemplateReady, WorkKnown, HasHeaderByHash
  <2>2. CASE MinerDrops \/ MinerSubmits
    BY Zenon, <2>2 DEF MinerDrops, MinerSubmits
  <2>3. ASSUME NEW bs \in Batches[Miner], MinerFinds(First(bs)) PROVE MinerInv'
    BY Zenon, <1>0, <2>3, MinerAssumption DEF MinerFinds
  <2> QED BY Zenon, <1>2, <2>1, <2>2, <2>3 DEF MinerNext
<1>3. CASE NodeCrash \/ SyncPanics BY Zenon, <1>3 DEF NodeCrash, SyncPanics
<1>4. CASE \E t \in Thread : NodeStep(t) BY Zenon, <1>1, <1>4 DEF NodeStep
<1> QED
  BY Zenon, <1>1, <1>2, <1>3, <1>4
     DEF NodeNext, NodeBoot, MainNext, SyncImports, BroadcastArrives, nodeVars

LEMMA MinerInvariance == NodeSpec => []MinerInv
<1>1. NodeInit => MinerInv BY Zenon DEF NodeInit, MinerInv
<1> QED BY <1>1, MinerInvKept, PTL DEF NodeSpec

\* The main loop, the sync service and the miner use the chain only in the ways
\* ChainState allows any thread to use it: NodeSpec implements Spec.
THEOREM NodeImplementsChain == NodeSpec => Spec
<1>1. NodeInit => Init BY Zenon DEF NodeInit
<1> QED BY <1>1, NodeStepsAreSteps, MinerInvariance, PTL DEF NodeSpec, Spec

\* Only the main loop and the miner call put_chain, the miner not while it
\* mines; a poisoned lock is the work of a miner that has died.
CallerInv ==
    /\ \A t \in Thread \ {Main, Miner} : pc[t] = "idle"
    /\ pc[Miner] # "idle" => mpc = "idle"
    /\ poisoned => pc[Miner] = "dead"

LEMMA CallerInvKept == IInv /\ CallerInv /\ [NodeNext]_nodeVars => CallerInv'
<1> SUFFICES ASSUME IInv, CallerInv, [NodeNext]_nodeVars PROVE CallerInv' OBVIOUS
<1>0. pc \in [Thread -> PC] BY Zenon DEF IInv, TypeOK
<1> USE ParameterAssumption, MinerAssumption DEF CallerInv, ClearMiner, minerVars, memory, locals
<1>1. CASE NodeBoot
  BY SMTT(60), <1>0, <1>1 DEF NodeBoot, Boot, Restore, BeginGenesis, CommitGenesis, SetGenesisHeader
<1>2. CASE MinerNext
  <2>1. CASE MinerTemplate
    BY <1>0, <2>1 DEF MinerTemplate, MinerDies, MinerRuns, WorkerEnds, vars
  <2>2. CASE MinerDrops BY Zenon, <1>0, <2>2 DEF MinerDrops, vars
  <2>3. CASE \E bs \in Batches[Miner] : MinerFinds(First(bs))
    BY SMTT(60), <1>0, <2>3 DEF MinerFinds, MinerRuns, vars
  <2>4. CASE MinerSubmits
    BY SMTT(60), <1>0, <2>4 DEF MinerSubmits, PutChain, PutChainRollback, Enter
  <2> QED BY Zenon, <1>2, <2>1, <2>2, <2>3, <2>4 DEF MinerNext
<1>3. CASE MainNext
  <2>1. CASE SyncPanics BY Zenon, <2>1 DEF SyncPanics, MainPanics, ClearMemory
  <2>2. CASE \E bs \in Batches[Main] : SyncImports(bs)
    BY SMTT(60), <1>0, <2>2 DEF SyncImports, PutChain, PutChainRollback, Enter
  <2>3. CASE \E b \in Broadcasts : BroadcastArrives(b)
    BY <1>0, <2>3 DEF BroadcastArrives, StoreBroadcast
  <2> QED BY Zenon, <1>3, <2>1, <2>2, <2>3 DEF MainNext
<1>4. CASE NodeCrash BY Zenon, <1>4 DEF NodeCrash, Crash, ClearMemory
<1>5. ASSUME NEW t \in Thread, NodeStep(t) PROVE CallerInv'
  <2>1. CASE PutHeader(t) \/ PutTransactions(t) \/ PutByHash(t) \/ PutByLevel(t)
    BY SMTT(60), <1>0, <1>5, <2>1 DEF NodeStep, PutHeader, PutTransactions, PutByHash, PutByLevel
  <2>2. CASE SetRolledBackHeader(t) \/ RemoveStale(t) \/ SetHeader(t)
    BY SMTT(60), <1>0, <1>5, <2>2 DEF NodeStep, SetRolledBackHeader, RemoveStale, SetHeader
  <2>3. CASE Finish(t) \/ Reject(t) \/ Repack(t)
    BY SMTT(60), <1>0, <1>5, <2>3
       DEF NodeStep, Finish, Reject, Repack, Processing, Return, ReturnError, LeaveTo
  <2>4. CASE Panic(t)
    BY SMTT(60), <1>0, <1>5, <2>4 DEF NodeStep, Panic, Processing, LeaveTo, ClearMemory
  <2>5. CASE AcceptOnHead(t) \/ StoreFork(t) \/ AdoptFork(t)
    BY SMTT(60), <1>0, <1>5, <2>5 DEF NodeStep, AcceptOnHead, StoreFork, AdoptFork, AcceptElsewhere,
                            Processing
  <2>6. CASE RejectFork(t)
    BY ZenonT(60), <1>0, <1>5, <2>6 DEF NodeStep, RejectFork, AcceptElsewhere, Processing,
                                        ReturnError,
                            LeaveTo
  <2> QED BY Zenon, <1>5, <2>1, <2>2, <2>3, <2>4, <2>5, <2>6 DEF NodeStep, Step
<1>6. CASE UNCHANGED nodeVars BY Zenon, <1>6 DEF nodeVars, vars
<1> QED BY Zenon, <1>1, <1>2, <1>3, <1>4, <1>5, <1>6 DEF NodeNext

\* put_chain does not refuse a block the miner has found before it looks at it,
\* however the head has moved since the template was built (SubmitAccepted).
THEOREM MinerCanAttach == NodeSpec => []SubmitAccepted
<1>1. NodeInit => CallerInv
  BY Zenon, ParameterAssumption, MinerAssumption DEF NodeInit, Init, CallerInv
<1>2. MinerInv /\ CallerInv /\ IndexNeverDangles /\ (mpc = "found" => pc[Miner] = "idle")
        => SubmitAccepted
  BY Zenon DEF MinerInv, CallerInv, IndexNeverDangles, SubmitAccepted, HasHeaderByHash
<1>3. CallerInv => (mpc = "found" => pc[Miner] = "idle") BY Zenon DEF CallerInv
<1> QED BY <1>1, <1>2, <1>3, CallerInvKept, MinerInvariance, NodeImplementsChain,
           Invariance, IndexSound, PTL DEF NodeSpec

\* In the node, too, the live state is the state of the head whenever no
\* put_chain runs (StateMatchesHead).
THEOREM NodeStateMatchesHead == NodeSpec => []StateMatchesHead
BY NodeImplementsChain, LiveStateMatchesHead, PTL

=============================================================================
