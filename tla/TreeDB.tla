------------------------------- MODULE TreeDB -------------------------------
(***************************************************************************)
(* The state store.  A version of the accounts is a sparse Merkle tree that *)
(* holds only the values changed since its parent version: its nodes give  *)
(* its root, and a value it does not hold is looked for in its parent, the *)
(* parent's parent and so on (CopyStrategy::Partial).  head is the last    *)
(* committed tree, staging its subtree that is worked on, db the trees on  *)
(* disk.                                                                   *)
(*                                                                         *)
(* A root hash stands for the whole content it commits to, so a root is a  *)
(* function from keys to values; the zero root is Empty.  A lookup reads   *)
(* the disk once per version it descends through.  Lookups in the live     *)
(* tree hold both read locks; lookups at a root and apply_non_commit hold  *)
(* none, so trees can be stored while a lookup descends.                   *)
(***************************************************************************)
EXTENDS Integers, FiniteSets

CONSTANTS
    Key, Value, Absent, Deleted, Nothing, Reader,
    Age,         \* an age of contents: every block makes its state older
    Writes,      \* <<key, value>> pairs that are put
    Batches,     \* the changes a block can make
    MaxTrees     \* bound on the trees stored

Stored == Value \cup {Deleted}
Content == [Key -> Stored \cup {Absent}]
Empty == [k \in Key |-> Absent]

ASSUME ValueAssumption ==
    Absent \notin Stored /\ Deleted \notin Value /\ Nothing \notin Stored \cup {Absent}
ASSUME AgeAssumption == Age \in [Content -> Int]
Delta == UNION {[S -> Stored] : S \in SUBSET Key}
ASSUME BatchAssumption == Batches \subseteq Delta /\ Writes \subseteq Key \X Stored

Tree == [root : Content, parent : Content, values : Delta]

VARIABLES
    db,         \* root |-> the tree stored under it
    head, staging,
    rd          \* the lookups under way

vars == <<db, head, staging, rd>>

Idle == [pc |-> "idle", live |-> FALSE, key |-> Absent, at |-> Empty,
         want |-> Nothing, ans |-> Nothing]

TypeOK ==
    /\ DOMAIN db \subseteq Content
    /\ \A r \in DOMAIN db : db[r] \in Tree
    /\ head \in Tree /\ staging \in Tree
    /\ rd \in [Reader -> [pc : {"idle", "walk", "done"}, live : BOOLEAN,
                          key : Key \cup {Absent}, at : Content,
                          want : Stored \cup {Absent, Nothing},
                          ans : Stored \cup {Absent, Nothing}]]

-----------------------------------------------------------------------------
(* Sparse Merkle trees. *)

NewTree == [root |-> Empty, parent |-> Empty, values |-> [k \in {} |-> Absent]]

\* Mutant: subtree does not set the parent.
Subtree_NoParent(t) == [root |-> t.root, parent |-> Empty, values |-> [k \in {} |-> Absent]]

\* subtree(Partial, []): the same nodes, no values.
Subtree(t) == [root |-> t.root, parent |-> t.root, values |-> [k \in {} |-> Absent]]

\* update() for each key of a batch.  A value that is there already is not
\* stored again.
Changed(t, batch) == {k \in DOMAIN batch : batch[k] # t.root[k]}
Update(t, batch) ==
    [root |-> [k \in Key |-> IF k \in DOMAIN batch THEN batch[k] ELSE t.root[k]],
     parent |-> t.parent,
     values |-> [k \in DOMAIN t.values \cup Changed(t, batch) |->
                   IF k \in Changed(t, batch) THEN batch[k] ELSE t.values[k]]]

Room(d) == Cardinality(DOMAIN d) <= MaxTrees
Store(d, t) == [r \in DOMAIN d \cup {t.root} |-> IF r = t.root THEN t ELSE d[r]]

\* IValue::Deleted decodes to None.
Visible(v) == IF v = Deleted THEN Absent ELSE v

-----------------------------------------------------------------------------
Init ==
    /\ db = [r \in {} |-> NewTree]
    /\ head = NewTree
    /\ staging = Subtree(NewTree)
    /\ rd = [r \in Reader |-> Idle]

\* The write locks are free when no lookup in the live tree is under way.
Writable == \A r \in Reader : rd[r].live => rd[r].pc # "walk"

\* put, and delete, which puts Deleted.
Put(k, v) ==
    /\ Writable
    /\ staging' = Update(staging, [x \in {k} |-> v])
    /\ UNCHANGED <<db, head, rd>>

\* Mutant: a block that changes accounts without a reward.
Grows_NoReward(from, to) == TRUE

\* Every block credits its coinbase, and a sender's nonce never falls.
Grows(from, to) == Age[to] > Age[from]

Commit ==
    /\ Writable
    /\ staging.root # head.root
    /\ Grows(head.root, staging.root)
    /\ db' = Store(db, staging) /\ Room(db')
    /\ head' = staging
    /\ staging' = Subtree(staging)
    /\ UNCHANGED rd

Reset(r) ==
    /\ Writable
    /\ r \in DOMAIN db
    /\ head' = db[r]
    /\ staging' = Subtree(db[r])
    /\ UNCHANGED <<db, rd>>

Rollback ==
    /\ Writable
    /\ staging' = Subtree(head)
    /\ UNCHANGED <<db, head, rd>>

\* Mutant: only the new values are stored, under the old parent.
ApplyNonCommit_DropsValues(r, batch) ==
    /\ r \in DOMAIN db
    /\ LET t == Update([db[r] EXCEPT !.values = [k \in {} |-> Absent]], batch)
       IN  /\ Grows(r, t.root)
           /\ db' = Store(db, t) /\ Room(db')
    /\ UNCHANGED <<head, staging, rd>>

\* Without a lock: the tree at r with the changes, stored under its new root.
\* Its parent is the parent of r.
ApplyNonCommit(r, batch) ==
    /\ r \in DOMAIN db
    /\ LET t == Update(db[r], batch)
       IN  /\ Grows(r, t.root)
           /\ db' = Store(db, t) /\ Room(db')
    /\ UNCHANGED <<head, staging, rd>>

\* apply: a commit, after which head itself is changed and stored.
Committed == IF staging.root = head.root THEN head ELSE staging
Apply(batch) ==
    /\ Writable
    /\ LET t == Update(Committed, batch)
       IN  /\ staging.root # head.root => Grows(head.root, staging.root)
           /\ Grows(Committed.root, t.root)
           /\ db' = Store(IF staging.root = head.root THEN db ELSE Store(db, staging), t)
           /\ Room(db')
           /\ head' = t
           /\ staging' = Subtree(t)
    /\ UNCHANGED rd

\* The process starts anew.  No root is ever recorded, so it starts empty.
Open ==
    /\ head' = NewTree
    /\ staging' = Subtree(NewTree)
    /\ rd' = [r \in Reader |-> Idle]
    /\ UNCHANGED db

-----------------------------------------------------------------------------
(* Lookups. *)

\* get: the staged value, or a descent from the head.
Get(r, k) ==
    /\ rd[r].pc = "idle"
    /\ LET want == Visible(staging.root[k])
       IN  rd' = [rd EXCEPT ![r] =
                    IF k \in DOMAIN staging.values
                    THEN [pc |-> "done", live |-> TRUE, key |-> k, at |-> head.root,
                          want |-> want, ans |-> Visible(staging.values[k])]
                    ELSE [pc |-> "walk", live |-> TRUE, key |-> k, at |-> head.root,
                          want |-> want, ans |-> Nothing]]
    /\ UNCHANGED <<db, head, staging>>

\* get_at_root: the same from a stored tree, without a lock.
GetAtRoot(r, root, k) ==
    /\ rd[r].pc = "idle"
    /\ root \in DOMAIN db
    /\ LET want == Visible(root[k])
       IN  rd' = [rd EXCEPT ![r] =
                    IF k \in DOMAIN db[root].values
                    THEN [pc |-> "done", live |-> FALSE, key |-> k, at |-> root,
                          want |-> want, ans |-> Visible(db[root].values[k])]
                    ELSE [pc |-> "walk", live |-> FALSE, key |-> k, at |-> root,
                          want |-> want, ans |-> Nothing]]
    /\ UNCHANGED <<db, head, staging>>

Tell(r, v) == rd' = [rd EXCEPT ![r].pc = "done", ![r].ans = v]

\* One turn of _get_descend.  A root that is not stored is an error, which the
\* callers take for a key that is not there.
Descend(r) ==
    /\ rd[r].pc = "walk"
    /\ LET at == rd[r].at
           k == rd[r].key
       IN  \/ /\ at \notin DOMAIN db
              /\ Tell(r, Absent)
           \/ /\ at \in DOMAIN db
              /\ k \in DOMAIN db[at].values
              /\ Tell(r, Visible(db[at].values[k]))
           \/ /\ at \in DOMAIN db
              /\ k \notin DOMAIN db[at].values
              /\ IF db[at].parent # db[at].root
                 THEN rd' = [rd EXCEPT ![r].at = db[at].parent]
                 ELSE Tell(r, Absent)
    /\ UNCHANGED <<db, head, staging>>

Done(r) ==
    /\ rd[r].pc = "done"
    /\ rd' = [rd EXCEPT ![r] = Idle]
    /\ UNCHANGED <<db, head, staging>>

Change ==
    \/ \E w \in Writes : Put(w[1], w[2])
    \/ Commit \/ Rollback \/ Open
    \/ \E r \in DOMAIN db : Reset(r) \/ \E batch \in Batches : ApplyNonCommit(r, batch)
    \/ \E batch \in Batches : Apply(batch)

Lookup(r) ==
    \/ \E k \in Key : Get(r, k) \/ \E root \in DOMAIN db : GetAtRoot(r, root, k)
    \/ Done(r)

Next == Change \/ \E r \in Reader : Lookup(r) \/ Descend(r)

Spec == Init /\ [][Next]_vars

\* A lookup that has started goes on.
FairSpec == Spec /\ \A r \in Reader : WF_vars(Descend(r))

-----------------------------------------------------------------------------
(* Properties. *)

\* A lookup returns the value its root commits to, whatever has been committed,
\* reset, forked or stored again since it began.
ReadIsRight == \A r \in Reader : rd[r].pc = "done" => rd[r].ans = rd[r].want

\* Every descent through parent versions ends.
ReadEnds == \A r \in Reader : (rd[r].pc = "walk") ~> (rd[r].pc # "walk")

\* The store implements a map with saved versions.
Abstract == INSTANCE VersionedState WITH
    saved <- DOMAIN db, current <- head.root, work <- staging.root,
    owed <- [r \in Reader |-> rd[r].want], got <- [r \in Reader |-> rd[r].ans]
ImplementsVersionedState == Abstract!VSpec

=============================================================================
