---------------------------- MODULE TreeDBProofs ----------------------------
(***************************************************************************)
(* Lookups in the state store are right and the store implements a map     *)
(* with saved versions, for any keys, values, batches and readers.  The    *)
(* argument: a tree agrees with its root given its parent (Coherent), every *)
(* parent is stored or empty and older than its child, and a lookup under  *)
(* way wants what the version it has come to has for its key.              *)
(***************************************************************************)
EXTENDS TreeDB, TLAPS

\* The values of a tree are those of its root, and what it does not hold is
\* what its parent has.
Coherent(t) ==
    \A k \in Key : IF k \in DOMAIN t.values THEN t.values[k] = t.root[k]
                                            ELSE t.root[k] = t.parent[k]

Known == DOMAIN db \cup {Empty}

\* Every stored tree agrees with its root; its parent is known and older.
TreesOk(d) ==
    /\ DOMAIN d \subseteq Content
    /\ \A r \in DOMAIN d : /\ d[r] \in Tree
                           /\ d[r].root = r
                           /\ Coherent(d[r])
                           /\ d[r].parent \in DOMAIN d \cup {Empty}
                           /\ Age[d[r].parent] < Age[r]

LiveInv ==
    /\ Coherent(head) /\ Coherent(staging)
    /\ staging.parent = head.root
    /\ head.root \in Known /\ head.parent \in Known
    /\ Age[head.parent] <= Age[head.root]

Unasked(x) == x.want = Nothing /\ x.ans = Nothing
Walking(x) == x.ans = Nothing /\ x.key \in Key /\ x.at \in Known /\ x.want = Visible(x.at[x.key])
ReadInv ==
    \A r \in Reader : /\ rd[r].pc = "idle" => Unasked(rd[r])
                      /\ rd[r].pc = "walk" => Walking(rd[r])
                      /\ rd[r].pc = "done" => rd[r].ans = rd[r].want

IInv == TypeOK /\ TreesOk(db) /\ LiveInv /\ ReadInv

-----------------------------------------------------------------------------
(* Trees *)

\* update keeps a tree a tree that agrees with its root and parent.
LEMMA UpdateFacts ==
    ASSUME NEW t \in Tree, Coherent(t), NEW batch \in Delta
    PROVE  /\ Update(t, batch) \in Tree
           /\ Coherent(Update(t, batch))
           /\ Update(t, batch).parent = t.parent
<1> DEFINE u == Update(t, batch)
<1>1. DOMAIN batch \subseteq Key /\ \A k \in DOMAIN batch : batch[k] \in Stored
  BY Zenon DEF Delta
<1>2. DOMAIN t.values \subseteq Key /\ \A k \in DOMAIN t.values : t.values[k] \in Stored
  BY DEF Tree, Delta
<1>3. u.root = [k \in Key |-> IF k \in DOMAIN batch THEN batch[k] ELSE t.root[k]]
  BY Zenon DEF Update
<1>4. u.root \in Content
  BY Zenon, <1>1, <1>3 DEF Tree, Content
<1>5. u.values = [k \in DOMAIN t.values \cup Changed(t, batch) |->
                    IF k \in Changed(t, batch) THEN batch[k] ELSE t.values[k]]
  BY Zenon DEF Update
<1>6. Changed(t, batch) \subseteq Key
  BY Zenon, <1>1 DEF Changed
<1>7. u.values \in [DOMAIN t.values \cup Changed(t, batch) -> Stored]
  BY Zenon, <1>1, <1>2, <1>5 DEF Changed
<1>8. u.values \in Delta
  BY Zenon, <1>2, <1>6, <1>7 DEF Delta
<1>9. u.parent = t.parent
  BY Zenon DEF Update
<1>10. Coherent(u)
  BY <1>3, <1>5, <1>9 DEF Coherent, Changed
<1>11. u \in Tree
  BY Zenon, <1>4, <1>8, <1>9 DEF Tree, Update
<1> QED BY Zenon, <1>9, <1>10, <1>11

\* subtree gives a tree over its argument, without values of its own.
LEMMA SubtreeFacts ==
    ASSUME NEW t \in Tree
    PROVE  /\ Subtree(t) \in Tree
           /\ Coherent(Subtree(t))
           /\ Subtree(t).parent = t.root /\ Subtree(t).root = t.root
<1>1. [k \in {} |-> Absent] \in Delta
  <2>1. [k \in {} |-> Absent] \in [{} -> Stored] OBVIOUS
  <2> QED BY Zenon, <2>1 DEF Delta
<1> QED BY Zenon, <1>1 DEF Subtree, Tree, Coherent

LEMMA NewTreeFacts == NewTree \in Tree /\ Coherent(NewTree) /\ Empty \in Content
<1>1. [k \in {} |-> Absent] \in Delta
  <2>1. [k \in {} |-> Absent] \in [{} -> Stored] OBVIOUS
  <2> QED BY Zenon, <2>1 DEF Delta
<1>2. Empty \in Content BY Zenon DEF Empty, Content
<1> QED BY Zenon, <1>1, <1>2 DEF NewTree, Tree, Coherent

\* A tree that agrees with its root and whose parent is known and older can be
\* stored.
LEMMA StoreFacts ==
    ASSUME NEW d, TreesOk(d), NEW t \in Tree, Coherent(t),
           t.parent \in DOMAIN d \cup {Empty}, Age[t.parent] < Age[t.root]
    PROVE  TreesOk(Store(d, t)) /\ DOMAIN Store(d, t) = DOMAIN d \cup {t.root}
<1>1. DOMAIN Store(d, t) = DOMAIN d \cup {t.root} BY Zenon DEF Store
<1>2. t.root \in Content BY Zenon DEF Tree
<1>3. ASSUME NEW r \in DOMAIN Store(d, t)
      PROVE  Store(d, t)[r] = IF r = t.root THEN t ELSE d[r]
  BY Zenon, <1>3 DEF Store
<1> QED BY Zenon, <1>1, <1>2, <1>3 DEF TreesOk

-----------------------------------------------------------------------------
(* Steps *)

\* What a step that leaves the lookups alone has to show: the trees on disk stay
\* sound and the known versions known, the live trees are sound.
LEMMA ChangeIInv ==
    ASSUME IInv, TreesOk(db'), Known \subseteq Known', LiveInv',
           head' \in Tree, staging' \in Tree, UNCHANGED rd
    PROVE  IInv'
<1>1. TypeOK' BY Zenon DEF IInv, TypeOK, TreesOk
<1>2. ReadInv' BY Zenon DEF IInv, ReadInv, Unasked, Walking
<1> QED BY Zenon, <1>1, <1>2 DEF IInv

LEMMA PutIInv ==
    ASSUME IInv, NEW w \in Writes, Put(w[1], w[2])
    PROVE  IInv'
<1>1. w[1] \in Key /\ w[2] \in Stored BY Zenon, BatchAssumption
<1>2. [x \in {w[1]} |-> w[2]] \in Delta
  <2>1. [x \in {w[1]} |-> w[2]] \in [{w[1]} -> Stored] BY Zenon, <1>1
  <2> QED BY ZenonT(60), <1>1, <2>1 DEF Delta
<1>3. staging \in Tree /\ Coherent(staging) BY Zenon DEF IInv, TypeOK, LiveInv
<1>4. staging' \in Tree /\ Coherent(staging)' /\ staging'.parent = staging.parent
  BY Zenon, <1>2, <1>3, UpdateFacts DEF Put, Coherent
<1>5. LiveInv' BY Zenon, <1>4 DEF IInv, LiveInv, Put, Known, Coherent
<1> QED BY Zenon, <1>4, <1>5, ChangeIInv DEF IInv, TypeOK, Put, Known

\* commit stores the staged tree; its parent, the old head, is known and older.
LEMMA CommitIInv ==
    ASSUME IInv, Commit
    PROVE  IInv'
<1>1. /\ staging \in Tree /\ Coherent(staging) /\ TreesOk(db)
      /\ staging.parent = head.root /\ head.root \in Known
      /\ Age[head.root] < Age[staging.root]
  <2>1. Age[head.root] \in Int /\ Age[staging.root] \in Int
    BY Zenon, AgeAssumption DEF IInv, TypeOK, Tree
  <2> QED BY Zenon, <2>1 DEF IInv, TypeOK, LiveInv, Commit, Grows
<1>2. TreesOk(db') /\ DOMAIN db' = DOMAIN db \cup {staging.root}
  BY Zenon, <1>1, StoreFacts DEF Commit, Known
<1>3. staging' \in Tree /\ Coherent(staging)' /\ staging'.parent = staging.root
  BY Zenon, <1>1, SubtreeFacts DEF Commit, Coherent
<1>4. Age[staging.parent] <= Age[staging.root]
  BY <1>1, AgeAssumption DEF IInv, TypeOK, Tree
<1>5. LiveInv' BY Zenon, <1>1, <1>2, <1>3, <1>4 DEF LiveInv, Commit, Known, Coherent
<1> QED BY Zenon, <1>1, <1>2, <1>3, <1>5, ChangeIInv DEF Commit, Known

LEMMA ResetIInv ==
    ASSUME IInv, NEW r \in DOMAIN db, Reset(r)
    PROVE  IInv'
<1>1. /\ db[r] \in Tree /\ Coherent(db[r]) /\ db[r].root = r
      /\ db[r].parent \in Known /\ Age[db[r].parent] < Age[r]
  BY Zenon DEF IInv, TreesOk, Known
<1>2. Age[db[r].parent] <= Age[db[r].root]
  BY <1>1, AgeAssumption DEF Tree
<1>3. staging' \in Tree /\ Coherent(staging)' /\ staging'.parent = db[r].root
  BY Zenon, <1>1, SubtreeFacts DEF Reset, Coherent
<1>4. LiveInv' BY Zenon, <1>1, <1>2, <1>3 DEF LiveInv, Reset, Known, Coherent
<1> QED BY Zenon, <1>1, <1>3, <1>4, ChangeIInv DEF IInv, Reset, Known

LEMMA RollbackIInv ==
    ASSUME IInv, Rollback
    PROVE  IInv'
<1>1. head \in Tree BY Zenon DEF IInv, TypeOK
<1>2. staging' \in Tree /\ Coherent(staging)' /\ staging'.parent = head.root
  BY Zenon, <1>1, SubtreeFacts DEF Rollback, Coherent
<1>3. LiveInv' BY Zenon, <1>2 DEF IInv, LiveInv, Rollback, Known, Coherent
<1> QED BY Zenon, <1>1, <1>2, <1>3, ChangeIInv DEF IInv, Rollback, Known

\* apply_non_commit stores a tree beside the one at r, under the same parent; it
\* may store it again under a root that lookups are at.
LEMMA ApplyNonCommitIInv ==
    ASSUME IInv, NEW r \in DOMAIN db, NEW batch \in Batches, ApplyNonCommit(r, batch)
    PROVE  IInv'
<1> DEFINE t == Update(db[r], batch)
<1>1. /\ db[r] \in Tree /\ Coherent(db[r]) /\ TreesOk(db)
      /\ db[r].parent \in DOMAIN db \cup {Empty} /\ Age[db[r].parent] < Age[r]
  BY Zenon DEF IInv, TreesOk
<1>2. t \in Tree /\ Coherent(t) /\ t.parent = db[r].parent
  BY Zenon, <1>1, UpdateFacts, BatchAssumption
<1>3. Age[t.parent] < Age[t.root]
  <2>1. Age[r] < Age[t.root] BY Zenon DEF ApplyNonCommit, Grows
  <2>2. Age[r] \in Int /\ Age[t.root] \in Int /\ Age[t.parent] \in Int
    BY Zenon, <1>1, <1>2, AgeAssumption DEF Tree, TreesOk
  <2> QED BY <1>1, <1>2, <2>1, <2>2
<1>4. TreesOk(db') /\ DOMAIN db' = DOMAIN db \cup {t.root}
  BY Zenon, <1>1, <1>2, <1>3, StoreFacts DEF ApplyNonCommit
<1>5. LiveInv' BY Zenon, <1>4 DEF IInv, LiveInv, ApplyNonCommit, Known, Coherent
<1> QED BY Zenon, <1>4, <1>5, ChangeIInv DEF IInv, TypeOK, ApplyNonCommit, Known

\* apply commits first, if there is something to commit, and then changes and
\* stores the head itself.
LEMMA ApplyIInv ==
    ASSUME IInv, NEW batch \in Batches, Apply(batch)
    PROVE  IInv'
<1> DEFINE c == Committed
           t == Update(c, batch)
           d == IF staging.root = head.root THEN db ELSE Store(db, staging)
<1>1. /\ head \in Tree /\ staging \in Tree /\ Coherent(head) /\ Coherent(staging)
      /\ TreesOk(db) /\ staging.parent = head.root
      /\ head.root \in Known /\ head.parent \in Known
      /\ Age[head.parent] <= Age[head.root]
  BY Zenon DEF IInv, TypeOK, LiveInv
<1>2. \A x \in Tree : Age[x.root] \in Int /\ Age[x.parent] \in Int
  BY Zenon, AgeAssumption DEF Tree
<1>3. /\ staging.root # head.root => Age[head.root] < Age[staging.root]
      /\ Age[c.root] < Age[t.root]
      /\ db' = Store(d, t) /\ head' = t /\ staging' = Subtree(t) /\ UNCHANGED rd
  BY Zenon, <1>1, <1>2 DEF Apply, Grows
<1>4. /\ TreesOk(d) /\ DOMAIN db \subseteq DOMAIN d
      /\ c \in Tree /\ Coherent(c) /\ c.parent \in Known
      /\ Age[c.parent] <= Age[c.root]
  <2>1. CASE staging.root = head.root
    BY Zenon, <1>1, <2>1 DEF Committed
  <2>2. CASE staging.root # head.root
    <3>1. staging.parent \in DOMAIN db \cup {Empty} /\ Age[staging.parent] < Age[staging.root]
      BY Zenon, <1>1, <1>3, <2>2 DEF Known
    <3>2. TreesOk(Store(db, staging)) /\ DOMAIN Store(db, staging) = DOMAIN db \cup {staging.root}
      BY Zenon, <1>1, <3>1, StoreFacts
    <3>3. c = staging /\ d = Store(db, staging) BY Zenon, <2>2 DEF Committed
    <3> QED BY <1>1, <1>2, <3>1, <3>2, <3>3
  <2> QED BY Zenon, <2>1, <2>2
<1>5. t \in Tree /\ Coherent(t) /\ t.parent = c.parent
  BY Zenon, <1>4, UpdateFacts, BatchAssumption
<1>6. Age[t.parent] < Age[t.root]
  BY SMTT(60), <1>2, <1>3, <1>4, <1>5
<1>7. TreesOk(db') /\ DOMAIN db' = DOMAIN d \cup {t.root}
  BY Zenon, <1>3, <1>4, <1>5, <1>6, StoreFacts DEF Known
<1>8. staging' \in Tree /\ Coherent(staging)' /\ staging'.parent = t.root
  BY Zenon, <1>3, <1>5, SubtreeFacts DEF Coherent
<1>9. LiveInv'
  <2>1. Age[t.parent] <= Age[t.root] BY <1>2, <1>5, <1>6
  <2> QED BY Zenon, <1>3, <1>4, <1>5, <1>7, <1>8, <2>1 DEF LiveInv, Known, Coherent
<1> QED BY Zenon, <1>3, <1>4, <1>5, <1>7, <1>8, <1>9, ChangeIInv DEF Known

LEMMA IdleFacts == Idle.pc = "idle" /\ Unasked(Idle)
BY Zenon DEF Idle, Unasked

LEMMA OpenIInv ==
    ASSUME IInv, Open
    PROVE  IInv'
<1>1. head' \in Tree /\ Coherent(head') /\ head'.root = Empty /\ head'.parent = Empty
  BY Zenon, NewTreeFacts DEF Open, NewTree
<1>2. staging' \in Tree /\ Coherent(staging') /\ staging'.parent = Empty
  BY Zenon, NewTreeFacts, SubtreeFacts DEF Open, NewTree
<1>3. Age[Empty] \in Int BY Zenon, AgeAssumption, NewTreeFacts
<1>4. LiveInv' BY <1>1, <1>2, <1>3 DEF LiveInv, Known, Coherent
<1>5. rd' = [r \in Reader |-> Idle] /\ db' = db BY Zenon DEF Open
<1>6. TypeOK' BY Zenon, <1>1, <1>2, <1>5, NewTreeFacts DEF IInv, TypeOK, Idle
<1>7. ReadInv' BY Zenon, <1>5, IdleFacts DEF ReadInv
<1> QED BY Zenon, <1>4, <1>5, <1>6, <1>7 DEF IInv

\* What a lookup's own step has to show: only that lookup changes, to one that
\* is well typed and as it should be at its point.
Lookups == [pc : {"idle", "walk", "done"}, live : BOOLEAN,
            key : Key \cup {Absent}, at : Content,
            want : Stored \cup {Absent, Nothing}, ans : Stored \cup {Absent, Nothing}]
LookupOk(x) ==
    /\ x.pc = "idle" => Unasked(x)
    /\ x.pc = "walk" => Walking(x)
    /\ x.pc = "done" => x.ans = x.want

LEMMA ReadIInv ==
    ASSUME IInv, NEW r \in Reader, NEW x \in Lookups, LookupOk(x),
           rd' = [rd EXCEPT ![r] = x], UNCHANGED <<db, head, staging>>
    PROVE  IInv'
<1>1. rd' \in [Reader -> Lookups] BY Zenon DEF IInv, TypeOK, Lookups
<1>2. TypeOK' BY Zenon, <1>1 DEF IInv, TypeOK, Lookups
<1>3. \A q \in Reader : rd'[q] = IF q = r THEN x ELSE rd[q]
  BY Zenon DEF IInv, TypeOK
<1>4. ReadInv'
  BY <1>3 DEF IInv, ReadInv, LookupOk, Unasked, Walking, Known
<1> QED BY Zenon, <1>2, <1>4 DEF IInv, LiveInv, Known, Coherent

LEMMA VisibleFacts == \A v \in Stored \cup {Absent} : Visible(v) \in Stored \cup {Absent}
BY Zenon DEF Visible

LEMMA GetIInv ==
    ASSUME IInv, NEW r \in Reader, NEW k \in Key, Get(r, k)
    PROVE  IInv'
<1> DEFINE want == Visible(staging.root[k])
           told == [pc |-> "done", live |-> TRUE, key |-> k, at |-> head.root,
                    want |-> want, ans |-> Visible(staging.values[k])]
           walk == [pc |-> "walk", live |-> TRUE, key |-> k, at |-> head.root,
                    want |-> want, ans |-> Nothing]
<1>1. /\ staging.root[k] \in Stored \cup {Absent} /\ head.root \in Content
      /\ IF k \in DOMAIN staging.values THEN staging.values[k] = staging.root[k]
                                         ELSE staging.root[k] = head.root[k]
      /\ head.root \in Known
  BY Zenon DEF IInv, TypeOK, Tree, Content, LiveInv, Coherent
<1>2. want \in Stored \cup {Absent} BY Zenon, <1>1, VisibleFacts
<1>3. CASE k \in DOMAIN staging.values
  <2>1. told \in Lookups /\ LookupOk(told) BY Zenon, <1>1, <1>2, <1>3 DEF Lookups, LookupOk
  <2>2. rd' = [rd EXCEPT ![r] = told] BY Zenon, <1>3 DEF Get
  <2> QED BY ZenonT(60), <2>1, <2>2, ReadIInv DEF Get
<1>4. CASE k \notin DOMAIN staging.values
  <2>1. walk \in Lookups /\ LookupOk(walk) BY Zenon, <1>1, <1>2, <1>4 DEF Lookups, LookupOk, Walking
  <2>2. rd' = [rd EXCEPT ![r] = walk] BY Zenon, <1>4 DEF Get
  <2> QED BY ZenonT(60), <2>1, <2>2, ReadIInv DEF Get
<1> QED BY Zenon, <1>3, <1>4

LEMMA GetAtRootIInv ==
    ASSUME IInv, NEW r \in Reader, NEW root \in DOMAIN db, NEW k \in Key, GetAtRoot(r, root, k)
    PROVE  IInv'
<1> DEFINE want == Visible(root[k])
           told == [pc |-> "done", live |-> FALSE, key |-> k, at |-> root,
                    want |-> want, ans |-> Visible(db[root].values[k])]
           walk == [pc |-> "walk", live |-> FALSE, key |-> k, at |-> root,
                    want |-> want, ans |-> Nothing]
<1>1. /\ root \in Content /\ root[k] \in Stored \cup {Absent} /\ root \in Known
      /\ k \in DOMAIN db[root].values => db[root].values[k] = root[k]
  BY DEF IInv, TreesOk, Content, Coherent, Known
<1>2. want \in Stored \cup {Absent} BY Zenon, <1>1, VisibleFacts
<1>3. CASE k \in DOMAIN db[root].values
  <2>1. told \in Lookups /\ LookupOk(told) BY Zenon, <1>1, <1>2, <1>3 DEF Lookups, LookupOk
  <2>2. rd' = [rd EXCEPT ![r] = told] BY Zenon, <1>3 DEF GetAtRoot
  <2> QED BY ZenonT(60), <2>1, <2>2, ReadIInv DEF GetAtRoot
<1>4. CASE k \notin DOMAIN db[root].values
  <2>1. walk \in Lookups /\ LookupOk(walk) BY Zenon, <1>1, <1>2, <1>4 DEF Lookups, LookupOk, Walking
  <2>2. rd' = [rd EXCEPT ![r] = walk] BY Zenon, <1>4 DEF GetAtRoot
  <2> QED BY ZenonT(60), <2>1, <2>2, ReadIInv DEF GetAtRoot
<1> QED BY Zenon, <1>3, <1>4

\* A lookup under way stands at a version that has what it wants.
LEMMA WalkFacts ==
    ASSUME IInv, NEW r \in Reader, rd[r].pc = "walk"
    PROVE  /\ rd[r] \in Lookups /\ Walking(rd[r])
           /\ rd[r].at \notin DOMAIN db => rd[r].want = Absent
           /\ rd[r].at \in DOMAIN db =>
                LET t == db[rd[r].at]
                IN  /\ rd[r].key \in DOMAIN t.values => rd[r].want = Visible(t.values[rd[r].key])
                    /\ rd[r].key \notin DOMAIN t.values => rd[r].want = Visible(t.parent[rd[r].key])
                    /\ t.parent # t.root /\ t.parent \in Known /\ t.parent \in Content
<1>1. rd[r] \in Lookups /\ Walking(rd[r])
  BY Zenon DEF IInv, TypeOK, Lookups, ReadInv
<1>2. ASSUME rd[r].at \notin DOMAIN db PROVE rd[r].want = Absent
  BY Zenon, <1>1, <1>2 DEF Walking, Known, Empty, Visible
<1>3. ASSUME rd[r].at \in DOMAIN db
      PROVE  /\ db[rd[r].at] \in Tree /\ db[rd[r].at].root = rd[r].at /\ Coherent(db[rd[r].at])
             /\ db[rd[r].at].parent \in Known
             /\ Age[db[rd[r].at].parent] < Age[rd[r].at]
  BY Zenon, <1>3 DEF IInv, TreesOk, Known
<1>4. ASSUME rd[r].at \in DOMAIN db
      PROVE  db[rd[r].at].parent # db[rd[r].at].root
  <2>1. Age[rd[r].at] \in Int BY Zenon, <1>1, AgeAssumption DEF Lookups
  <2> QED BY <1>3, <1>4, <2>1
<1> QED BY Zenon, <1>1, <1>2, <1>3, <1>4 DEF Walking, Coherent, Tree

\* A descent ends with the value that was asked for, or goes on to a parent that
\* has the same value: the parent of a stored tree is never the tree itself.
LEMMA DescendCases ==
    ASSUME IInv, NEW r \in Reader, Descend(r)
    PROVE  \/ rd' = [rd EXCEPT ![r].pc = "done", ![r].ans = rd[r].want]
           \/ \E c \in Known : /\ c \in Content
                               /\ rd[r].want = Visible(c[rd[r].key])
                               /\ rd' = [rd EXCEPT ![r].at = c]
<1>1. rd[r].pc = "walk" BY Zenon DEF Descend
<1>2. CASE rd[r].at \notin DOMAIN db
  BY ZenonT(60), <1>1, <1>2, WalkFacts DEF Descend, Tell
<1>3. CASE rd[r].at \in DOMAIN db /\ rd[r].key \in DOMAIN db[rd[r].at].values
  BY ZenonT(60), <1>1, <1>3, WalkFacts DEF Descend, Tell
<1>4. CASE rd[r].at \in DOMAIN db /\ rd[r].key \notin DOMAIN db[rd[r].at].values
  BY ZenonT(60), <1>1, <1>4, WalkFacts DEF Descend, Tell
<1> QED BY Zenon, <1>2, <1>3, <1>4

LEMMA DescendIInv ==
    ASSUME IInv, NEW r \in Reader, Descend(r)
    PROVE  IInv'
<1>1. rd[r] \in Lookups /\ Walking(rd[r]) /\ rd[r].pc = "walk"
  BY ZenonT(60), WalkFacts DEF Descend
<1>2. UNCHANGED <<db, head, staging>> BY Zenon DEF Descend
<1>3. CASE rd' = [rd EXCEPT ![r].pc = "done", ![r].ans = rd[r].want]
  <2> DEFINE x == [rd[r] EXCEPT !.pc = "done", !.ans = rd[r].want]
  <2>1. x \in Lookups /\ LookupOk(x) BY ZenonT(60), <1>1 DEF Lookups, LookupOk
  <2>2. rd' = [rd EXCEPT ![r] = x] BY ZenonT(60), <1>3 DEF IInv, TypeOK
  <2> QED BY ZenonT(60), <1>2, <2>1, <2>2, ReadIInv
<1>4. ASSUME NEW c \in Known, c \in Content, rd[r].want = Visible(c[rd[r].key]),
             rd' = [rd EXCEPT ![r].at = c]
      PROVE  IInv'
  <2> DEFINE x == [rd[r] EXCEPT !.at = c]
  <2>1. x \in Lookups /\ LookupOk(x) BY Zenon, <1>1, <1>4 DEF Lookups, LookupOk, Walking
  <2>2. rd' = [rd EXCEPT ![r] = x] BY Zenon, <1>4 DEF IInv, TypeOK
  <2> QED BY ZenonT(60), <1>2, <2>1, <2>2, ReadIInv
<1> QED BY Zenon, <1>3, <1>4, DescendCases

LEMMA DoneIInv ==
    ASSUME IInv, NEW r \in Reader, Done(r)
    PROVE  IInv'
<1>1. Idle \in Lookups /\ LookupOk(Idle)
  BY Zenon, IdleFacts, NewTreeFacts DEF Idle, Lookups, LookupOk
<1> QED BY ZenonT(60), <1>1, ReadIInv DEF Done

LEMMA InitIInv ==
    ASSUME Init
    PROVE  IInv
<1>1. head \in Tree /\ Coherent(head) /\ head.root = Empty /\ head.parent = Empty
  BY Zenon, NewTreeFacts DEF Init, NewTree
<1>2. staging \in Tree /\ Coherent(staging) /\ staging.parent = Empty
  BY Zenon, NewTreeFacts, SubtreeFacts DEF Init, NewTree
<1>3. Age[Empty] \in Int BY Zenon, AgeAssumption, NewTreeFacts
<1>4. LiveInv BY <1>1, <1>2, <1>3 DEF LiveInv, Known
<1>5. TypeOK BY Zenon, <1>1, <1>2, NewTreeFacts DEF Init, TypeOK, Idle
<1>6. ReadInv BY Zenon, IdleFacts DEF Init, ReadInv
<1>7. TreesOk(db) BY Zenon DEF Init, TreesOk
<1> QED BY Zenon, <1>4, <1>5, <1>6, <1>7 DEF IInv

LEMMA StepIInv ==
    ASSUME IInv, [Next]_vars
    PROVE  IInv'
<1>1. CASE Change
  BY Zenon, <1>1, PutIInv, CommitIInv, RollbackIInv, OpenIInv, ResetIInv, ApplyNonCommitIInv, ApplyIInv
     DEF Change
<1>2. ASSUME NEW r \in Reader, Lookup(r) PROVE IInv'
  BY Zenon, <1>2, GetIInv, GetAtRootIInv, DoneIInv DEF Lookup
<1>3. ASSUME NEW r \in Reader, Descend(r) PROVE IInv'
  BY Zenon, <1>3, DescendIInv
<1>4. CASE UNCHANGED vars
  <2>1. db' = db /\ head' = head /\ staging' = staging /\ rd' = rd BY Zenon, <1>4 DEF vars
  <2>2. TypeOK' BY Zenon, <2>1 DEF IInv, TypeOK
  <2>3. TreesOk(db)' BY SMTT(60), <2>1 DEF IInv, TreesOk, Coherent
  <2>4. LiveInv' BY Zenon, <2>1 DEF IInv, LiveInv, Coherent, Known
  <2>5. ReadInv' BY Zenon, <2>1 DEF IInv, ReadInv, Unasked, Walking, Known
  <2> QED BY Zenon, <2>2, <2>3, <2>4, <2>5 DEF IInv
<1> QED BY Zenon, <1>1, <1>2, <1>3, <1>4 DEF Next

\* A lookup (get, get_at_root) returns the value its root commits to, although
\* the trees it descends through are committed, reset, forked and stored again
\* meanwhile: for any number of accounts, versions and readers.
THEOREM LookupsAreRight == Spec => []ReadIsRight
<1>1. Init => IInv BY Zenon, InitIInv
<1>2. IInv /\ [Next]_vars => IInv' BY Zenon, StepIInv
<1>3. IInv => ReadIsRight BY Zenon DEF IInv, ReadInv, ReadIsRight
<1> QED BY <1>1, <1>2, <1>3, PTL DEF Spec

\* Every operation of the store leaves trees, versions and lookups well formed.
THEOREM StoreTypeCorrect == Spec => []TypeOK
<1>1. IInv => TypeOK BY Zenon DEF IInv
<1> QED BY <1>1, InitIInv, StepIInv, PTL DEF Spec

-----------------------------------------------------------------------------
(* The store implements VersionedState *)

owed == [r \in Reader |-> rd[r].want]
got == [r \in Reader |-> rd[r].ans]

\* A change of the trees that leaves the lookups alone maps to the abstract
\* action on the saved, the current and the worked-on version.
LEMMA ChangeRefines ==
    ASSUME IInv, Change
    PROVE  Abstract!VNext
<1> USE DEF Abstract!Content, Abstract!Empty
<1>1. UNCHANGED rd => owed' = owed /\ got' = got BY Zenon DEF owed, got
<1>2. staging.root \in Content /\ head.root \in Content
  BY Zenon DEF IInv, TypeOK, Tree
<1>3. ASSUME NEW w \in Writes, Put(w[1], w[2]) PROVE Abstract!Write
  <2>1. w[1] \in Key /\ w[2] \in Stored BY Zenon, BatchAssumption
  <2>2. staging'.root = [staging.root EXCEPT ![w[1]] = w[2]]
    BY Zenon, <1>2, <1>3, <2>1 DEF Put, Update, Content
  <2> QED BY Zenon, <1>1, <1>3, <2>1, <2>2 DEF Put, Abstract!Write, owed, got
<1>4. ASSUME Commit PROVE Abstract!Save
  BY Zenon, <1>1, <1>4 DEF Commit, Store, Subtree, Abstract!Save, owed, got
<1>5. ASSUME Rollback PROVE Abstract!Return(head.root)
  BY Zenon, <1>1, <1>5 DEF Rollback, Subtree, Abstract!Return, owed, got
<1>6. ASSUME Open PROVE Abstract!Restart
  BY Zenon, <1>6 DEF Open, NewTree, Subtree, Idle, Empty, Abstract!Restart
<1>7. ASSUME NEW r \in DOMAIN db, Reset(r) PROVE Abstract!Return(r) /\ r \in Content
  <2>1. db[r].root = r /\ r \in Content BY Zenon DEF IInv, TreesOk
  <2> QED BY Zenon, <1>1, <1>7, <2>1 DEF Reset, Subtree, Abstract!Return, owed, got
<1>8. ASSUME NEW r \in DOMAIN db, NEW batch \in Batches, ApplyNonCommit(r, batch)
      PROVE  Abstract!Fork
  <2>1. db[r] \in Tree /\ Coherent(db[r]) BY Zenon DEF IInv, TreesOk
  <2>2. Update(db[r], batch).root \in Content BY Zenon, <2>1, UpdateFacts, BatchAssumption DEF Tree
  <2>3. DOMAIN db' = DOMAIN db \cup {Update(db[r], batch).root}
    BY Zenon, <1>8 DEF ApplyNonCommit, Store
  <2> QED BY Zenon, <1>1, <1>8, <2>2, <2>3 DEF ApplyNonCommit, Content, Abstract!Fork, owed, got
<1>9. ASSUME NEW batch \in Batches, Apply(batch) PROVE Abstract!SaveNew
  <2> DEFINE t == Update(Committed, batch)
  <2>1. Committed \in Tree /\ Coherent(Committed) BY Zenon DEF IInv, TypeOK, LiveInv, Committed
  <2>2. t.root \in Content BY Zenon, <2>1, UpdateFacts, BatchAssumption DEF Tree
  <2>3. head'.root = t.root /\ staging'.root = t.root BY Zenon, <1>9 DEF Apply, Subtree
  <2>4. \/ DOMAIN db' = DOMAIN db \cup {t.root}
        \/ DOMAIN db' = DOMAIN db \cup {staging.root, t.root}
    BY Zenon, <1>9 DEF Apply, Store
  <2>5. UNCHANGED <<owed, got>> BY Zenon, <1>1, <1>9 DEF Apply
  <2> QED BY ZenonT(60), <2>2, <2>3, <2>4, <2>5 DEF Content, Abstract!SaveNew, owed, got
<1> QED
  BY Zenon, <1>2, <1>3, <1>4, <1>5, <1>6, <1>7, <1>8, <1>9 DEF Change, Content, Abstract!VNext

\* A lookup asks, is answered with what it was owed, or moves on unseen.
LEMMA LookupRefines ==
    ASSUME IInv, NEW r \in Reader, Lookup(r) \/ Descend(r)
    PROVE  Abstract!VNext \/ UNCHANGED <<DOMAIN db, head.root, staging.root, owed, got>>
<1>1. /\ rd \in [Reader -> Lookups]
      /\ rd[r].pc \in {"idle", "walk"} => rd[r].ans = Nothing
  BY Zenon DEF IInv, TypeOK, Lookups, ReadInv, Unasked, Walking
<1>2. got[r] = rd[r].ans /\ owed[r] = rd[r].want BY Zenon DEF owed, got
<1>3. ASSUME NEW k \in Key, Get(r, k)
      PROVE  Abstract!Ask(r) \/ Abstract!AskAndAnswer(r)
  <2> DEFINE want == Visible(staging.root[k])
             told == [pc |-> "done", live |-> TRUE, key |-> k, at |-> head.root,
                      want |-> want, ans |-> Visible(staging.values[k])]
             walk == [pc |-> "walk", live |-> TRUE, key |-> k, at |-> head.root,
                      want |-> want, ans |-> Nothing]
  <2>1. CASE k \in DOMAIN staging.values
    <3>1. staging.values[k] = staging.root[k] BY Zenon, <2>1 DEF IInv, LiveInv, Coherent
    <3>2. rd' = [rd EXCEPT ![r] = told] BY Zenon, <1>3, <2>1 DEF Get
    <3>3. owed' = [owed EXCEPT ![r] = want] /\ got' = [got EXCEPT ![r] = want]
      BY ZenonT(60), <1>1, <3>1, <3>2 DEF owed, got
    <3> QED
      BY ZenonT(60), <1>3, <3>3 DEF Get, Visible, Abstract!AskAndAnswer, Abstract!Visible, owed, got
  <2>2. CASE k \notin DOMAIN staging.values
    <3>1. rd' = [rd EXCEPT ![r] = walk] BY ZenonT(60), <1>3, <2>2 DEF Get
    <3>2. owed' = [owed EXCEPT ![r] = want] /\ got' = [got EXCEPT ![r] = Nothing]
      BY ZenonT(60), <1>1, <3>1 DEF owed, got
    <3>3. got' = got BY Zenon, <1>1, <1>2, <1>3, <3>2 DEF Get, got
    <3> QED
      BY ZenonT(60), <1>3, <3>2, <3>3 DEF Get, Visible, Abstract!Ask, Abstract!Visible, owed, got
  <2> QED BY Zenon, <2>1, <2>2
<1>4. ASSUME NEW root \in DOMAIN db, NEW k \in Key, GetAtRoot(r, root, k)
      PROVE  Abstract!Ask(r) \/ Abstract!AskAndAnswer(r)
  <2> DEFINE want == Visible(root[k])
             told == [pc |-> "done", live |-> FALSE, key |-> k, at |-> root,
                      want |-> want, ans |-> Visible(db[root].values[k])]
             walk == [pc |-> "walk", live |-> FALSE, key |-> k, at |-> root,
                      want |-> want, ans |-> Nothing]
  <2>1. CASE k \in DOMAIN db[root].values
    <3>1. db[root].values[k] = root[k] BY ZenonT(60), <2>1 DEF IInv, TreesOk, Coherent
    <3>2. rd' = [rd EXCEPT ![r] = told] BY ZenonT(60), <1>4, <2>1 DEF GetAtRoot
    <3>3. owed' = [owed EXCEPT ![r] = want] /\ got' = [got EXCEPT ![r] = want]
      BY ZenonT(60), <1>1, <3>1, <3>2 DEF owed, got
    <3> QED
      BY ZenonT(60), <1>4, <3>3 DEF GetAtRoot, Visible, Abstract!AskAndAnswer, Abstract!Visible,
                                    owed, got
  <2>2. CASE k \notin DOMAIN db[root].values
    <3>1. rd' = [rd EXCEPT ![r] = walk] BY Zenon, <1>4, <2>2 DEF GetAtRoot
    <3>2. owed' = [owed EXCEPT ![r] = want] /\ got' = [got EXCEPT ![r] = Nothing]
      BY ZenonT(60), <1>1, <3>1 DEF owed, got
    <3>3. got' = got BY ZenonT(60), <1>1, <1>2, <1>4, <3>2 DEF GetAtRoot, got
    <3> QED
      BY ZenonT(60), <1>4, <3>2, <3>3 DEF GetAtRoot, Visible, Abstract!Ask, Abstract!Visible,
                                          owed, got
  <2> QED BY Zenon, <2>1, <2>2
<1>5. ASSUME Done(r) PROVE Abstract!Forget(r)
  <2>1. rd' = [rd EXCEPT ![r] = Idle] BY Zenon, <1>5 DEF Done
  <2>2. owed' = [owed EXCEPT ![r] = Nothing] /\ got' = [got EXCEPT ![r] = Nothing]
    BY ZenonT(60), <1>1, <2>1 DEF Idle, owed, got
  <2> QED BY Zenon, <1>5, <2>2 DEF Done, Abstract!Forget, owed, got
<1>6. ASSUME Descend(r)
      PROVE  Abstract!Answer(r) \/ UNCHANGED <<DOMAIN db, head.root, staging.root, owed, got>>
  <2>1. UNCHANGED <<db, head, staging>> BY Zenon, <1>6 DEF Descend
  <2>2. CASE rd' = [rd EXCEPT ![r].pc = "done", ![r].ans = rd[r].want]
    <3>1. owed' = owed /\ got' = [got EXCEPT ![r] = rd[r].want]
      BY Zenon, <1>1, <2>2 DEF owed, got, Lookups
    <3> QED BY Zenon, <1>2, <2>1, <3>1 DEF Abstract!Answer, owed, got
  <2>3. ASSUME NEW c, rd' = [rd EXCEPT ![r].at = c] PROVE owed' = owed /\ got' = got
    BY Zenon, <1>1, <2>3 DEF owed, got, Lookups
  <2> QED BY Zenon, <1>6, <2>1, <2>2, <2>3, DescendCases
<1> QED BY Zenon, <1>3, <1>4, <1>5, <1>6 DEF Lookup, Abstract!VNext

\* The trees on disk, each a difference to its parent, with lookups that descend
\* through them, implement a map that is saved, restored and forked and whose
\* readers get the value of the version they asked for.
THEOREM StoreImplementsVersionedState == Spec => ImplementsVersionedState
<1>1. Init => IInv BY Zenon, InitIInv
<1>2. IInv /\ [Next]_vars => IInv' BY Zenon, StepIInv
<1>3. Init => Abstract!VInit
  BY DEF Init, NewTree, Subtree, Idle, Empty, Abstract!VInit, Abstract!Empty
<1>4. IInv /\ [Next]_vars => [Abstract!VNext]_(Abstract!vs)
  <2> SUFFICES ASSUME IInv, [Next]_vars PROVE [Abstract!VNext]_(Abstract!vs) OBVIOUS
  <2>1. CASE UNCHANGED vars BY Zenon, <2>1 DEF vars, Abstract!vs
  <2>2. CASE Change BY Zenon, <2>2, ChangeRefines
  <2>3. ASSUME NEW r \in Reader, Lookup(r) \/ Descend(r) PROVE [Abstract!VNext]_(Abstract!vs)
    BY Zenon, <2>3, LookupRefines DEF Abstract!vs, owed, got
  <2> QED BY Zenon, <2>1, <2>2, <2>3 DEF Next
<1> QED BY <1>1, <1>2, <1>3, <1>4, PTL DEF Spec, ImplementsVersionedState, Abstract!VSpec

=============================================================================
