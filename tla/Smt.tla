--------------------------------- MODULE Smt ---------------------------------
(***************************************************************************)
(* The sparse Merkle tree under the state store (smt/src).  Nodes are kept *)
(* in a store by their hash; a hash is modelled by the data it is the hash *)
(* of, so a node is [k: "node", l, r], a leaf [k: "leaf", path, value] and *)
(* the all-zero hash Zero.  A path is a key's digest, its bits from the     *)
(* most significant one.                                                    *)
(***************************************************************************)
EXTENDS Integers, SequencesExt

CONSTANTS Depth,     \* path_size() * 8 = 256 in the code
          Paths,     \* the paths of the keys in use, sequences of Depth bits
          Values     \* the values, none of them empty

VARIABLES tree,      \* SparseMerkleTree: nodes, values, root (TreeDB models its parent)
          content    \* what has been put and not deleted: path -> value or Empty

vars == <<tree, content>>

Empty   == "empty"                       \* the empty byte string
Zero    == [k |-> "zero"]                \* placeholder()
Nothing == [k |-> "nothing"]             \* a Vec that holds no hash yet
Leaf(path, value) == [k |-> "leaf", path |-> path, value |-> value]
digest_node(l, r) == [k |-> "node", l |-> l, r |-> r]
is_leaf(n)        == n.k = "leaf"
Joined(bit, side, n) == IF bit = 1 THEN digest_node(side, n) ELSE digest_node(n, side)

count_common_prefix(p, q) == Min({k \in 1 .. Depth : p[k] # q[k]} \cup {Depth + 1}) - 1

NoValues == [p \in {} |-> Empty]
Tree(nodes, values, root) == [nodes |-> nodes, values |-> values, root |-> root]
new == Tree({}, NoValues, Zero)
Put(f, k, v) == [x \in DOMAIN f \cup {k} |-> IF x = k THEN v ELSE f[x]]
Drop(f, k)   == [x \in DOMAIN f \ {k} |-> f[x]]

get(t, path) == IF t.root # Zero /\ path \in DOMAIN t.values THEN t.values[path] ELSE Empty

-----------------------------------------------------------------------------
(* side_nodes_for_root: down from the root to a leaf or to an empty place.  *)
(* The nodes of the path and their siblings, the deepest first; *ok* falls   *)
(* when a node is not in the store.                                         *)
Down(t, walk, child, side) ==
  [ok   |-> child = Zero \/ child \in t.nodes,
   side |-> <<side>> \o walk.side,
   path |-> <<child>> \o walk.path,
   end  |-> child = Zero \/ is_leaf(child) \/ child \notin t.nodes]
WalkStep(t, walk, bit) ==
  IF walk.end THEN walk
  ELSE IF bit = 1 THEN Down(t, walk, walk.path[1].r, walk.path[1].l)
  ELSE Down(t, walk, walk.path[1].l, walk.path[1].r)

side_nodes_for_root(t, path) ==
  FoldLeft(LAMBDA walk, bit : WalkStep(t, walk, bit),
           [ok |-> t.root = Zero \/ t.root \in t.nodes, side |-> <<>>, path |-> <<t.root>>,
            end |-> t.root = Zero \/ is_leaf(t.root) \/ t.root \notin t.nodes],
           path)

-----------------------------------------------------------------------------
(* delete_with_sides_nodes: a sibling that is a leaf moves up past empty    *)
(* siblings; above the first other sibling the nodes are made anew.         *)
(* A leaf stays where it was when its sibling goes. *)
RiseStep_KeepsDepth(acc, side, bit) ==
  LET node == Joined(bit, side, IF acc.data = Nothing THEN Zero ELSE acc.data)
  IN [acc EXCEPT !.hash = node, !.data = node, !.nodes = @ \cup {node}]

RiseStep(acc, side, bit) ==
  LET data    == IF acc.data = Nothing THEN Zero ELSE acc.data
      reached == acc.reached \/ acc.data = Nothing
      node    == Joined(bit, side, data)
  IN IF acc.data = Nothing /\ is_leaf(side) THEN [acc EXCEPT !.hash = side, !.data = side]
     ELSE IF ~reached /\ side = Zero THEN acc
     ELSE [hash |-> node, data |-> node, reached |-> TRUE, nodes |-> acc.nodes \cup {node}]

delete_with_sides_nodes(t, path, walk) ==
  LET n == Len(walk.side)
      end == FoldLeft(LAMBDA acc, i : RiseStep(acc, walk.side[i], path[n - i + 1]),
                      [hash |-> Zero, data |-> Nothing, reached |-> FALSE,
                       nodes |-> t.nodes \ Range(walk.path)],
                      [i \in 1 .. n |-> i])
  IN Tree(end.nodes, Drop(t.values, path), end.hash)

(* It fails where the slot is empty, holds another key, or a node that is   *)
(* needed is not in the store; the value is deleted before, and has to be   *)
(* there.                                                                   *)
CanDelete(t, path, walk) ==
  /\ path \in DOMAIN t.values
  /\ walk.path[1] # Zero /\ walk.path[1].path = path
  /\ Range(walk.path) \subseteq t.nodes
  /\ walk.side = <<>> \/ walk.side[1] \in t.nodes

-----------------------------------------------------------------------------
(* update_with_sides_nodes: the new leaf, a branch if another key has its   *)
(* place, empty siblings down to where the two paths part, and the nodes    *)
(* above made anew.                                                         *)
Climb(acc, bit, side) ==
  [hash |-> Joined(bit, side, acc.hash), nodes |-> acc.nodes \cup {Joined(bit, side, acc.hash)}]

ClimbStep(acc, i, path, sides, common) ==
  LET off == Depth - Len(sides)
  IN IF i >= off THEN Climb(acc, path[Depth - i], sides[i - off + 1])
     ELSE IF common # Depth /\ common > Depth - 1 - i THEN Climb(acc, path[Depth - i], Zero)
     ELSE acc

Climbed(t, path, value, walk, common, start) ==
  LET end == FoldLeft(LAMBDA acc, i : ClimbStep(acc, i, path, walk.side, common), start,
                      [i \in 1 .. Depth |-> i - 1])
  IN Tree(end.nodes, Put(t.values, path, value), end.hash)

update_with_sides_nodes(t, path, value, walk) ==
  LET leaf   == Leaf(path, value)
      old    == walk.path[1]
      above  == Range(Tail(walk.path))
      common == IF old = Zero THEN Depth ELSE count_common_prefix(path, old.path)
  IN IF old # Zero /\ common = Depth /\ old.value = value THEN t
     ELSE IF common # Depth
       THEN Climbed(t, path, value, walk, common,
              [hash  |-> Joined(path[common + 1], old, leaf),
               nodes |-> (t.nodes \ above) \cup {leaf, Joined(path[common + 1], old, leaf)}])
     ELSE Climbed(t, path, value, walk, common,
            [hash |-> leaf, nodes |-> ((t.nodes \cup {leaf}) \ {old}) \ above])

(* update: an empty value deletes. *)
UpdateAt(t, path, value, walk) ==
  IF ~walk.ok \/ (value = Empty /\ ~CanDelete(t, path, walk)) THEN [ok |-> FALSE, tree |-> t]
  ELSE [ok |-> TRUE, tree |-> IF value = Empty THEN delete_with_sides_nodes(t, path, walk)
                              ELSE update_with_sides_nodes(t, path, value, walk)]
update(t, path, value) == UpdateAt(t, path, value, side_nodes_for_root(t, path))

-----------------------------------------------------------------------------
(* Proofs *)

ProofOf(t, path, walk, updatable) ==
  [ok    |-> walk.ok /\ (updatable /\ walk.side # <<>> => walk.side[1] \in t.nodes),
   side  |-> walk.side,
   other |-> IF walk.path[1] # Zero /\ walk.path[1].path # path THEN walk.path[1] ELSE Nothing,
   sibling |-> IF updatable /\ walk.side # <<>> THEN walk.side[1] ELSE Nothing]
do_proof_for_root(t, path, updatable) == ProofOf(t, path, side_nodes_for_root(t, path), updatable)

(* verify_proof_with_updates: the hashes from the leaf up to the root. *)
ProofStart(proof, path, value) ==
  IF value # Empty THEN Leaf(path, value)
  ELSE IF proof.other = Nothing THEN Zero ELSE proof.other
Hashes(proof, path, start) ==
  FoldLeft(LAMBDA acc, i : Append(acc, Joined(path[Len(proof.side) - i + 1], proof.side[i], acc[i])),
           <<start>>, [i \in 1 .. Len(proof.side) |-> i])
VerifiedPath(hashes, root) ==
  [ok |-> hashes[Len(hashes)] = root, updates |-> {h \in Range(hashes) : h # Zero}]
(* Without the check that the other leaf is another key's. *)
verify_proof_with_updates_AnyLeaf(proof, root, path, value) ==
  VerifiedPath(Hashes(proof, path, ProofStart(proof, path, value)), root)
verify_proof_with_updates(proof, root, path, value) ==
  IF value = Empty /\ proof.other # Nothing /\ proof.other.path = path THEN [ok |-> FALSE, updates |-> {}]
  ELSE VerifiedPath(Hashes(proof, path, ProofStart(proof, path, value)), root)

(* The sibling a deletion looks at is not carried over. *)
Branched_NoSibling(t, proof, path, value, v) ==
  [t EXCEPT !.nodes  = @ \cup v.updates,
            !.values = IF value = Empty THEN @ ELSE Put(@, path, value)]
(* add_branch: the nodes a proof speaks of, and the sibling to delete with. *)
Branched(t, proof, path, value, v) ==
  [t EXCEPT !.nodes  = @ \cup v.updates \cup ({proof.sibling} \ {Nothing}),
            !.values = IF value = Empty THEN @ ELSE Put(@, path, value)]
add_branch(t, proof, root, path, value) ==
  Branched(t, proof, path, value, verify_proof_with_updates(proof, root, path, value))

(* subtree: Partial copies the nodes and none of the values, None nothing;   *)
(* the state store imports no keys.                                         *)
subtree(t, strategy) ==
  CASE strategy = "Partial" -> Tree(t.nodes, NoValues, t.root)
    [] strategy = "Full"    -> t
    [] strategy = "None"    -> Tree({}, NoValues, t.root)

-----------------------------------------------------------------------------

Init == tree = new /\ content = [p \in Paths |-> Empty]

Update(path, value) ==
  \E r \in {update(tree, path, value)} :
    /\ tree' = r.tree
    /\ content' = IF r.ok THEN [content EXCEPT ![path] = value] ELSE content

(* TreeDB works on a subtree of the committed tree. *)
Fork(strategy) ==
  /\ tree' = subtree(tree, strategy)
  /\ UNCHANGED content

Next == \/ \E path \in Paths, value \in Values \cup {Empty} : Update(path, value)
        \/ \E strategy \in {"Partial", "Full"} : Fork(strategy)

Spec == Init /\ [][Next]_vars

-----------------------------------------------------------------------------
(* The reference: the tree that stands for a set of keys and values.  A     *)
(* single key is a leaf wherever it is; no key is Zero.                     *)
RECURSIVE Canonical(_, _, _)
Canonical(c, keys, depth) ==
  IF keys = {} THEN Zero
  ELSE IF \E p \in keys : keys = {p} THEN LET p == CHOOSE q \in keys : TRUE IN Leaf(p, c[p])
  ELSE digest_node(Canonical(c, {p \in keys : p[depth] = 0}, depth + 1),
                   Canonical(c, {p \in keys : p[depth] = 1}, depth + 1))
Present == {p \in Paths : content[p] # Empty}

RECURSIVE Subterms(_)
Subterms(n) == IF n.k = "node" THEN {n} \cup Subterms(n.l) \cup Subterms(n.r)
               ELSE IF n.k = "leaf" THEN {n} ELSE {}

(* The root is a function of what the tree contains: however it got there,  *)
(* by updates and deletions in any order and over any number of forks, it   *)
(* is the root of the canonical tree; the store holds exactly the nodes of   *)
(* that tree, and every value it holds is the current one.  An update fails *)
(* only where it deletes a key whose value was never put into this tree, or *)
(* was put before the last Partial fork.                                    *)
RootIsCanonical ==
  /\ tree.root = Canonical(content, Present, 1)
  /\ tree.nodes = Subterms(tree.root)
  /\ \A p \in DOMAIN tree.values : tree.values[p] = content[p]
  /\ \A p \in Paths, v \in Values \cup {Empty} :
       ~update(tree, p, v).ok => v = Empty /\ p \notin DOMAIN tree.values

(* Every key has a proof; it verifies the value the key has (or that it has *)
(* none) against the root, and no other value; and a key that is there is   *)
(* not shown to be absent by its own leaf in the place of another key's.    *)
ProofsAreExact ==
  \A p \in Paths : \A proof \in {do_proof_for_root(tree, p, FALSE)} :
    /\ proof.ok
    /\ \A v \in Values \cup {Empty} :
         verify_proof_with_updates(proof, tree.root, p, v).ok <=> v = content[p]
    /\ p \in Present =>
         ~verify_proof_with_updates([proof EXCEPT !.other = Leaf(p, content[p])], tree.root, p, Empty).ok

(* The branch of one key, carried over by an updatable proof into a tree    *)
(* that knows only the root, is enough to update or to delete that key: the  *)
(* new root is the one the whole tree would have.                           *)
BranchIsEnough ==
  \A p \in Paths : \A proof \in {do_proof_for_root(tree, p, TRUE)} :
    proof.ok /\ \A v \in (Values \cup {Empty}) \ {content[p]} :
      \E r \in {update(add_branch(subtree(tree, "None"), proof, tree.root, p, content[p]), p, v)} :
        /\ r.ok
        /\ r.tree.root = Canonical([content EXCEPT ![p] = v],
                                   IF v = Empty THEN Present \ {p} ELSE Present \cup {p}, 1)

==============================================================================
