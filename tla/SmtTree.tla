------------------------------ MODULE SmtTree ------------------------------
(***************************************************************************)
(* The sparse Merkle tree of contracts/src/iden3-shims/SmtLib.sol as pure  *)
(* operators on its node store.  The store is the Solidity mapping         *)
(* `nodes': a function from the hashes of the stored nodes to the nodes; a *)
(* hash outside its domain reads as an EMPTY node.                         *)
(*                                                                         *)
(* A uint256 leaf index is the function from bit positions to bits that    *)
(* the code reads it as; its width is MAX_DEPTH_HARD_CAP, as in the code   *)
(* (256 bits, hard cap 256).                                               *)
(*                                                                         *)
(* The hash function is the constant Compress, about which NOTHING is      *)
(* assumed: two nodes may collide, and the code (lines 558-560) claims to  *)
(* need no more.  Only the one value that is no node's hash, the 0 that    *)
(* stands for the empty subtree, is kept apart: a node's hash is the tuple *)
(* <<Compress(node)>>, and EmptyHash is <<>>.                              *)
(***************************************************************************)
EXTENDS Integers

CONSTANTS
    MAX_DEPTH_HARD_CAP,  \* the width of a leaf index, and the largest maxDepth
    Value,               \* the values a leaf may hold (uint256)
    Compress(_)          \* the hash function (PoseidonUnit2L, PoseidonUnit3L)

ASSUME CapAssumption == MAX_DEPTH_HARD_CAP \in Nat \ {0}
ASSUME ValueAssumption == 0 \in Value

Index == [0 .. MAX_DEPTH_HARD_CAP - 1 -> BOOLEAN]

\* (index >> depth) & 1 == 1; a shift by the whole width or more yields 0.
Bit(index, depth) == depth < MAX_DEPTH_HARD_CAP /\ index[depth]

\* The least of a set of depths.
Least(depths) == CHOOSE d \in depths : \A e \in depths : d <= e

-----------------------------------------------------------------------------
(* Nodes and their store.                                                  *)

EmptyHash == <<>>
EmptyNode == [nodeType |-> "EMPTY"]
Leaf(index, value) == [nodeType |-> "LEAF", index |-> index, value |-> value]
Middle(childLeft, childRight) ==
    [nodeType |-> "MIDDLE", childLeft |-> childLeft, childRight |-> childRight]

getNodeHash(node) == <<Compress(node)>>

getNode(nodes, nodeHash) ==
    IF nodeHash \in DOMAIN nodes THEN nodes[nodeHash] ELSE EmptyNode

\* The child of a MIDDLE node on the side a bit selects, and the other one.
Child(node, bit) == IF bit THEN node.childRight ELSE node.childLeft
Sibling(node, bit) == IF bit THEN node.childLeft ELSE node.childRight

\* A MIDDLE node from the child on the side a bit selects and the other child.
Branch(bit, child, sibling) ==
    IF bit THEN Middle(sibling, child) ELSE Middle(child, sibling)

\* The hashes a node may refer to, and a node that refers to these only.
Hashes(nodes) == DOMAIN nodes \cup {EmptyHash}

IsNode(nodes, node) ==
    \/ \E index \in Index, value \in Value : node = Leaf(index, value)
    \/ \E left, right \in Hashes(nodes) : node = Middle(left, right)

IsFunction(f) == f = [x \in DOMAIN f |-> f[x]]

\* A store keeps each node under its own hash and no node with a dangling child.
IsStore(nodes) ==
    /\ IsFunction(nodes)
    /\ \A hash \in DOMAIN nodes :
         /\ getNodeHash(nodes[hash]) = hash
         /\ IsNode(nodes, nodes[hash])

-----------------------------------------------------------------------------
(* Going down the tree.                                                    *)

\* The hash below a hash on the side of a bit; a way down that has come to a node
\* that is not a MIDDLE one stays there.
StepDown(nodes, hash, bit) ==
    LET node == getNode(nodes, hash)
    IN  IF node.nodeType = "MIDDLE" THEN Child(node, bit) ELSE hash

\* The hashes met on the way down from root along the bits of index, by depth.
Descent(nodes, root, index) ==
    LET way[depth \in Nat] ==
          IF depth = 0 THEN root
          ELSE StepDown(nodes, way[depth - 1], Bit(index, depth - 1))
    IN  way

NodeOnWay(nodes, root, index, depth) == getNode(nodes, Descent(nodes, root, index)[depth])

\* The way down ends, at this depth or above it, at a node that is not a MIDDLE
\* one; there the recursion of _addLeaf and the loop of getProofByRoot end.
Ends(nodes, root, index, depth) ==
    NodeOnWay(nodes, root, index, depth).nodeType # "MIDDLE"

EndDepth(nodes, root, index, maxDepth) ==
    Least({depth \in 0 .. maxDepth : Ends(nodes, root, index, depth)})

\* The node there; from it on the way repeats.
EndNode(nodes, root, index, maxDepth) == NodeOnWay(nodes, root, index, maxDepth)

-----------------------------------------------------------------------------
(* Writing a leaf: _addLeaf and _pushLeaf.                                 *)

\* Mutation of PartingDepths: the guard of _pushLeaf lets maxDepth itself pass.
PartingDepthsToMax(index, oldIndex, from, maxDepth) ==
    {depth \in from .. maxDepth : Bit(index, depth) # Bit(oldIndex, depth)}

\* The depths, from the one the old leaf is at, where the two leaves' ways
\* part and where _pushLeaf may still put a MIDDLE node.
PartingDepths(index, oldIndex, from, maxDepth) ==
    {depth \in from .. maxDepth - 1 : Bit(index, depth) # Bit(oldIndex, depth)}

\* Mutation of PartingDepth: the last bit that differs, not the first.
PartingDepthLast(index, oldIndex, from, maxDepth) ==
    CHOOSE d \in PartingDepths(index, oldIndex, from, maxDepth) :
        \A e \in PartingDepths(index, oldIndex, from, maxDepth) : e <= d

PartingDepth(index, oldIndex, from, maxDepth) ==
    Least(PartingDepths(index, oldIndex, from, maxDepth))

\* Mutation of Pushes: _addLeaf does not compare the two leaves' indexes.
PushesAnyLeaf(node, index) == node.nodeType = "LEAF"

\* Another leaf is where the new one should go, so _pushLeaf runs.
Pushes(node, index) == node.nodeType = "LEAF" /\ node.index # index

\* _addLeaf does not revert with "Max depth reached".
FitsDepth(nodes, root, index, maxDepth) ==
    /\ Ends(nodes, root, index, maxDepth)
    /\ LET old == EndNode(nodes, root, index, maxDepth)
       IN  Pushes(old, index) =>
             PartingDepths(index, old.index,
                           EndDepth(nodes, root, index, maxDepth), maxDepth) # {}

\* The depth the new leaf ends up at.
LeafDepth(nodes, root, index, maxDepth) ==
    LET end == EndDepth(nodes, root, index, maxDepth)
        old == EndNode(nodes, root, index, maxDepth)
    IN  IF Pushes(old, index)
        THEN PartingDepth(index, old.index, end, maxDepth) + 1
        ELSE end

\* Mutation of SiblingAt: _pushLeaf leaves the old leaf out of the new node.
SiblingAtWithoutOldLeaf(nodes, root, index, maxDepth, depth) ==
    LET node == NodeOnWay(nodes, root, index, depth)
    IN  IF node.nodeType = "MIDDLE" THEN Sibling(node, Bit(index, depth)) ELSE EmptyHash

\* What is beside the new leaf's way at a depth: the other child of the MIDDLE
\* node that was there; below the old way's end, nothing until the old leaf.
SiblingAt(nodes, root, index, maxDepth, depth) ==
    LET node == NodeOnWay(nodes, root, index, depth)
    IN  IF node.nodeType = "MIDDLE" THEN Sibling(node, Bit(index, depth))
        ELSE IF depth = LeafDepth(nodes, root, index, maxDepth) - 1
             THEN getNodeHash(node)
             ELSE EmptyHash

\* The nodes of the new leaf's way, one for each depth from the new root to the
\* new leaf, each hashed into the one above it.
NewWay(nodes, root, index, value, maxDepth) ==
    LET leafDepth == LeafDepth(nodes, root, index, maxDepth)
        node[depth \in 0 .. leafDepth] ==
          IF depth = leafDepth THEN Leaf(index, value)
          ELSE Branch(Bit(index, depth),
                      getNodeHash(node[depth + 1]),
                      SiblingAt(nodes, root, index, maxDepth, depth))
    IN  node

\* Mutation of NoCollision: _addNode trusts the hash function.
NoCollisionUnchecked(nodes, new) == TRUE

\* _addNode, for all nodes of the new way: its assertions, then its stores.  A
\* failed assertion reverts the whole transaction, so the order of the calls
\* does not show.
NoCollision(nodes, new) ==
    \A d \in DOMAIN new :
        LET hash == getNodeHash(new[d])
        IN  /\ hash \in DOMAIN nodes => nodes[hash] = new[d]
            /\ \A e \in DOMAIN new : getNodeHash(new[e]) = hash => new[e] = new[d]

HashesOf(new) == {getNodeHash(new[d]) : d \in DOMAIN new}
NodeOfHash(new, hash) == new[CHOOSE d \in DOMAIN new : getNodeHash(new[d]) = hash]

\* Mutation of AddNodes: _pushLeaf does not store the new leaf (line 552).
AddNodesWithoutLeaf(nodes, new) ==
    [hash \in DOMAIN nodes \cup
              {h \in HashesOf(new) : NodeOfHash(new, h).nodeType # "LEAF"} |->
        IF hash \in DOMAIN nodes THEN nodes[hash] ELSE NodeOfHash(new, hash)]

\* Mutation of AddNodes: the MIDDLE nodes of the tree before are dropped.
AddNodesPruned(nodes, new) ==
    [hash \in {h \in DOMAIN nodes : nodes[h].nodeType = "LEAF"} \cup HashesOf(new) |->
        IF hash \in DOMAIN nodes THEN nodes[hash] ELSE NodeOfHash(new, hash)]

AddNodes(nodes, new) ==
    [hash \in DOMAIN nodes \cup HashesOf(new) |->
        IF hash \in DOMAIN nodes THEN nodes[hash] ELSE NodeOfHash(new, hash)]

-----------------------------------------------------------------------------
(* Reading a leaf: getProofByRoot.                                         *)

\* The proof for index under root.  The siblings array has maxDepth cells, all
\* 0 at first; a MIDDLE node at depth d fills cell d.
getProofByRoot(nodes, root, index, maxDepth) ==
    LET onWay(d) == NodeOnWay(nodes, root, index, d)
        node == EndNode(nodes, root, index, maxDepth)
        hit == node.nodeType = "LEAF" /\ node.index = index
    IN  [root |-> root,
         existence |-> hit,
         siblings |-> [d \in 0 .. maxDepth - 1 |->
                         IF onWay(d).nodeType = "MIDDLE"
                         THEN Sibling(onWay(d), Bit(index, d))
                         ELSE EmptyHash],
         index |-> index,
         value |-> IF node.nodeType = "LEAF" THEN node.value ELSE 0,
         auxExistence |-> Pushes(node, index),
         auxIndex |-> IF Pushes(node, index) THEN node.index
                      ELSE [b \in 0 .. MAX_DEPTH_HARD_CAP - 1 |-> FALSE],
         auxValue |-> IF Pushes(node, index) THEN node.value ELSE 0]

-----------------------------------------------------------------------------
(* What a proof is for: whoever holds a root checks the proof against it,   *)
(* knowing nothing of the store.                                           *)

\* A verifier's reading of the siblings array: the leaf, or the empty place, is
\* just below the deepest sibling that is not empty.
LevelOf(siblings) ==
    LET filled == {d \in DOMAIN siblings : siblings[d] # EmptyHash}
    IN  IF filled = {} THEN 0
        ELSE 1 + CHOOSE d \in filled : \A e \in filled : e <= d

\* The root that follows from a proof's own fields.
RecomputedRoot(proof) ==
    LET level == LevelOf(proof.siblings)
        hash[d \in 0 .. level] ==
          IF d < level
          THEN getNodeHash(Branch(Bit(proof.index, d), hash[d + 1], proof.siblings[d]))
          ELSE IF proof.existence THEN getNodeHash(Leaf(proof.index, proof.value))
          ELSE IF proof.auxExistence THEN getNodeHash(Leaf(proof.auxIndex, proof.auxValue))
          ELSE EmptyHash
    IN  hash[0]

\* A proof of existence or of absence convinces: its root follows from its fields,
\* and a leaf shown in place of an absent one is on the absent one's way.
Convinces(proof) ==
    /\ RecomputedRoot(proof) = proof.root
    /\ proof.auxExistence =>
         /\ ~proof.existence
         /\ proof.auxIndex # proof.index
         /\ \A d \in 0 .. LevelOf(proof.siblings) - 1 :
              Bit(proof.auxIndex, d) = Bit(proof.index, d)

\* The same proof, but that q's array of siblings may be longer, by empty ones.
SameProof(p, q) ==
    /\ p.root = q.root /\ p.index = q.index
    /\ p.existence = q.existence /\ p.value = q.value
    /\ p.auxExistence = q.auxExistence /\ p.auxIndex = q.auxIndex
    /\ p.auxValue = q.auxValue
    /\ DOMAIN p.siblings \subseteq DOMAIN q.siblings
    /\ \A d \in DOMAIN q.siblings :
         q.siblings[d] = IF d \in DOMAIN p.siblings THEN p.siblings[d] ELSE EmptyHash

\* The map a root stands for, read off the proofs for it.
Content(nodes, root, maxDepth) ==
    LET proof == [i \in Index |-> getProofByRoot(nodes, root, i, maxDepth)]
    IN  [index \in {i \in Index : proof[i].existence} |-> proof[index].value]

\* The root that leaves have by themselves: no leaf, the empty subtree; one leaf,
\* its hash, whatever the depth; more, a MIDDLE node over the two halves.  Of leaves
\* that agree on all bits there is but one.
CanonicalRoot(content) ==
    LET hash[depth \in 0 .. MAX_DEPTH_HARD_CAP] ==
          [keys \in SUBSET DOMAIN content |->
             IF keys = {} THEN EmptyHash
             ELSE IF depth = MAX_DEPTH_HARD_CAP \/ \E index \in keys : keys = {index}
             THEN LET index == CHOOSE i \in keys : TRUE
                  IN  getNodeHash(Leaf(index, content[index]))
             ELSE getNodeHash(Middle(hash[depth + 1][{i \in keys : ~Bit(i, depth)}],
                                     hash[depth + 1][{i \in keys : Bit(i, depth)}]))]
    IN  hash[0][DOMAIN content]

=============================================================================
