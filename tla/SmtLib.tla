------------------------------- MODULE SmtLib -------------------------------
(***************************************************************************)
(* contracts/src/iden3-shims/SmtLib.sol: a sparse Merkle tree with the     *)
(* history of its roots, on the chain that executes it.  Every public      *)
(* function that changes storage is one action, an EVM call that reverts   *)
(* being no step at all; the view functions are operators on the state.    *)
(*                                                                         *)
(* The chain shows the library two numbers, block.number and               *)
(* block.timestamp.  The number grows by one with each block.  The         *)
(* timestamp is in whole seconds while local-node.sh commits a block every *)
(* half second (line 201), so it need not grow at all.                     *)
(***************************************************************************)
EXTENDS SmtTree, Sequences

CONSTANTS
    MaxBlockNumber,   \* bound: the chain stops at this height
    MaxTimestamp,     \* bound: and at this second
    MaxEntries        \* bound: the root history is cut off at this length

ASSUME BoundsAssumption ==
    /\ MaxBlockNumber \in Nat \ {0}
    /\ MaxTimestamp \in Nat \ {0}
    /\ MaxEntries \in Nat \ {0}

VARIABLES
    nodes,          \* Data.nodes: the stored nodes, by hash
    rootEntries,    \* Data.rootEntries: the root history
    rootIndexes,    \* Data.rootIndexes: for each root, its places in the history
    maxDepth,       \* Data.maxDepth
    initialized,    \* Data.initialized
    blockNumber,    \* block.number
    blockTimestamp  \* block.timestamp

data == <<nodes, rootEntries, rootIndexes, maxDepth, initialized>>
clock == <<blockNumber, blockTimestamp>>
vars == <<nodes, rootEntries, rootIndexes, maxDepth, initialized,
          blockNumber, blockTimestamp>>

-----------------------------------------------------------------------------
(* Reading the history.  The code's places are counted from 0, a sequence's *)
(* from 1: Entry(k) is rootEntries[k] of the code.                          *)

Places == 0 .. Len(rootEntries) - 1
Entry(k) == rootEntries[k + 1]

isInitialized == initialized

getRoot == Entry(Len(rootEntries) - 1).root

\* rootIndexes[root], a Solidity mapping: empty where nothing was pushed.
IndexesOf(root) == IF root \in DOMAIN rootIndexes THEN rootIndexes[root] ELSE <<>>

rootExists(root) == Len(IndexesOf(root)) > 0

RootInfoByIndex(k) ==
    LET last == k = Len(rootEntries) - 1
    IN  [root |-> Entry(k).root,
         replacedByRoot |-> IF last THEN EmptyHash ELSE Entry(k + 1).root,
         createdAtTimestamp |-> Entry(k).createdAtTimestamp,
         replacedAtTimestamp |-> IF last THEN 0 ELSE Entry(k + 1).createdAtTimestamp,
         createdAtBlock |-> Entry(k).createdAtBlock,
         replacedAtBlock |-> IF last THEN 0 ELSE Entry(k + 1).createdAtBlock]

\* Mutation of getRootInfo: the first place of the root instead of the last.
getRootInfoFirst(root) == RootInfoByIndex(IndexesOf(root)[1])

\* Defined where rootExists(root).
getRootInfo(root) ==
    LET indexes == IndexesOf(root) IN RootInfoByIndex(indexes[Len(indexes)])

getProof(index) == getProofByRoot(nodes, getRoot, index, maxDepth)

-----------------------------------------------------------------------------
(* Writing.                                                                *)

\* Mutation of PushIndex: assigns the array where it should push.
PushIndexOverwrites(root, k) ==
    [r \in DOMAIN rootIndexes \cup {root} |-> IF r = root THEN <<k>> ELSE rootIndexes[r]]

\* rootIndexes[root].push(k), for a root seen before or not.
PushIndex(root, k) ==
    [r \in DOMAIN rootIndexes \cup {root} |->
        IF r = root THEN Append(IndexesOf(root), k) ELSE rootIndexes[r]]

\* Mutation of AddEntry: the two numbers are swapped.
AddEntrySwapped(root, timestamp, block) ==
    /\ rootEntries' = Append(rootEntries,
                        [root |-> root,
                         createdAtTimestamp |-> block,
                         createdAtBlock |-> timestamp])
    /\ rootIndexes' = PushIndex(root, Len(rootEntries))

AddEntry(root, timestamp, block) ==
    /\ rootEntries' = Append(rootEntries,
                        [root |-> root,
                         createdAtTimestamp |-> timestamp,
                         createdAtBlock |-> block])
    /\ rootIndexes' = PushIndex(root, Len(rootEntries))

\* The three requires of setMaxDepth.
MaxDepthAllowed(depth) ==
    /\ depth > 0
    /\ depth > maxDepth
    /\ depth <= MAX_DEPTH_HARD_CAP

SetMaxDepth(depth) ==
    /\ MaxDepthAllowed(depth)
    /\ maxDepth' = depth
    /\ UNCHANGED <<nodes, rootEntries, rootIndexes, initialized, clock>>

\* Mutation of Initialize: the first entry is from the time of the call.
InitializeNow(depth) ==
    /\ ~isInitialized
    /\ MaxDepthAllowed(depth)
    /\ maxDepth' = depth
    /\ AddEntry(EmptyHash, blockTimestamp, blockNumber)
    /\ initialized' = TRUE
    /\ UNCHANGED <<nodes, clock>>

Initialize(depth) ==
    /\ ~isInitialized
    /\ MaxDepthAllowed(depth)
    /\ maxDepth' = depth
    /\ AddEntry(EmptyHash, 0, 0)
    /\ initialized' = TRUE
    /\ UNCHANGED <<nodes, clock>>

\* The nodes _addLeaf would write for this leaf, and whether it returns.
NewNodes(index, value) == NewWay(nodes, getRoot, index, value, maxDepth)

Accepts(index, value) ==
    /\ FitsDepth(nodes, getRoot, index, maxDepth)
    /\ NoCollision(nodes, NewNodes(index, value))

AddLeaf(index, value) ==
    /\ isInitialized
    /\ Len(rootEntries) < MaxEntries
    /\ Accepts(index, value)
    /\ nodes' = AddNodes(nodes, NewNodes(index, value))
    /\ AddEntry(getNodeHash(NewNodes(index, value)[0]), blockTimestamp, blockNumber)
    /\ UNCHANGED <<maxDepth, initialized, clock>>

\* External to the library: the chain starts its next block.
NextBlock ==
    /\ blockNumber < MaxBlockNumber
    /\ blockNumber' = blockNumber + 1
    /\ blockTimestamp' \in blockTimestamp .. MaxTimestamp
    /\ UNCHANGED data

-----------------------------------------------------------------------------

\* Storage is zero before the first call; the contract is deployed in some block
\* after the genesis block.
Init ==
    /\ nodes = [h \in {} |-> EmptyNode]
    /\ rootEntries = <<>>
    /\ rootIndexes = [r \in {} |-> <<>>]
    /\ maxDepth = 0
    /\ initialized = FALSE
    /\ blockNumber = 1
    /\ blockTimestamp = 1

Next ==
    \/ \E depth \in 0 .. MAX_DEPTH_HARD_CAP + 1 : SetMaxDepth(depth) \/ Initialize(depth)
    \/ \E index \in Index, value \in Value : AddLeaf(index, value)
    \/ NextBlock

Spec == Init /\ [][Next]_vars

-----------------------------------------------------------------------------
(* Invariants.                                                             *)

\* Every variable has its type; and nothing dangles: each child of a stored node
\* and each root of the history is the empty subtree or a stored node.
TypeOK ==
    /\ IsStore(nodes)
    /\ rootEntries \in Seq([root : Hashes(nodes),
                            createdAtTimestamp : 0 .. MaxTimestamp,
                            createdAtBlock : 0 .. MaxBlockNumber])
    /\ IsFunction(rootIndexes)
    /\ \A root \in DOMAIN rootIndexes : rootIndexes[root] \in Seq(Places)
    /\ maxDepth \in 0 .. MAX_DEPTH_HARD_CAP
    /\ initialized \in BOOLEAN
    /\ blockNumber \in 1 .. MaxBlockNumber
    /\ blockTimestamp \in 1 .. MaxTimestamp

\* rootIndexes is exactly the inverse of the history: the places of a root, each
\* once, in the order the entries were made (getRootInfo takes the last of them).
RootIndexesExact ==
    /\ DOMAIN rootIndexes = {Entry(k).root : k \in Places}
    /\ \A root \in DOMAIN rootIndexes :
         LET indexes == rootIndexes[root]
         IN  /\ \A k \in Places :
                  Entry(k).root = root <=> \E n \in DOMAIN indexes : indexes[n] = k
             /\ \A m, n \in DOMAIN indexes : m < n => indexes[m] < indexes[n]

\* What the binary searches over the history need: an initialised tree has an
\* entry from time 0, entries are in the order of time and of block number, and
\* none is from the future.
HistoryMonotone ==
    /\ initialized <=> Len(rootEntries) > 0
    /\ initialized => /\ Entry(0).createdAtTimestamp = 0
                      /\ Entry(0).createdAtBlock = 0
    /\ \A j, k \in Places : j < k =>
         /\ Entry(j).createdAtTimestamp <= Entry(k).createdAtTimestamp
         /\ Entry(j).createdAtBlock <= Entry(k).createdAtBlock
    /\ \A k \in Places :
         /\ Entry(k).createdAtTimestamp <= blockTimestamp
         /\ Entry(k).createdAtBlock <= blockNumber

\* A root is current exactly if getRootInfo says nothing replaced it, also when
\* the same root was in the history before (a leaf set back to an old value).
ReplacedIffNotCurrent ==
    \A root \in DOMAIN rootIndexes :
        (getRootInfo(root).replacedByRoot = EmptyHash) <=> (root = getRoot)

-----------------------------------------------------------------------------
(* What its proofs are worth.                                              *)

\* The library gives a proof for every root it ever had and every index, and the
\* proof convinces.  That it gives one: the way down meets no MIDDLE node at
\* maxDepth, where siblings[i] would be written outside the array (line 262), even
\* for roots made under a smaller maxDepth.
ProofsConvince ==
    \A root \in DOMAIN rootIndexes, index \in Index :
        /\ Ends(nodes, root, index, maxDepth)
        /\ Convinces(getProofByRoot(nodes, root, index, maxDepth))

\* The map a root of the history stands for.
ContentOf(root) == Content(nodes, root, maxDepth)

\* The root depends on the leaves alone: not on the order or the number of the
\* writes they came from, nor on maxDepth at the time of the writes.
HistoryIndependence ==
    \A root \in DOMAIN rootIndexes : root = CanonicalRoot(ContentOf(root))

\* Where hashes do not collide, addLeaf refuses a leaf only for lack of depth: only
\* if some other leaf agrees with it on all of the first maxDepth bits.
RefusesOnlyForDepth ==
    initialized =>
        \A index \in Index, value \in Value :
            Accepts(index, value) <=>
                \A other \in DOMAIN ContentOf(getRoot) \ {index} :
                    \E d \in 0 .. maxDepth - 1 : Bit(index, d) # Bit(other, d)

-----------------------------------------------------------------------------
(* Action properties.                                                      *)

\* Storage only grows: a stored node never changes or goes, nor does an entry of
\* the history, nor an element of rootIndexes.
AppendOnly ==
    [][/\ \A h \in DOMAIN nodes : h \in DOMAIN nodes' /\ nodes'[h] = nodes[h]
       /\ Len(rootEntries) <= Len(rootEntries')
       /\ \A k \in DOMAIN rootEntries : rootEntries'[k] = rootEntries[k]
       /\ \A root \in DOMAIN rootIndexes :
            /\ root \in DOMAIN rootIndexes'
            /\ \A n \in DOMAIN rootIndexes[root] :
                 rootIndexes'[root][n] = rootIndexes[root][n]]_vars

\* A proof for a root, once given, is given again at any later time: writes under
\* other roots and a larger maxDepth change none of it but the length of the
\* siblings array, whose new cells are empty.
KeepsProofs ==
    \A root \in DOMAIN rootIndexes, index \in Index :
        SameProof(getProofByRoot(nodes, root, index, maxDepth),
                  getProofByRoot(nodes', root, index, maxDepth'))

ProofsStable == [][KeepsProofs]_vars

-----------------------------------------------------------------------------
(* Refinement.                                                             *)

Abstract == INSTANCE VersionedMap WITH
    Key <- Index,
    Val <- Value,
    versions <- [k \in DOMAIN rootEntries |->
                    [content |-> ContentOf(rootEntries[k].root),
                     time |-> rootEntries[k].createdAtTimestamp,
                     block |-> rootEntries[k].createdAtBlock]],
    block <- blockNumber,
    time <- blockTimestamp

\* The library is a versioned map: a write adds one version, which differs from
\* the one before in the written leaf and nowhere else; the contents of all
\* earlier roots stay readable and stay what they were.
IsVersionedMap == Abstract!Spec

=============================================================================
