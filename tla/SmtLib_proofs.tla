--------------------------- MODULE SmtLib_proofs ---------------------------
(***************************************************************************)
(* Theorems about SmtLib, for every depth and histories of every length.   *)
(* The tree: what the recursive functions on the way down and on the new   *)
(* way compute; that a write makes of one store and tree another, which    *)
(* differs in one leaf; that proofs convince, and that a root is the       *)
(* canonical one of its leaves.                                            *)
(* The history: rootIndexes is the inverse of rootEntries, the entries are *)
(* in order, storage only grows; behind every root is a tree that nothing  *)
(* changes, so proofs convince and go on convincing, and a root stands for *)
(* one content.  Together: the library is a versioned map.                 *)
(* The queries: the history is always one that the binary search is right  *)
(* for, so its proofs, taken here for the library's state, say what a      *)
(* caller is answered.                                                     *)
(***************************************************************************)
EXTENDS SmtQueries, WellFoundedInduction, TLAPS

-----------------------------------------------------------------------------
(* Induction.  The library's theorems on induction take a predicate; these  *)
(* two take a set in its place.                                            *)

LEMMA LeastNat ==
    ASSUME NEW S \in SUBSET Nat, S # {}
    PROVE  \E n \in S : \A m \in S : n <= m
<1>1. IsWellFoundedOn(OpToRel(<, Nat), Nat)
  BY NatLessThanWellFounded
<1>2. PICK n \in S : \A m \in S : ~(<<m, n>> \in OpToRel(<, Nat))
  BY <1>1, WFMin
<1>3. \A m \in S : ~(m < n)
  BY <1>2 DEF OpToRel
<1> QED
  BY <1>3

LEMMA NatSetInduction ==
    ASSUME NEW S, 0 \in S, \A n \in Nat : n \in S => n + 1 \in S
    PROVE  Nat \subseteq S
<1> SUFFICES ASSUME ~(Nat \subseteq S) PROVE FALSE
  OBVIOUS
<1>1. PICK n \in Nat \ S : \A m \in Nat \ S : n <= m
  BY LeastNat
<1>2. n # 0 /\ n - 1 \in Nat
  BY <1>1
<1>3. n - 1 \in S
  BY <1>1, <1>2
<1> QED
  BY <1>1, <1>2, <1>3

LEMMA LeastIsLeast ==
    ASSUME NEW S \in SUBSET Nat, S # {}
    PROVE  Least(S) \in S /\ \A n \in S : Least(S) <= n
  BY LeastNat DEF Least

-----------------------------------------------------------------------------
(* The way down.                                                           *)

\* The beginning of the way, down to a depth, as an equation.
IsWay(store, root, key, last, f) ==
    f = [depth \in 0 .. last |->
           IF depth = 0 THEN root
           ELSE StepDown(store, f[depth - 1], Bit(key, depth - 1))]

LEMMA WayExists ==
    ASSUME NEW store, NEW root, NEW key
    PROVE  \A n \in Nat : \E f : IsWay(store, root, key, n, f)
<1> DEFINE S == {n \in Nat : \E f : IsWay(store, root, key, n, f)}
<1>1. 0 \in S
  <2>1. IsWay(store, root, key, 0, [depth \in 0 .. 0 |-> root])
    BY DEF IsWay
  <2> QED
    BY <2>1
<1>2. ASSUME NEW n \in Nat, n \in S PROVE n + 1 \in S
  <2>1. PICK f : IsWay(store, root, key, n, f)
    BY <1>2
  <2> DEFINE g == [depth \in 0 .. (n + 1) |->
                     IF depth <= n THEN f[depth]
                     ELSE StepDown(store, f[n], Bit(key, n))]
             h == [depth \in 0 .. (n + 1) |->
                     IF depth = 0 THEN root
                     ELSE StepDown(store, g[depth - 1], Bit(key, depth - 1))]
  <2>2. ASSUME NEW d \in 0 .. (n + 1) PROVE g[d] = h[d]
    <3>1. CASE d = 0
      BY <3>1, <2>1 DEF IsWay
    <3>2. CASE d # 0 /\ d <= n
      <4>1. f[d] = StepDown(store, f[d - 1], Bit(key, d - 1))
        BY <2>1, <3>2 DEF IsWay
      <4>2. d - 1 \in 0 .. (n + 1) /\ d - 1 <= n
        BY <3>2
      <4>3. g[d - 1] = f[d - 1] /\ g[d] = f[d]
        BY <3>2, <4>2
      <4> QED
        BY <3>2, <4>1, <4>3
    <3>3. CASE d = n + 1
      BY <3>3
    <3> QED
      BY <3>1, <3>2, <3>3
  <2>3. IsWay(store, root, key, n + 1, g)
    BY <2>2 DEF IsWay
  <2> QED
    BY <2>3
<1> QED
  BY <1>1, <1>2, NatSetInduction

LEMMA WayIsUnique ==
    ASSUME NEW store, NEW root, NEW key, NEW m \in Nat, NEW n \in Nat, m <= n,
           NEW f, IsWay(store, root, key, m, f),
           NEW g, IsWay(store, root, key, n, g)
    PROVE  \A d \in 0 .. m : f[d] = g[d]
<1> DEFINE S == {d \in Nat : d <= m => f[d] = g[d]}
<1>1. 0 \in S
  BY DEF IsWay
<1>2. ASSUME NEW d \in Nat, d \in S PROVE d + 1 \in S
  <2>1. SUFFICES ASSUME d + 1 <= m PROVE f[d + 1] = g[d + 1]
    OBVIOUS
  <2>2. f[d] = g[d]
    BY <1>2, <2>1
  <2>3. f[d + 1] = StepDown(store, f[d], Bit(key, d))
    BY <2>1 DEF IsWay
  <2>4. g[d + 1] = StepDown(store, g[d], Bit(key, d))
    BY <2>1 DEF IsWay
  <2> QED
    BY <2>2, <2>3, <2>4
<1>3. Nat \subseteq S
  BY <1>1, <1>2, NatSetInduction
<1> QED
  BY <1>3

\* The equation of the recursive function Descent.
LEMMA DescentDef ==
    ASSUME NEW store, NEW root, NEW key
    PROVE  /\ Descent(store, root, key)[0] = root
           /\ \A d \in Nat : Descent(store, root, key)[d + 1] =
                StepDown(store, Descent(store, root, key)[d], Bit(key, d))
<1> DEFINE Eqn(f) == f = [depth \in Nat |->
                            IF depth = 0 THEN root
                            ELSE StepDown(store, f[depth - 1], Bit(key, depth - 1))]
           w(n) == CHOOSE f : IsWay(store, root, key, n, f)
           F == [n \in Nat |-> w(n)[n]]
           G == [depth \in Nat |->
                   IF depth = 0 THEN root
                   ELSE StepDown(store, F[depth - 1], Bit(key, depth - 1))]
<1>1. \A n \in Nat : IsWay(store, root, key, n, w(n))
  BY WayExists
<1>2. ASSUME NEW n \in Nat PROVE F[n] = G[n]
  <2>1. CASE n = 0
    <3> HIDE DEF w
    <3>1. w(0)[0] = root
      BY <1>1 DEF IsWay
    <3> QED
      BY <2>1, <3>1
  <2>2. CASE n # 0
    <3>1. n - 1 \in Nat /\ n - 1 <= n
      BY <2>2
    <3> HIDE DEF w
    <3>2. w(n)[n] = StepDown(store, w(n)[n - 1], Bit(key, n - 1))
      BY <1>1, <2>2 DEF IsWay
    <3>3. w(n - 1)[n - 1] = w(n)[n - 1]
      BY <1>1, <3>1, WayIsUnique
    <3> QED
      BY <2>2, <3>1, <3>2, <3>3
  <2> QED
    BY <2>1, <2>2
<1>3. Eqn(F)
  <2> HIDE DEF w
  <2> QED
    BY <1>2
<1>4. Descent(store, root, key) = CHOOSE f : Eqn(f)
  BY DEF Descent
<1> HIDE DEF F
<1>5. Eqn(Descent(store, root, key))
  BY <1>3, <1>4
<1> DEFINE D == Descent(store, root, key)
<1> HIDE DEF D
<1>6. D = [depth \in Nat |->
             IF depth = 0 THEN root
             ELSE StepDown(store, D[depth - 1], Bit(key, depth - 1))]
  BY <1>5 DEF D
<1>7. D[0] = root /\ \A d \in Nat : D[d + 1] = StepDown(store, D[d], Bit(key, d))
  BY <1>6
<1> QED
  BY <1>7 DEF D

\* Once at a node that is not a MIDDLE one, the way down stays there.
LEMMA DescentStays ==
    ASSUME NEW store, NEW root, NEW key, NEW d \in Nat, Ends(store, root, key, d)
    PROVE  \A e \in Nat : e >= d =>
              Descent(store, root, key)[e] = Descent(store, root, key)[d]
<1> DEFINE D == Descent(store, root, key)
           S == {k \in Nat : D[d + k] = D[d]}
<1>1. 0 \in S
  OBVIOUS
<1>2. ASSUME NEW k \in Nat, k \in S PROVE k + 1 \in S
  <2>1. d + k \in Nat /\ d + (k + 1) = (d + k) + 1
    OBVIOUS
  <2>2. D[d + (k + 1)] = StepDown(store, D[d + k], Bit(key, d + k))
    BY <2>1, DescentDef
  <2>3. StepDown(store, D[d], Bit(key, d + k)) = D[d]
    BY DEF Ends, NodeOnWay, StepDown
  <2>4. D[d + k] = D[d]
    BY <1>2
  <2> HIDE DEF D
  <2> QED
    BY <2>2, <2>3, <2>4
<1>3. Nat \subseteq S
  <2> HIDE DEF S
  <2> QED
    BY <1>1, <1>2, NatSetInduction
<1>4. ASSUME NEW e \in Nat, e >= d PROVE D[e] = D[d]
  <2>1. e - d \in Nat /\ d + (e - d) = e
    BY <1>4
  <2> HIDE DEF D
  <2> QED
    BY <1>3, <2>1
<1> QED
  BY <1>4

LEMMA NodeFields ==
    /\ \A i, v : /\ Leaf(i, v).nodeType = "LEAF"
                 /\ Leaf(i, v).index = i
                 /\ Leaf(i, v).value = v
    /\ \A l, r : /\ Middle(l, r).nodeType = "MIDDLE"
                 /\ Middle(l, r).childLeft = l
                 /\ Middle(l, r).childRight = r
    /\ EmptyNode.nodeType = "EMPTY"
  BY DEF Leaf, Middle, EmptyNode

\* A node of a store that is of type MIDDLE has its children in the store.
LEMMA MiddleChildren ==
    ASSUME NEW store, IsStore(store), NEW hash,
           getNode(store, hash).nodeType = "MIDDLE"
    PROVE  /\ hash \in DOMAIN store
           /\ store[hash].childLeft \in Hashes(store)
           /\ store[hash].childRight \in Hashes(store)
<1>1. hash \in DOMAIN store
  BY DEF getNode, EmptyNode
<1>2. IsNode(store, store[hash])
  BY <1>1 DEF IsStore
<1>3. store[hash].nodeType = "MIDDLE"
  BY <1>1 DEF getNode
<1>4. \E left, right \in Hashes(store) : store[hash] = Middle(left, right)
  BY <1>2, <1>3, NodeFields DEF IsNode
<1> QED
  BY <1>1, <1>4, NodeFields

\* And one of type LEAF is a leaf under its own hash.
LEMMA LeafInStore ==
    ASSUME NEW store, IsStore(store), NEW hash,
           getNode(store, hash).nodeType = "LEAF"
    PROVE  /\ hash \in DOMAIN store
           /\ getNode(store, hash) = store[hash]
           /\ getNodeHash(store[hash]) = hash
           /\ store[hash].index \in Index
           /\ store[hash].value \in Value
           /\ store[hash] = Leaf(store[hash].index, store[hash].value)
<1>1. hash \in DOMAIN store
  BY DEF getNode, EmptyNode
<1>2. IsNode(store, store[hash]) /\ getNodeHash(store[hash]) = hash
  BY <1>1 DEF IsStore
<1>3. getNode(store, hash) = store[hash]
  BY <1>1 DEF getNode
<1>4. \E i \in Index, v \in Value : store[hash] = Leaf(i, v)
  BY <1>2, <1>3, NodeFields DEF IsNode
<1> QED
  BY <1>1, <1>2, <1>3, <1>4, NodeFields

\* The way down from a root that does not dangle stays in the store.
LEMMA DescentInStore ==
    ASSUME NEW store, IsStore(store), NEW root \in Hashes(store), NEW key
    PROVE  \A d \in Nat : Descent(store, root, key)[d] \in Hashes(store)
<1> DEFINE D == Descent(store, root, key)
           S == {d \in Nat : D[d] \in Hashes(store)}
<1>1. 0 \in S
  BY DescentDef
<1>2. ASSUME NEW d \in Nat, d \in S PROVE d + 1 \in S
  <2>1. D[d + 1] = StepDown(store, D[d], Bit(key, d))
    BY DescentDef
  <2>2. D[d] \in Hashes(store)
    BY <1>2
  <2> HIDE DEF D
  <2>3. StepDown(store, D[d], Bit(key, d)) \in Hashes(store)
    <3>1. CASE getNode(store, D[d]).nodeType = "MIDDLE"
      <4>1. getNode(store, D[d]) = store[D[d]]
        BY <3>1, MiddleChildren DEF getNode
      <4> QED
        BY <3>1, <4>1, MiddleChildren DEF StepDown, Child
    <3>2. CASE getNode(store, D[d]).nodeType # "MIDDLE"
      BY <2>2, <3>2 DEF StepDown
    <3> QED
      BY <3>1, <3>2
  <2> QED
    BY <2>1, <2>3
<1>3. Nat \subseteq S
  <2> HIDE DEF S
  <2> QED
    BY <1>1, <1>2, NatSetInduction
<1> QED
  BY <1>3

-----------------------------------------------------------------------------
(* The new way.                                                            *)

\* Where the way down ends, for an index that has a way down that ends.
LEMMA EndDepthFacts ==
    ASSUME NEW store, NEW root, NEW key, NEW maxLevel \in Nat,
           Ends(store, root, key, maxLevel)
    PROVE  LET end == EndDepth(store, root, key, maxLevel)
           IN  /\ end \in 0 .. maxLevel
               /\ Ends(store, root, key, end)
               /\ \A d \in 0 .. end - 1 : ~Ends(store, root, key, d)
               /\ EndNode(store, root, key, maxLevel) = NodeOnWay(store, root, key, end)
<1> DEFINE S == {depth \in 0 .. maxLevel : Ends(store, root, key, depth)}
           end == EndDepth(store, root, key, maxLevel)
<1>1. S \in SUBSET Nat /\ maxLevel \in S
  OBVIOUS
<1>2. end = Least(S)
  BY DEF EndDepth
<1>3. end \in S /\ \A n \in S : end <= n
  <2> HIDE DEF S, end
  <2> QED
    BY <1>1, <1>2, LeastIsLeast
<1>4. \A d \in 0 .. end - 1 : ~Ends(store, root, key, d)
  BY <1>3
<1>5. Descent(store, root, key)[maxLevel] = Descent(store, root, key)[end]
  BY <1>3, DescentStays
<1> HIDE DEF end
<1>6. EndNode(store, root, key, maxLevel) = NodeOnWay(store, root, key, end)
  BY <1>5 DEF EndNode, NodeOnWay
<1> QED
  BY <1>3, <1>4, <1>6 DEF end

\* The new leaf is at a depth up to maxDepth, below the end of the old way only if
\* another leaf was there.
LEMMA LeafDepthFacts ==
    ASSUME NEW store, NEW root, NEW key, NEW maxLevel \in Nat,
           FitsDepth(store, root, key, maxLevel)
    PROVE  LET end == EndDepth(store, root, key, maxLevel)
               leafDepth == LeafDepth(store, root, key, maxLevel)
           IN  /\ leafDepth \in end .. maxLevel
               /\ end # leafDepth =>
                    Pushes(EndNode(store, root, key, maxLevel), key)
<1> DEFINE end == EndDepth(store, root, key, maxLevel)
           old == EndNode(store, root, key, maxLevel)
           leafDepth == LeafDepth(store, root, key, maxLevel)
           S == PartingDepths(key, old.index, end, maxLevel)
<1>1. Ends(store, root, key, maxLevel) /\ (Pushes(old, key) => S # {})
  BY DEF FitsDepth
<1>2. end \in 0 .. maxLevel
  BY <1>1, EndDepthFacts
<1>3. CASE ~Pushes(old, key)
  <2>1. leafDepth = end
    BY <1>3 DEF LeafDepth
  <2> QED
    BY <1>2, <2>1
<1>4. CASE Pushes(old, key)
  <2>1. leafDepth = Least(S) + 1
    BY <1>4 DEF LeafDepth, PartingDepth
  <2> HIDE DEF end
  <2>2. S \in SUBSET (end .. maxLevel - 1)
    BY DEF PartingDepths
  <2>3. S \in SUBSET Nat
    BY <1>2, <2>2
  <2> HIDE DEF S
  <2>4. Least(S) \in S
    BY <1>1, <1>4, <2>3, LeastIsLeast
  <2>5. Least(S) \in end .. maxLevel - 1
    BY <2>2, <2>4
  <2>6. leafDepth \in end .. maxLevel
    BY <1>2, <2>1, <2>5
  <2> QED
    BY <1>4, <2>6 DEF end
<1> QED
  BY <1>3, <1>4

\* The equation of the recursive function NewWay.
LEMMA NewWayDef ==
    ASSUME NEW store, NEW root, NEW key, NEW value, NEW maxLevel,
           LeafDepth(store, root, key, maxLevel) \in Nat
    PROVE  LET new == NewWay(store, root, key, value, maxLevel)
               leafDepth == LeafDepth(store, root, key, maxLevel)
           IN  /\ DOMAIN new = 0 .. leafDepth
               /\ new[leafDepth] = Leaf(key, value)
               /\ \A d \in 0 .. leafDepth - 1 :
                    new[d] = Branch(Bit(key, d), getNodeHash(new[d + 1]),
                                    SiblingAt(store, root, key, maxLevel, d))
<1> DEFINE L == LeafDepth(store, root, key, maxLevel)
           sib(d) == SiblingAt(store, root, key, maxLevel, d)
           Eqn(from, f) == f = [depth \in from .. L |->
                                  IF depth = L THEN Leaf(key, value)
                                  ELSE Branch(Bit(key, depth),
                                              getNodeHash(f[depth + 1]), sib(depth))]
           S == {n \in Nat : n <= L => \E f : Eqn(L - n, f)}
<1>1. NewWay(store, root, key, value, maxLevel) = CHOOSE f : Eqn(0, f)
  BY DEF NewWay
<1> HIDE DEF L, sib
<1>0. L \in Nat
  BY DEF L
<1>2. 0 \in S
  <2>1. Eqn(L, [depth \in L .. L |-> Leaf(key, value)])
    BY <1>0
  <2>2. L - 0 = L
    BY <1>0
  <2> QED
    BY <2>1, <2>2
<1>3. ASSUME NEW n \in Nat, n \in S PROVE n + 1 \in S
  <2>1. SUFFICES ASSUME n + 1 <= L PROVE \E f : Eqn(L - (n + 1), f)
    OBVIOUS
  <2>2. PICK f : Eqn(L - n, f)
    BY <1>0, <1>3, <2>1
  <2> DEFINE from == L - (n + 1)
             g == [depth \in from .. L |->
                     IF depth >= L - n THEN f[depth]
                     ELSE Branch(Bit(key, from), getNodeHash(f[L - n]), sib(from))]
             h == [depth \in from .. L |->
                     IF depth = L THEN Leaf(key, value)
                     ELSE Branch(Bit(key, depth), getNodeHash(g[depth + 1]), sib(depth))]
  <2>3. from \in Nat /\ from + 1 = L - n
    BY <1>0, <2>1
  <2>4. ASSUME NEW d \in from .. L PROVE g[d] = h[d]
    <3>1. CASE d = L
      BY <1>0, <2>2, <2>3, <3>1
    <3>2. CASE d # L /\ d >= L - n
      <4>1. f[d] = Branch(Bit(key, d), getNodeHash(f[d + 1]), sib(d))
        BY <1>0, <2>2, <3>2
      <4>2. d + 1 \in from .. L /\ d + 1 >= L - n
        BY <1>0, <2>3, <3>2
      <4>3. g[d + 1] = f[d + 1] /\ g[d] = f[d]
        BY <3>2, <4>2
      <4>4. h[d] = Branch(Bit(key, d), getNodeHash(g[d + 1]), sib(d))
        BY <3>2
      <4> HIDE DEF g, h
      <4> QED
        BY <4>1, <4>3, <4>4
    <3>3. CASE d = from
      <4>1. from # L /\ ~(from >= L - n) /\ L - n \in from .. L /\ L - n >= L - n
        BY <1>0, <2>1, <2>3
      <4>2. g[from] = Branch(Bit(key, from), getNodeHash(f[L - n]), sib(from))
        BY <3>3, <4>1
      <4>3. h[from] = Branch(Bit(key, from), getNodeHash(g[L - n]), sib(from))
        BY <2>3, <3>3, <4>1
      <4>4. g[L - n] = f[L - n]
        BY <4>1
      <4> HIDE DEF g, h
      <4> QED
        BY <3>3, <4>2, <4>3, <4>4
    <3> QED
      BY <1>0, <2>3, <3>1, <3>2, <3>3
  <2>5. Eqn(from, g)
    BY <2>4
  <2> QED
    BY <2>5
<1>4. \E f : Eqn(0, f)
  <2>1. L \in S
    <3> HIDE DEF S
    <3> QED
      BY <1>0, <1>2, <1>3, NatSetInduction
  <2>2. L - L = 0
    BY <1>0
  <2> QED
    BY <1>0, <2>1, <2>2
<1> DEFINE new == NewWay(store, root, key, value, maxLevel)
<1>5. Eqn(0, new)
  BY <1>1, <1>4
<1> HIDE DEF new
<1>6. /\ DOMAIN new = 0 .. L
      /\ new[L] = Leaf(key, value)
      /\ \A d \in 0 .. L - 1 :
           new[d] = Branch(Bit(key, d), getNodeHash(new[d + 1]), sib(d))
  BY <1>0, <1>5
<1> QED
  BY <1>6 DEF new, L, sib

\* What is beside the new way is the empty subtree or in the store.
LEMMA SiblingInStore ==
    ASSUME NEW store, IsStore(store), NEW root \in Hashes(store), NEW key,
           NEW maxLevel \in Nat, FitsDepth(store, root, key, maxLevel),
           NEW d \in 0 .. LeafDepth(store, root, key, maxLevel) - 1
    PROVE  SiblingAt(store, root, key, maxLevel, d) \in Hashes(store)
<1> DEFINE hash == Descent(store, root, key)[d]
           node == NodeOnWay(store, root, key, d)
           end == EndDepth(store, root, key, maxLevel)
           L == LeafDepth(store, root, key, maxLevel)
<1>1. node = getNode(store, hash)
  BY DEF NodeOnWay
<1>2. CASE node.nodeType = "MIDDLE"
  <2> HIDE DEF hash, node
  <2>1. node = store[hash] /\ hash \in DOMAIN store
    BY <1>1, <1>2, MiddleChildren DEF getNode
  <2>2. Sibling(node, Bit(key, d)) \in Hashes(store)
    BY <1>1, <1>2, <2>1, MiddleChildren DEF Sibling
  <2> QED
    BY <1>2, <2>2 DEF SiblingAt, node
<1>3. CASE node.nodeType # "MIDDLE" /\ d = L - 1
  <2>1. /\ end \in 0 .. maxLevel
        /\ Ends(store, root, key, end)
        /\ \A e \in 0 .. end - 1 : ~Ends(store, root, key, e)
        /\ EndNode(store, root, key, maxLevel) = NodeOnWay(store, root, key, end)
    BY EndDepthFacts DEF FitsDepth
  <2>2. L \in end .. maxLevel
        /\ (end # L => Pushes(EndNode(store, root, key, maxLevel), key))
    BY LeafDepthFacts
  <2>3. Ends(store, root, key, d)
    BY <1>3 DEF Ends
  <2> HIDE DEF L, end, node
  <2>4. d \in Nat /\ d >= end /\ end # L
    BY <1>3, <2>1, <2>2, <2>3
  <2>5. Descent(store, root, key)[d] = Descent(store, root, key)[end]
    BY <2>1, <2>4, DescentStays
  <2>6. Pushes(node, key)
    BY <2>1, <2>2, <2>4, <2>5 DEF NodeOnWay, node
  <2>7. getNodeHash(node) = hash /\ hash \in DOMAIN store
    BY <1>1, <2>6, LeafInStore DEF Pushes
  <2>8. SiblingAt(store, root, key, maxLevel, d) = getNodeHash(node)
    BY <1>3 DEF SiblingAt, node, L
  <2> QED
    BY <2>7, <2>8 DEF Hashes
<1>4. CASE node.nodeType # "MIDDLE" /\ d # L - 1
  <2>1. SiblingAt(store, root, key, maxLevel, d) = EmptyHash
    BY <1>4 DEF SiblingAt
  <2> QED
    BY <2>1 DEF Hashes
<1> QED
  BY <1>2, <1>3, <1>4

-----------------------------------------------------------------------------
(* The store after a write.                                                *)

\* The new store has the old nodes, unchanged, and the new ones.
LEMMA AddNodesExtends ==
    ASSUME NEW store, NEW new
    PROVE  /\ IsFunction(AddNodes(store, new))
           /\ DOMAIN AddNodes(store, new) = DOMAIN store \cup HashesOf(new)
           /\ \A hash \in DOMAIN store : AddNodes(store, new)[hash] = store[hash]
<1> DEFINE added == AddNodes(store, new)
<1>1. added = [hash \in DOMAIN store \cup HashesOf(new) |->
                 IF hash \in DOMAIN store THEN store[hash] ELSE NodeOfHash(new, hash)]
  BY DEF AddNodes
<1> HIDE DEF added
<1>2. \A hash \in DOMAIN store : added[hash] = store[hash]
  BY <1>1
<1>3. IsFunction(added)
  BY <1>1 DEF IsFunction
<1> QED
  BY <1>1, <1>2, <1>3 DEF added

\* If no hashes collide, each new node is under its own.
LEMMA AddNodesStored ==
    ASSUME NEW store, NEW new, NoCollision(store, new)
    PROVE  \A d \in DOMAIN new : AddNodes(store, new)[getNodeHash(new[d])] = new[d]
<1> SUFFICES ASSUME NEW d \in DOMAIN new
             PROVE  AddNodes(store, new)[getNodeHash(new[d])] = new[d]
  OBVIOUS
<1> DEFINE hash == getNodeHash(new[d])
<1>1. hash \in HashesOf(new)
  BY DEF HashesOf
<1>2. AddNodes(store, new)[hash] =
        IF hash \in DOMAIN store THEN store[hash] ELSE NodeOfHash(new, hash)
  BY <1>1 DEF AddNodes
<1>3. CASE hash \in DOMAIN store
  BY <1>2, <1>3 DEF NoCollision
<1>4. CASE hash \notin DOMAIN store
  <2>1. NodeOfHash(new, hash) = new[d]
    BY DEF NoCollision, NodeOfHash
  <2> QED
    BY <1>2, <1>4, <2>1
<1> QED
  BY <1>3, <1>4

\* What refers to nodes of a store refers to nodes of any larger one.
LEMMA IsNodeMonotone ==
    ASSUME NEW store, NEW more, DOMAIN store \subseteq DOMAIN more, NEW node,
           IsNode(store, node)
    PROVE  IsNode(more, node)
  BY DEF IsNode, Hashes

\* Writing a leaf makes a store of a store, with the new root in it.
LEMMA AddedStore ==
    ASSUME NEW store, IsStore(store), NEW root \in Hashes(store),
           NEW key \in Index, NEW value \in Value, NEW maxLevel \in Nat,
           FitsDepth(store, root, key, maxLevel),
           NoCollision(store, NewWay(store, root, key, value, maxLevel))
    PROVE  LET new == NewWay(store, root, key, value, maxLevel)
               added == AddNodes(store, new)
           IN  /\ IsStore(added)
               /\ DOMAIN store \subseteq DOMAIN added
               /\ \A hash \in DOMAIN store : added[hash] = store[hash]
               /\ getNodeHash(new[0]) \in DOMAIN added
<1> DEFINE new == NewWay(store, root, key, value, maxLevel)
           added == AddNodes(store, new)
           L == LeafDepth(store, root, key, maxLevel)
<1>1. L \in Nat
  <2>1. EndDepth(store, root, key, maxLevel) \in 0 .. maxLevel
    BY EndDepthFacts DEF FitsDepth
  <2> QED
    BY <2>1, LeafDepthFacts
<1>2. /\ DOMAIN new = 0 .. L
      /\ new[L] = Leaf(key, value)
      /\ \A d \in 0 .. L - 1 :
           new[d] = Branch(Bit(key, d), getNodeHash(new[d + 1]),
                           SiblingAt(store, root, key, maxLevel, d))
  BY <1>1, NewWayDef
<1>3. \A d \in 0 .. L - 1 : SiblingAt(store, root, key, maxLevel, d) \in Hashes(store)
  BY SiblingInStore
<1>4. /\ IsFunction(added)
      /\ DOMAIN added = DOMAIN store \cup HashesOf(new)
      /\ \A hash \in DOMAIN store : added[hash] = store[hash]
  BY AddNodesExtends
<1>5. \A d \in DOMAIN new : added[getNodeHash(new[d])] = new[d]
  BY AddNodesStored
<1>6. HashesOf(new) = {getNodeHash(new[d]) : d \in DOMAIN new}
  BY DEF HashesOf
<1> HIDE DEF new, added, L
<1>7. ASSUME NEW d \in 0 .. L PROVE IsNode(added, new[d])
  <2>1. CASE d = L
    BY <1>2, <2>1 DEF IsNode
  <2>2. CASE d # L
    <3>1. d \in 0 .. L - 1 /\ d + 1 \in 0 .. L
      BY <1>1, <2>2
    <3> DEFINE below == getNodeHash(new[d + 1])
               beside == SiblingAt(store, root, key, maxLevel, d)
    <3>2. below \in Hashes(added)
      BY <1>2, <1>4, <1>6, <3>1 DEF Hashes
    <3>3. beside \in Hashes(added)
      BY <1>3, <1>4, <3>1 DEF Hashes
    <3>4. new[d] = Branch(Bit(key, d), below, beside)
      BY <1>2, <3>1
    <3> HIDE DEF below, beside
    <3> QED
      BY <3>2, <3>3, <3>4 DEF Branch, IsNode
  <2> QED
    BY <2>1, <2>2
<1>8. ASSUME NEW hash \in DOMAIN added
      PROVE  getNodeHash(added[hash]) = hash /\ IsNode(added, added[hash])
  <2>1. CASE hash \in DOMAIN store
    BY <1>4, <2>1, IsNodeMonotone DEF IsStore
  <2>2. CASE hash \notin DOMAIN store
    <3>1. PICK d \in 0 .. L : hash = getNodeHash(new[d])
      BY <1>2, <1>4, <1>6, <2>2
    <3> QED
      BY <1>2, <1>4, <1>5, <1>7, <3>1
  <2> QED
    BY <2>1, <2>2
<1>9. IsStore(added)
  BY <1>4, <1>8 DEF IsStore
<1>10. getNodeHash(new[0]) \in DOMAIN added
  BY <1>1, <1>2, <1>4, <1>6
<1> QED
  BY <1>4, <1>9, <1>10 DEF added, new

-----------------------------------------------------------------------------
(* Where ways end.                                                         *)

\* Two indexes have the same first bits.
Agree(i, j, depth) == \A d \in 0 .. depth - 1 : Bit(i, d) = Bit(j, d)

\* The way down meets its first node that is not a MIDDLE one at this depth.
EndsAt(store, root, key, end) ==
    /\ Ends(store, root, key, end)
    /\ \A d \in 0 .. end - 1 : ~Ends(store, root, key, d)

LEMMA EndsAtEndDepth ==
    ASSUME NEW store, NEW root, NEW key, NEW maxLevel \in Nat,
           NEW end \in 0 .. maxLevel, EndsAt(store, root, key, end)
    PROVE  /\ Ends(store, root, key, maxLevel)
           /\ EndDepth(store, root, key, maxLevel) = end
           /\ EndNode(store, root, key, maxLevel) = NodeOnWay(store, root, key, end)
           /\ \A d \in Nat : d >= end =>
                /\ Descent(store, root, key)[d] = Descent(store, root, key)[end]
                /\ NodeOnWay(store, root, key, d) = NodeOnWay(store, root, key, end)
                /\ Ends(store, root, key, d)
<1>1. ASSUME NEW d \in Nat, d >= end
      PROVE  /\ Descent(store, root, key)[d] = Descent(store, root, key)[end]
             /\ NodeOnWay(store, root, key, d) = NodeOnWay(store, root, key, end)
             /\ Ends(store, root, key, d)
  <2>1. Descent(store, root, key)[d] = Descent(store, root, key)[end]
    BY <1>1, DescentStays DEF EndsAt
  <2> QED
    BY <2>1 DEF EndsAt, Ends, NodeOnWay
<1>2. Ends(store, root, key, maxLevel)
  BY <1>1
<1>3. EndDepth(store, root, key, maxLevel) = end
  <2> DEFINE shown == EndDepth(store, root, key, maxLevel)
  <2>1. /\ shown \in 0 .. maxLevel
        /\ Ends(store, root, key, shown)
        /\ \A d \in 0 .. shown - 1 : ~Ends(store, root, key, d)
    BY <1>2, EndDepthFacts
  <2> HIDE DEF shown
  <2>2. ~(shown < end) /\ ~(end < shown)
    BY <2>1 DEF EndsAt
  <2>3. shown = end
    BY <2>1, <2>2
  <2> QED
    BY <2>3 DEF shown
<1> QED
  BY <1>1, <1>2, <1>3 DEF EndNode

LEMMA EndDepthEndsAt ==
    ASSUME NEW store, NEW root, NEW key, NEW maxLevel \in Nat,
           Ends(store, root, key, maxLevel)
    PROVE  \E end \in 0 .. maxLevel : EndsAt(store, root, key, end)
  BY EndDepthFacts DEF EndsAt

\* Indexes that agree on the first bits have the same way that far.
LEMMA WaysAgree ==
    ASSUME NEW store, NEW root, NEW i, NEW j, NEW depth \in Nat, Agree(i, j, depth)
    PROVE  \A d \in 0 .. depth :
             /\ Descent(store, root, i)[d] = Descent(store, root, j)[d]
             /\ NodeOnWay(store, root, i, d) = NodeOnWay(store, root, j, d)
             /\ Ends(store, root, i, d) <=> Ends(store, root, j, d)
<1> DEFINE D == Descent(store, root, i)
           E == Descent(store, root, j)
           S == {d \in Nat : d <= depth => D[d] = E[d]}
<1>1. 0 \in S
  BY DescentDef
<1>2. ASSUME NEW d \in Nat, d \in S PROVE d + 1 \in S
  <2>1. SUFFICES ASSUME d + 1 <= depth PROVE D[d + 1] = E[d + 1]
    OBVIOUS
  <2>2. D[d + 1] = StepDown(store, D[d], Bit(i, d))
    BY DescentDef
  <2>3. E[d + 1] = StepDown(store, E[d], Bit(j, d))
    BY DescentDef
  <2> HIDE DEF D, E
  <2>4. D[d] = E[d] /\ Bit(i, d) = Bit(j, d)
    BY <1>2, <2>1 DEF Agree
  <2> QED
    BY <2>2, <2>3, <2>4
<1>3. Nat \subseteq S
  <2> HIDE DEF S
  <2> QED
    BY <1>1, <1>2, NatSetInduction
<1>4. \A d \in 0 .. depth : D[d] = E[d]
  <2> HIDE DEF D, E
  <2> QED
    BY <1>3
<1> QED
  BY <1>4 DEF NodeOnWay, Ends

\* Two different indexes have a first bit that differs.
LEMMA FirstDifference ==
    ASSUME NEW i \in Index, NEW j \in Index, i # j
    PROVE  \E d \in 0 .. MAX_DEPTH_HARD_CAP - 1 : Bit(i, d) # Bit(j, d) /\ Agree(i, j, d)
<1> DEFINE S == {d \in 0 .. MAX_DEPTH_HARD_CAP - 1 : Bit(i, d) # Bit(j, d)}
<1>1. S # {}
  <2>1. PICK d \in 0 .. MAX_DEPTH_HARD_CAP - 1 : i[d] # j[d]
    <3>1. /\ i = [d \in 0 .. MAX_DEPTH_HARD_CAP - 1 |-> i[d]]
          /\ j = [d \in 0 .. MAX_DEPTH_HARD_CAP - 1 |-> j[d]]
      BY DEF Index
    <3>2. (\A d \in 0 .. MAX_DEPTH_HARD_CAP - 1 : i[d] = j[d]) => i = j
      BY <3>1, Zenon
    <3> QED
      BY <3>2
  <2>2. i[d] \in BOOLEAN /\ j[d] \in BOOLEAN /\ d < MAX_DEPTH_HARD_CAP
    BY CapAssumption DEF Index
  <2>3. Bit(i, d) # Bit(j, d)
    <3>1. (i[d] /\ ~j[d]) \/ (~i[d] /\ j[d])
      BY <2>1, <2>2
    <3>2. (Bit(i, d) /\ ~Bit(j, d)) \/ (~Bit(i, d) /\ Bit(j, d))
      BY <2>2, <3>1, Zenon DEF Bit
    <3> QED
      BY <3>2
  <2> QED
    BY <2>3
<1>2. S \in SUBSET Nat
  BY CapAssumption
<1>3. Least(S) \in S /\ \A n \in S : Least(S) <= n
  <2> HIDE DEF S
  <2> QED
    BY <1>1, <1>2, LeastIsLeast
<1>4. PICK d \in S : \A n \in S : d <= n
  BY <1>3
<1>5. Agree(i, j, d)
  BY <1>4, CapAssumption DEF Agree
<1> QED
  BY <1>4, <1>5

\* A hash of a store is that of no node, of a leaf under its own hash, or of a MIDDLE
\* node whose children are hashes of the store.
LEMMA NodeOfStore ==
    ASSUME NEW store, IsStore(store), NEW hash \in Hashes(store)
    PROVE  LET node == getNode(store, hash)
           IN  \/ hash = EmptyHash /\ node.nodeType = "EMPTY"
               \/ /\ hash # EmptyHash
                  /\ node.nodeType = "LEAF"
                  /\ node.index \in Index
                  /\ node.value \in Value
                  /\ hash = getNodeHash(Leaf(node.index, node.value))
               \/ /\ hash # EmptyHash
                  /\ node.nodeType = "MIDDLE"
                  /\ \A bit \in BOOLEAN :
                       /\ Child(node, bit) \in Hashes(store)
                       /\ Sibling(node, bit) \in Hashes(store)
                       /\ Sibling(node, bit) = Child(node, ~bit)
                       /\ hash = getNodeHash(Branch(bit, Child(node, bit), Sibling(node, bit)))
<1>1. CASE hash \in DOMAIN store
  <2> DEFINE node == store[hash]
  <2>1. getNode(store, hash) = node /\ getNodeHash(node) = hash /\ IsNode(store, node)
    BY <1>1 DEF getNode, IsStore
  <2>2. hash # EmptyHash
    <3>1. getNodeHash(node) # EmptyHash
      BY DEF getNodeHash, EmptyHash
    <3> QED
      BY <2>1, <3>1
  <2> HIDE DEF node
  <2>3. CASE \E key \in Index, value \in Value : node = Leaf(key, value)
    BY <2>1, <2>2, <2>3, NodeFields
  <2>4. ASSUME NEW left \in Hashes(store), NEW right \in Hashes(store),
               node = Middle(left, right)
        PROVE  /\ node.nodeType = "MIDDLE"
               /\ \A bit \in BOOLEAN :
                    /\ Child(node, bit) \in Hashes(store)
                    /\ Sibling(node, bit) \in Hashes(store)
                    /\ Sibling(node, bit) = Child(node, ~bit)
                    /\ node = Branch(bit, Child(node, bit), Sibling(node, bit))
    <3>1. node.nodeType = "MIDDLE" /\ node.childLeft = left /\ node.childRight = right
      BY <2>4, NodeFields
    <3> QED
      BY <2>4, <3>1 DEF Child, Sibling, Branch
  <2> QED
    BY <2>1, <2>2, <2>3, <2>4 DEF IsNode
<1>2. CASE hash \notin DOMAIN store
  BY <1>2, NodeFields DEF Hashes, getNode
<1> QED
  BY <1>1, <1>2

-----------------------------------------------------------------------------
(* A store and a larger one.                                               *)

\* All nodes of the one store are, unchanged, in the other.
Extends(store, more) ==
    /\ IsStore(store)
    /\ IsStore(more)
    /\ DOMAIN store \subseteq DOMAIN more
    /\ \A hash \in DOMAIN store : more[hash] = store[hash]

LEMMA SameNode ==
    ASSUME NEW store, NEW more, Extends(store, more), NEW hash \in Hashes(store)
    PROVE  getNode(more, hash) = getNode(store, hash)
<1>1. EmptyHash \notin DOMAIN store /\ EmptyHash \notin DOMAIN more
  <2>1. \A node : getNodeHash(node) # EmptyHash
    BY DEF getNodeHash, EmptyHash
  <2> QED
    BY <2>1 DEF Extends, IsStore
<1> QED
  BY <1>1 DEF Extends, getNode, Hashes

\* Two ways, one in each, that meet, stay together.
LEMMA WaysStayTogether ==
    ASSUME NEW store, NEW more, Extends(store, more), NEW root \in Hashes(store),
           NEW other, NEW key, NEW depth \in Nat,
           Descent(more, other, key)[depth] = Descent(store, root, key)[depth]
    PROVE  \A d \in Nat : d >= depth =>
             /\ Descent(more, other, key)[d] = Descent(store, root, key)[d]
             /\ NodeOnWay(more, other, key, d) = NodeOnWay(store, root, key, d)
             /\ Ends(more, other, key, d) <=> Ends(store, root, key, d)
<1> DEFINE D == Descent(store, root, key)
           E == Descent(more, other, key)
           S == {k \in Nat : E[depth + k] = D[depth + k]}
<1>1. \A d \in Nat : D[d] \in Hashes(store)
  BY DescentInStore DEF Extends
<1>2. \A d \in Nat : getNode(more, D[d]) = getNode(store, D[d])
  <2> HIDE DEF D
  <2> QED
    BY <1>1, SameNode
<1>3. 0 \in S
  OBVIOUS
<1>4. ASSUME NEW k \in Nat, k \in S PROVE k + 1 \in S
  <2>1. depth + k \in Nat /\ depth + (k + 1) = (depth + k) + 1
    OBVIOUS
  <2>2. D[depth + (k + 1)] = StepDown(store, D[depth + k], Bit(key, depth + k))
    BY <2>1, DescentDef
  <2>3. E[depth + (k + 1)] = StepDown(more, E[depth + k], Bit(key, depth + k))
    BY <2>1, DescentDef
  <2> HIDE DEF D, E
  <2>4. E[depth + k] = D[depth + k] /\ getNode(more, D[depth + k]) = getNode(store, D[depth + k])
    BY <1>2, <1>4, <2>1
  <2>5. E[depth + (k + 1)] = D[depth + (k + 1)]
    BY <2>2, <2>3, <2>4 DEF StepDown
  <2> QED
    BY <2>5
<1>5. Nat \subseteq S
  <2> HIDE DEF S
  <2> QED
    BY <1>3, <1>4, NatSetInduction
<1>6. ASSUME NEW d \in Nat, d >= depth PROVE E[d] = D[d] /\ getNode(more, E[d]) = getNode(store, D[d])
  <2>1. d - depth \in Nat /\ depth + (d - depth) = d
    BY <1>6
  <2> HIDE DEF D, E
  <2> QED
    BY <1>2, <1>5, <2>1
<1> QED
  BY <1>6 DEF NodeOnWay, Ends

-----------------------------------------------------------------------------
(* Trees.                                                                  *)

\* Below a root is a tree: every way ends by maxDepth, and a leaf it comes to is one
\* whose own way it is.
IsTree(store, root, maxLevel) ==
    \A key \in Index :
        \E end \in 0 .. maxLevel :
            /\ EndsAt(store, root, key, end)
            /\ LET node == NodeOnWay(store, root, key, end)
               IN  node.nodeType = "LEAF" => Agree(node.index, key, end)

\* No MIDDLE node stands for less than two leaves, as far as its children tell: an
\* empty child has a MIDDLE node beside it.
Compact(store) ==
    \A hash \in DOMAIN store :
        store[hash].nodeType = "MIDDLE" =>
            \A bit \in BOOLEAN :
                Child(store[hash], bit) = EmptyHash =>
                    getNode(store, Sibling(store[hash], bit)).nodeType = "MIDDLE"

\* A tree stays one, with the same ways, in a larger store and under a larger depth.
LEMMA TreeStays ==
    ASSUME NEW store, NEW more, Extends(store, more), NEW root \in Hashes(store),
           NEW maxLevel \in Nat, NEW deeper \in Nat, maxLevel <= deeper,
           IsTree(store, root, maxLevel)
    PROVE  /\ IsTree(more, root, deeper)
           /\ \A key \in Index :
                /\ EndNode(more, root, key, deeper) = EndNode(store, root, key, maxLevel)
                /\ SameProof(getProofByRoot(store, root, key, maxLevel),
                             getProofByRoot(more, root, key, deeper))
<1>1. ASSUME NEW key \in Index
      PROVE  /\ \E end \in 0 .. deeper :
                  /\ EndsAt(more, root, key, end)
                  /\ LET node == NodeOnWay(more, root, key, end)
                     IN  node.nodeType = "LEAF" => Agree(node.index, key, end)
             /\ EndNode(more, root, key, deeper) = EndNode(store, root, key, maxLevel)
             /\ SameProof(getProofByRoot(store, root, key, maxLevel),
                          getProofByRoot(more, root, key, deeper))
  <2>1. PICK end \in 0 .. maxLevel :
          /\ EndsAt(store, root, key, end)
          /\ LET node == NodeOnWay(store, root, key, end)
             IN  node.nodeType = "LEAF" => Agree(node.index, key, end)
    BY DEF IsTree
  <2>2. \A d \in Nat :
          /\ NodeOnWay(more, root, key, d) = NodeOnWay(store, root, key, d)
          /\ Ends(more, root, key, d) <=> Ends(store, root, key, d)
    <3>1. Descent(more, root, key)[0] = Descent(store, root, key)[0]
      BY DescentDef
    <3> QED
      BY <3>1, WaysStayTogether
  <2>3. EndsAt(more, root, key, end)
    BY <2>1, <2>2 DEF EndsAt
  <2>4. end \in 0 .. deeper
    OBVIOUS
  <2>5. EndNode(more, root, key, deeper) = EndNode(store, root, key, maxLevel)
    <3>1. EndNode(more, root, key, deeper) = NodeOnWay(more, root, key, end)
      BY <2>3, <2>4, EndsAtEndDepth
    <3>2. EndNode(store, root, key, maxLevel) = NodeOnWay(store, root, key, end)
      BY <2>1, EndsAtEndDepth
    <3> QED
      BY <2>2, <3>1, <3>2
  <2>6. SameProof(getProofByRoot(store, root, key, maxLevel),
                  getProofByRoot(more, root, key, deeper))
    <3> DEFINE p == getProofByRoot(store, root, key, maxLevel)
               q == getProofByRoot(more, root, key, deeper)
    <3>1. /\ p.root = q.root /\ p.index = q.index
          /\ p.existence = q.existence /\ p.value = q.value
          /\ p.auxExistence = q.auxExistence /\ p.auxIndex = q.auxIndex
          /\ p.auxValue = q.auxValue
      BY <2>5 DEF getProofByRoot
    <3>2. p.siblings = [d \in 0 .. maxLevel - 1 |->
                          IF NodeOnWay(store, root, key, d).nodeType = "MIDDLE"
                          THEN Sibling(NodeOnWay(store, root, key, d), Bit(key, d))
                          ELSE EmptyHash]
      BY DEF getProofByRoot
    <3>3. q.siblings = [d \in 0 .. deeper - 1 |->
                          IF NodeOnWay(more, root, key, d).nodeType = "MIDDLE"
                          THEN Sibling(NodeOnWay(more, root, key, d), Bit(key, d))
                          ELSE EmptyHash]
      BY DEF getProofByRoot
    <3>4. \A d \in Nat : d >= end => NodeOnWay(store, root, key, d).nodeType # "MIDDLE"
      BY <2>1, EndsAtEndDepth DEF Ends
    <3> HIDE DEF p, q
    <3>5. ASSUME NEW d \in DOMAIN q.siblings
          PROVE  q.siblings[d] = IF d \in DOMAIN p.siblings THEN p.siblings[d] ELSE EmptyHash
      <4>1. d \in 0 .. deeper - 1 /\ NodeOnWay(more, root, key, d) = NodeOnWay(store, root, key, d)
        BY <2>2, <3>3
      <4>2. CASE d \in 0 .. maxLevel - 1
        BY <3>2, <3>3, <4>1, <4>2
      <4>3. CASE d \notin 0 .. maxLevel - 1
        BY <3>2, <3>3, <3>4, <4>1, <4>3
      <4> QED
        BY <4>2, <4>3
    <3>6. DOMAIN p.siblings \subseteq DOMAIN q.siblings
      BY <3>2, <3>3
    <3>7. SameProof(p, q)
      BY <3>1, <3>5, <3>6 DEF SameProof
    <3> QED
      BY <3>7 DEF p, q
  <2> QED
    BY <2>1, <2>2, <2>3, <2>4, <2>5, <2>6
<1> QED
  BY <1>1 DEF IsTree

\* The empty subtree is a tree, with no leaves.
LEMMA EmptyIsTree ==
    ASSUME NEW store, IsStore(store), NEW maxLevel \in Nat
    PROVE  /\ IsTree(store, EmptyHash, maxLevel)
           /\ \A key \in Index : EndNode(store, EmptyHash, key, maxLevel).nodeType = "EMPTY"
<1>1. getNode(store, EmptyHash).nodeType = "EMPTY"
  BY NodeOfStore DEF Hashes
<1>2. ASSUME NEW key \in Index
      PROVE  /\ EndsAt(store, EmptyHash, key, 0)
             /\ NodeOnWay(store, EmptyHash, key, 0).nodeType = "EMPTY"
  BY <1>1, DescentDef DEF EndsAt, Ends, NodeOnWay
<1>3. \A key \in Index : EndNode(store, EmptyHash, key, maxLevel).nodeType = "EMPTY"
  BY <1>2, EndsAtEndDepth
<1> QED
  BY <1>2, <1>3 DEF IsTree

-----------------------------------------------------------------------------
(* What a tree holds.                                                      *)

\* The way down for index ends at its own leaf.
Holds(store, root, key, maxLevel) ==
    LET node == EndNode(store, root, key, maxLevel)
    IN  node.nodeType = "LEAF" /\ node.index = key

LEMMA ContentDef ==
    ASSUME NEW store, NEW root, NEW maxLevel
    PROVE  Content(store, root, maxLevel) =
             [key \in {i \in Index : Holds(store, root, i, maxLevel)} |->
                EndNode(store, root, key, maxLevel).value]
<1> DEFINE proof == [i \in Index |-> getProofByRoot(store, root, i, maxLevel)]
<1>1. ASSUME NEW i \in Index
      PROVE  /\ proof[i].existence <=> Holds(store, root, i, maxLevel)
             /\ Holds(store, root, i, maxLevel) =>
                  proof[i].value = EndNode(store, root, i, maxLevel).value
  BY DEF getProofByRoot, Holds
<1>2. Content(store, root, maxLevel) =
        [key \in {i \in Index : proof[i].existence} |-> proof[key].value]
  BY DEF Content
<1> HIDE DEF proof
<1> QED
  BY <1>1, <1>2

-----------------------------------------------------------------------------
(* What a proof is worth.                                                  *)

LEMMA BitIsBoolean == \A key, depth : Bit(key, depth) \in BOOLEAN
  BY DEF Bit

\* A step of a way down, seen from below.
LEMMA StepOfWay ==
    ASSUME NEW store, IsStore(store), NEW root \in Hashes(store), NEW key,
           NEW d \in Nat, ~Ends(store, root, key, d)
    PROVE  LET D == Descent(store, root, key)
               node == NodeOnWay(store, root, key, d)
               bit == Bit(key, d)
           IN  /\ node.nodeType = "MIDDLE"
               /\ D[d] \in DOMAIN store
               /\ node = store[D[d]]
               /\ D[d + 1] = Child(node, bit)
               /\ Sibling(node, bit) \in Hashes(store)
               /\ D[d] = getNodeHash(Branch(bit, D[d + 1], Sibling(node, bit)))
<1> DEFINE D == Descent(store, root, key)
           node == getNode(store, D[d])
           bit == Bit(key, d)
<1>1. D[d] \in Hashes(store) /\ D[d + 1] = StepDown(store, D[d], bit)
  BY DescentInStore, DescentDef
<1>2. NodeOnWay(store, root, key, d) = node /\ node.nodeType = "MIDDLE"
  BY DEF Ends, NodeOnWay
<1>3. bit \in BOOLEAN
  BY BitIsBoolean
<1> HIDE DEF D, bit
<1>4. /\ Child(node, bit) \in Hashes(store)
      /\ Sibling(node, bit) \in Hashes(store)
      /\ D[d] = getNodeHash(Branch(bit, Child(node, bit), Sibling(node, bit)))
      /\ D[d] # EmptyHash
  BY <1>1, <1>2, <1>3, NodeOfStore
<1>5. D[d + 1] = Child(node, bit)
  BY <1>1, <1>2 DEF StepDown
<1>6. D[d] \in DOMAIN store /\ node = store[D[d]]
  BY <1>1, <1>4 DEF Hashes, getNode
<1> QED
  BY <1>2, <1>4, <1>5, <1>6 DEF D, bit

\* The deepest sibling that is not empty is that of the node the way ends at.
LEMMA LevelIsEnd ==
    ASSUME NEW store, IsStore(store), Compact(store), NEW root \in Hashes(store), NEW key,
           NEW maxLevel \in Nat, NEW end \in 0 .. maxLevel, EndsAt(store, root, key, end)
    PROVE  LET siblings == getProofByRoot(store, root, key, maxLevel).siblings
           IN  /\ LevelOf(siblings) = end
               /\ \A d \in 0 .. end - 1 :
                    siblings[d] = Sibling(NodeOnWay(store, root, key, d), Bit(key, d))
<1> DEFINE siblings == getProofByRoot(store, root, key, maxLevel).siblings
           D == Descent(store, root, key)
           node(d) == NodeOnWay(store, root, key, d)
           filled == {d \in DOMAIN siblings : siblings[d] # EmptyHash}
<1>1. siblings = [d \in 0 .. maxLevel - 1 |->
                    IF node(d).nodeType = "MIDDLE" THEN Sibling(node(d), Bit(key, d))
                    ELSE EmptyHash]
  BY DEF getProofByRoot
<1>2. \A d \in 0 .. end - 1 : node(d).nodeType = "MIDDLE"
  BY DEF EndsAt, Ends
<1>3. \A d \in Nat : d >= end => node(d).nodeType # "MIDDLE"
  BY EndsAtEndDepth DEF Ends
<1>4. ASSUME end # 0
      PROVE  Sibling(node(end - 1), Bit(key, end - 1)) # EmptyHash
  <2> DEFINE bit == Bit(key, end - 1)
             parent == node(end - 1)
             beside == Sibling(parent, bit)
  <2>1. end - 1 \in 0 .. end - 1 /\ end - 1 \in Nat /\ (end - 1) + 1 = end
    BY <1>4
  <2>2. ~Ends(store, root, key, end - 1)
    BY <2>1 DEF EndsAt
  <2>3. /\ parent.nodeType = "MIDDLE"
        /\ D[end - 1] \in DOMAIN store
        /\ parent = store[D[end - 1]]
        /\ D[(end - 1) + 1] = Child(parent, bit)
        /\ beside \in Hashes(store)
    BY <2>1, <2>2, StepOfWay
  <2>4. getNode(store, Child(parent, bit)).nodeType # "MIDDLE"
    BY <1>3, <2>1, <2>3 DEF NodeOnWay
  <2>5. bit \in BOOLEAN
    BY BitIsBoolean
  <2> HIDE DEF parent, bit, D
  <2>6. beside = EmptyHash => Child(parent, ~bit) = EmptyHash
    BY <2>5 DEF Child, Sibling
  <2>7. Sibling(parent, ~bit) = Child(parent, bit) /\ (~bit) \in BOOLEAN
    <3>1. CASE bit = TRUE
      BY <3>1 DEF Child, Sibling
    <3>2. CASE bit = FALSE
      BY <3>2 DEF Child, Sibling
    <3> QED
      BY <2>5, <3>1, <3>2
  <2>8. beside # EmptyHash
    BY <2>3, <2>4, <2>6, <2>7 DEF Compact
  <2> QED
    BY <2>8 DEF parent, bit
<1> HIDE DEF siblings, node
<1>5. filled \subseteq 0 .. end - 1
  BY <1>1, <1>3
<1>6. end # 0 => end - 1 \in filled
  BY <1>1, <1>2, <1>4
<1>7. LevelOf(siblings) = end
  <2>1. LevelOf(siblings) =
          IF filled = {} THEN 0 ELSE 1 + CHOOSE d \in filled : \A e \in filled : e <= d
    BY DEF LevelOf
  <2> HIDE DEF filled
  <2>2. CASE end = 0
    <3>1. filled = {}
      BY <1>5, <2>2
    <3> QED
      BY <2>1, <2>2, <3>1
  <2>3. CASE end # 0
    <3>1. end - 1 \in filled /\ \A e \in filled : e \in Int /\ e <= end - 1
      BY <1>5, <1>6, <2>3
    <3>2. (CHOOSE d \in filled : \A e \in filled : e <= d) = end - 1
      <4>1. \A d \in filled : (\A e \in filled : e <= d) => d = end - 1
        BY <3>1
      <4> QED
        BY <3>1, <4>1
    <3> QED
      BY <2>1, <3>1, <3>2
  <2> QED
    BY <2>2, <2>3
<1>8. \A d \in 0 .. end - 1 : siblings[d] = Sibling(node(d), Bit(key, d))
  BY <1>1, <1>2
<1> QED
  BY <1>7, <1>8 DEF siblings, node

\* Every proof that a tree gives convinces.
LEMMA TreeConvinces ==
    ASSUME NEW store, IsStore(store), Compact(store), NEW root \in Hashes(store),
           NEW maxLevel \in Nat, IsTree(store, root, maxLevel), NEW key \in Index
    PROVE  /\ Ends(store, root, key, maxLevel)
           /\ Convinces(getProofByRoot(store, root, key, maxLevel))
<1> DEFINE proof == getProofByRoot(store, root, key, maxLevel)
           D == Descent(store, root, key)
<1>1. PICK end \in 0 .. maxLevel :
        /\ EndsAt(store, root, key, end)
        /\ LET node == NodeOnWay(store, root, key, end)
           IN  node.nodeType = "LEAF" => Agree(node.index, key, end)
  BY DEF IsTree
<1> DEFINE node == NodeOnWay(store, root, key, end)
<1>2. Ends(store, root, key, maxLevel) /\ EndNode(store, root, key, maxLevel) = node
  BY <1>1, EndsAtEndDepth
<1>3. /\ LevelOf(proof.siblings) = end
      /\ \A d \in 0 .. end - 1 :
           proof.siblings[d] = Sibling(NodeOnWay(store, root, key, d), Bit(key, d))
  BY <1>1, LevelIsEnd
<1>4. /\ proof.root = root
      /\ proof.index = key
      /\ proof.existence <=> node.nodeType = "LEAF" /\ node.index = key
      /\ proof.auxExistence <=> node.nodeType = "LEAF" /\ node.index # key
      /\ node.nodeType = "LEAF" => proof.value = node.value
      /\ proof.auxExistence => proof.auxIndex = node.index /\ proof.auxValue = node.value
  BY <1>2 DEF getProofByRoot, Pushes
<1>5. \/ D[end] = EmptyHash /\ node.nodeType = "EMPTY"
      \/ node.nodeType = "LEAF" /\ D[end] = getNodeHash(Leaf(node.index, node.value))
  <2>1. D[end] \in Hashes(store) /\ node = getNode(store, D[end]) /\ node.nodeType # "MIDDLE"
    BY <1>1, DescentInStore DEF EndsAt, Ends, NodeOnWay
  <2> HIDE DEF D, node
  <2> QED
    BY <2>1, NodeOfStore
<1>6. ASSUME NEW d \in 0 .. end - 1
      PROVE  D[d] = getNodeHash(Branch(Bit(key, d), D[d + 1], proof.siblings[d]))
  <2>1. d \in Nat /\ ~Ends(store, root, key, d)
    BY <1>1 DEF EndsAt
  <2> QED
    BY <1>3, <2>1, StepOfWay
<1> DEFINE Eqn(f) ==
             f = [d \in 0 .. end |->
                    IF d < end
                    THEN getNodeHash(Branch(Bit(proof.index, d), f[d + 1], proof.siblings[d]))
                    ELSE IF proof.existence THEN getNodeHash(Leaf(proof.index, proof.value))
                    ELSE IF proof.auxExistence
                         THEN getNodeHash(Leaf(proof.auxIndex, proof.auxValue))
                    ELSE EmptyHash]
           way == [d \in 0 .. end |-> D[d]]
<1>7. RecomputedRoot(proof) = (CHOOSE f : Eqn(f))[0]
  BY <1>3 DEF RecomputedRoot
<1>8. D[0] = root
  BY DescentDef
<1> HIDE DEF proof, D, node
<1>9. D[end] = IF proof.existence THEN getNodeHash(Leaf(proof.index, proof.value))
               ELSE IF proof.auxExistence
                    THEN getNodeHash(Leaf(proof.auxIndex, proof.auxValue))
               ELSE EmptyHash
  BY <1>4, <1>5
<1>10. Eqn(way)
  BY <1>4, <1>6, <1>9
<1> DEFINE f == CHOOSE f : Eqn(f)
<1>11. Eqn(f)
  BY <1>10
<1> HIDE DEF f
<1>12. f[0] = D[0]
  <2> DEFINE S == {n \in Nat : n <= end => f[end - n] = D[end - n]}
  <2>1. 0 \in S
    BY <1>9, <1>11
  <2>2. ASSUME NEW n \in Nat, n \in S PROVE n + 1 \in S
    <3>1. SUFFICES ASSUME n + 1 <= end PROVE f[end - (n + 1)] = D[end - (n + 1)]
      OBVIOUS
    <3> DEFINE d == end - (n + 1)
    <3>2. d \in 0 .. end - 1 /\ d + 1 = end - n /\ d \in 0 .. end /\ d < end
      BY <3>1
    <3>3. f[d + 1] = D[d + 1]
      BY <2>2, <3>1, <3>2
    <3>4. f[d] = getNodeHash(Branch(Bit(proof.index, d), f[d + 1], proof.siblings[d]))
      BY <1>11, <3>2
    <3> HIDE DEF d
    <3>5. f[d] = D[d]
      BY <1>4, <1>6, <3>2, <3>3, <3>4
    <3> QED
      BY <3>5 DEF d
  <2>3. Nat \subseteq S
    <3> HIDE DEF S
    <3> QED
      BY <2>1, <2>2, NatSetInduction
  <2>4. end \in S /\ end - end = 0
    BY <2>3
  <2> QED
    BY <2>4
<1>13. RecomputedRoot(proof) = proof.root
  BY <1>4, <1>7, <1>8, <1>12 DEF f
<1>14. proof.auxExistence =>
         /\ ~proof.existence
         /\ proof.auxIndex # proof.index
         /\ \A d \in 0 .. LevelOf(proof.siblings) - 1 :
              Bit(proof.auxIndex, d) = Bit(proof.index, d)
  BY <1>1, <1>3, <1>4 DEF node, Agree
<1> QED
  BY <1>2, <1>13, <1>14 DEF Convinces, proof

-----------------------------------------------------------------------------
(* The ways of the tree after a write.                                     *)

\* What a write starts from.
CanWrite(store, root, key, value, maxLevel) ==
    /\ IsStore(store)
    /\ root \in Hashes(store)
    /\ IsTree(store, root, maxLevel)
    /\ FitsDepth(store, root, key, maxLevel)
    /\ NoCollision(store, NewWay(store, root, key, value, maxLevel))

\* The new leaf is where the way down ended, or below another leaf that was there, at
\* the first bit where the two part.
LEMMA PlaceOfLeaf ==
    ASSUME NEW store, NEW root, NEW key \in Index, NEW maxLevel \in Nat,
           IsTree(store, root, maxLevel), FitsDepth(store, root, key, maxLevel)
    PROVE  LET leafDepth == LeafDepth(store, root, key, maxLevel)
               end == EndDepth(store, root, key, maxLevel)
               old == NodeOnWay(store, root, key, end)
           IN  /\ end \in Nat /\ leafDepth \in end .. maxLevel
               /\ EndsAt(store, root, key, end)
               /\ old.nodeType = "LEAF" => Agree(old.index, key, end)
               /\ end = leafDepth => ~Pushes(old, key)
               /\ end # leafDepth =>
                    /\ Pushes(old, key)
                    /\ Agree(old.index, key, leafDepth - 1)
                    /\ Bit(old.index, leafDepth - 1) # Bit(key, leafDepth - 1)
<1> DEFINE L == LeafDepth(store, root, key, maxLevel)
           end == EndDepth(store, root, key, maxLevel)
           old == NodeOnWay(store, root, key, end)
           S == PartingDepths(key, old.index, end, maxLevel)
<1>1. /\ end \in 0 .. maxLevel
      /\ EndsAt(store, root, key, end)
      /\ EndNode(store, root, key, maxLevel) = old
  BY EndDepthFacts DEF FitsDepth, EndsAt
<1>2. old.nodeType = "LEAF" => Agree(old.index, key, end)
  <2>1. PICK e \in 0 .. maxLevel :
          /\ EndsAt(store, root, key, e)
          /\ LET node == NodeOnWay(store, root, key, e)
             IN  node.nodeType = "LEAF" => Agree(node.index, key, e)
    BY DEF IsTree
  <2>2. e = end
    <3>1. e = EndDepth(store, root, key, maxLevel)
      BY <2>1, EndsAtEndDepth
    <3>2. end = EndDepth(store, root, key, maxLevel)
      BY EndsAtEndDepth
    <3> QED
      BY <3>1, <3>2
  <2> QED
    BY <2>1, <2>2
<1>3. L \in end .. maxLevel
  BY LeafDepthFacts
<1>4. CASE ~Pushes(old, key)
  <2>1. L = end
    BY <1>1, <1>4 DEF LeafDepth
  <2> QED
    BY <1>1, <1>2, <1>3, <1>4, <2>1
<1>5. CASE Pushes(old, key)
  <2>1. L = Least(S) + 1 /\ S # {}
    BY <1>1, <1>5 DEF LeafDepth, PartingDepth, FitsDepth
  <2> HIDE DEF end, L
  <2>2. S \in SUBSET (end .. maxLevel - 1)
        /\ \A d \in end .. maxLevel - 1 : d \in S <=> Bit(key, d) # Bit(old.index, d)
    BY DEF PartingDepths
  <2> HIDE DEF S
  <2>3. S \in SUBSET Nat
    BY <1>1, <2>2
  <2>4. Least(S) \in S /\ \A n \in S : Least(S) <= n
    BY <2>1, <2>3, LeastIsLeast
  <2>5. L - 1 \in end .. maxLevel - 1 /\ L - 1 \in S /\ \A n \in S : L - 1 <= n
    <3>1. Least(S) \in end .. maxLevel - 1
      BY <2>2, <2>4
    <3>2. L - 1 = Least(S)
      BY <1>1, <2>1, <3>1
    <3> QED
      BY <2>4, <3>1, <3>2
  <2>6. Agree(old.index, key, L - 1)
    <3>1. ASSUME NEW d \in 0 .. L - 1 - 1 PROVE Bit(old.index, d) = Bit(key, d)
      <4>1. CASE d < end
        BY <1>1, <1>2, <1>5, <4>1 DEF Agree, Pushes
      <4>2. CASE d >= end
        BY <1>1, <2>2, <2>5, <4>2
      <4> QED
        BY <1>1, <4>1, <4>2
    <3> QED
      BY <3>1 DEF Agree
  <2>7. Bit(old.index, L - 1) # Bit(key, L - 1)
    BY <2>2, <2>5
  <2>8. end # L
    BY <1>1, <2>5
  <2> QED
    BY <1>1, <1>2, <1>3, <1>5, <2>6, <2>7, <2>8 DEF end, L
<1> QED
  BY <1>4, <1>5

LEMMA BranchFields ==
    ASSUME NEW bit \in BOOLEAN, NEW child, NEW sibling
    PROVE  /\ Branch(bit, child, sibling).nodeType = "MIDDLE"
           /\ Child(Branch(bit, child, sibling), bit) = child
           /\ Sibling(Branch(bit, child, sibling), bit) = sibling
           /\ \A other \in BOOLEAN : other # bit =>
                /\ Child(Branch(bit, child, sibling), other) = sibling
                /\ Sibling(Branch(bit, child, sibling), other) = child
<1>1. CASE bit = TRUE
  <2>1. Branch(bit, child, sibling) = Middle(sibling, child)
    BY <1>1 DEF Branch
  <2>2. /\ Middle(sibling, child).nodeType = "MIDDLE"
        /\ Middle(sibling, child).childLeft = sibling
        /\ Middle(sibling, child).childRight = child
    BY NodeFields
  <2>3. \A other \in BOOLEAN : other # bit => other = FALSE
    BY <1>1
  <2> QED
    BY <1>1, <2>1, <2>2, <2>3 DEF Child, Sibling
<1>2. CASE bit = FALSE
  <2>1. Branch(bit, child, sibling) = Middle(child, sibling)
    BY <1>2 DEF Branch
  <2>2. /\ Middle(child, sibling).nodeType = "MIDDLE"
        /\ Middle(child, sibling).childLeft = child
        /\ Middle(child, sibling).childRight = sibling
    BY NodeFields
  <2>3. \A other \in BOOLEAN : other # bit => other = TRUE
    BY <1>2
  <2> QED
    BY <1>2, <2>1, <2>2, <2>3 DEF Child, Sibling
<1> QED
  BY <1>1, <1>2

\* The new store and the new way in it, all that the lemmas to come need of them.
WriteResult(store, root, key, value, maxLevel) ==
    LET new == NewWay(store, root, key, value, maxLevel)
        added == AddNodes(store, new)
        leafDepth == LeafDepth(store, root, key, maxLevel)
    IN  /\ Extends(store, added)
        /\ leafDepth \in 0 .. maxLevel
        /\ DOMAIN added = DOMAIN store \cup {getNodeHash(new[d]) : d \in 0 .. leafDepth}
        /\ \A d \in 0 .. leafDepth : getNode(added, getNodeHash(new[d])) = new[d]
        /\ new[leafDepth] = Leaf(key, value)
        /\ \A d \in 0 .. leafDepth - 1 :
             new[d] = Branch(Bit(key, d), getNodeHash(new[d + 1]),
                             SiblingAt(store, root, key, maxLevel, d))

LEMMA Written ==
    ASSUME NEW store, NEW root, NEW key \in Index, NEW value \in Value,
           NEW maxLevel \in Nat, CanWrite(store, root, key, value, maxLevel)
    PROVE  WriteResult(store, root, key, value, maxLevel)
<1> DEFINE new == NewWay(store, root, key, value, maxLevel)
           added == AddNodes(store, new)
           L == LeafDepth(store, root, key, maxLevel)
<1>1. L \in 0 .. maxLevel
  BY PlaceOfLeaf DEF CanWrite
<1>2. /\ DOMAIN new = 0 .. L
      /\ new[L] = Leaf(key, value)
      /\ \A d \in 0 .. L - 1 :
           new[d] = Branch(Bit(key, d), getNodeHash(new[d + 1]),
                           SiblingAt(store, root, key, maxLevel, d))
  BY <1>1, NewWayDef
<1>3. Extends(store, added)
  BY AddedStore DEF CanWrite, Extends
<1>4. DOMAIN added = DOMAIN store \cup {getNodeHash(new[d]) : d \in 0 .. L}
  BY <1>2, AddNodesExtends DEF HashesOf
<1>5. \A d \in DOMAIN new : added[getNodeHash(new[d])] = new[d]
  BY AddNodesStored DEF CanWrite
<1>6. \A d \in 0 .. L : getNode(added, getNodeHash(new[d])) = new[d]
  <2> HIDE DEF new, added, L
  <2> QED
    BY <1>2, <1>4, <1>5 DEF getNode
<1> QED
  BY <1>1, <1>2, <1>3, <1>4, <1>6 DEF WriteResult

\* The way of an index under the new root, as far as it is that of the new leaf,
LEMMA OnNewWay ==
    ASSUME NEW store, NEW root, NEW key \in Index, NEW value \in Value,
           NEW maxLevel \in Nat, CanWrite(store, root, key, value, maxLevel),
           NEW i \in Index, NEW depth \in 0 .. LeafDepth(store, root, key, maxLevel),
           Agree(i, key, depth)
    PROVE  LET new == NewWay(store, root, key, value, maxLevel)
               added == AddNodes(store, new)
           IN  \A d \in 0 .. depth :
                 /\ Descent(added, getNodeHash(new[0]), i)[d] = getNodeHash(new[d])
                 /\ NodeOnWay(added, getNodeHash(new[0]), i, d) = new[d]
<1> DEFINE new == NewWay(store, root, key, value, maxLevel)
           added == AddNodes(store, new)
           L == LeafDepth(store, root, key, maxLevel)
           D == Descent(added, getNodeHash(new[0]), i)
           sib(d) == SiblingAt(store, root, key, maxLevel, d)
           S == {d \in Nat : d <= depth => D[d] = getNodeHash(new[d])}
<1>1. /\ L \in 0 .. maxLevel
      /\ \A d \in 0 .. L : getNode(added, getNodeHash(new[d])) = new[d]
      /\ \A d \in 0 .. L - 1 : new[d] = Branch(Bit(key, d), getNodeHash(new[d + 1]), sib(d))
  <2>1. WriteResult(store, root, key, value, maxLevel)
    BY Written
  <2> QED
    BY <2>1, Zenon DEF WriteResult
<1>2. D[0] = getNodeHash(new[0]) /\ \A d \in Nat : D[d + 1] = StepDown(added, D[d], Bit(i, d))
  BY DescentDef
<1>3. 0 \in S
  BY <1>2
<1> HIDE DEF new, added, D, L, sib
<1>4. ASSUME NEW d \in Nat, d \in S PROVE d + 1 \in S
  <2>1. SUFFICES ASSUME d + 1 <= depth PROVE D[d + 1] = getNodeHash(new[d + 1])
    OBVIOUS
  <2>2. d \in 0 .. L - 1 /\ d \in 0 .. L /\ d \in 0 .. depth - 1 /\ depth \in 0 .. L
    BY <1>1, <2>1 DEF L
  <2>3. D[d] = getNodeHash(new[d]) /\ getNode(added, D[d]) = new[d]
    BY <1>1, <1>4, <2>1, <2>2
  <2>4. new[d] = Branch(Bit(key, d), getNodeHash(new[d + 1]), sib(d)) /\ Bit(i, d) = Bit(key, d)
    BY <1>1, <2>2 DEF Agree
  <2>5. new[d].nodeType = "MIDDLE" /\ Child(new[d], Bit(i, d)) = getNodeHash(new[d + 1])
    BY <2>4, BranchFields, BitIsBoolean
  <2> QED
    BY <1>2, <2>3, <2>5 DEF StepDown
<1>5. Nat \subseteq S
  <2> HIDE DEF S
  <2> QED
    BY <1>3, <1>4, NatSetInduction
<1>6. ASSUME NEW d \in 0 .. depth
      PROVE  D[d] = getNodeHash(new[d]) /\ getNode(added, D[d]) = new[d]
  <2>1. depth \in 0 .. L
    BY DEF L
  <2>2. d \in 0 .. L /\ d \in Nat /\ d <= depth
    BY <1>1, <2>1
  <2> QED
    BY <1>1, <1>5, <2>2
<1> QED
  BY <1>6 DEF NodeOnWay, D, new, added

\* and at the first bit where it parts from that: the hash beside the new way.
LEMMA PartingFromNewWay ==
    ASSUME NEW store, NEW root, NEW key \in Index, NEW value \in Value,
           NEW maxLevel \in Nat, CanWrite(store, root, key, value, maxLevel),
           NEW i \in Index, NEW k \in 0 .. LeafDepth(store, root, key, maxLevel) - 1,
           Agree(i, key, k), Bit(i, k) # Bit(key, k)
    PROVE  LET new == NewWay(store, root, key, value, maxLevel)
               added == AddNodes(store, new)
               newRoot == getNodeHash(new[0])
           IN  /\ \A d \in 0 .. k : ~Ends(added, newRoot, i, d)
               /\ Descent(added, newRoot, i)[k + 1] = SiblingAt(store, root, key, maxLevel, k)
<1> DEFINE new == NewWay(store, root, key, value, maxLevel)
           added == AddNodes(store, new)
           newRoot == getNodeHash(new[0])
           L == LeafDepth(store, root, key, maxLevel)
           sib(d) == SiblingAt(store, root, key, maxLevel, d)
<1>1. /\ L \in 0 .. maxLevel
      /\ \A d \in 0 .. L - 1 : new[d] = Branch(Bit(key, d), getNodeHash(new[d + 1]), sib(d))
  <2>1. WriteResult(store, root, key, value, maxLevel)
    BY Written
  <2> QED
    BY <2>1, Zenon DEF WriteResult
<1>2. k \in 0 .. L - 1 /\ k \in 0 .. L /\ k \in Nat
  BY <1>1
<1>3. \A d \in 0 .. k : NodeOnWay(added, newRoot, i, d) = new[d]
  BY <1>2, OnNewWay
<1>4. Descent(added, newRoot, i)[k + 1] =
        StepDown(added, Descent(added, newRoot, i)[k], Bit(i, k))
  BY <1>2, DescentDef
<1> HIDE DEF new, added, newRoot, L, sib
<1>5. \A d \in 0 .. L - 1 : new[d].nodeType = "MIDDLE"
  BY <1>1, BranchFields, BitIsBoolean
<1>6. \A d \in 0 .. k : ~Ends(added, newRoot, i, d)
  BY <1>1, <1>2, <1>3, <1>5 DEF Ends
<1>7. Child(new[k], Bit(i, k)) = sib(k)
  BY <1>1, <1>2, BranchFields, BitIsBoolean
<1>8. getNode(added, Descent(added, newRoot, i)[k]) = new[k]
  BY <1>2, <1>3 DEF NodeOnWay
<1>9. Descent(added, newRoot, i)[k + 1] = sib(k)
  BY <1>2, <1>4, <1>5, <1>7, <1>8 DEF StepDown
<1> QED
  BY <1>6, <1>9 DEF new, added, newRoot, sib

\* Below that bit, the way of another index goes on as it did under the old root, or
\* ends at once, where it used to come to the leaf that was pushed down.
LEMMA OffNewWay ==
    ASSUME NEW store, NEW root, NEW key \in Index, NEW value \in Value,
           NEW maxLevel \in Nat, CanWrite(store, root, key, value, maxLevel),
           NEW i \in Index, NEW k \in 0 .. LeafDepth(store, root, key, maxLevel) - 1,
           Agree(i, key, k), Bit(i, k) # Bit(key, k)
    PROVE  LET end == EndDepth(store, root, key, maxLevel)
               beside == SiblingAt(store, root, key, maxLevel, k)
           IN  \/ Descent(store, root, i)[k + 1] = beside
               \/ /\ beside = EmptyHash
                  /\ end <= k
                  /\ k # LeafDepth(store, root, key, maxLevel) - 1
<1> DEFINE end == EndDepth(store, root, key, maxLevel)
           L == LeafDepth(store, root, key, maxLevel)
           beside == SiblingAt(store, root, key, maxLevel, k)
           node == NodeOnWay(store, root, key, k)
           D == Descent(store, root, i)
<1>1. /\ end \in Nat /\ L \in end .. maxLevel
      /\ EndsAt(store, root, key, end)
      /\ end # L => Pushes(NodeOnWay(store, root, key, end), key)
  BY PlaceOfLeaf DEF CanWrite
<1>2. k \in Nat /\ k \in 0 .. k
  BY <1>1
<1>3. /\ D[k] = Descent(store, root, key)[k]
      /\ NodeOnWay(store, root, i, k) = node
      /\ Ends(store, root, i, k) <=> Ends(store, root, key, k)
  BY <1>2, WaysAgree
<1>4. D[k + 1] = StepDown(store, D[k], Bit(i, k)) /\ getNode(store, D[k]) = node
  BY <1>2, <1>3, DescentDef DEF NodeOnWay
<1>5. CASE node.nodeType = "MIDDLE"
  <2>1. beside = Sibling(node, Bit(key, k))
    BY <1>5 DEF SiblingAt
  <2>2. Child(node, Bit(i, k)) = Sibling(node, Bit(key, k))
    <3>1. CASE Bit(i, k) = TRUE /\ Bit(key, k) = FALSE
      BY <3>1 DEF Child, Sibling
    <3>2. CASE Bit(i, k) = FALSE /\ Bit(key, k) = TRUE
      BY <3>2 DEF Child, Sibling
    <3> QED
      BY <3>1, <3>2, BitIsBoolean
  <2>3. D[k + 1] = beside
    BY <1>4, <1>5, <2>1, <2>2 DEF StepDown
  <2> QED
    BY <2>3
<1>6. CASE node.nodeType # "MIDDLE"
  <2>1. Ends(store, root, key, k)
    BY <1>6 DEF Ends
  <2>2. end <= k /\ end # L
    <3> HIDE DEF end, L
    <3> QED
      BY <1>1, <1>2, <2>1 DEF EndsAt, L
  <2>3. CASE k = L - 1
    <3>1. beside = getNodeHash(node)
      BY <1>6, <2>3 DEF SiblingAt
    <3>2. Pushes(node, key)
      <4>1. node = NodeOnWay(store, root, key, end)
        BY <1>1, <1>2, <2>2, EndsAtEndDepth
      <4> QED
        BY <1>1, <2>2, <4>1
    <3>3. getNodeHash(node) = D[k]
      <4>1. getNode(store, D[k]).nodeType = "LEAF" /\ IsStore(store)
        BY <1>4, <3>2 DEF Pushes, CanWrite
      <4> QED
        BY <1>4, <4>1, LeafInStore
    <3>4. D[k + 1] = D[k]
      BY <1>4, <1>6 DEF StepDown
    <3> QED
      BY <3>1, <3>3, <3>4
  <2>4. CASE k # L - 1
    <3>1. beside = EmptyHash
      BY <1>6, <2>4 DEF SiblingAt
    <3> QED
      BY <2>2, <2>4, <3>1
  <2> QED
    BY <2>3, <2>4
<1> QED
  BY <1>5, <1>6

\* What is at the end of the way of i under the new root: the new leaf, an empty
\* place where i was not held, or what was there under the old root.
WrittenEnd(store, root, key, value, maxLevel, i, end, node) ==
    \/ /\ node = Leaf(key, value)
       /\ Agree(key, i, end)
       /\ i # key => ~Holds(store, root, i, maxLevel)
    \/ /\ node.nodeType = "EMPTY"
       /\ i # key
       /\ ~Holds(store, root, i, maxLevel)
    \/ /\ node = EndNode(store, root, i, maxLevel)
       /\ i # key
       /\ node.nodeType = "LEAF" => Agree(node.index, i, end)

\* The way of an index under the new root, at its end: at the new leaf, at an empty
\* place beside the new way, or where it ended under the old root.
LEMMA WrittenWay ==
    ASSUME NEW store, NEW root, NEW key \in Index, NEW value \in Value,
           NEW maxLevel \in Nat, CanWrite(store, root, key, value, maxLevel),
           NEW i \in Index
    PROVE  LET new == NewWay(store, root, key, value, maxLevel)
               added == AddNodes(store, new)
               newRoot == getNodeHash(new[0])
           IN  \E end \in 0 .. maxLevel :
                 /\ EndsAt(added, newRoot, i, end)
                 /\ WrittenEnd(store, root, key, value, maxLevel, i, end,
                               NodeOnWay(added, newRoot, i, end))
<1> DEFINE new == NewWay(store, root, key, value, maxLevel)
           added == AddNodes(store, new)
           newRoot == getNodeHash(new[0])
           L == LeafDepth(store, root, key, maxLevel)
           last == EndDepth(store, root, key, maxLevel)
           old == NodeOnWay(store, root, key, last)
<1>1. WriteResult(store, root, key, value, maxLevel)
  BY Written
<1>2. /\ Extends(store, added)
      /\ L \in 0 .. maxLevel
      /\ new[L] = Leaf(key, value)
      /\ IsStore(store) /\ root \in Hashes(store) /\ IsTree(store, root, maxLevel)
  BY <1>1, Zenon DEF WriteResult, CanWrite
<1>3. /\ last \in Nat /\ L \in last .. maxLevel
      /\ EndsAt(store, root, key, last)
      /\ last = L => ~Pushes(old, key)
      /\ last # L => /\ Pushes(old, key)
                     /\ Agree(old.index, key, L - 1)
                     /\ Bit(old.index, L - 1) # Bit(key, L - 1)
  BY PlaceOfLeaf DEF CanWrite
<1>4. PICK e \in 0 .. maxLevel :
        /\ EndsAt(store, root, i, e)
        /\ LET node == NodeOnWay(store, root, i, e)
           IN  node.nodeType = "LEAF" => Agree(node.index, i, e)
  BY <1>2 DEF IsTree
<1>5. /\ EndNode(store, root, i, maxLevel) = NodeOnWay(store, root, i, e)
      /\ \A d \in Nat : d >= e => /\ NodeOnWay(store, root, i, d) = NodeOnWay(store, root, i, e)
                                  /\ Ends(store, root, i, d)
  BY <1>4, EndsAtEndDepth
<1>8. \A d \in Nat : d >= last => NodeOnWay(store, root, key, d) = old
  <2>1. last \in 0 .. maxLevel
    BY <1>3
  <2> HIDE DEF last
  <2> QED
    BY <1>3, <2>1, EndsAtEndDepth
<1>6. CASE Agree(i, key, L)
  <2>1. \A d \in 0 .. L : NodeOnWay(added, newRoot, i, d) = new[d]
    <3>1. L \in 0 .. L
      BY <1>2
    <3> QED
      BY <1>6, <3>1, OnNewWay
  <2>2. \A d \in 0 .. L - 1 : new[d].nodeType = "MIDDLE"
    <3>1. \A d \in 0 .. L - 1 :
            new[d] = Branch(Bit(key, d), getNodeHash(new[d + 1]),
                            SiblingAt(store, root, key, maxLevel, d))
      BY <1>1, Zenon DEF WriteResult
    <3> QED
      BY <3>1, BranchFields, BitIsBoolean
  <2>3. EndsAt(added, newRoot, i, L) /\ NodeOnWay(added, newRoot, i, L) = Leaf(key, value)
    <3> HIDE DEF new, added, newRoot, L
    <3> QED
      BY <1>2, <2>1, <2>2, NodeFields DEF EndsAt, Ends
  <2>4. i # key => ~Holds(store, root, i, maxLevel)
    <3>1. SUFFICES ASSUME i # key, Holds(store, root, i, maxLevel) PROVE FALSE
      OBVIOUS
    <3>0. /\ L \in Nat
          /\ \A d \in 0 .. L :
               /\ NodeOnWay(store, root, i, d) = NodeOnWay(store, root, key, d)
               /\ Ends(store, root, i, d) <=> Ends(store, root, key, d)
      <4> HIDE DEF L
      <4>1. L \in Nat
        BY <1>2
      <4> QED
        BY <1>6, <4>1, WaysAgree
    <3>2. NodeOnWay(store, root, i, last) = old /\ Ends(store, root, i, last)
      <4>1. last \in 0 .. L
        BY <1>3
      <4> QED
        BY <1>2, <1>3, <3>0, <4>1 DEF EndsAt
    <3>3. e <= last
      <4> HIDE DEF last
      <4> QED
        BY <1>3, <1>4, <3>2 DEF EndsAt
    <3>4. old = NodeOnWay(store, root, i, e)
      BY <1>3, <1>5, <3>2, <3>3
    <3>5. old.nodeType = "LEAF" /\ old.index = i
      BY <1>5, <3>1, <3>4 DEF Holds
    <3>6. last # L
      BY <1>3, <3>1, <3>5 DEF Pushes
    <3>7. Bit(i, L - 1) # Bit(key, L - 1) /\ L - 1 \in 0 .. L - 1
      BY <1>2, <1>3, <3>5, <3>6
    <3> QED
      BY <1>6, <3>7 DEF Agree
  <2>5. Agree(key, i, L)
    BY <1>6 DEF Agree
  <2> QED
    BY <1>2, <2>3, <2>4, <2>5 DEF WrittenEnd
<1>7. CASE ~Agree(i, key, L)
  <2>1. i # key
    BY <1>7 DEF Agree
  <2>2. PICK k \in 0 .. L - 1 : Bit(i, k) # Bit(key, k) /\ Agree(i, key, k)
    <3>1. PICK k \in 0 .. MAX_DEPTH_HARD_CAP - 1 : Bit(i, k) # Bit(key, k) /\ Agree(i, key, k)
      BY <2>1, FirstDifference
    <3>2. k < L
      BY <1>2, <1>7, <3>1, CapAssumption DEF Agree
    <3> QED
      BY <1>2, <3>1, <3>2, CapAssumption
  <2> DEFINE beside == SiblingAt(store, root, key, maxLevel, k)
  <2>3. /\ \A d \in 0 .. k : ~Ends(added, newRoot, i, d)
        /\ Descent(added, newRoot, i)[k + 1] = beside
    BY <2>2, PartingFromNewWay
  <2>4. k \in Nat /\ k + 1 \in Nat /\ k + 1 \in 0 .. maxLevel /\ k + 1 <= L
    BY <1>2
  <2>9. \A d \in 0 .. k :
          /\ NodeOnWay(store, root, i, d) = NodeOnWay(store, root, key, d)
          /\ Ends(store, root, i, d) <=> Ends(store, root, key, d)
    BY <2>2, <2>4, WaysAgree
  <2>5. CASE Descent(store, root, i)[k + 1] = beside
    <3>1. \A d \in Nat : d >= k + 1 =>
            /\ NodeOnWay(added, newRoot, i, d) = NodeOnWay(store, root, i, d)
            /\ Ends(added, newRoot, i, d) <=> Ends(store, root, i, d)
      BY <1>2, <2>3, <2>4, <2>5, WaysStayTogether
    <3> HIDE DEF new, added, newRoot, L, last
    <3>2. CASE e >= k + 1
      <4>1. EndsAt(added, newRoot, i, e)
        BY <1>4, <2>3, <2>4, <3>1, <3>2 DEF EndsAt
      <4>2. NodeOnWay(added, newRoot, i, e) = NodeOnWay(store, root, i, e)
        BY <3>1, <3>2
      <4> QED
        BY <1>4, <1>5, <2>1, <4>1, <4>2 DEF WrittenEnd, new, added, newRoot
    <3>3. CASE e <= k
      <4>1. NodeOnWay(store, root, i, k) = NodeOnWay(store, root, i, e) /\ Ends(store, root, i, k)
        BY <1>5, <2>4, <3>3
      <4>2. NodeOnWay(store, root, i, k + 1) = NodeOnWay(store, root, i, e)
            /\ Ends(store, root, i, k + 1)
        BY <1>5, <2>4, <3>3
      <4>3. EndsAt(added, newRoot, i, k + 1)
        BY <2>3, <2>4, <3>1, <4>2 DEF EndsAt
      <4>4. NodeOnWay(added, newRoot, i, k + 1) = EndNode(store, root, i, maxLevel)
        BY <1>5, <2>4, <3>1, <4>2
      <4>5. ASSUME NodeOnWay(store, root, i, e).nodeType = "LEAF"
            PROVE  Agree(NodeOnWay(store, root, i, e).index, i, k + 1)
        <5>1. Ends(store, root, key, k) /\ NodeOnWay(store, root, key, k) = NodeOnWay(store, root, i, e)
          BY <2>4, <2>9, <4>1
        <5>2. last <= k
          BY <1>3, <2>4, <5>1 DEF EndsAt
        <5>3. last # L /\ NodeOnWay(store, root, key, k) = old
          <6>1. last # L
            BY <1>3, <2>4, <5>2
          <6>2. NodeOnWay(store, root, key, k) = NodeOnWay(store, root, key, last)
            BY <1>3, <1>8, <2>4, <5>2
          <6> QED
            BY <6>1, <6>2
        <5>4. Agree(old.index, key, L - 1) /\ Bit(old.index, L - 1) # Bit(key, L - 1)
          BY <1>3, <5>3
        <5>5. CASE k = L - 1
          <6>1. Bit(old.index, k) = Bit(i, k)
            BY <2>2, <5>4, <5>5, BitIsBoolean
          <6>2. \A d \in 0 .. k - 1 : Bit(old.index, d) = Bit(i, d)
            BY <2>2, <5>4, <5>5 DEF Agree
          <6>3. \A d \in 0 .. k + 1 - 1 : d = k \/ d \in 0 .. k - 1
            BY <2>4
          <6> QED
            BY <5>1, <5>3, <6>1, <6>2, <6>3 DEF Agree
        <5>6. CASE k # L - 1
          <6>1. beside = EmptyHash
            <7>1. NodeOnWay(store, root, key, k).nodeType # "MIDDLE"
              BY <5>1 DEF Ends
            <7> QED
              BY <5>6, <7>1 DEF SiblingAt, L
          <6>2. getNode(store, beside).nodeType = "EMPTY"
            BY <1>2, <6>1, NodeOfStore DEF Hashes
          <6>3. NodeOnWay(store, root, i, k + 1).nodeType = "EMPTY"
            BY <2>5, <6>2 DEF NodeOnWay
          <6> QED
            BY <4>2, <4>5, <6>3
        <5> QED
          BY <5>5, <5>6
      <4> QED
        BY <1>5, <2>1, <2>4, <4>3, <4>4, <4>5 DEF WrittenEnd, new, added, newRoot
    <3> QED
      BY <2>4, <3>2, <3>3
  <2>6. CASE beside = EmptyHash /\ last <= k /\ k # L - 1
    <3>1. NodeOnWay(added, newRoot, i, k + 1).nodeType = "EMPTY"
      <4>1. getNode(added, EmptyHash).nodeType = "EMPTY"
        BY <1>2, NodeOfStore DEF Extends, Hashes
      <4> QED
        BY <2>3, <2>6, <4>1 DEF NodeOnWay
    <3>2. EndsAt(added, newRoot, i, k + 1)
      <4> HIDE DEF new, added, newRoot, L
      <4> QED
        BY <2>3, <2>4, <3>1 DEF EndsAt, Ends
    <3>3. ~Holds(store, root, i, maxLevel)
      <4>1. SUFFICES ASSUME Holds(store, root, i, maxLevel) PROVE FALSE
        OBVIOUS
      <4>2. NodeOnWay(store, root, i, last) = old /\ Ends(store, root, i, last)
        <5>1. last \in 0 .. k
          BY <1>3, <2>4, <2>6
        <5> QED
          BY <1>3, <2>9, <5>1 DEF EndsAt
      <4>3. e <= last
        <5> HIDE DEF last
        <5> QED
          BY <1>3, <1>4, <4>2 DEF EndsAt
      <4>4. old.index = i
        BY <1>3, <1>5, <4>1, <4>2, <4>3 DEF Holds
      <4>5. last # L /\ k \in 0 .. L - 1 - 1
        BY <1>3, <2>4, <2>6
      <4> QED
        BY <1>3, <2>2, <4>4, <4>5 DEF Agree
    <3> QED
      BY <2>1, <2>4, <3>1, <3>2, <3>3 DEF WrittenEnd
  <2>7. \/ Descent(store, root, i)[k + 1] = beside
        \/ beside = EmptyHash /\ last <= k /\ k # L - 1
    BY <2>2, OffNewWay
  <2> QED
    BY <2>5, <2>6, <2>7
<1> QED
  BY <1>6, <1>7

WithLeaf(content, key, value) ==
    [i \in DOMAIN content \cup {key} |-> IF i = key THEN value ELSE content[i]]

\* After a write the new root is that of a tree, with one leaf set and all others what
\* they were.
LEMMA WriteTree ==
    ASSUME NEW store, NEW root, NEW key \in Index, NEW value \in Value,
           NEW maxLevel \in Nat, CanWrite(store, root, key, value, maxLevel)
    PROVE  LET new == NewWay(store, root, key, value, maxLevel)
               added == AddNodes(store, new)
               newRoot == getNodeHash(new[0])
               content == Content(store, root, maxLevel)
           IN  /\ IsTree(added, newRoot, maxLevel)
               /\ Content(added, newRoot, maxLevel) = WithLeaf(content, key, value)
<1> DEFINE new == NewWay(store, root, key, value, maxLevel)
           added == AddNodes(store, new)
           newRoot == getNodeHash(new[0])
           content == Content(store, root, maxLevel)
           after == Content(added, newRoot, maxLevel)
<1>1. ASSUME NEW i \in Index
      PROVE  \E end \in 0 .. maxLevel :
               /\ EndsAt(added, newRoot, i, end)
               /\ WrittenEnd(store, root, key, value, maxLevel, i, end,
                             NodeOnWay(added, newRoot, i, end))
  BY WrittenWay
<1> HIDE DEF new, added, newRoot
<1>2. ASSUME NEW i \in Index
      PROVE  /\ \E end \in 0 .. maxLevel :
                  /\ EndsAt(added, newRoot, i, end)
                  /\ LET node == NodeOnWay(added, newRoot, i, end)
                     IN  node.nodeType = "LEAF" => Agree(node.index, i, end)
             /\ Holds(added, newRoot, i, maxLevel) <=>
                  i = key \/ Holds(store, root, i, maxLevel)
             /\ i = key => EndNode(added, newRoot, i, maxLevel).value = value
             /\ i # key /\ Holds(store, root, i, maxLevel) =>
                  EndNode(added, newRoot, i, maxLevel) = EndNode(store, root, i, maxLevel)
  <2>1. PICK end \in 0 .. maxLevel :
          /\ EndsAt(added, newRoot, i, end)
          /\ WrittenEnd(store, root, key, value, maxLevel, i, end,
                        NodeOnWay(added, newRoot, i, end))
    BY <1>1
  <2> DEFINE node == NodeOnWay(added, newRoot, i, end)
  <2>2. EndNode(added, newRoot, i, maxLevel) = node
    BY <2>1, EndsAtEndDepth
  <2> HIDE DEF node
  <2>3. WrittenEnd(store, root, key, value, maxLevel, i, end, node)
    BY <2>1 DEF node
  <2>4. CASE /\ node = Leaf(key, value)
             /\ Agree(key, i, end)
             /\ i # key => ~Holds(store, root, i, maxLevel)
    <3>1. node.nodeType = "LEAF" /\ node.index = key /\ node.value = value
      BY <2>4, NodeFields
    <3> QED
      BY <2>1, <2>2, <2>4, <3>1 DEF Holds, node
  <2>5. CASE /\ node.nodeType = "EMPTY"
             /\ i # key
             /\ ~Holds(store, root, i, maxLevel)
    BY <2>1, <2>2, <2>5 DEF Holds, node
  <2>6. CASE /\ node = EndNode(store, root, i, maxLevel)
             /\ i # key
             /\ node.nodeType = "LEAF" => Agree(node.index, i, end)
    BY <2>1, <2>2, <2>6 DEF Holds, node
  <2> QED
    BY <2>3, <2>4, <2>5, <2>6 DEF WrittenEnd
<1>3. IsTree(added, newRoot, maxLevel)
  BY <1>2 DEF IsTree
<1>4. /\ content = [i \in {i \in Index : Holds(store, root, i, maxLevel)} |->
                      EndNode(store, root, i, maxLevel).value]
      /\ after = [i \in {i \in Index : Holds(added, newRoot, i, maxLevel)} |->
                    EndNode(added, newRoot, i, maxLevel).value]
  BY ContentDef
<1> HIDE DEF content, after
<1>5. DOMAIN after = DOMAIN content \cup {key}
  BY <1>2, <1>4
<1>6. ASSUME NEW i \in DOMAIN after
      PROVE  after[i] = IF i = key THEN value ELSE content[i]
  <2>1. i \in Index /\ after[i] = EndNode(added, newRoot, i, maxLevel).value
    BY <1>4
  <2>2. CASE i = key
    BY <1>2, <2>1, <2>2
  <2>3. CASE i # key
    <3>1. i \in DOMAIN content /\ Holds(store, root, i, maxLevel)
      BY <1>4, <1>5, <2>3
    <3> QED
      BY <1>2, <1>4, <2>1, <2>3, <3>1
  <2> QED
    BY <2>2, <2>3
<1>7. after = WithLeaf(content, key, value)
  BY <1>4, <1>5, <1>6 DEF WithLeaf
<1> QED
  BY <1>3, <1>7 DEF new, added, newRoot, content, after

\* And no MIDDLE node of the new way stands for one leaf alone.
LEMMA WriteCompact ==
    ASSUME NEW store, NEW root, NEW key \in Index, NEW value \in Value,
           NEW maxLevel \in Nat, CanWrite(store, root, key, value, maxLevel),
           Compact(store)
    PROVE  Compact(AddNodes(store, NewWay(store, root, key, value, maxLevel)))
<1> DEFINE new == NewWay(store, root, key, value, maxLevel)
           added == AddNodes(store, new)
           L == LeafDepth(store, root, key, maxLevel)
           sib(d) == SiblingAt(store, root, key, maxLevel, d)
           last == EndDepth(store, root, key, maxLevel)
           D == Descent(store, root, key)
<1>1. WriteResult(store, root, key, value, maxLevel)
  BY Written
<1>2. /\ Extends(store, added)
      /\ L \in 0 .. maxLevel
      /\ DOMAIN added = DOMAIN store \cup {getNodeHash(new[d]) : d \in 0 .. L}
      /\ \A d \in 0 .. L : getNode(added, getNodeHash(new[d])) = new[d]
      /\ new[L] = Leaf(key, value)
      /\ \A d \in 0 .. L - 1 : new[d] = Branch(Bit(key, d), getNodeHash(new[d + 1]), sib(d))
  BY <1>1, Zenon DEF WriteResult
<1>3. \A node : getNodeHash(node) # EmptyHash
  BY DEF getNodeHash, EmptyHash
<1>4. ASSUME L - 1 \in 0 .. L - 1
      PROVE  sib(L - 1) # EmptyHash
  <2> DEFINE node == NodeOnWay(store, root, key, L - 1)
             bit == Bit(key, L - 1)
  <2>1. CASE node.nodeType # "MIDDLE"
    BY <1>3, <2>1 DEF SiblingAt
  <2>2. CASE node.nodeType = "MIDDLE"
    <3>1. /\ last \in Nat /\ L \in last .. maxLevel
          /\ EndsAt(store, root, key, last)
          /\ \A d \in Nat : d >= last => Ends(store, root, key, d)
      <4>1. /\ last \in Nat /\ L \in last .. maxLevel
            /\ EndsAt(store, root, key, last)
        BY PlaceOfLeaf DEF CanWrite
      <4>2. last \in 0 .. maxLevel
        BY <4>1
      <4> HIDE DEF last, L
      <4> QED
        BY <4>1, <4>2, EndsAtEndDepth
    <3>2. ~Ends(store, root, key, L - 1)
      BY <2>2 DEF Ends
    <3> HIDE DEF L, last
    <3>3. last = L /\ Ends(store, root, key, L) /\ L - 1 \in Nat /\ (L - 1) + 1 = L
      BY <1>2, <1>4, <3>1, <3>2
    <3>4. /\ D[L - 1] \in DOMAIN store
          /\ node = store[D[L - 1]]
          /\ D[(L - 1) + 1] = Child(node, bit)
      BY <3>2, <3>3, StepOfWay DEF CanWrite
    <3>5. getNode(store, Child(node, bit)).nodeType # "MIDDLE"
      BY <3>3, <3>4 DEF Ends, NodeOnWay
    <3>6. sib(L - 1) = Sibling(node, bit)
      BY <2>2 DEF SiblingAt
    <3>7. Sibling(node, bit) = Child(node, ~bit) /\ Child(node, bit) = Sibling(node, ~bit)
      BY DEF Child, Sibling
    <3>8. (~bit) \in BOOLEAN
      BY BitIsBoolean
    <3> QED
      BY <2>2, <3>4, <3>5, <3>6, <3>7, <3>8 DEF Compact
  <2> QED
    BY <2>1, <2>2
<1> HIDE DEF L, new, added, sib
<1>5. ASSUME NEW hash \in DOMAIN added, added[hash].nodeType = "MIDDLE",
             NEW bit \in BOOLEAN, Child(added[hash], bit) = EmptyHash
      PROVE  getNode(added, Sibling(added[hash], bit)).nodeType = "MIDDLE"
  <2>1. CASE hash \in DOMAIN store
    <3>1. added[hash] = store[hash] /\ IsStore(store)
      BY <1>2, <2>1 DEF Extends
    <3>2. getNode(store, Sibling(store[hash], bit)).nodeType = "MIDDLE"
      BY <1>5, <2>1, <3>1 DEF Compact
    <3>3. Sibling(store[hash], bit) \in Hashes(store)
      BY <3>2 DEF getNode, EmptyNode, Hashes
    <3> QED
      BY <1>2, <3>1, <3>2, <3>3, SameNode
  <2>2. CASE hash \notin DOMAIN store
    <3>1. PICK d \in 0 .. L : hash = getNodeHash(new[d])
      BY <1>2, <2>2
    <3>2. added[hash] = new[d]
      BY <1>2, <3>1 DEF getNode
    <3>3. d \in 0 .. L - 1 /\ d + 1 \in 0 .. L
      BY <1>2, <1>5, <3>2, NodeFields
    <3>4. new[d] = Branch(Bit(key, d), getNodeHash(new[d + 1]), sib(d))
      BY <1>2, <3>3
    <3>5. bit # Bit(key, d)
      BY <1>3, <1>5, <3>2, <3>4, BranchFields, BitIsBoolean
    <3>6. Child(new[d], bit) = sib(d) /\ Sibling(new[d], bit) = getNodeHash(new[d + 1])
      BY <3>4, <3>5, BranchFields, BitIsBoolean
    <3>7. d # L - 1
      BY <1>4, <1>5, <3>2, <3>3, <3>6
    <3>8. d + 1 \in 0 .. L - 1
      BY <1>2, <3>3, <3>7
    <3>9. new[d + 1].nodeType = "MIDDLE"
      BY <1>2, <3>8, BranchFields, BitIsBoolean
    <3> QED
      BY <1>2, <3>2, <3>3, <3>6, <3>9
  <2> QED
    BY <2>1, <2>2
<1>6. Compact(added)
  BY <1>5 DEF Compact
<1> QED
  BY <1>6 DEF added, new

-----------------------------------------------------------------------------
(* A root depends on the leaves alone.                                     *)

\* The hash for a set of keys at a depth, from the hashes one level below.
HashOfKeys(content, depth, keys, below, hash) ==
    /\ keys = {} => hash = EmptyHash
    /\ \A k : keys = {k} => hash = getNodeHash(Leaf(k, content[k]))
    /\ depth # MAX_DEPTH_HARD_CAP /\ (\E j, k \in keys : j # k) =>
         hash = getNodeHash(Middle(below[{i \in keys : ~Bit(i, depth)}],
                                   below[{i \in keys : Bit(i, depth)}]))

\* The table that CanonicalRoot is read from.
CanonicalHash(content, hash) ==
    \A d \in 0 .. MAX_DEPTH_HARD_CAP, keys \in SUBSET DOMAIN content :
        HashOfKeys(content, d, keys, hash[d + 1], hash[d][keys])

\* One row of its table, given the one below.
Row(content, depth, below) ==
    [keys \in SUBSET DOMAIN content |->
       IF keys = {} THEN EmptyHash
       ELSE IF depth = MAX_DEPTH_HARD_CAP \/ \E key \in keys : keys = {key}
       THEN LET key == CHOOSE i \in keys : TRUE
            IN  getNodeHash(Leaf(key, content[key]))
       ELSE getNodeHash(Middle(below[{i \in keys : ~Bit(i, depth)}],
                               below[{i \in keys : Bit(i, depth)}]))]

LEMMA RowFacts ==
    ASSUME NEW content, NEW depth, NEW below, NEW keys \in SUBSET DOMAIN content
    PROVE  HashOfKeys(content, depth, keys, below, Row(content, depth, below)[keys])
<1>1. keys = {} => Row(content, depth, below)[keys] = EmptyHash
  BY DEF Row
<1>2. ASSUME NEW k, keys = {k}
      PROVE  Row(content, depth, below)[keys] = getNodeHash(Leaf(k, content[k]))
  <2>1. (CHOOSE i \in keys : TRUE) = k
    BY <1>2
  <2>2. Row(content, depth, below)[keys] =
          LET key == CHOOSE i \in keys : TRUE
          IN  getNodeHash(Leaf(key, content[key]))
    BY <1>2 DEF Row
  <2> QED
    BY <2>1, <2>2
<1>3. ASSUME depth # MAX_DEPTH_HARD_CAP, \E j, k \in keys : j # k
      PROVE  Row(content, depth, below)[keys] =
                  getNodeHash(Middle(below[{i \in keys : ~Bit(i, depth)}],
                                     below[{i \in keys : Bit(i, depth)}]))
  <2>1. keys # {} /\ ~(\E key \in keys : keys = {key})
    BY <1>3
  <2> QED
    BY <1>3, <2>1 DEF Row
<1> QED
  BY <1>1, <1>2, <1>3 DEF HashOfKeys

LEMMA CanonicalDef ==
    ASSUME NEW content
    PROVE  \E hash : /\ CanonicalHash(content, hash)
                     /\ CanonicalRoot(content) = hash[0][DOMAIN content]
<1> DEFINE C == MAX_DEPTH_HARD_CAP
           Eqn(from, f) == f = [depth \in from .. C |-> Row(content, depth, f[depth + 1])]
           S == {n \in Nat : n <= C => \E f : Eqn(C - n, f)}
<1>1. CanonicalRoot(content) = (CHOOSE f : Eqn(0, f))[0][DOMAIN content]
  BY DEF CanonicalRoot, Row
<1> HIDE DEF C
<1>2. C \in Nat
  BY CapAssumption DEF C
<1>3. \A x, y : Row(content, C, x) = Row(content, C, y)
  BY DEF Row, C
<1>4. 0 \in S
  <2> DEFINE f == [depth \in C .. C |-> Row(content, depth, 0)]
  <2>1. \A d \in C .. C : f[d] = Row(content, d, f[d + 1])
    <3>1. \A d \in C .. C : d = C
      BY <1>2
    <3>2. f[C] = Row(content, C, 0)
      BY <1>2
    <3> HIDE DEF f
    <3> QED
      BY <1>3, <3>1, <3>2
  <2>2. Eqn(C, f)
    BY <2>1
  <2>3. C - 0 = C
    BY <1>2
  <2> QED
    BY <2>2, <2>3
<1>5. ASSUME NEW n \in Nat, n \in S PROVE n + 1 \in S
  <2>1. SUFFICES ASSUME n + 1 <= C PROVE \E f : Eqn(C - (n + 1), f)
    OBVIOUS
  <2>2. PICK f : Eqn(C - n, f)
    BY <1>2, <1>5, <2>1
  <2> DEFINE from == C - (n + 1)
             g == [depth \in from .. C |->
                     IF depth >= C - n THEN f[depth] ELSE Row(content, from, f[C - n])]
  <2>3. from \in Nat /\ from + 1 = C - n /\ from < C
    BY <1>2, <2>1
  <2>4. ASSUME NEW d \in from .. C PROVE g[d] = Row(content, d, g[d + 1])
    <3>1. CASE d = C
      <4>1. C >= C - n /\ C \in from .. C /\ C \in C - n .. C
        BY <1>2, <2>3
      <4>2. f[C] = Row(content, C, f[C + 1])
        BY <2>2, <4>1
      <4>3. g[C] = f[C]
        BY <4>1
      <4> HIDE DEF g
      <4> QED
        BY <1>3, <3>1, <4>2, <4>3
    <3>2. CASE d # C /\ d >= C - n
      <4>1. d \in C - n .. C /\ d + 1 \in from .. C /\ d + 1 >= C - n
        BY <1>2, <2>3, <3>2
      <4>2. f[d] = Row(content, d, f[d + 1])
        BY <2>2, <4>1
      <4>3. g[d] = f[d] /\ g[d + 1] = f[d + 1]
        BY <3>2, <4>1
      <4> HIDE DEF g
      <4> QED
        BY <4>2, <4>3
    <3>3. CASE ~(d >= C - n)
      <4>1. d = from /\ d + 1 = C - n /\ d + 1 \in from .. C
        BY <1>2, <2>3, <3>3
      <4>2. g[d] = Row(content, d, f[C - n]) /\ g[d + 1] = f[C - n]
        BY <1>2, <3>3, <4>1
      <4> HIDE DEF g
      <4> QED
        BY <4>2
    <3> QED
      BY <3>1, <3>2, <3>3
  <2>5. Eqn(from, g)
    BY <2>4
  <2> QED
    BY <2>5
<1>6. Nat \subseteq S
  <2> HIDE DEF S
  <2> QED
    BY <1>4, <1>5, NatSetInduction
<1>7. C \in S /\ C - C = 0
  BY <1>2, <1>6
<1>8. \E f : Eqn(0, f)
  BY <1>2, <1>7
<1> DEFINE hash == CHOOSE f : Eqn(0, f)
<1>9. Eqn(0, hash)
  BY <1>8
<1> HIDE DEF hash
<1>10. \A d \in 0 .. C : hash[d] = Row(content, d, hash[d + 1])
  BY <1>9
<1>11. CanonicalHash(content, hash)
  <2>1. ASSUME NEW d \in 0 .. C, NEW keys \in SUBSET DOMAIN content
        PROVE  HashOfKeys(content, d, keys, hash[d + 1], hash[d][keys])
    <3>1. HashOfKeys(content, d, keys, hash[d + 1], Row(content, d, hash[d + 1])[keys])
      BY RowFacts
    <3> QED
      BY <1>10, <3>1
  <2> QED
    BY <2>1 DEF CanonicalHash, C
<1>12. CanonicalRoot(content) = hash[0][DOMAIN content]
  BY <1>1 DEF hash
<1> QED
  BY <1>11, <1>12

\* The keys of the leaves below the node where the way of an index is at a depth.
KeysBelow(store, root, maxLevel, key, depth) ==
    {k \in Index : Holds(store, root, k, maxLevel) /\ Agree(k, key, depth)}

\* Below the end of a way, none, or that of the leaf there.
LEMMA KeysAtEnd ==
    ASSUME NEW store, IsStore(store), NEW root \in Hashes(store), NEW maxLevel \in Nat,
           IsTree(store, root, maxLevel), NEW key \in Index,
           NEW end \in 0 .. maxLevel, EndsAt(store, root, key, end)
    PROVE  LET node == NodeOnWay(store, root, key, end)
               keys == KeysBelow(store, root, maxLevel, key, end)
           IN  \/ /\ Descent(store, root, key)[end] = EmptyHash
                  /\ keys = {}
                  /\ node.nodeType = "EMPTY"
               \/ /\ keys = {node.index}
                  /\ node.nodeType = "LEAF"
                  /\ Descent(store, root, key)[end] =
                       getNodeHash(Leaf(node.index,
                                        EndNode(store, root, node.index, maxLevel).value))
<1> DEFINE node == NodeOnWay(store, root, key, end)
           keys == KeysBelow(store, root, maxLevel, key, end)
           D == Descent(store, root, key)
<1>1. end \in Nat
  OBVIOUS
<1>2. ASSUME NEW k \in Index, Agree(k, key, end)
      PROVE  EndNode(store, root, k, maxLevel) = node
  <2>1. \A d \in 0 .. end :
          /\ NodeOnWay(store, root, k, d) = NodeOnWay(store, root, key, d)
          /\ Ends(store, root, k, d) <=> Ends(store, root, key, d)
    BY <1>1, <1>2, WaysAgree
  <2>2. EndsAt(store, root, k, end)
    BY <1>1, <2>1 DEF EndsAt
  <2>3. EndNode(store, root, k, maxLevel) = NodeOnWay(store, root, k, end)
    BY <2>2, EndsAtEndDepth
  <2> QED
    BY <1>1, <2>1, <2>3
<1>3. /\ node = getNode(store, D[end])
      /\ node.nodeType # "MIDDLE"
      /\ D[end] \in Hashes(store)
  BY <1>1, DescentInStore DEF NodeOnWay, EndsAt, Ends
<1>4. node.nodeType = "LEAF" => Agree(node.index, key, end)
  <2>1. PICK e \in 0 .. maxLevel :
          /\ EndsAt(store, root, key, e)
          /\ LET n == NodeOnWay(store, root, key, e)
             IN  n.nodeType = "LEAF" => Agree(n.index, key, e)
    BY DEF IsTree
  <2>2. e = end
    <3>1. e = EndDepth(store, root, key, maxLevel)
      BY <2>1, EndsAtEndDepth
    <3>2. end = EndDepth(store, root, key, maxLevel)
      BY EndsAtEndDepth
    <3> QED
      BY <3>1, <3>2
  <2> QED
    BY <2>1, <2>2
<1> HIDE DEF node, D
<1>5. \A k \in keys : node.nodeType = "LEAF" /\ node.index = k
  BY <1>2 DEF KeysBelow, Holds
<1>6. \/ D[end] = EmptyHash /\ node.nodeType = "EMPTY"
      \/ /\ node.nodeType = "LEAF" /\ node.index \in Index
         /\ D[end] = getNodeHash(Leaf(node.index, node.value))
  BY <1>3, NodeOfStore
<1>7. CASE D[end] = EmptyHash /\ node.nodeType = "EMPTY"
  <2>1. keys = {}
    BY <1>5, <1>7
  <2> QED
    BY <1>7, <2>1 DEF node, D
<1>8. CASE /\ node.nodeType = "LEAF" /\ node.index \in Index
           /\ D[end] = getNodeHash(Leaf(node.index, node.value))
  <2>1. EndNode(store, root, node.index, maxLevel) = node
    BY <1>2, <1>4, <1>8
  <2>2. node.index \in keys
    BY <1>4, <1>8, <2>1 DEF KeysBelow, Holds
  <2>3. keys = {node.index}
    <3> HIDE DEF keys
    <3> QED
      BY <1>5, <2>2
  <2> QED
    BY <1>8, <2>1, <2>3 DEF node, D
<1> QED
  BY <1>6, <1>7, <1>8

\* The way of i goes that of index down to a MIDDLE node, then on to the child there
\* on the side of a bit, above the keys of that side.
GoesOn(store, root, maxLevel, key, d, bit, i) ==
    /\ \A e \in 0 .. d : ~Ends(store, root, i, e)
    /\ Descent(store, root, i)[d + 1] = Child(NodeOnWay(store, root, key, d), bit)
    /\ KeysBelow(store, root, maxLevel, i, d + 1) =
         {k \in KeysBelow(store, root, maxLevel, key, d) : Bit(k, d) = bit}

\* There is such a way to both children.
LEMMA KeysBelowMiddle ==
    ASSUME NEW store, NEW root, NEW maxLevel \in Nat,
           NEW key \in Index, NEW d \in 0 .. MAX_DEPTH_HARD_CAP - 1,
           \A e \in 0 .. d : ~Ends(store, root, key, e), NEW bit \in BOOLEAN
    PROVE  \E i \in Index : GoesOn(store, root, maxLevel, key, d, bit, i)
<1> DEFINE i == [key EXCEPT ![d] = bit]
           node == NodeOnWay(store, root, key, d)
<1>1. i \in Index /\ d \in Nat
  BY CapAssumption DEF Index
<1>2. Bit(i, d) = bit
  BY CapAssumption DEF Bit, Index
<1>3. Agree(i, key, d)
  BY CapAssumption DEF Agree, Bit, Index
<1> HIDE DEF i
<1>4. \A e \in 0 .. d :
        /\ Descent(store, root, i)[e] = Descent(store, root, key)[e]
        /\ Ends(store, root, i, e) <=> Ends(store, root, key, e)
  BY <1>1, <1>3, WaysAgree
<1>5. \A e \in 0 .. d : ~Ends(store, root, i, e)
  BY <1>4
<1>6. Descent(store, root, i)[d + 1] = Child(node, bit)
  <2>1. Descent(store, root, i)[d + 1] = StepDown(store, Descent(store, root, i)[d], bit)
    BY <1>1, <1>2, DescentDef
  <2>2. Descent(store, root, i)[d] = Descent(store, root, key)[d]
    BY <1>1, <1>4
  <2>3. node.nodeType = "MIDDLE"
    BY <1>1 DEF Ends
  <2> QED
    BY <2>1, <2>2, <2>3 DEF StepDown, NodeOnWay
<1>7. \A k \in Index : Agree(k, i, d + 1) <=> Agree(k, key, d) /\ Bit(k, d) = bit
  <2>1. ASSUME NEW k \in Index, Agree(k, i, d + 1)
        PROVE  Agree(k, key, d) /\ Bit(k, d) = bit
    BY <1>1, <1>2, <1>3, <2>1 DEF Agree
  <2>2. ASSUME NEW k \in Index, Agree(k, key, d), Bit(k, d) = bit
        PROVE  Agree(k, i, d + 1)
    <3>1. \A e \in 0 .. d + 1 - 1 : e = d \/ e \in 0 .. d - 1
      BY <1>1
    <3> QED
      BY <1>2, <1>3, <2>2, <3>1 DEF Agree
  <2> QED
    BY <2>1, <2>2
<1>8. KeysBelow(store, root, maxLevel, i, d + 1) =
        {k \in KeysBelow(store, root, maxLevel, key, d) : Bit(k, d) = bit}
  BY <1>7 DEF KeysBelow
<1> QED
  BY <1>1, <1>5, <1>6, <1>8 DEF GoesOn

\* The hash on the way of an index at a depth is the one its keys have in a table, and
\* it stands for some keys if not EMPTY, for more than one if MIDDLE.
Settled(store, root, maxLevel, hash, key, depth) ==
    LET keys == KeysBelow(store, root, maxLevel, key, depth)
        node == NodeOnWay(store, root, key, depth)
    IN  /\ hash[depth][keys] = Descent(store, root, key)[depth]
        /\ node.nodeType # "EMPTY" => keys # {}
        /\ node.nodeType = "MIDDLE" => \E j, k \in keys : j # k

LEMMA TreeEnds ==
    ASSUME NEW store, NEW root, NEW maxLevel \in Nat, IsTree(store, root, maxLevel),
           NEW key \in Index
    PROVE  Ends(store, root, key, maxLevel)
  BY EndsAtEndDepth DEF IsTree

LEMMA KeysInContent ==
    ASSUME NEW store, NEW root, NEW maxLevel, NEW key, NEW depth
    PROVE  KeysBelow(store, root, maxLevel, key, depth) \in
             SUBSET DOMAIN Content(store, root, maxLevel)
<1>1. DOMAIN Content(store, root, maxLevel) = {i \in Index : Holds(store, root, i, maxLevel)}
  BY ContentDef
<1> QED
  BY <1>1 DEF KeysBelow

LEMMA SettledAtEnd ==
    ASSUME NEW store, IsStore(store), NEW root \in Hashes(store),
           NEW maxLevel \in 0 .. MAX_DEPTH_HARD_CAP,
           IsTree(store, root, maxLevel), NEW hash,
           CanonicalHash(Content(store, root, maxLevel), hash),
           NEW key \in Index, NEW d \in 0 .. maxLevel, EndsAt(store, root, key, d)
    PROVE  Settled(store, root, maxLevel, hash, key, d)
<1> DEFINE node == NodeOnWay(store, root, key, d)
           keys == KeysBelow(store, root, maxLevel, key, d)
           content == Content(store, root, maxLevel)
           h == Descent(store, root, key)[d]
<1>0. maxLevel \in Nat /\ d \in 0 .. MAX_DEPTH_HARD_CAP
  BY CapAssumption
<1>1. keys \in SUBSET DOMAIN content
  BY KeysInContent
<1>2. HashOfKeys(content, d, keys, hash[d + 1], hash[d][keys])
  BY <1>0, <1>1 DEF CanonicalHash
<1>3. \/ h = EmptyHash /\ keys = {} /\ node.nodeType = "EMPTY"
      \/ /\ keys = {node.index}
         /\ node.nodeType = "LEAF"
         /\ h = getNodeHash(Leaf(node.index, EndNode(store, root, node.index, maxLevel).value))
  BY <1>0, KeysAtEnd
<1>4. \A k \in DOMAIN content : content[k] = EndNode(store, root, k, maxLevel).value
  BY ContentDef
<1> HIDE DEF node, keys, content, h
<1>5. CASE h = EmptyHash /\ keys = {} /\ node.nodeType = "EMPTY"
  <2>1. hash[d][keys] = h
    BY <1>2, <1>5 DEF HashOfKeys
  <2> QED
    BY <1>5, <2>1 DEF Settled, node, keys, h
<1>6. CASE /\ keys = {node.index}
           /\ node.nodeType = "LEAF"
           /\ h = getNodeHash(Leaf(node.index,
                                   EndNode(store, root, node.index, maxLevel).value))
  <2>1. content[node.index] = EndNode(store, root, node.index, maxLevel).value
    BY <1>1, <1>4, <1>6
  <2>2. hash[d][keys] = h
    BY <1>2, <1>6, <2>1 DEF HashOfKeys
  <2>3. keys # {} /\ node.nodeType # "MIDDLE"
    BY <1>6
  <2> QED
    BY <2>2, <2>3 DEF Settled, node, keys, h
<1> QED
  BY <1>3, <1>5, <1>6

LEMMA SettledAtMiddle ==
    ASSUME NEW store, IsStore(store), Compact(store), NEW root \in Hashes(store),
           NEW maxLevel \in 0 .. MAX_DEPTH_HARD_CAP,
           IsTree(store, root, maxLevel), NEW hash,
           CanonicalHash(Content(store, root, maxLevel), hash),
           NEW key \in Index, NEW d \in 0 .. maxLevel,
           \A e \in 0 .. d : ~Ends(store, root, key, e),
           \A i \in Index : (\A e \in 0 .. d : ~Ends(store, root, i, e)) =>
             Settled(store, root, maxLevel, hash, i, d + 1)
    PROVE  Settled(store, root, maxLevel, hash, key, d)
<1> DEFINE node == NodeOnWay(store, root, key, d)
           keys == KeysBelow(store, root, maxLevel, key, d)
           content == Content(store, root, maxLevel)
           h == Descent(store, root, key)[d]
           left == {k \in keys : ~Bit(k, d)}
           right == {k \in keys : Bit(k, d)}
<1>1. maxLevel \in Nat /\ d \in Nat /\ d \in 0 .. d
  BY CapAssumption
<1>2. d # maxLevel
  BY <1>1, TreeEnds
<1>3. d \in 0 .. MAX_DEPTH_HARD_CAP - 1 /\ d # MAX_DEPTH_HARD_CAP /\ d \in 0 .. MAX_DEPTH_HARD_CAP
  BY <1>1, <1>2, CapAssumption
<1>4. /\ node.nodeType = "MIDDLE"
      /\ h \in DOMAIN store
      /\ node = store[h]
  BY <1>1, StepOfWay
<1>5. h = getNodeHash(Middle(Child(node, FALSE), Child(node, TRUE)))
  <2>1. h = getNodeHash(Branch(TRUE, Child(node, TRUE), Sibling(node, TRUE)))
    <3>1. h \in Hashes(store) /\ node = getNode(store, h)
      BY <1>4 DEF Hashes, getNode
    <3> HIDE DEF node, h
    <3>2. \A bit \in BOOLEAN :
            h = getNodeHash(Branch(bit, Child(node, bit), Sibling(node, bit)))
      BY <1>4, <3>1, NodeOfStore
    <3> QED
      BY <3>2
  <2> QED
    BY <2>1 DEF Branch, Sibling, Child
<1>6. ASSUME NEW bit \in BOOLEAN
      PROVE  LET side == {k \in keys : Bit(k, d) = bit}
             IN  /\ hash[d + 1][side] = Child(node, bit)
                 /\ getNode(store, Child(node, bit)).nodeType # "EMPTY" => side # {}
                 /\ getNode(store, Child(node, bit)).nodeType = "MIDDLE" =>
                      \E j, k \in side : j # k
  <2>0. PICK i \in Index : GoesOn(store, root, maxLevel, key, d, bit, i)
    BY <1>1, <1>3, KeysBelowMiddle
  <2>1. /\ \A e \in 0 .. d : ~Ends(store, root, i, e)
        /\ Descent(store, root, i)[d + 1] = Child(node, bit)
        /\ KeysBelow(store, root, maxLevel, i, d + 1) = {k \in keys : Bit(k, d) = bit}
    BY <2>0, Zenon DEF GoesOn
  <2>2. Settled(store, root, maxLevel, hash, i, d + 1)
    BY <2>1
  <2> HIDE DEF node, keys
  <2> QED
    BY <2>1, <2>2 DEF Settled, NodeOnWay
<1>7. /\ left = {k \in keys : Bit(k, d) = FALSE}
      /\ right = {k \in keys : Bit(k, d) = TRUE}
  BY BitIsBoolean
<1>8. \A bit \in BOOLEAN :
        /\ Child(node, bit) \in Hashes(store)
        /\ Child(node, bit) = EmptyHash =>
             getNode(store, Child(node, ~bit)).nodeType = "MIDDLE"
  <2>1. \A bit \in BOOLEAN :
          /\ Child(node, bit) \in Hashes(store)
          /\ Sibling(node, bit) = Child(node, ~bit)
    <3>1. h \in Hashes(store) /\ node = getNode(store, h)
      BY <1>4 DEF Hashes, getNode
    <3> HIDE DEF node, h
    <3> QED
      BY <1>4, <3>1, NodeOfStore
  <2> HIDE DEF node, h
  <2> QED
    BY <1>4, <2>1 DEF Compact
<1>9. keys \in SUBSET DOMAIN content
  BY KeysInContent
<1>10. HashOfKeys(content, d, keys, hash[d + 1], hash[d][keys])
  BY <1>3, <1>9 DEF CanonicalHash
<1> HIDE DEF node, keys, content, h
<1>11. /\ hash[d + 1][left] = Child(node, FALSE)
       /\ hash[d + 1][right] = Child(node, TRUE)
  BY <1>6, <1>7
<1>12. \E j, k \in keys : j # k
  <2>1. CASE Child(node, FALSE) = EmptyHash
    <3>1. getNode(store, Child(node, TRUE)).nodeType = "MIDDLE"
      BY <1>8, <2>1
    <3> QED
      BY <1>6, <3>1
  <2>2. CASE Child(node, TRUE) = EmptyHash
    <3>1. getNode(store, Child(node, FALSE)).nodeType = "MIDDLE"
      BY <1>8, <2>2
    <3> QED
      BY <1>6, <3>1
  <2>3. CASE Child(node, FALSE) # EmptyHash /\ Child(node, TRUE) # EmptyHash
    <3>1. /\ getNode(store, Child(node, FALSE)).nodeType # "EMPTY"
          /\ getNode(store, Child(node, TRUE)).nodeType # "EMPTY"
      BY <1>8, <2>3, NodeOfStore
    <3>2. left # {} /\ right # {}
      BY <1>6, <1>7, <3>1
    <3> QED
      BY <3>2
  <2> QED
    BY <2>1, <2>2, <2>3
<1>13. hash[d][keys] = h
  BY <1>3, <1>5, <1>10, <1>11, <1>12 DEF HashOfKeys
<1>14. keys # {}
  BY <1>12
<1> QED
  BY <1>12, <1>13, <1>14 DEF Settled, node, keys, h

\* The root of a tree with no waste in it is the canonical one of its content.
LEMMA TreeIsCanonical ==
    ASSUME NEW store, IsStore(store), Compact(store), NEW root \in Hashes(store),
           NEW maxLevel \in 0 .. MAX_DEPTH_HARD_CAP, IsTree(store, root, maxLevel)
    PROVE  root = CanonicalRoot(Content(store, root, maxLevel))
<1> DEFINE content == Content(store, root, maxLevel)
<1>1. PICK hash : /\ CanonicalHash(content, hash)
                  /\ CanonicalRoot(content) = hash[0][DOMAIN content]
  BY CanonicalDef
<1> HIDE DEF content
<1>2. maxLevel \in Nat
  BY CapAssumption
<1> DEFINE P(d) == \A key \in Index :
                     (\A e \in 0 .. d - 1 : ~Ends(store, root, key, e)) =>
                       Settled(store, root, maxLevel, hash, key, d)
           S == {n \in Nat : n <= maxLevel => P(maxLevel - n)}
<1>3. ASSUME NEW d \in 0 .. maxLevel, d = maxLevel \/ P(d + 1) PROVE P(d)
  <2>1. SUFFICES ASSUME NEW key \in Index, \A e \in 0 .. d - 1 : ~Ends(store, root, key, e)
                 PROVE  Settled(store, root, maxLevel, hash, key, d)
    OBVIOUS
  <2>2. CASE Ends(store, root, key, d)
    <3>1. EndsAt(store, root, key, d)
      BY <2>1, <2>2 DEF EndsAt
    <3> QED
      BY <1>1, <3>1, SettledAtEnd DEF content
  <2>3. CASE ~Ends(store, root, key, d)
    <3>1. \A e \in 0 .. d : ~Ends(store, root, key, e)
      <4>1. \A e \in 0 .. d : e = d \/ e \in 0 .. d - 1
        BY <1>2
      <4> QED
        BY <2>1, <2>3, <4>1
    <3>2. d # maxLevel
      BY <1>2, <2>3, TreeEnds
    <3>3. (d + 1) - 1 = d
      BY <1>2
    <3>4. \A i \in Index : (\A e \in 0 .. d : ~Ends(store, root, i, e)) =>
             Settled(store, root, maxLevel, hash, i, d + 1)
      BY <1>3, <3>2, <3>3
    <3> QED
      BY <1>1, <3>1, <3>4, SettledAtMiddle DEF content
  <2> QED
    BY <2>2, <2>3
<1> HIDE DEF P
<1>4. 0 \in S
  BY <1>2, <1>3
<1>5. ASSUME NEW n \in Nat, n \in S PROVE n + 1 \in S
  <2>1. SUFFICES ASSUME n + 1 <= maxLevel PROVE P(maxLevel - (n + 1))
    OBVIOUS
  <2>2. P(maxLevel - n)
    BY <1>2, <1>5, <2>1
  <2>3. maxLevel - (n + 1) \in 0 .. maxLevel /\ (maxLevel - (n + 1)) + 1 = maxLevel - n
    BY <1>2, <2>1
  <2> QED
    BY <1>3, <2>2, <2>3
<1>6. Nat \subseteq S
  <2> HIDE DEF S
  <2> QED
    BY <1>4, <1>5, NatSetInduction
<1>7. P(0)
  <2>1. maxLevel \in S /\ maxLevel - maxLevel = 0
    BY <1>2, <1>6
  <2> QED
    BY <1>2, <2>1
<1>8. [b \in 0 .. MAX_DEPTH_HARD_CAP - 1 |-> FALSE] \in Index
  BY DEF Index
<1>9. PICK key \in Index : TRUE
  BY <1>8
<1>10. Settled(store, root, maxLevel, hash, key, 0)
  BY <1>7 DEF P
<1>11. KeysBelow(store, root, maxLevel, key, 0) = DOMAIN content
  <2>1. DOMAIN content = {i \in Index : Holds(store, root, i, maxLevel)}
    BY ContentDef DEF content
  <2> QED
    BY <2>1 DEF KeysBelow, Agree
<1>12. hash[0][DOMAIN content] = root
  BY <1>10, <1>11, DescentDef DEF Settled
<1> QED
  BY <1>1, <1>12 DEF content

\* There is room for a leaf unless another one agrees with it on all bits in use.
LEMMA RoomForLeaf ==
    ASSUME NEW store, IsStore(store), NEW root \in Hashes(store), NEW maxLevel \in Nat,
           IsTree(store, root, maxLevel), NEW key \in Index
    PROVE  FitsDepth(store, root, key, maxLevel) <=>
             \A other \in DOMAIN Content(store, root, maxLevel) \ {key} :
               \E d \in 0 .. maxLevel - 1 : Bit(key, d) # Bit(other, d)
<1> DEFINE K == DOMAIN Content(store, root, maxLevel)
           end == EndDepth(store, root, key, maxLevel)
           old == EndNode(store, root, key, maxLevel)
<1>1. K = {i \in Index : Holds(store, root, i, maxLevel)}
  BY ContentDef
<1>2. Ends(store, root, key, maxLevel)
  BY TreeEnds
<1>3. PICK e \in 0 .. maxLevel :
        /\ EndsAt(store, root, key, e)
        /\ LET node == NodeOnWay(store, root, key, e)
           IN  node.nodeType = "LEAF" => Agree(node.index, key, e)
  BY DEF IsTree
<1>4. end = e /\ old = NodeOnWay(store, root, key, e)
  BY <1>3, EndsAtEndDepth
<1>5. FitsDepth(store, root, key, maxLevel) <=>
        (Pushes(old, key) =>
           \E d \in e .. maxLevel - 1 : Bit(key, d) # Bit(old.index, d))
  <2>1. FitsDepth(store, root, key, maxLevel) <=>
          (Pushes(old, key) => PartingDepths(key, old.index, end, maxLevel) # {})
    BY <1>2 DEF FitsDepth
  <2> HIDE DEF end, old
  <2> QED
    BY <1>4, <2>1 DEF PartingDepths
<1>6. ASSUME NEW other \in K, Agree(key, other, maxLevel) PROVE old.index = other
  <2>1. NodeOnWay(store, root, key, maxLevel) = NodeOnWay(store, root, other, maxLevel)
    <3>1. maxLevel \in 0 .. maxLevel
      OBVIOUS
    <3> QED
      BY <1>6, <3>1, WaysAgree
  <2> QED
    BY <1>1, <1>6, <2>1 DEF Holds, EndNode
<1>7. ASSUME Pushes(old, key) PROVE old.index \in K /\ Agree(old.index, key, e)
  <2>1. KeysBelow(store, root, maxLevel, key, e) = {old.index}
    BY <1>3, <1>4, <1>7, KeysAtEnd DEF Pushes
  <2>2. old.index \in KeysBelow(store, root, maxLevel, key, e)
    BY <2>1
  <2> QED
    BY <1>1, <2>2 DEF KeysBelow
<1>8. ASSUME FitsDepth(store, root, key, maxLevel), NEW other \in K \ {key}
      PROVE  \E d \in 0 .. maxLevel - 1 : Bit(key, d) # Bit(other, d)
  <2>1. SUFFICES ASSUME \A d \in 0 .. maxLevel - 1 : Bit(key, d) = Bit(other, d)
                 PROVE  FALSE
    OBVIOUS
  <2>2. Agree(key, other, maxLevel) /\ other \in K
    BY <1>8, <2>1 DEF Agree
  <2>3. old.index = other
    BY <1>6, <2>2
  <2>4. other \in Index /\ Holds(store, root, other, maxLevel)
    BY <1>1, <1>8
  <2>5. EndNode(store, root, other, maxLevel) = old
    <3>1. maxLevel \in 0 .. maxLevel
      OBVIOUS
    <3> QED
      BY <2>2, <3>1, WaysAgree DEF EndNode
  <2>6. Pushes(old, key)
    BY <1>8, <2>4, <2>5 DEF Holds, Pushes
  <2>7. PICK d \in e .. maxLevel - 1 : Bit(key, d) # Bit(old.index, d)
    BY <1>5, <1>8, <2>6
  <2> QED
    BY <1>3, <2>1, <2>3, <2>7
<1>9. ASSUME \A other \in K \ {key} :
               \E d \in 0 .. maxLevel - 1 : Bit(key, d) # Bit(other, d)
      PROVE  FitsDepth(store, root, key, maxLevel)
  <2>1. SUFFICES ASSUME Pushes(old, key)
                 PROVE  \E d \in e .. maxLevel - 1 : Bit(key, d) # Bit(old.index, d)
    BY <1>5
  <2>2. old.index \in K \ {key} /\ Agree(old.index, key, e)
    BY <1>7, <2>1 DEF Pushes
  <2>3. PICK d \in 0 .. maxLevel - 1 : Bit(key, d) # Bit(old.index, d)
    BY <1>9, <2>2
  <2>4. d >= e
    BY <1>3, <2>2, <2>3 DEF Agree
  <2> QED
    BY <1>3, <2>3, <2>4
<1> QED
  BY <1>8, <1>9

\* Where hashes do not collide no assertion of _addNode can fail.
LEMMA NoCollisionInjective ==
    ASSUME \A m, n : Compress(m) = Compress(n) => m = n,
           NEW store, IsStore(store), NEW new
    PROVE  NoCollision(store, new)
  BY DEF NoCollision, IsStore, getNodeHash

-----------------------------------------------------------------------------
(* The invariant of the history.                                           *)

IInv ==
    /\ TypeOK
    /\ RootIndexesExact
    /\ HistoryMonotone

-----------------------------------------------------------------------------
(* Appending, to sequences that are no part of the state.                  *)

LEMMA AppendFacts ==
    ASSUME NEW T, NEW s \in Seq(T), NEW t \in T
    PROVE  /\ Append(s, t) \in Seq(T)
           /\ Len(s) \in Nat
           /\ Len(Append(s, t)) = Len(s) + 1
           /\ DOMAIN s = 1 .. Len(s)
           /\ DOMAIN Append(s, t) = 1 .. Len(s) + 1
           /\ \A n \in 1 .. Len(s) : Append(s, t)[n] = s[n]
           /\ Append(s, t)[Len(s) + 1] = t
  OBVIOUS

\* The places, from 0, at which a root is in some entries, in their order.
Lists(places, entries, root) ==
    /\ places \in Seq(0 .. Len(entries) - 1)
    /\ \A k \in 0 .. Len(entries) - 1 :
         entries[k + 1].root = root <=> \E n \in DOMAIN places : places[n] = k
    /\ \A m, n \in DOMAIN places : m < n => places[m] < places[n]

\* RootIndexesExact, said of any entries and any indexes.
Inverse(entries, indexes) ==
    /\ DOMAIN indexes = {entries[k].root : k \in 1 .. Len(entries)}
    /\ \A root \in DOMAIN indexes : Lists(indexes[root], entries, root)

Pushed(indexes, root, k) ==
    [r \in DOMAIN indexes \cup {root} |->
        IF r = root
        THEN Append(IF root \in DOMAIN indexes THEN indexes[root] ELSE <<>>, k)
        ELSE indexes[r]]

\* A root's places after one more entry with that root,
LEMMA ListsSame ==
    ASSUME NEW T, NEW entries \in Seq(T), NEW entry \in T, NEW places,
           Lists(places, entries, entry.root)
    PROVE  Lists(Append(places, Len(entries)), Append(entries, entry), entry.root)
<1> DEFINE L == Len(entries)
           more == Append(entries, entry)
           after == Append(places, L)
           root == entry.root
<1>1. /\ L \in Nat
      /\ Len(more) = L + 1
      /\ \A n \in 1 .. L : more[n] = entries[n]
      /\ more[L + 1] = entry
  BY AppendFacts
<1>2. /\ places \in Seq(0 .. L - 1)
      /\ \A k \in 0 .. L - 1 :
           entries[k + 1].root = root <=> \E n \in DOMAIN places : places[n] = k
      /\ \A m, n \in DOMAIN places : m < n => places[m] < places[n]
  BY DEF Lists
<1> HIDE DEF L, more
<1>3. places \in Seq(0 .. L) /\ L \in 0 .. L
  <2>1. 0 .. L - 1 \subseteq 0 .. L
    BY <1>1
  <2> QED
    BY <1>1, <1>2, <2>1
<1>4. /\ after \in Seq(0 .. L)
      /\ Len(places) \in Nat
      /\ DOMAIN places = 1 .. Len(places)
      /\ DOMAIN after = 1 .. Len(places) + 1
      /\ \A n \in 1 .. Len(places) : after[n] = places[n]
      /\ after[Len(places) + 1] = L
  BY <1>3, AppendFacts
<1>5. \A n \in 1 .. Len(places) : places[n] \in 0 .. L - 1
  BY <1>2, <1>4
<1> HIDE DEF after, root
<1>6. ASSUME NEW k \in 0 .. L
      PROVE  more[k + 1].root = root <=> \E n \in DOMAIN after : after[n] = k
  <2>1. CASE k = L
    BY <1>1, <1>4, <2>1 DEF root
  <2>2. CASE k # L
    <3>1. k \in 0 .. L - 1 /\ k + 1 \in 1 .. L
      BY <1>1, <2>2
    <3>2. more[k + 1].root = root <=> \E n \in DOMAIN places : places[n] = k
      BY <1>1, <1>2, <3>1
    <3>3. (\E n \in DOMAIN places : places[n] = k) <=> (\E n \in DOMAIN after : after[n] = k)
      BY <1>4, <2>2
    <3> QED
      BY <3>2, <3>3
  <2> QED
    BY <2>1, <2>2
<1>7. ASSUME NEW m \in DOMAIN after, NEW n \in DOMAIN after, m < n
      PROVE  after[m] < after[n]
  <2>1. m \in 1 .. Len(places)
    BY <1>4, <1>7
  <2>2. CASE n = Len(places) + 1
    BY <1>1, <1>4, <1>5, <2>1, <2>2
  <2>3. CASE n \in 1 .. Len(places)
    BY <1>2, <1>4, <1>7, <2>1, <2>3
  <2> QED
    BY <1>4, <2>2, <2>3
<1>8. Len(more) - 1 = L
  BY <1>1
<1>9. Lists(after, more, root)
  BY <1>4, <1>6, <1>7, <1>8 DEF Lists
<1> QED
  BY <1>9 DEF after, more, root, L

\* and with another.
LEMMA ListsOther ==
    ASSUME NEW T, NEW entries \in Seq(T), NEW entry \in T, NEW places, NEW root,
           root # entry.root, Lists(places, entries, root)
    PROVE  Lists(places, Append(entries, entry), root)
<1> DEFINE L == Len(entries)
           more == Append(entries, entry)
<1>1. /\ L \in Nat
      /\ Len(more) = L + 1
      /\ \A n \in 1 .. L : more[n] = entries[n]
      /\ more[L + 1] = entry
  BY AppendFacts
<1>2. /\ places \in Seq(0 .. L - 1)
      /\ \A k \in 0 .. L - 1 :
           entries[k + 1].root = root <=> \E n \in DOMAIN places : places[n] = k
      /\ \A m, n \in DOMAIN places : m < n => places[m] < places[n]
  BY DEF Lists
<1> HIDE DEF L, more
<1>3. places \in Seq(0 .. L) /\ \A n \in DOMAIN places : places[n] \in 0 .. L - 1
  <2>1. 0 .. L - 1 \subseteq 0 .. L
    BY <1>1
  <2> QED
    BY <1>1, <1>2, <2>1
<1>4. ASSUME NEW k \in 0 .. L
      PROVE  more[k + 1].root = root <=> \E n \in DOMAIN places : places[n] = k
  <2>1. CASE k = L
    BY <1>1, <1>3, <2>1
  <2>2. CASE k # L
    <3>1. k \in 0 .. L - 1 /\ k + 1 \in 1 .. L
      BY <1>1, <2>2
    <3> QED
      BY <1>1, <1>2, <3>1
  <2> QED
    BY <2>1, <2>2
<1>5. Len(more) - 1 = L
  BY <1>1
<1>6. Lists(places, more, root)
  BY <1>2, <1>3, <1>4, <1>5 DEF Lists
<1> QED
  BY <1>6 DEF more

\* Pushing the new entry's place under its root keeps the one the other's inverse.
LEMMA InverseAppend ==
    ASSUME NEW T, NEW entries \in Seq(T), NEW entry \in T, NEW indexes,
           Inverse(entries, indexes)
    PROVE  Inverse(Append(entries, entry), Pushed(indexes, entry.root, Len(entries)))
<1> DEFINE L == Len(entries)
           more == Append(entries, entry)
           pushed == Pushed(indexes, entry.root, L)
           before == IF entry.root \in DOMAIN indexes THEN indexes[entry.root] ELSE <<>>
<1>1. /\ L \in Nat
      /\ Len(more) = L + 1
      /\ \A n \in 1 .. L : more[n] = entries[n]
      /\ more[L + 1] = entry
  BY AppendFacts
<1>2. /\ DOMAIN pushed = DOMAIN indexes \cup {entry.root}
      /\ pushed[entry.root] = Append(before, L)
      /\ \A r \in DOMAIN indexes : r # entry.root => pushed[r] = indexes[r]
  BY DEF Pushed
<1>3. DOMAIN indexes = {entries[k].root : k \in 1 .. L}
  BY DEF Inverse
<1>4. Lists(before, entries, entry.root)
  <2>1. CASE entry.root \in DOMAIN indexes
    BY <2>1 DEF Inverse
  <2>2. CASE entry.root \notin DOMAIN indexes
    <3>1. before = <<>>
      BY <2>2
    <3>2. ASSUME NEW k \in 0 .. L - 1 PROVE entries[k + 1].root # entry.root
      <4>1. k + 1 \in 1 .. L
        BY <1>1
      <4> QED
        BY <1>3, <2>2, <4>1
    <3> HIDE DEF before
    <3> QED
      BY <3>1, <3>2 DEF Lists
  <2> QED
    BY <2>1, <2>2
<1> HIDE DEF pushed, before
<1>5. DOMAIN pushed = {more[k].root : k \in 1 .. Len(more)}
  <2> HIDE DEF L, more
  <2>1. {more[k].root : k \in 1 .. L + 1} = {more[k].root : k \in 1 .. L} \cup {more[L + 1].root}
    <3>1. 1 .. L + 1 = (1 .. L) \cup {L + 1}
      BY <1>1
    <3> QED
      BY <3>1
  <2>2. {more[k].root : k \in 1 .. L} = {entries[k].root : k \in 1 .. L}
    BY <1>1
  <2> QED
    BY <1>1, <1>2, <1>3, <2>1, <2>2
<1>6. ASSUME NEW root \in DOMAIN pushed PROVE Lists(pushed[root], more, root)
  <2>1. CASE root = entry.root
    BY <1>2, <1>4, <2>1, ListsSame
  <2>2. CASE root # entry.root
    <3>1. Lists(indexes[root], entries, root)
      BY <1>2, <2>2 DEF Inverse
    <3> QED
      BY <1>2, <2>2, <3>1, ListsOther
  <2> QED
    BY <2>1, <2>2
<1> HIDE DEF more
<1>7. Inverse(more, pushed)
  BY <1>5, <1>6 DEF Inverse
<1> QED
  BY <1>7 DEF more, pushed, L

\* The roots of some entries, counted from 0 and from 1.
LEMMA RootsFromZero ==
    ASSUME NEW T, NEW entries \in Seq(T)
    PROVE  {entries[k + 1].root : k \in 0 .. Len(entries) - 1}
             = {entries[k].root : k \in 1 .. Len(entries)}
<1>1. Len(entries) \in Nat
  OBVIOUS
<1>2. ASSUME NEW k \in 1 .. Len(entries)
      PROVE  \E j \in 0 .. Len(entries) - 1 : entries[k] = entries[j + 1]
  <2>1. k - 1 \in 0 .. Len(entries) - 1 /\ (k - 1) + 1 = k
    BY <1>1
  <2> QED
    BY <2>1
<1>3. \A k \in 0 .. Len(entries) - 1 : k + 1 \in 1 .. Len(entries)
  BY <1>1
<1> QED
  BY <1>2, <1>3

-----------------------------------------------------------------------------
(* The invariant, from state to state.                                     *)

Record == [root : Hashes(nodes),
           createdAtTimestamp : 0 .. MaxTimestamp,
           createdAtBlock : 0 .. MaxBlockNumber]

LEMMA ExactIsInverse ==
    ASSUME TypeOK, RootIndexesExact
    PROVE  Inverse(rootEntries, rootIndexes)
<1>1. rootEntries \in Seq(Record)
  BY DEF TypeOK, Record
<1>2. DOMAIN rootIndexes = {rootEntries[k].root : k \in 1 .. Len(rootEntries)}
  <2>1. DOMAIN rootIndexes = {rootEntries[k + 1].root : k \in 0 .. Len(rootEntries) - 1}
    BY DEF RootIndexesExact, Entry, Places
  <2>2. {rootEntries[k + 1].root : k \in 0 .. Len(rootEntries) - 1}
          = {rootEntries[k].root : k \in 1 .. Len(rootEntries)}
    BY <1>1, RootsFromZero
  <2> QED
    BY <2>1, <2>2
<1>3. ASSUME NEW root \in DOMAIN rootIndexes
      PROVE  Lists(rootIndexes[root], rootEntries, root)
  BY DEF TypeOK, RootIndexesExact, Entry, Places, Lists
<1> QED
  BY <1>2, <1>3 DEF Inverse

LEMMA InverseIsExact ==
    ASSUME rootEntries' \in Seq(Record)', Inverse(rootEntries', rootIndexes')
    PROVE  /\ RootIndexesExact'
           /\ \A root \in DOMAIN rootIndexes' : rootIndexes'[root] \in Seq(Places')
<1>1. DOMAIN rootIndexes' = {rootEntries'[k + 1].root : k \in 0 .. Len(rootEntries') - 1}
  BY RootsFromZero DEF Inverse
<1>2. ASSUME NEW root \in DOMAIN rootIndexes'
      PROVE  Lists(rootIndexes'[root], rootEntries', root)
  BY DEF Inverse
<1>3. \A root \in DOMAIN rootIndexes' : rootIndexes'[root] \in Seq(Places')
  BY <1>2 DEF Lists, Places
<1>4. RootIndexesExact'
  BY <1>1, <1>2 DEF RootIndexesExact, Entry, Places, Lists
<1> QED
  BY <1>3, <1>4

LEMMA InitIInv == Init => IInv
<1> SUFFICES ASSUME Init PROVE IInv
  OBVIOUS
<1>1. IsStore(nodes)
  BY DEF Init, IsStore, IsFunction
<1>2. rootEntries = <<>> /\ DOMAIN rootIndexes = {} /\ Len(rootEntries) = 0
  BY DEF Init
<1>3. Places = {}
  BY <1>2 DEF Places
<1>4. TypeOK
  <2>1. IsFunction(rootIndexes)
    BY DEF Init, IsFunction
  <2>2. rootEntries \in Seq(Record)
    BY <1>2
  <2>3. initialized \in BOOLEAN
    BY DEF Init
  <2>4. /\ maxDepth \in 0 .. MAX_DEPTH_HARD_CAP
        /\ blockNumber \in 1 .. MaxBlockNumber
        /\ blockTimestamp \in 1 .. MaxTimestamp
    BY CapAssumption, BoundsAssumption DEF Init
  <2> QED
    BY <1>1, <1>2, <2>1, <2>2, <2>3, <2>4 DEF TypeOK, Record
<1>5. RootIndexesExact
  BY <1>2, <1>3 DEF RootIndexesExact
<1>6. HistoryMonotone
  BY <1>2, <1>3 DEF Init, HistoryMonotone
<1> QED
  BY <1>4, <1>5, <1>6 DEF IInv

\* A step that leaves the history alone leaves its inverse exact.
LEMMA InverseKept ==
    ASSUME RootIndexesExact, rootEntries' = rootEntries, rootIndexes' = rootIndexes
    PROVE  RootIndexesExact'
<1>1. Places' = Places /\ \A k : Entry(k)' = Entry(k)
  BY DEF Places, Entry
<1>2. DOMAIN rootIndexes = {Entry(k).root : k \in Places}
  BY DEF RootIndexesExact
<1>3. DOMAIN rootIndexes' = {Entry(k)'.root : k \in Places'}
  BY <1>1, <1>2
<1>4. ASSUME NEW root \in DOMAIN rootIndexes'
      PROVE  /\ \A k \in Places' : Entry(k)'.root = root <=>
                    \E n \in DOMAIN rootIndexes'[root] : rootIndexes'[root][n] = k
             /\ \A m, n \in DOMAIN rootIndexes'[root] :
                    m < n => rootIndexes'[root][m] < rootIndexes'[root][n]
  BY <1>1 DEF RootIndexesExact
<1> QED
  BY <1>3, <1>4 DEF RootIndexesExact

\* SmtLib.SetMaxDepth leaves the history alone.
LEMMA SetMaxDepthIInv ==
    ASSUME IInv, NEW depth \in 0 .. MAX_DEPTH_HARD_CAP + 1, SetMaxDepth(depth)
    PROVE  IInv'
<1>1. maxDepth' \in 0 .. MAX_DEPTH_HARD_CAP
  BY CapAssumption DEF SetMaxDepth, MaxDepthAllowed
<1>2. TypeOK'
  BY <1>1 DEF IInv, TypeOK, SetMaxDepth, clock, Places
<1>3. RootIndexesExact'
  BY InverseKept DEF IInv, SetMaxDepth
<1>4. HistoryMonotone'
  BY DEF IInv, HistoryMonotone, SetMaxDepth, Places, Entry, clock
<1> QED
  BY <1>2, <1>3, <1>4 DEF IInv

\* So does the next block, which comes after all entries.
LEMMA NextBlockIInv ==
    ASSUME IInv, NextBlock
    PROVE  IInv'
<1>1. /\ blockNumber' \in 1 .. MaxBlockNumber
      /\ blockTimestamp' \in 1 .. MaxTimestamp
      /\ blockNumber <= blockNumber'
      /\ blockTimestamp <= blockTimestamp'
  BY BoundsAssumption DEF IInv, TypeOK, NextBlock
<1>2. TypeOK'
  BY <1>1 DEF IInv, TypeOK, NextBlock, data, Places
<1>3. RootIndexesExact'
  BY InverseKept DEF IInv, NextBlock, data
<1>4. HistoryMonotone'
  <2>1. ASSUME NEW k \in Places
        PROVE  /\ Entry(k).createdAtTimestamp \in 0 .. MaxTimestamp
               /\ Entry(k).createdAtBlock \in 0 .. MaxBlockNumber
    <3>1. rootEntries \in Seq(Record) /\ k + 1 \in 1 .. Len(rootEntries)
      BY DEF IInv, TypeOK, Record, Places
    <3>2. rootEntries[k + 1] \in Record
      BY <3>1
    <3> QED
      BY <3>2 DEF Record, Entry
  <2>2. \A k \in Places : /\ Entry(k).createdAtTimestamp <= blockTimestamp'
                          /\ Entry(k).createdAtBlock <= blockNumber'
    BY <1>1, <2>1 DEF IInv, TypeOK, HistoryMonotone
  <2> QED
    BY <2>2 DEF IInv, HistoryMonotone, NextBlock, data, Places, Entry
<1> QED
  BY <1>2, <1>3, <1>4 DEF IInv

\* What _addEntry does to the history, whatever was done to the store before.
LEMMA AddEntryHistory ==
    ASSUME IInv,
           Hashes(nodes) \subseteq Hashes(nodes)',
           NEW root \in Hashes(nodes)',
           NEW timestamp \in 0 .. MaxTimestamp,
           NEW block \in 0 .. MaxBlockNumber,
           AddEntry(root, timestamp, block)
    PROVE  /\ rootEntries' \in Seq(Record)'
           /\ IsFunction(rootIndexes')
           /\ \A r \in DOMAIN rootIndexes' : rootIndexes'[r] \in Seq(Places')
           /\ RootIndexesExact'
<1> DEFINE entry == [root |-> root,
                     createdAtTimestamp |-> timestamp,
                     createdAtBlock |-> block]
           After == [root : Hashes(nodes)',
                     createdAtTimestamp : 0 .. MaxTimestamp,
                     createdAtBlock : 0 .. MaxBlockNumber]
<1>1. /\ rootEntries' = Append(rootEntries, entry)
      /\ rootIndexes' = PushIndex(root, Len(rootEntries))
  BY DEF AddEntry
<1>2. rootEntries \in Seq(After)
  <2>1. rootEntries \in Seq(Record) /\ Record \subseteq After
    BY DEF IInv, TypeOK, Record
  <2> HIDE DEF After
  <2> QED
    BY <2>1
<1>3. entry \in After /\ entry.root = root
  OBVIOUS
<1>4. PushIndex(root, Len(rootEntries)) = Pushed(rootIndexes, root, Len(rootEntries))
  BY DEF PushIndex, Pushed, IndexesOf
<1>5. Inverse(rootEntries, rootIndexes)
  BY ExactIsInverse DEF IInv
<1>6. After = Record'
  BY DEF Record
<1> HIDE DEF entry, After
<1>7. Inverse(rootEntries', rootIndexes')
  BY <1>1, <1>2, <1>3, <1>4, <1>5, InverseAppend
<1>8. rootEntries' \in Seq(Record)'
  BY <1>1, <1>2, <1>3, <1>6, AppendFacts
<1>9. IsFunction(rootIndexes')
  BY <1>1 DEF PushIndex, IsFunction
<1> QED
  BY <1>7, <1>8, <1>9, InverseIsExact

\* The new entry is not from the future and not older than any other.
LEMMA AddEntryMonotone ==
    ASSUME IInv, NEW root, NEW timestamp \in 0 .. MaxTimestamp,
           NEW block \in 0 .. MaxBlockNumber,
           AddEntry(root, timestamp, block),
           timestamp <= blockTimestamp, block <= blockNumber, UNCHANGED clock, initialized',
           \/ rootEntries = <<>> /\ timestamp = 0 /\ block = 0
           \/ initialized /\ timestamp = blockTimestamp /\ block = blockNumber
    PROVE  HistoryMonotone'
<1> DEFINE L == Len(rootEntries)
           entry == [root |-> root,
                     createdAtTimestamp |-> timestamp,
                     createdAtBlock |-> block]
           more == Append(rootEntries, entry)
<1>1. rootEntries' = more
  BY DEF AddEntry
<1>2. /\ L \in Nat
      /\ rootEntries \in Seq(Record)
      /\ Len(more) = L + 1
      /\ \A n \in 1 .. L : more[n] = rootEntries[n]
      /\ more[L + 1] = entry
  BY DEF IInv, TypeOK, Record
<1>3. /\ entry.createdAtTimestamp = timestamp
      /\ entry.createdAtBlock = block
      /\ timestamp \in Int /\ block \in Int
      /\ blockTimestamp \in Int /\ blockNumber \in Int
  BY BoundsAssumption DEF IInv, TypeOK
<1>4. /\ \A j, k \in 0 .. L - 1 : j < k =>
           /\ rootEntries[j + 1].createdAtTimestamp <= rootEntries[k + 1].createdAtTimestamp
           /\ rootEntries[j + 1].createdAtBlock <= rootEntries[k + 1].createdAtBlock
      /\ \A k \in 0 .. L - 1 :
           /\ rootEntries[k + 1].createdAtTimestamp <= blockTimestamp
           /\ rootEntries[k + 1].createdAtBlock <= blockNumber
  BY DEF IInv, HistoryMonotone, Entry, Places
<1>5. /\ initialized <=> L > 0
      /\ initialized => /\ rootEntries[1].createdAtTimestamp = 0
                        /\ rootEntries[1].createdAtBlock = 0
  BY DEF IInv, HistoryMonotone, Entry
<1>6. \/ L = 0 /\ timestamp = 0 /\ block = 0
      \/ L > 0 /\ timestamp = blockTimestamp /\ block = blockNumber
  BY <1>5
<1>7. Len(more) > 0 /\ Len(more) - 1 = L
  BY <1>2
<1> HIDE DEF L, entry, more
<1>8. more[1].createdAtTimestamp = 0 /\ more[1].createdAtBlock = 0
  BY <1>2, <1>3, <1>5, <1>6
<1>9. ASSUME NEW j \in 0 .. L, NEW k \in 0 .. L, j < k
      PROVE  /\ more[j + 1].createdAtTimestamp <= more[k + 1].createdAtTimestamp
             /\ more[j + 1].createdAtBlock <= more[k + 1].createdAtBlock
  <2>1. j \in 0 .. L - 1 /\ j + 1 \in 1 .. L /\ more[j + 1] = rootEntries[j + 1]
    BY <1>2, <1>9
  <2>2. CASE k = L
    BY <1>2, <1>3, <1>4, <1>6, <2>1, <2>2
  <2>3. CASE k # L
    <3>1. k \in 0 .. L - 1 /\ k + 1 \in 1 .. L /\ more[k + 1] = rootEntries[k + 1]
      BY <1>2, <2>3
    <3> QED
      BY <1>4, <1>9, <2>1, <3>1
  <2> QED
    BY <2>2, <2>3
<1>10. ASSUME NEW k \in 0 .. L
       PROVE  /\ more[k + 1].createdAtTimestamp <= blockTimestamp
              /\ more[k + 1].createdAtBlock <= blockNumber
  <2>1. CASE k = L
    BY <1>2, <1>3, <2>1
  <2>2. CASE k # L
    <3>1. k \in 0 .. L - 1 /\ k + 1 \in 1 .. L /\ more[k + 1] = rootEntries[k + 1]
      BY <1>2, <2>2
    <3> QED
      BY <1>4, <3>1
  <2> QED
    BY <2>1, <2>2
<1>11. blockTimestamp' = blockTimestamp /\ blockNumber' = blockNumber
  BY DEF clock
<1>12. initialized' <=> Len(rootEntries') > 0
  BY <1>1, <1>7
<1>13. Entry(0)'.createdAtTimestamp = 0 /\ Entry(0)'.createdAtBlock = 0
  BY <1>1, <1>8 DEF Entry
<1>14. \A j, k \in Places' : j < k =>
         /\ Entry(j)'.createdAtTimestamp <= Entry(k)'.createdAtTimestamp
         /\ Entry(j)'.createdAtBlock <= Entry(k)'.createdAtBlock
  BY <1>1, <1>7, <1>9 DEF Entry, Places
<1>15. \A k \in Places' :
         /\ Entry(k)'.createdAtTimestamp <= blockTimestamp'
         /\ Entry(k)'.createdAtBlock <= blockNumber'
  BY <1>1, <1>7, <1>10, <1>11 DEF Entry, Places
<1> QED
  BY <1>12, <1>13, <1>14, <1>15 DEF HistoryMonotone

LEMMA InitializeIInv ==
    ASSUME IInv, NEW depth \in 0 .. MAX_DEPTH_HARD_CAP + 1, Initialize(depth)
    PROVE  IInv'
<1>1. /\ ~initialized /\ initialized'
      /\ AddEntry(EmptyHash, 0, 0)
      /\ nodes' = nodes
      /\ UNCHANGED clock
  BY DEF Initialize, isInitialized
<1>2. maxDepth' \in 0 .. MAX_DEPTH_HARD_CAP
  BY CapAssumption DEF Initialize, MaxDepthAllowed
<1>3. EmptyHash \in Hashes(nodes)' /\ Hashes(nodes) \subseteq Hashes(nodes)'
  BY <1>1 DEF Hashes
<1>4. 0 \in 0 .. MaxTimestamp /\ 0 \in 0 .. MaxBlockNumber
  BY BoundsAssumption
<1>5. /\ rootEntries' \in Seq(Record)'
      /\ IsFunction(rootIndexes')
      /\ \A r \in DOMAIN rootIndexes' : rootIndexes'[r] \in Seq(Places')
      /\ RootIndexesExact'
  BY <1>1, <1>3, <1>4, AddEntryHistory
<1>6. rootEntries = <<>>
  <2>1. rootEntries \in Seq(Record) /\ ~(Len(rootEntries) > 0)
    BY <1>1 DEF IInv, TypeOK, HistoryMonotone, Record
  <2> QED
    BY <2>1
<1>7. HistoryMonotone'
  <2>1. 0 <= blockTimestamp /\ 0 <= blockNumber
    BY DEF IInv, TypeOK
  <2> QED
    BY <1>1, <1>4, <1>6, <2>1, AddEntryMonotone
<1>8. TypeOK'
  <2>1. initialized' \in BOOLEAN
    BY DEF Initialize
  <2> QED
    BY <1>1, <1>2, <1>5, <2>1 DEF IInv, TypeOK, clock, Record
<1> QED
  BY <1>5, <1>7, <1>8 DEF IInv

\* The root addLeaf starts from is one the store knows.
LEMMA RootKnown ==
    ASSUME IInv, initialized
    PROVE  getRoot \in Hashes(nodes)
<1>1. rootEntries \in Seq(Record) /\ Len(rootEntries) > 0
  BY DEF IInv, TypeOK, HistoryMonotone, Record
<1>2. rootEntries[Len(rootEntries)] \in Record
  BY <1>1
<1>3. getRoot = rootEntries[Len(rootEntries)].root
  BY <1>1 DEF getRoot, Entry
<1> QED
  BY <1>2, <1>3 DEF Record

LEMMA AddLeafIInv ==
    ASSUME IInv, NEW key \in Index, NEW value \in Value, AddLeaf(key, value)
    PROVE  IInv'
<1> DEFINE new == NewNodes(key, value)
           newRoot == getNodeHash(new[0])
<1>1. /\ initialized
      /\ FitsDepth(nodes, getRoot, key, maxDepth)
      /\ NoCollision(nodes, new)
      /\ nodes' = AddNodes(nodes, new)
      /\ AddEntry(newRoot, blockTimestamp, blockNumber)
      /\ UNCHANGED <<maxDepth, initialized, clock>>
  BY DEF AddLeaf, Accepts, isInitialized
<1>2. new = NewWay(nodes, getRoot, key, value, maxDepth)
  BY DEF NewNodes
<1>3. IsStore(nodes) /\ maxDepth \in Nat
  BY CapAssumption DEF IInv, TypeOK
<1>4. getRoot \in Hashes(nodes)
  BY <1>1, RootKnown
<1> HIDE DEF new
<1>5. /\ IsStore(nodes')
      /\ DOMAIN nodes \subseteq DOMAIN nodes'
      /\ newRoot \in DOMAIN nodes'
  BY <1>1, <1>2, <1>3, <1>4, AddedStore
<1> HIDE DEF newRoot
<1>6. Hashes(nodes) \subseteq Hashes(nodes)' /\ newRoot \in Hashes(nodes)'
  BY <1>5 DEF Hashes
<1>7. blockTimestamp \in 0 .. MaxTimestamp /\ blockNumber \in 0 .. MaxBlockNumber
  BY BoundsAssumption DEF IInv, TypeOK
<1>8. /\ rootEntries' \in Seq(Record)'
      /\ IsFunction(rootIndexes')
      /\ \A r \in DOMAIN rootIndexes' : rootIndexes'[r] \in Seq(Places')
      /\ RootIndexesExact'
  BY <1>1, <1>6, <1>7, AddEntryHistory
<1>9. HistoryMonotone'
  <2>1. blockTimestamp <= blockTimestamp /\ blockNumber <= blockNumber
    BY <1>7
  <2> QED
    BY <1>1, <1>7, <2>1, AddEntryMonotone
<1>10. TypeOK'
  BY <1>1, <1>5, <1>8 DEF IInv, TypeOK, clock, Record
<1> QED
  BY <1>8, <1>9, <1>10 DEF IInv

-----------------------------------------------------------------------------

LEMMA NextIInv ==
    ASSUME IInv, [Next]_vars
    PROVE  IInv'
<1>1. CASE UNCHANGED vars
  <2>1. TypeOK'
    BY <1>1 DEF IInv, TypeOK, vars, Places
  <2>2. RootIndexesExact'
    BY <1>1, InverseKept DEF IInv, vars
  <2>3. HistoryMonotone'
    BY <1>1 DEF IInv, HistoryMonotone, vars, Places, Entry
  <2> QED
    BY <2>1, <2>2, <2>3 DEF IInv
<1>2. ASSUME NEW depth \in 0 .. MAX_DEPTH_HARD_CAP + 1, SetMaxDepth(depth) \/ Initialize(depth)
      PROVE  IInv'
  BY <1>2, SetMaxDepthIInv, InitializeIInv
<1>3. ASSUME NEW key \in Index, NEW value \in Value, AddLeaf(key, value)
      PROVE  IInv'
  BY <1>3, AddLeafIInv
<1>4. CASE NextBlock
  BY <1>4, NextBlockIInv
<1> QED
  BY <1>1, <1>2, <1>3, <1>4 DEF Next

LEMMA Invariance == Spec => []IInv
<1>1. Init => IInv
  BY InitIInv
<1>2. IInv /\ [Next]_vars => IInv'
  BY NextIInv
<1> QED
  BY <1>1, <1>2, PTL DEF Spec

\* Every variable keeps its type, for any hash function: the nodes are a store in
\* which each is under its own hash and no child dangles (_addNode's assertions
\* see to that when hashes collide), and the history is made of their hashes.
THEOREM TypeCorrect == Spec => []TypeOK
<1>1. IInv => TypeOK
  BY DEF IInv
<1> QED
  BY <1>1, Invariance, PTL

\* rootIndexes is at all times the inverse of rootEntries, so that getRootInfo
\* answers with the last entry of a root that occurs more than once.
THEOREM IndexesAreExact == Spec => []RootIndexesExact
<1>1. IInv => RootIndexesExact
  BY DEF IInv
<1> QED
  BY <1>1, Invariance, PTL

\* At all times the history has what the binary searches over it need.
THEOREM HistoryIsMonotone == Spec => []HistoryMonotone
<1>1. IInv => HistoryMonotone
  BY DEF IInv
<1> QED
  BY <1>1, Invariance, PTL

-----------------------------------------------------------------------------
(* Storage only grows.                                                     *)

Grows ==
    /\ \A h \in DOMAIN nodes : h \in DOMAIN nodes' /\ nodes'[h] = nodes[h]
    /\ Len(rootEntries) <= Len(rootEntries')
    /\ \A k \in DOMAIN rootEntries : rootEntries'[k] = rootEntries[k]
    /\ \A root \in DOMAIN rootIndexes :
         /\ root \in DOMAIN rootIndexes'
         /\ \A n \in DOMAIN rootIndexes[root] :
              rootIndexes'[root][n] = rootIndexes[root][n]

LEMMA SameGrows ==
    ASSUME IInv, UNCHANGED <<nodes, rootEntries, rootIndexes>>
    PROVE  Grows
<1>1. Len(rootEntries) \in Nat
  BY DEF IInv, TypeOK
<1> QED
  BY <1>1 DEF Grows

\* _addEntry, where the store grows.
LEMMA AddEntryGrows ==
    ASSUME IInv, NEW root, NEW timestamp, NEW block, AddEntry(root, timestamp, block),
           \A h \in DOMAIN nodes : h \in DOMAIN nodes' /\ nodes'[h] = nodes[h]
    PROVE  Grows
<1> DEFINE entry == [root |-> root,
                     createdAtTimestamp |-> timestamp,
                     createdAtBlock |-> block]
<1>1. /\ rootEntries' = Append(rootEntries, entry)
      /\ rootIndexes' = PushIndex(root, Len(rootEntries))
  BY DEF AddEntry
<1> HIDE DEF entry
<1>2. /\ Len(rootEntries) <= Len(rootEntries')
      /\ \A k \in DOMAIN rootEntries : rootEntries'[k] = rootEntries[k]
  <2>1. rootEntries \in Seq(Record \cup {entry})
    <3>1. rootEntries \in Seq(Record)
      BY DEF IInv, TypeOK, Record
    <3> QED
      BY <3>1
  <2>2. entry \in Record \cup {entry}
    OBVIOUS
  <2> QED
    BY <1>1, <2>1, <2>2, AppendFacts
<1>3. ASSUME NEW r \in DOMAIN rootIndexes
      PROVE  /\ r \in DOMAIN rootIndexes'
             /\ \A n \in DOMAIN rootIndexes[r] : rootIndexes'[r][n] = rootIndexes[r][n]
  <2>1. r \in DOMAIN rootIndexes'
    BY <1>1 DEF PushIndex
  <2>2. CASE r = root
    <3>1. rootIndexes'[r] = Append(rootIndexes[r], Len(rootEntries))
      BY <1>1, <2>2 DEF PushIndex, IndexesOf
    <3>2. rootIndexes[r] \in Seq(Places)
      BY DEF IInv, TypeOK
    <3>3. rootIndexes[r] \in Seq(Places \cup {Len(rootEntries)})
      BY <3>2
    <3> QED
      BY <2>1, <3>1, <3>3, AppendFacts
  <2>3. CASE r # root
    BY <1>1, <2>1, <2>3 DEF PushIndex
  <2> QED
    BY <2>2, <2>3
<1> QED
  BY <1>2, <1>3 DEF Grows

LEMMA NextGrows ==
    ASSUME IInv, [Next]_vars
    PROVE  [Grows]_vars
<1>1. ASSUME NEW depth \in 0 .. MAX_DEPTH_HARD_CAP + 1, SetMaxDepth(depth)
      PROVE  Grows
  BY <1>1, SameGrows DEF SetMaxDepth
<1>2. ASSUME NEW depth \in 0 .. MAX_DEPTH_HARD_CAP + 1, Initialize(depth)
      PROVE  Grows
  <2>1. AddEntry(EmptyHash, 0, 0) /\ nodes' = nodes
    BY <1>2 DEF Initialize
  <2> QED
    BY <2>1, AddEntryGrows
<1>3. ASSUME NEW key \in Index, NEW value \in Value, AddLeaf(key, value)
      PROVE  Grows
  <2> DEFINE new == NewNodes(key, value)
  <2>1. /\ NoCollision(nodes, new)
        /\ nodes' = AddNodes(nodes, new)
        /\ AddEntry(getNodeHash(new[0]), blockTimestamp, blockNumber)
    BY <1>3 DEF AddLeaf, Accepts
  <2> HIDE DEF new
  <2>2. \A h \in DOMAIN nodes : h \in DOMAIN nodes' /\ nodes'[h] = nodes[h]
    BY <2>1, AddNodesExtends
  <2> QED
    BY <2>1, <2>2, AddEntryGrows
<1>4. CASE NextBlock
  BY <1>4, SameGrows DEF NextBlock, data
<1> QED
  BY <1>1, <1>2, <1>3, <1>4 DEF Next

\* No call changes or removes a stored node, an entry of the history or an element
\* of rootIndexes: what a proof or a search once rested on stays.
THEOREM StorageOnlyGrows == Spec => AppendOnly
<1>1. IInv /\ [Next]_vars => [Grows]_vars
  BY NextGrows
<1>2. Spec => [][Grows]_vars
  BY <1>1, Invariance, PTL DEF Spec
<1> QED
  BY <1>2 DEF AppendOnly, Grows

-----------------------------------------------------------------------------
(* The tree behind every root of the history.                              *)

\* Every root of the history is that of a tree, in a store without waste, ...
Trees ==
    /\ Compact(nodes)
    /\ \A root \in DOMAIN rootIndexes : IsTree(nodes, root, maxDepth)

\* ... and only the first is that of the empty tree.
FirstEmpty == \A k \in Places : Entry(k).root = EmptyHash <=> k = 0

TInv ==
    /\ IInv
    /\ Trees
    /\ FirstEmpty

LEMMA RootsInStore ==
    ASSUME IInv
    PROVE  /\ DOMAIN rootIndexes \subseteq Hashes(nodes)
           /\ initialized => getRoot \in DOMAIN rootIndexes
<1>1. rootEntries \in Seq(Record) /\ DOMAIN rootIndexes = {Entry(k).root : k \in Places}
  BY DEF IInv, TypeOK, RootIndexesExact, Record
<1>2. ASSUME NEW k \in Places PROVE Entry(k).root \in Hashes(nodes)
  <2>1. k + 1 \in 1 .. Len(rootEntries)
    BY <1>1 DEF Places
  <2>2. rootEntries[k + 1] \in Record
    BY <1>1, <2>1
  <2> QED
    BY <2>2 DEF Entry, Record
<1>3. ASSUME initialized PROVE getRoot \in DOMAIN rootIndexes
  <2>1. Len(rootEntries) \in Nat /\ Len(rootEntries) > 0
    BY <1>1, <1>3 DEF IInv, HistoryMonotone
  <2>2. Len(rootEntries) - 1 \in Places
    BY <2>1 DEF Places
  <2> QED
    BY <1>1, <2>2 DEF getRoot
<1> QED
  BY <1>1, <1>2, <1>3

\* A write starts from a tree, of the current root.
LEMMA AddLeafCanWrite ==
    ASSUME TInv, NEW key \in Index, NEW value \in Value, AddLeaf(key, value)
    PROVE  CanWrite(nodes, getRoot, key, value, maxDepth)
<1>1. initialized /\ Accepts(key, value)
  BY DEF AddLeaf, isInitialized
<1>2. getRoot \in DOMAIN rootIndexes /\ getRoot \in Hashes(nodes)
  BY <1>1, RootsInStore DEF TInv
<1> QED
  BY <1>1, <1>2 DEF TInv, IInv, TypeOK, Trees, Accepts, NewNodes, CanWrite

\* The store and the depth only grow.
LEMMA NextExtends ==
    ASSUME IInv, [Next]_vars
    PROVE  /\ Extends(nodes, nodes')
           /\ maxDepth \in Nat /\ maxDepth' \in Nat /\ maxDepth <= maxDepth'
<1>1. IsStore(nodes) /\ IsStore(nodes') /\ maxDepth \in Nat /\ maxDepth' \in Nat
  <2>1. IInv'
    BY NextIInv
  <2> QED
    BY <2>1, CapAssumption DEF IInv, TypeOK
<1>2. \A h \in DOMAIN nodes : h \in DOMAIN nodes' /\ nodes'[h] = nodes[h]
  <2>1. Grows \/ UNCHANGED vars
    BY NextGrows
  <2> QED
    BY <2>1 DEF Grows, vars
<1>3. maxDepth <= maxDepth'
  <2>1. CASE UNCHANGED vars
    BY <1>1, <2>1 DEF vars
  <2>2. ASSUME NEW depth \in 0 .. MAX_DEPTH_HARD_CAP + 1, SetMaxDepth(depth) \/ Initialize(depth)
        PROVE  maxDepth <= maxDepth'
    BY <1>1, <2>2, CapAssumption DEF SetMaxDepth, Initialize, MaxDepthAllowed
  <2>3. ASSUME NEW key \in Index, NEW value \in Value, AddLeaf(key, value)
        PROVE  maxDepth <= maxDepth'
    BY <1>1, <2>3 DEF AddLeaf
  <2>4. CASE NextBlock
    BY <1>1, <2>4 DEF NextBlock, data
  <2> QED
    BY <2>1, <2>2, <2>3, <2>4 DEF Next
<1> QED
  BY <1>1, <1>2, <1>3 DEF Extends

\* The ways of a root of the history stay.
LEMMA RootStays ==
    ASSUME TInv, [Next]_vars, NEW root \in DOMAIN rootIndexes
    PROVE  /\ IsTree(nodes', root, maxDepth')
           /\ \A key \in Index :
                /\ EndNode(nodes', root, key, maxDepth') = EndNode(nodes, root, key, maxDepth)
                /\ SameProof(getProofByRoot(nodes, root, key, maxDepth),
                             getProofByRoot(nodes', root, key, maxDepth'))
<1>1. /\ Extends(nodes, nodes')
      /\ maxDepth \in Nat /\ maxDepth' \in Nat /\ maxDepth <= maxDepth'
  BY NextExtends DEF TInv
<1>2. root \in Hashes(nodes) /\ IsTree(nodes, root, maxDepth)
  BY RootsInStore DEF TInv, Trees
<1> QED
  BY <1>1, <1>2, TreeStays

\* One more entry, under a root that is EmptyHash if the first.
LEMMA AddEntryFirstEmpty ==
    ASSUME TInv, NEW root, NEW timestamp, NEW block, AddEntry(root, timestamp, block),
           root = EmptyHash <=> rootEntries = <<>>
    PROVE  FirstEmpty'
<1> DEFINE entry == [root |-> root,
                     createdAtTimestamp |-> timestamp,
                     createdAtBlock |-> block]
           T == Record \cup {entry}
           L == Len(rootEntries)
<1>1. rootEntries' = Append(rootEntries, entry) /\ entry.root = root
  BY DEF AddEntry
<1>2. rootEntries \in Seq(T) /\ entry \in T
  <2>1. rootEntries \in Seq(Record)
    BY DEF TInv, IInv, TypeOK, Record
  <2> QED
    BY <2>1
<1> HIDE DEF entry, T
<1>3. /\ L \in Nat
      /\ Len(rootEntries') = L + 1
      /\ \A n \in 1 .. L : rootEntries'[n] = rootEntries[n]
      /\ rootEntries'[L + 1] = entry
  BY <1>1, <1>2, AppendFacts
<1>4. root = EmptyHash <=> L = 0
  BY <1>2
<1>5. ASSUME NEW k \in 0 .. L PROVE rootEntries'[k + 1].root = EmptyHash <=> k = 0
  <2>1. CASE k = L
    BY <1>1, <1>3, <1>4, <2>1
  <2>2. CASE k # L
    <3>1. k \in 0 .. L - 1 /\ k + 1 \in 1 .. L
      BY <1>3, <2>2
    <3> QED
      BY <1>3, <3>1 DEF TInv, FirstEmpty, Places, Entry
  <2> QED
    BY <2>1, <2>2
<1> QED
  BY <1>3, <1>5 DEF FirstEmpty, Places, Entry

LEMMA NextTInv ==
    ASSUME TInv, [Next]_vars
    PROVE  TInv'
<1>1. IInv'
  BY NextIInv DEF TInv
<1>2. \A root \in DOMAIN rootIndexes : IsTree(nodes', root, maxDepth')
  BY RootStays
<1>3. ASSUME NEW depth \in 0 .. MAX_DEPTH_HARD_CAP + 1, Initialize(depth)
      PROVE  Trees' /\ FirstEmpty'
  <2>1. /\ AddEntry(EmptyHash, 0, 0)
        /\ nodes' = nodes
        /\ ~initialized
    BY <1>3 DEF Initialize, isInitialized
  <2>2. DOMAIN rootIndexes' = DOMAIN rootIndexes \cup {EmptyHash}
    BY <2>1 DEF AddEntry, PushIndex
  <2>3. IsTree(nodes', EmptyHash, maxDepth')
    <3>1. IsStore(nodes') /\ maxDepth' \in Nat
      BY <1>1, CapAssumption DEF IInv, TypeOK
    <3> QED
      BY <3>1, EmptyIsTree
  <2>4. rootEntries = <<>>
    <3>1. rootEntries \in Seq(Record) /\ ~(Len(rootEntries) > 0)
      BY <2>1 DEF TInv, IInv, TypeOK, HistoryMonotone, Record
    <3> QED
      BY <3>1
  <2>5. FirstEmpty'
    BY <2>1, <2>4, AddEntryFirstEmpty
  <2> QED
    BY <1>2, <2>1, <2>2, <2>3, <2>5 DEF TInv, Trees
<1>4. ASSUME NEW key \in Index, NEW value \in Value, AddLeaf(key, value)
      PROVE  Trees' /\ FirstEmpty'
  <2> DEFINE new == NewWay(nodes, getRoot, key, value, maxDepth)
             newRoot == getNodeHash(new[0])
  <2>1. /\ AddEntry(newRoot, blockTimestamp, blockNumber)
        /\ nodes' = AddNodes(nodes, new)
        /\ initialized
        /\ maxDepth' = maxDepth
        /\ maxDepth \in Nat
    BY <1>4, CapAssumption DEF AddLeaf, NewNodes, isInitialized, TInv, IInv, TypeOK
  <2>2. CanWrite(nodes, getRoot, key, value, maxDepth)
    BY <1>4, AddLeafCanWrite
  <2>3. IsTree(nodes', newRoot, maxDepth')
    BY <2>1, <2>2, WriteTree
  <2>4. Compact(nodes')
    BY <2>1, <2>2, WriteCompact DEF TInv, Trees
  <2>5. newRoot # EmptyHash
    BY DEF getNodeHash, EmptyHash
  <2> HIDE DEF new, newRoot
  <2>6. DOMAIN rootIndexes' = DOMAIN rootIndexes \cup {newRoot}
    BY <2>1 DEF AddEntry, PushIndex
  <2>7. rootEntries # <<>>
    BY <2>1 DEF TInv, IInv, HistoryMonotone
  <2>8. FirstEmpty'
    BY <2>1, <2>5, <2>7, AddEntryFirstEmpty
  <2> QED
    BY <1>2, <2>3, <2>4, <2>6, <2>8 DEF Trees
<1>5. ASSUME UNCHANGED <<nodes, rootEntries, rootIndexes>>
      PROVE  Trees' /\ FirstEmpty'
  BY <1>2, <1>5 DEF TInv, Trees, FirstEmpty, Places, Entry
<1>6. Trees' /\ FirstEmpty'
  <2>1. CASE UNCHANGED vars
    BY <1>5, <2>1 DEF vars
  <2>2. ASSUME NEW depth \in 0 .. MAX_DEPTH_HARD_CAP + 1, SetMaxDepth(depth)
        PROVE  Trees' /\ FirstEmpty'
    BY <1>5, <2>2 DEF SetMaxDepth
  <2>3. CASE NextBlock
    BY <1>5, <2>3 DEF NextBlock, data
  <2> QED
    BY <1>3, <1>4, <2>1, <2>2, <2>3 DEF Next
<1> QED
  BY <1>1, <1>6 DEF TInv

LEMMA TreeInvariance == Spec => []TInv
<1>1. Init => TInv
  <2>1. Init => Trees /\ FirstEmpty
    BY DEF Init, Trees, Compact, FirstEmpty, Places
  <2> QED
    BY <2>1, InitIInv DEF TInv
<1>2. TInv /\ [Next]_vars => TInv'
  BY NextTInv
<1> QED
  BY <1>1, <1>2, PTL DEF Spec

\* For every root the library ever had and every index it gives a proof, which never
\* needs a sibling beyond the end of the array, and whoever holds the root can check it.
THEOREM ProofsAlwaysConvince == Spec => []ProofsConvince
<1>1. TInv => ProofsConvince
  <2> SUFFICES ASSUME TInv, NEW root \in DOMAIN rootIndexes, NEW key \in Index
               PROVE  /\ Ends(nodes, root, key, maxDepth)
                      /\ Convinces(getProofByRoot(nodes, root, key, maxDepth))
    BY DEF ProofsConvince
  <2>1. root \in Hashes(nodes) /\ IsTree(nodes, root, maxDepth) /\ Compact(nodes)
    BY RootsInStore DEF TInv, Trees
  <2>2. IsStore(nodes) /\ maxDepth \in Nat
    BY CapAssumption DEF TInv, IInv, TypeOK
  <2> QED
    BY <2>1, <2>2, TreeConvinces
<1> QED
  BY <1>1, TreeInvariance, PTL

\* Whatever is written later and however much deeper the tree may get, a root and an
\* index get the proof they always got.
THEOREM ProofsAreStable == Spec => ProofsStable
<1>1. TInv /\ [Next]_vars => [KeepsProofs]_vars
  BY RootStays DEF KeepsProofs
<1> QED
  BY <1>1, TreeInvariance, PTL DEF Spec, ProofsStable

\* A root is decided by the leaves under it: the order of the writes, their number and
\* the depth at the time leave no trace in it.
THEOREM RootsAreCanonical == Spec => []HistoryIndependence
<1>1. TInv => HistoryIndependence
  <2> SUFFICES ASSUME TInv, NEW root \in DOMAIN rootIndexes
               PROVE  root = CanonicalRoot(ContentOf(root))
    BY DEF HistoryIndependence
  <2>1. root \in Hashes(nodes) /\ IsTree(nodes, root, maxDepth) /\ Compact(nodes)
    BY RootsInStore DEF TInv, Trees
  <2>2. IsStore(nodes) /\ maxDepth \in 0 .. MAX_DEPTH_HARD_CAP
    BY DEF TInv, IInv, TypeOK
  <2> QED
    BY <2>1, <2>2, TreeIsCanonical DEF ContentOf
<1> QED
  BY <1>1, TreeInvariance, PTL

\* getRootInfo says of a root that nothing replaced it exactly if it is the current
\* one, however often it was current and was replaced before.
THEOREM ReplacedExactly == Spec => []ReplacedIffNotCurrent
<1>1. TInv => ReplacedIffNotCurrent
  <2> SUFFICES ASSUME TInv, NEW root \in DOMAIN rootIndexes
               PROVE  (getRootInfo(root).replacedByRoot = EmptyHash) <=> (root = getRoot)
    BY DEF ReplacedIffNotCurrent
  <2> DEFINE indexes == rootIndexes[root]
             last == indexes[Len(indexes)]
             L == Len(rootEntries)
  <2>1. /\ indexes \in Seq(Places)
        /\ \A k \in Places : Entry(k).root = root <=> \E n \in DOMAIN indexes : indexes[n] = k
        /\ \A m, n \in DOMAIN indexes : m < n => indexes[m] < indexes[n]
        /\ \E k \in Places : root = Entry(k).root
    BY DEF TInv, IInv, TypeOK, RootIndexesExact
  <2>2. L \in Nat
    BY DEF TInv, IInv, TypeOK
  <2> HIDE DEF indexes
  <2>3. Len(indexes) \in Nat /\ DOMAIN indexes = 1 .. Len(indexes) /\ Len(indexes) # 0
    BY <2>1
  <2>4. Len(indexes) \in DOMAIN indexes /\ last \in Places
    BY <2>1, <2>3
  <2>5. \A n \in DOMAIN indexes : indexes[n] <= last
    <3>1. ASSUME NEW n \in DOMAIN indexes PROVE indexes[n] <= last
      <4>1. n = Len(indexes) \/ n < Len(indexes)
        BY <2>3
      <4>2. indexes[n] \in Places /\ Places \subseteq Int
        BY <2>1, <2>2, <2>3 DEF Places
      <4> QED
        <5>1. last \in Int /\ indexes[n] \in Int
          BY <2>4, <4>2
        <5>2. n < Len(indexes) => indexes[n] < last
          BY <2>1, <2>4
        <5> HIDE DEF last
        <5>3. n = Len(indexes) => indexes[n] = last
          BY DEF last
        <5> QED
          BY <4>1, <5>1, <5>2, <5>3
    <3> QED
      BY <3>1
  <2>6. getRootInfo(root) = RootInfoByIndex(last)
    BY DEF getRootInfo, IndexesOf, indexes
  <2> HIDE DEF last
  <2>7. CASE last = L - 1
    <3>1. getRootInfo(root).replacedByRoot = EmptyHash
      BY <2>6, <2>7 DEF RootInfoByIndex
    <3>2. root = getRoot
      BY <2>1, <2>4, <2>7 DEF getRoot, last
    <3> QED
      BY <3>1, <3>2
  <2>8. CASE last # L - 1
    <3>1. last + 1 \in Places /\ last + 1 # 0
      BY <2>2, <2>4, <2>8 DEF Places
    <3>2. getRootInfo(root).replacedByRoot = Entry(last + 1).root
      BY <2>6, <2>8 DEF RootInfoByIndex
    <3>3. getRootInfo(root).replacedByRoot # EmptyHash
      BY <3>1, <3>2 DEF TInv, FirstEmpty
    <3>4. root # getRoot
      <4>1. L - 1 \in Places /\ ~(L - 1 <= last)
        BY <2>2, <2>4, <2>8 DEF Places
      <4>2. Entry(L - 1).root # root
        BY <2>1, <2>5, <4>1
      <4> QED
        BY <4>2 DEF getRoot
    <3> QED
      BY <3>3, <3>4
  <2> QED
    BY <2>7, <2>8
<1> QED
  BY <1>1, TreeInvariance, PTL

\* The leaf of key parts from every other one on the bits that maxDepth lets addLeaf
\* look at.
Parts(key) ==
    \A other \in DOMAIN ContentOf(getRoot) \ {key} :
        \E d \in 0 .. maxDepth - 1 : Bit(key, d) # Bit(other, d)

\* addLeaf refuses a leaf for one of two reasons, whatever the hash function: another
\* leaf agrees with it on all the bits within maxDepth, or _addNode's assertion fails
\* for a node that has the hash of another one.
THEOREM RefusalsAreExplained ==
    Spec =>
        [](initialized =>
            \A key \in Index, value \in Value :
                Accepts(key, value) <=>
                    Parts(key) /\ NoCollision(nodes, NewNodes(key, value)))
<1>1. TInv =>
        (initialized =>
            \A key \in Index, value \in Value :
                Accepts(key, value) <=>
                    Parts(key) /\ NoCollision(nodes, NewNodes(key, value)))
  <2> SUFFICES ASSUME TInv, initialized, NEW key \in Index, NEW value \in Value
               PROVE  FitsDepth(nodes, getRoot, key, maxDepth) <=> Parts(key)
    BY DEF Accepts
  <2>1. getRoot \in Hashes(nodes) /\ IsTree(nodes, getRoot, maxDepth)
    BY RootsInStore DEF TInv, Trees
  <2>2. IsStore(nodes) /\ maxDepth \in Nat
    BY CapAssumption DEF TInv, IInv, TypeOK
  <2> QED
    BY <2>1, <2>2, RoomForLeaf DEF ContentOf, Parts
<1> QED
  BY <1>1, TreeInvariance, PTL

\* Where hashes do not collide, the first reason is the only one.
THEOREM RefusalIsForDepth ==
    ASSUME \A m, n : Compress(m) = Compress(n) => m = n
    PROVE  Spec => []RefusesOnlyForDepth
<1>1. TInv =>
        \A key \in Index, value \in Value : NoCollision(nodes, NewNodes(key, value))
  BY NoCollisionInjective DEF TInv, IInv, TypeOK
<1>2. (initialized =>
          \A key \in Index, value \in Value :
              Accepts(key, value) <=>
                  Parts(key) /\ NoCollision(nodes, NewNodes(key, value)))
      /\ (\A key \in Index, value \in Value : NoCollision(nodes, NewNodes(key, value)))
      => RefusesOnlyForDepth
  BY DEF RefusesOnlyForDepth, Parts
<1> QED
  BY <1>1, <1>2, TreeInvariance, RefusalsAreExplained, PTL

-----------------------------------------------------------------------------
(* The versioned map.                                                      *)

\* What the versions of Abstract are, as a sequence of its own.
Version(entry, content) ==
    [content |-> content, time |-> entry.createdAtTimestamp, block |-> entry.createdAtBlock]

Versions == [k \in DOMAIN rootEntries |->
               Version(rootEntries[k], ContentOf(rootEntries[k].root))]

LEMMA VersionsIsSeq ==
    ASSUME TInv
    PROVE  /\ Len(rootEntries) \in Nat
           /\ DOMAIN rootEntries = 1 .. Len(rootEntries)
           /\ Len(Versions) = Len(rootEntries)
           /\ DOMAIN Versions = 1 .. Len(rootEntries)
<1>1. rootEntries \in Seq(Record)
  BY DEF TInv, IInv, TypeOK, Record
<1>2. Len(rootEntries) \in Nat /\ DOMAIN rootEntries = 1 .. Len(rootEntries)
  BY <1>1
<1> QED
  BY <1>2 DEF Versions

LEMMA AppendIs ==
    ASSUME NEW L \in Nat, NEW s, s = [k \in 1 .. L |-> s[k]],
           NEW f, f = [k \in 1 .. L + 1 |-> f[k]],
           \A k \in 1 .. L : f[k] = s[k]
    PROVE  f = Append(s, f[L + 1])
<1> DEFINE T == {f[k] : k \in 1 .. L + 1}
<1>1. s \in [1 .. L -> T] /\ f[L + 1] \in T
  <2>1. \A k \in 1 .. L : k \in 1 .. L + 1
    OBVIOUS
  <2>2. \A k \in 1 .. L : s[k] \in T
    BY <2>1
  <2> QED
    BY <2>2
<1> HIDE DEF T
<1>2. s \in Seq(T) /\ Len(s) = L
  BY <1>1
<1> DEFINE g == Append(s, f[L + 1])
<1>3. /\ g \in Seq(T)
      /\ DOMAIN g = 1 .. L + 1
      /\ \A k \in 1 .. L : g[k] = s[k]
      /\ g[L + 1] = f[L + 1]
  BY <1>1, <1>2, AppendFacts
<1> HIDE DEF g
<1>4. \A k \in 1 .. L + 1 : g[k] = f[k]
  <2>1. \A k \in 1 .. L + 1 : k \in 1 .. L \/ k = L + 1
    OBVIOUS
  <2> QED
    BY <1>3, <2>1
<1>5. g = [k \in 1 .. L + 1 |-> g[k]]
  <2>1. Len(g) \in Nat /\ g \in [1 .. Len(g) -> T]
    BY <1>3
  <2>2. g = [k \in DOMAIN g |-> g[k]]
    BY <2>1
  <2> QED
    BY <1>3, <2>2
<1>6. f = g
  BY <1>4, <1>5
<1> QED
  BY <1>6 DEF g

LEMMA ContentStays ==
    ASSUME TInv, [Next]_vars, NEW root \in DOMAIN rootIndexes
    PROVE  Content(nodes', root, maxDepth') = Content(nodes, root, maxDepth)
<1>1. \A key \in Index :
        EndNode(nodes', root, key, maxDepth') = EndNode(nodes, root, key, maxDepth)
  BY RootStays
<1>2. \A key \in Index :
        Holds(nodes', root, key, maxDepth') <=> Holds(nodes, root, key, maxDepth)
  BY <1>1 DEF Holds
<1>3. {i \in Index : Holds(nodes', root, i, maxDepth')}
        = {i \in Index : Holds(nodes, root, i, maxDepth)}
  BY <1>2
<1>4. /\ Content(nodes, root, maxDepth) =
             [key \in {i \in Index : Holds(nodes, root, i, maxDepth)} |->
                EndNode(nodes, root, key, maxDepth).value]
      /\ Content(nodes', root, maxDepth') =
             [key \in {i \in Index : Holds(nodes', root, i, maxDepth')} |->
                EndNode(nodes', root, key, maxDepth').value]
  BY ContentDef
<1> QED
  BY <1>1, <1>3, <1>4

\* A version once made stays what it was.
LEMMA VersionsStay ==
    ASSUME TInv, [Next]_vars, NEW k \in DOMAIN rootEntries
    PROVE  k \in DOMAIN rootEntries' => Versions'[k] = Versions[k]
<1>1. rootEntries'[k] = rootEntries[k]
  <2>1. Grows \/ UNCHANGED vars
    BY NextGrows DEF TInv
  <2> QED
    BY <2>1 DEF Grows, vars
<1>2. rootEntries[k].root \in DOMAIN rootIndexes
  <2>1. k - 1 \in Places /\ (k - 1) + 1 = k
    BY VersionsIsSeq DEF Places
  <2> QED
    BY <2>1 DEF TInv, IInv, RootIndexesExact, Entry
<1>3. Content(nodes', rootEntries[k].root, maxDepth') = Content(nodes, rootEntries[k].root, maxDepth)
  BY <1>2, ContentStays
<1> QED
  BY <1>1, <1>3 DEF Versions, ContentOf

LEMMA SameVersions ==
    ASSUME TInv, [Next]_vars, UNCHANGED rootEntries
    PROVE  Versions' = Versions
<1>1. \A k \in DOMAIN rootEntries : Versions'[k] = Versions[k]
  BY VersionsStay
<1>2. Versions = [k \in DOMAIN rootEntries |-> Versions[k]]
  BY DEF Versions
<1>3. Versions' = [k \in DOMAIN rootEntries |-> Versions'[k]]
  BY DEF Versions
<1> QED
  BY <1>1, <1>2, <1>3

\* One entry more is one version more.
LEMMA AddEntryVersion ==
    ASSUME TInv, [Next]_vars, NEW root, NEW timestamp, NEW block,
           AddEntry(root, timestamp, block)
    PROVE  Versions' = Append(Versions,
                              [content |-> Content(nodes', root, maxDepth'),
                               time |-> timestamp, block |-> block])
<1> DEFINE L == Len(rootEntries)
           entry == [root |-> root,
                     createdAtTimestamp |-> timestamp,
                     createdAtBlock |-> block]
           T == Record \cup {entry}
<1>1. rootEntries' = Append(rootEntries, entry)
  BY DEF AddEntry
<1>2. rootEntries \in Seq(T) /\ entry \in T
  <2>1. rootEntries \in Seq(Record)
    BY DEF TInv, IInv, TypeOK, Record
  <2> QED
    BY <2>1
<1> HIDE DEF T
<1>3. /\ L \in Nat
      /\ DOMAIN rootEntries = 1 .. L
      /\ DOMAIN rootEntries' = 1 .. L + 1
      /\ rootEntries'[L + 1] = entry
  <2> HIDE DEF entry
  <2> QED
    BY <1>1, <1>2, AppendFacts
<1>4. Versions = [k \in 1 .. L |-> Versions[k]] /\ Versions' = [k \in 1 .. L + 1 |-> Versions'[k]]
  BY <1>3 DEF Versions
<1>5. \A k \in 1 .. L : Versions'[k] = Versions[k]
  <2>1. \A k \in 1 .. L : k \in 1 .. L + 1
    BY <1>3
  <2> QED
    BY <1>3, <2>1, VersionsStay
<1>6. Versions'[L + 1] = [content |-> Content(nodes', root, maxDepth'),
                          time |-> timestamp, block |-> block]
  <2>1. L + 1 \in DOMAIN rootEntries'
    BY <1>3
  <2> QED
    BY <1>3, <2>1 DEF Versions, Version, ContentOf
<1> DEFINE f == Versions'
           s == Versions
<1> HIDE DEF f, s, L
<1>7. f = Append(s, f[L + 1])
  BY <1>3, <1>4, <1>5, AppendIs DEF f, s
<1> QED
  BY <1>6, <1>7 DEF f, s

\* Initialize makes the empty version.
LEMMA InitializeOpens ==
    ASSUME TInv, NEW depth \in 0 .. MAX_DEPTH_HARD_CAP + 1, Initialize(depth)
    PROVE  Abstract!Open
<1>1. /\ AddEntry(EmptyHash, 0, 0)
      /\ [Next]_vars
      /\ ~initialized
      /\ UNCHANGED <<blockNumber, blockTimestamp>>
  BY DEF Initialize, isInitialized, Next, clock
<1>2. Versions = <<>>
  <2>1. rootEntries \in Seq(Record) /\ ~(Len(rootEntries) > 0)
    BY <1>1 DEF TInv, IInv, TypeOK, HistoryMonotone, Record
  <2>2. rootEntries = <<>>
    BY <2>1
  <2> QED
    BY <2>2 DEF Versions
<1>3. Versions' = Append(Versions, [content |-> Content(nodes', EmptyHash, maxDepth'),
                                    time |-> 0, block |-> 0])
  BY <1>1, AddEntryVersion
<1>4. Content(nodes', EmptyHash, maxDepth') = [k \in {} |-> 0]
  <2>1. IsStore(nodes') /\ maxDepth' \in Nat
    <3>1. IInv'
      BY <1>1, NextIInv DEF TInv
    <3> QED
      BY <3>1, CapAssumption DEF IInv, TypeOK
  <2>2. \A key \in Index : ~Holds(nodes', EmptyHash, key, maxDepth')
    BY <2>1, EmptyIsTree DEF Holds
  <2>3. Content(nodes', EmptyHash, maxDepth') =
          [key \in {i \in Index : Holds(nodes', EmptyHash, i, maxDepth')} |->
             EndNode(nodes', EmptyHash, key, maxDepth').value]
    BY ContentDef
  <2>4. {i \in Index : Holds(nodes', EmptyHash, i, maxDepth')} = {}
    BY <2>2
  <2> QED
    BY <2>3, <2>4
<1>5. Versions' = << [content |-> [k \in {} |-> 0], time |-> 0, block |-> 0] >>
  BY <1>2, <1>3, <1>4
<1> QED
  BY <1>1, <1>2, <1>5 DEF Abstract!Open, Versions, Version

\* A write puts one leaf.
LEMMA AddLeafPuts ==
    ASSUME TInv, NEW key \in Index, NEW value \in Value, AddLeaf(key, value)
    PROVE  Abstract!Put(key, value)
<1> DEFINE new == NewWay(nodes, getRoot, key, value, maxDepth)
           newRoot == getNodeHash(new[0])
           content == Content(nodes, getRoot, maxDepth)
           L == Len(rootEntries)
<1>1. /\ AddEntry(newRoot, blockTimestamp, blockNumber)
      /\ nodes' = AddNodes(nodes, new)
      /\ [Next]_vars
      /\ initialized
      /\ maxDepth' = maxDepth
      /\ maxDepth \in Nat
      /\ UNCHANGED <<blockNumber, blockTimestamp>>
  BY CapAssumption
     DEF AddLeaf, NewNodes, isInitialized, Next, clock, TInv, IInv, TypeOK
<1>2. CanWrite(nodes, getRoot, key, value, maxDepth)
  BY AddLeafCanWrite
<1>3. Content(nodes', newRoot, maxDepth') = WithLeaf(content, key, value)
  BY <1>1, <1>2, WriteTree
<1> HIDE DEF newRoot, new
<1>4. Versions' = Append(Versions, [content |-> Content(nodes', newRoot, maxDepth'),
                                    time |-> blockTimestamp, block |-> blockNumber])
  BY <1>1, AddEntryVersion
<1>5. /\ L \in Nat /\ L # 0
      /\ DOMAIN Versions = 1 .. L
      /\ DOMAIN rootEntries = 1 .. L
      /\ Len(Versions) = L
  BY <1>1, VersionsIsSeq DEF TInv, IInv, HistoryMonotone
<1>6. Versions # <<>>
  BY <1>5
<1>7. Versions[Len(Versions)].content = content
  <2>1. getRoot = rootEntries[L].root /\ L \in DOMAIN rootEntries
    BY <1>5 DEF getRoot, Entry
  <2> QED
    BY <1>5, <2>1 DEF Versions, Version, ContentOf
<1> DEFINE current == Versions[Len(Versions)].content
<1>8. Versions' = Append(Versions,
         [content |-> [i \in DOMAIN current \cup {key} |->
                         IF i = key THEN value ELSE current[i]],
          time |-> blockTimestamp, block |-> blockNumber])
  BY <1>3, <1>4, <1>7 DEF WithLeaf
<1> HIDE DEF content
<1> QED
  BY <1>1, <1>6, <1>8 DEF Abstract!Put, Abstract!Current, Abstract!With, Versions, Version

LEMMA NextMaps ==
    ASSUME TInv, [Next]_vars
    PROVE  [Abstract!Next]_(Abstract!vars)
<1>1. CASE UNCHANGED vars
  <2>1. Versions' = Versions
    BY <1>1, SameVersions DEF vars
  <2> QED
    BY <1>1, <2>1 DEF vars, Abstract!vars, Versions, Version
<1>2. ASSUME NEW depth \in 0 .. MAX_DEPTH_HARD_CAP + 1, SetMaxDepth(depth)
      PROVE  UNCHANGED Abstract!vars
  <2>1. Versions' = Versions
    BY <1>2, SameVersions DEF SetMaxDepth
  <2> QED
    BY <1>2, <2>1 DEF SetMaxDepth, clock, Abstract!vars, Versions, Version
<1>3. ASSUME NEW depth \in 0 .. MAX_DEPTH_HARD_CAP + 1, Initialize(depth)
      PROVE  Abstract!Next
  BY <1>3, InitializeOpens DEF Abstract!Next
<1>4. ASSUME NEW key \in Index, NEW value \in Value, AddLeaf(key, value)
      PROVE  Abstract!Next
  BY <1>4, AddLeafPuts DEF Abstract!Next
<1>5. CASE NextBlock
  <2>1. Versions' = Versions
    BY <1>5, SameVersions DEF NextBlock, data
  <2>2. /\ blockNumber' = blockNumber + 1
        /\ blockTimestamp' \in Nat
        /\ blockTimestamp' >= blockTimestamp
    BY <1>5, BoundsAssumption DEF NextBlock, TInv, IInv, TypeOK
  <2>3. Abstract!Tick
    BY <2>1, <2>2 DEF Abstract!Tick, Versions, Version
  <2> QED
    BY <2>3 DEF Abstract!Next
<1> QED
  BY <1>1, <1>2, <1>3, <1>4, <1>5 DEF Next

LEMMA InitMap == Init => Abstract!Init
  BY DEF Init, Abstract!Init

\* The library implements a versioned map: the tree, the hashes, the depth and the
\* writes that share nodes do not show in what its roots stand for.
THEOREM ImplementsVersionedMap == Spec => IsVersionedMap
<1>1. Init => Abstract!Init
  BY InitMap
<1>2. TInv /\ [Next]_vars => [Abstract!Next]_(Abstract!vars)
  BY NextMaps
<1> QED
  BY <1>1, <1>2, TreeInvariance, PTL DEF Spec, IsVersionedMap, Abstract!Spec

-----------------------------------------------------------------------------
(* Queries.                                                                *)

\* The search and the proofs about it, on the library's history.
SearchProofs == INSTANCE BinarySearchSmtRoots_proofs WITH
    Time <- Nat,
    MaxLength <- MaxEntries,
    field <- FieldOf(asked.searchType),
    value <- asked.value

LEMMA SameSearch ==
    /\ Search!Begin <=> SearchProofs!Begin
    /\ Search!Look <=> SearchProofs!Look
  BY DEF Search!Begin, SearchProofs!Begin, Search!Last, SearchProofs!Last,
         Search!Look, SearchProofs!Look, Search!Leave, SearchProofs!Leave,
         Search!Equal, SearchProofs!Equal, Search!GoRight, SearchProofs!GoRight,
         Search!GoLeft, SearchProofs!GoLeft, Search!NotFound, SearchProofs!NotFound,
         Search!SkipEqual, SearchProofs!SkipEqual,
         Search!ReturnEqual, SearchProofs!ReturnEqual, Search!Enter, SearchProofs!Enter,
         Search!Return, SearchProofs!Return, Search!At, SearchProofs!At,
         Search!Middle, SearchProofs!Middle

-----------------------------------------------------------------------------
(* The invariant: that of the library, that of the search, and that the     *)
(* history is one that the search takes.                                   *)

QInv ==
    /\ IInv
    /\ Len(rootEntries) <= MaxEntries
    /\ asked \in [searchType : SearchType, value : Nat]
    /\ SearchProofs!IInv

LEMMA EntriesFacts ==
    ASSUME IInv
    PROVE  /\ Len(rootEntries) \in Nat
           /\ DOMAIN rootEntries = 1 .. Len(rootEntries)
           /\ \A k \in 1 .. Len(rootEntries) : \A searchType :
                fieldSelector(rootEntries[k], searchType) \in Nat
           /\ \A j, k \in 1 .. Len(rootEntries) : \A searchType :
                j < k => fieldSelector(rootEntries[j], searchType)
                           <= fieldSelector(rootEntries[k], searchType)
<1> DEFINE L == Len(rootEntries)
<1>1. rootEntries \in Seq(Record)
  BY DEF IInv, TypeOK, Record
<1>2. L \in Nat /\ DOMAIN rootEntries = 1 .. L
  BY <1>1
<1>3. ASSUME NEW k \in 1 .. L, NEW searchType
      PROVE  fieldSelector(rootEntries[k], searchType) \in Nat
  <2>1. rootEntries[k] \in Record
    BY <1>1, <1>3
  <2>2. rootEntries[k].createdAtTimestamp \in Nat /\ rootEntries[k].createdAtBlock \in Nat
    BY <2>1, BoundsAssumption DEF Record
  <2> QED
    BY <2>2 DEF fieldSelector
<1>4. ASSUME NEW j \in 1 .. L, NEW k \in 1 .. L, NEW searchType, j < k
      PROVE  fieldSelector(rootEntries[j], searchType)
               <= fieldSelector(rootEntries[k], searchType)
  <2>1. /\ j - 1 \in Places /\ k - 1 \in Places /\ j - 1 < k - 1
        /\ (j - 1) + 1 = j /\ (k - 1) + 1 = k
    BY <1>2, <1>4 DEF Places
  <2>2. /\ rootEntries[j].createdAtTimestamp <= rootEntries[k].createdAtTimestamp
        /\ rootEntries[j].createdAtBlock <= rootEntries[k].createdAtBlock
    BY <2>1 DEF IInv, HistoryMonotone, Entry
  <2> QED
    BY <2>2 DEF fieldSelector
<1> QED
  BY <1>2, <1>3, <1>4

\* The history, by time or by block, is in order.
LEMMA FieldIsHistory ==
    IInv /\ Len(rootEntries) <= MaxEntries =>
      FieldOf(asked.searchType) \in SearchProofs!Histories
<1> SUFFICES ASSUME IInv, Len(rootEntries) <= MaxEntries
             PROVE  FieldOf(asked.searchType) \in SearchProofs!Histories
  OBVIOUS
<1> DEFINE f == FieldOf(asked.searchType)
           L == Len(rootEntries)
<1>1. /\ L \in Nat
      /\ DOMAIN rootEntries = 1 .. L
      /\ \A k \in 1 .. L : fieldSelector(rootEntries[k], asked.searchType) \in Nat
      /\ \A j, k \in 1 .. L :
           j < k => fieldSelector(rootEntries[j], asked.searchType)
                      <= fieldSelector(rootEntries[k], asked.searchType)
  BY EntriesFacts
<1>2. f \in [1 .. L -> Nat] /\ SearchProofs!InOrder(f)
  BY <1>1 DEF FieldOf, SearchProofs!InOrder
<1>3. L \in 0 .. MaxEntries
  BY <1>1, BoundsAssumption
<1> HIDE DEF f, L
<1>4. f \in SearchProofs!Histories
  BY <1>2, <1>3 DEF SearchProofs!Histories
<1> QED
  BY <1>4 DEF f

LEMMA InitQInv == QInit => QInv
<1> SUFFICES ASSUME QInit PROVE QInv
  OBVIOUS
<1>1. IInv
  BY InitIInv DEF QInit
<1>2. Len(rootEntries) <= MaxEntries
  BY BoundsAssumption DEF QInit, Init
<1>3. asked \in [searchType : SearchType, value : Nat]
  BY DEF QInit, SearchType
<1>4. SearchProofs!IInv
  BY <1>1, <1>2, <1>3, FieldIsHistory
     DEF QInit, SearchProofs!IInv, SearchProofs!TypeOK, SearchProofs!Narrowed,
         SearchProofs!Matched, SearchProofs!Correct
<1> QED
  BY <1>1, <1>2, <1>3, <1>4 DEF QInv

\* The bound on the length of the history is one.
LEMMA NextLength ==
    ASSUME IInv, Len(rootEntries) <= MaxEntries, [Next]_vars
    PROVE  Len(rootEntries') <= MaxEntries
<1>1. rootEntries \in Seq(Record)
  BY DEF IInv, TypeOK, Record
<1>2. ASSUME NEW root, NEW timestamp, NEW block, AddEntry(root, timestamp, block),
             Len(rootEntries) < MaxEntries
      PROVE  Len(rootEntries') <= MaxEntries
  <2> DEFINE entry == [root |-> root,
                       createdAtTimestamp |-> timestamp,
                       createdAtBlock |-> block]
  <2>1. rootEntries' = Append(rootEntries, entry)
    BY <1>2 DEF AddEntry
  <2> HIDE DEF entry
  <2>2. rootEntries \in Seq(Record \cup {entry}) /\ entry \in Record \cup {entry}
    BY <1>1
  <2>3. Len(rootEntries) \in Nat /\ Len(rootEntries') = Len(rootEntries) + 1
    BY <2>1, <2>2, AppendFacts
  <2> QED
    BY <1>2, <2>3, BoundsAssumption
<1>3. ASSUME NEW depth \in 0 .. MAX_DEPTH_HARD_CAP + 1, Initialize(depth)
      PROVE  Len(rootEntries') <= MaxEntries
  <2>1. AddEntry(EmptyHash, 0, 0) /\ ~initialized
    BY <1>3 DEF Initialize, isInitialized
  <2>2. Len(rootEntries) < MaxEntries
    BY <1>1, <2>1, BoundsAssumption DEF IInv, HistoryMonotone
  <2> QED
    BY <1>2, <2>1, <2>2
<1>4. ASSUME NEW i \in Index, NEW v \in Value, AddLeaf(i, v)
      PROVE  Len(rootEntries') <= MaxEntries
  BY <1>2, <1>4 DEF AddLeaf
<1>5. ASSUME rootEntries' = rootEntries
      PROVE  Len(rootEntries') <= MaxEntries
  BY <1>5
<1> QED
  BY <1>3, <1>4, <1>5 DEF Next, vars, SetMaxDepth, NextBlock, data

\* Between two calls the search is about nothing.
LEMMA IdleSearch ==
    ASSUME QInv, pc' = "idle", UNCHANGED <<min, max, mid, index, found>>,
           asked' = asked, FieldOf(asked.searchType)' \in SearchProofs!Histories'
    PROVE  SearchProofs!IInv'
  BY DEF QInv, SearchProofs!IInv, SearchProofs!TypeOK, SearchProofs!Narrowed,
         SearchProofs!Matched, SearchProofs!Correct, SearchProofs!Histories,
         SearchProofs!InOrder

LEMMA NextQInv ==
    ASSUME QInv, [QNext]_queryVars
    PROVE  QInv'
<1>1. FieldOf(asked.searchType) \in SearchProofs!Histories
  BY FieldIsHistory DEF QInv
<1>2. CASE Change
  <2>1. [Next]_vars /\ pc' = "idle" /\ UNCHANGED search
    BY <1>2 DEF Change, Idle, search
  <2>2. (IInv /\ Len(rootEntries) <= MaxEntries)'
    BY <2>1, NextIInv, NextLength DEF QInv
  <2>3. (FieldOf(asked.searchType) \in SearchProofs!Histories)'
    BY <2>2, FieldIsHistory, PTL
  <2>4. SearchProofs!IInv'
    BY <2>1, <2>3, IdleSearch DEF search
  <2> QED
    BY <2>1, <2>2, <2>4 DEF QInv, search
<1>3. ASSUME NEW searchType \in SearchType, NEW value \in 0 .. Now(searchType),
             Ask(searchType, value)
      PROVE  QInv'
  <2>1. asked' \in [searchType : SearchType, value : Nat]
    BY <1>3 DEF Ask
  <2>2. UNCHANGED vars /\ SearchProofs!Begin
    BY <1>3, SameSearch DEF Ask
  <2>3. (IInv /\ Len(rootEntries) <= MaxEntries)'
    BY <2>2, NextIInv DEF QInv, vars
  <2>4. (FieldOf(asked.searchType) \in SearchProofs!Histories)'
    BY <2>3, FieldIsHistory, PTL
  <2>5. asked'.value \in Nat
    BY <2>1
  <2>6. SearchProofs!IInv'
    BY <2>2, <2>4, <2>5, SearchProofs!BeginStep, BoundsAssumption
       DEF QInv, SearchProofs!Histories, SearchProofs!InOrder
  <2> QED
    BY <2>1, <2>3, <2>6 DEF QInv
<1>4. CASE Look
  <2>1. UNCHANGED vars /\ asked' = asked /\ SearchProofs!Look
    BY <1>4, SameSearch DEF Look
  <2>2. (IInv /\ Len(rootEntries) <= MaxEntries)'
    BY <2>1, NextIInv DEF QInv, vars
  <2>3. (Nat \subseteq Nat /\ 0 \in Nat) /\ MaxEntries \in Nat
    BY BoundsAssumption
  <2>4. SearchProofs!IInv'
    BY <2>1, <2>3, SearchProofs!LeaveStep, SearchProofs!RoundStep, SearchProofs!InnerStep
       DEF QInv, SearchProofs!Look
  <2> QED
    BY <2>1, <2>2, <2>4 DEF QInv
<1>5. ASSUME UNCHANGED <<vars, asked, min, max, mid, index, found>>, pc' = "idle" \/ pc' = pc
      PROVE  QInv'
  <2>1. (IInv /\ Len(rootEntries) <= MaxEntries)'
    BY <1>5, NextIInv DEF QInv, vars
  <2>2. FieldOf(asked.searchType)' = FieldOf(asked.searchType)
    BY <1>5 DEF vars, FieldOf
  <2>3. (FieldOf(asked.searchType) \in SearchProofs!Histories)'
    BY <2>1, FieldIsHistory, PTL
  <2>4. SearchProofs!IInv'
    <3>1. CASE pc' = "idle"
      BY <1>5, <2>3, <3>1, IdleSearch
    <3>2. CASE pc' = pc
      BY <1>5, <2>2, <3>2
         DEF QInv, SearchProofs!IInv, SearchProofs!TypeOK, SearchProofs!Narrowed,
             SearchProofs!Matched, SearchProofs!Correct, SearchProofs!Histories,
             SearchProofs!InOrder, SearchProofs!At, SearchProofs!Last
    <3> QED
      BY <1>5, <3>1, <3>2
  <2> QED
    BY <1>5, <2>1, <2>4 DEF QInv
<1>6. CASE Leave
  BY <1>5, <1>6 DEF Leave
<1>7. CASE UNCHANGED queryVars
  BY <1>5, <1>7 DEF queryVars, search
<1> QED
  BY <1>2, <1>3, <1>4, <1>6, <1>7 DEF QNext

LEMMA QInvariance == QSpec => []QInv
<1>1. QInit => QInv
  BY InitQInv
<1>2. QInv /\ [QNext]_queryVars => QInv'
  BY NextQInv
<1> QED
  BY <1>1, <1>2, PTL DEF QSpec

\* getRootInfoByTime and getRootInfoByBlock answer with the root in force at what they
\* are asked for, and of an initialised tree they answer always.
THEOREM AnswersAreInForce == QSpec => []AnswerInForce
<1>1. QInv => AnswerInForce
  <2> SUFFICES ASSUME QInv, pc = "returned"
               PROVE  LET byBlock == asked.searchType = "BLOCK"
                          created == IF byBlock THEN Answer.createdAtBlock
                                                ELSE Answer.createdAtTimestamp
                          replaced == IF byBlock THEN Answer.replacedAtBlock
                                                 ELSE Answer.replacedAtTimestamp
                      IN  /\ initialized => found
                          /\ found => /\ created <= asked.value
                                      /\ Answer.replacedByRoot # EmptyHash =>
                                           replaced > asked.value
    BY DEF AnswerInForce
  <2> DEFINE L == Len(rootEntries)
             value == asked.value
             at(k) == fieldSelector(rootEntries[k + 1], asked.searchType)
  <2>1. L \in Nat /\ DOMAIN rootEntries = 1 .. L
    BY EntriesFacts DEF QInv
  <2>2. Len(FieldOf(asked.searchType)) = L
    BY <2>1 DEF FieldOf
  <2>3. \A k \in 0 .. L - 1 : SearchProofs!At(k) = at(k)
    BY <2>1 DEF SearchProofs!At, FieldOf
  <2>4. SearchProofs!Last = L - 1
    BY <2>2 DEF SearchProofs!Last
  <2>5. /\ found <=> \E k \in 0 .. L - 1 : at(k) <= value
        /\ found => /\ index \in 0 .. L - 1
                    /\ at(index) <= value
                    /\ \A k \in 0 .. L - 1 : k > index => at(k) > value
    BY <2>3, <2>4 DEF QInv, SearchProofs!IInv, SearchProofs!Correct
  <2>6. value \in Nat
    BY DEF QInv
  <2>7. ASSUME initialized PROVE found
    <3>1. 0 \in 0 .. L - 1
      BY <2>1, <2>7 DEF QInv, IInv, HistoryMonotone
    <3>2. at(0) = 0
      BY <2>7 DEF QInv, IInv, HistoryMonotone, Entry, fieldSelector
    <3> HIDE DEF at
    <3> QED
      BY <2>5, <2>6, <3>1, <3>2
  <2>8. ASSUME found
        PROVE  /\ at(index) <= value
               /\ index # L - 1 => at(index + 1) > value
    <3> HIDE DEF at, L
    <3>1. index # L - 1 => index + 1 \in 0 .. L - 1 /\ index + 1 > index
      BY <2>1, <2>5, <2>8
    <3> QED
      BY <2>5, <2>8, <3>1
  <2>9. /\ asked.searchType = "BLOCK" => Answer.createdAtBlock = at(index)
        /\ asked.searchType # "BLOCK" => Answer.createdAtTimestamp = at(index)
        /\ Answer.replacedByRoot # EmptyHash =>
             /\ index # L - 1
             /\ asked.searchType = "BLOCK" => Answer.replacedAtBlock = at(index + 1)
             /\ asked.searchType # "BLOCK" => Answer.replacedAtTimestamp = at(index + 1)
    BY DEF Answer, RootInfoByIndex, Entry, fieldSelector
  <2> HIDE DEF at, L, value
  <2> QED
    BY <2>7, <2>8, <2>9 DEF value
<1> QED
  BY <1>1, QInvariance, PTL

-----------------------------------------------------------------------------
(* The past.                                                               *)

\* What one step does to the history: nothing, or one entry more, which of a tree
\* that was initialised is of the present.
LEMMA NextEntries ==
    ASSUME IInv, [Next]_vars, initialized
    PROVE  \/ rootEntries' = rootEntries
           \/ \E entry : /\ rootEntries' = Append(rootEntries, entry)
                         /\ \A searchType :
                              fieldSelector(entry, searchType) = Now(searchType)
<1>1. ASSUME NEW depth \in 0 .. MAX_DEPTH_HARD_CAP + 1,
             SetMaxDepth(depth) \/ Initialize(depth)
      PROVE  rootEntries' = rootEntries
  BY <1>1 DEF SetMaxDepth, Initialize, isInitialized
<1>2. ASSUME NEW i \in Index, NEW v \in Value, AddLeaf(i, v)
      PROVE  \E entry : /\ rootEntries' = Append(rootEntries, entry)
                        /\ \A searchType :
                             fieldSelector(entry, searchType) = Now(searchType)
  <2> DEFINE root == getNodeHash(NewNodes(i, v)[0])
             entry == [root |-> root,
                       createdAtTimestamp |-> blockTimestamp,
                       createdAtBlock |-> blockNumber]
  <2>1. rootEntries' = Append(rootEntries, entry)
    BY <1>2 DEF AddLeaf, AddEntry
  <2>2. \A searchType : fieldSelector(entry, searchType) = Now(searchType)
    BY DEF fieldSelector, Now
  <2> QED
    BY <2>1, <2>2
<1>3. CASE NextBlock
  BY <1>3 DEF NextBlock, data
<1> QED
  BY <1>1, <1>2, <1>3 DEF Next, vars

\* The places of the entries made by then, of which RootAt takes the last.
By(searchType, value) == {k \in Places : fieldSelector(Entry(k), searchType) <= value}

LEMMA LastOfPlaces ==
    ASSUME NEW L \in Nat, NEW S \in SUBSET (0 .. L - 1), S # {}
    PROVE  (CHOOSE k \in S : \A j \in S : j <= k) \in S
<1> DEFINE R == {n \in Nat : L - n \in S}
<1>1. R # {}
  <2>1. PICK k \in S : TRUE
    OBVIOUS
  <2>2. k \in 0 .. L - 1
    OBVIOUS
  <2>3. L - k \in Nat /\ L - (L - k) = k
    BY <2>2
  <2>4. L - k \in R
    BY <2>1, <2>3
  <2> QED
    BY <2>4
<1>2. PICK n \in R : \A m \in R : n <= m
  BY <1>1, LeastNat
<1>3. \A j \in S : j <= L - n
  <2>1. SUFFICES ASSUME NEW j \in S PROVE j <= L - n
    OBVIOUS
  <2>2. j \in 0 .. L - 1
    OBVIOUS
  <2>3. L - j \in Nat /\ L - (L - j) = j
    BY <2>2
  <2>4. n <= L - j
    BY <1>2, <2>1, <2>3
  <2> QED
    BY <2>2, <2>4
<1>4. L - n \in S
  BY <1>2
<1> QED
  BY <1>3, <1>4

LEMMA SettledStep ==
    ASSUME IInv, [Next]_vars, initialized, NEW searchType \in SearchType,
           NEW value \in 0 .. Now(searchType) - 1
    PROVE  RootAt(searchType, value)' = RootAt(searchType, value)
<1> DEFINE L == Len(rootEntries)
<1>1. /\ rootEntries \in Seq(Record)
      /\ L \in Nat
      /\ L > 0
  BY DEF IInv, TypeOK, HistoryMonotone, Record
<1>2. Now(searchType) \in Nat /\ value \in Nat /\ value < Now(searchType)
  BY DEF IInv, TypeOK, Now
<1>3. CASE rootEntries' = rootEntries
  BY <1>3 DEF RootAt, Places, Entry
<1>4. ASSUME NEW entry, rootEntries' = Append(rootEntries, entry),
             fieldSelector(entry, searchType) = Now(searchType)
      PROVE  RootAt(searchType, value)' = RootAt(searchType, value)
  <2>1. /\ Len(rootEntries') = L + 1
        /\ \A n \in 1 .. L : rootEntries'[n] = rootEntries[n]
        /\ rootEntries'[L + 1] = entry
    <3>1. rootEntries \in Seq(Record \cup {entry}) /\ entry \in Record \cup {entry}
      BY <1>1
    <3> QED
      BY <1>4, <3>1, AppendFacts
  <2>2. Places = 0 .. L - 1 /\ Places' = 0 .. L
    BY <1>1, <2>1 DEF Places
  <2>3. \A k \in Places : rootEntries'[k + 1] = Entry(k)
    <3>1. \A k \in 0 .. L - 1 : k + 1 \in 1 .. L
      BY <1>1
    <3> QED
      BY <2>1, <2>2, <3>1 DEF Entry
  <2> DEFINE after == {k \in Places' : fieldSelector(rootEntries'[k + 1], searchType) <= value}
  <2>4. after = By(searchType, value)
    <3>1. ASSUME NEW k \in Places'
          PROVE  fieldSelector(rootEntries'[k + 1], searchType) <= value =>
                   k \in Places /\ fieldSelector(Entry(k), searchType) <= value
      <4>1. CASE k = L
        BY <1>2, <1>4, <2>1, <4>1 DEF Entry
      <4>2. CASE k # L
        <5>1. k \in Places
          BY <1>1, <2>2, <4>2
        <5> QED
          BY <2>3, <5>1
      <4> QED
        BY <4>1, <4>2
    <3>2. Places \subseteq Places'
      BY <1>1, <2>2
    <3>3. \A k \in Places : fieldSelector(Entry(k), searchType) <= value =>
                              fieldSelector(rootEntries'[k + 1], searchType) <= value
      BY <2>3
    <3> QED
      BY <3>1, <3>2, <3>3 DEF By, fieldSelector
  <2> DEFINE k == CHOOSE k \in By(searchType, value) :
                    \A j \in By(searchType, value) : j <= k
  <2>5. k \in Places
    <3>1. By(searchType, value) \in SUBSET (0 .. L - 1)
      BY <2>2 DEF By
    <3>2. 0 \in By(searchType, value)
      <4>1. fieldSelector(Entry(0), searchType) = 0
        BY DEF IInv, HistoryMonotone, fieldSelector
      <4> QED
        BY <1>1, <1>2, <2>2, <4>1 DEF By
    <3>3. k \in By(searchType, value)
      BY <1>1, <3>1, <3>2, LastOfPlaces
    <3> QED
      BY <3>3 DEF By
  <2>6. RootAt(searchType, value) = Entry(k).root
    BY DEF RootAt, By
  <2>7. RootAt(searchType, value)' = rootEntries'[k + 1].root
    <3>1. RootAt(searchType, value)' =
            rootEntries'[(CHOOSE m \in after : \A j \in after : j <= m) + 1].root
      BY DEF RootAt, Entry, fieldSelector
    <3> QED
      BY <2>4, <3>1
  <2> QED
    BY <2>3, <2>5, <2>6, <2>7
<1> QED
  BY <1>3, <1>4, NextEntries

\* Which root was in force at a block or a second that the chain has left behind does
\* not change any more.
THEOREM ThePastIsSettled == QSpec => PastIsSettled
<1> DEFINE Stays == \A searchType \in SearchType :
                        \A value \in 0 .. Now(searchType) - 1 :
                          initialized =>
                            RootAt(searchType, value)' = RootAt(searchType, value)
<1>1. QInv /\ [QNext]_queryVars => Stays
  <2> SUFFICES ASSUME QInv, [QNext]_queryVars PROVE Stays
    OBVIOUS
  <2>1. [Next]_vars
    BY DEF QNext, queryVars, Change, Ask, Look, Leave
  <2> QED
    BY <2>1, SettledStep DEF QInv
<1> HIDE DEF Stays
<1>2. QSpec => [][Stays]_queryVars
  BY <1>1, QInvariance, PTL DEF QSpec
<1> QED
  BY <1>2 DEF PastIsSettled, Stays

\* Readers change nothing: every behaviour with queries is one of the library, for
\* which all that is proved of the library holds.
THEOREM QueriesOnlyRead == QSpec => Spec
<1>1. QInit => Init
  BY DEF QInit
<1>2. [QNext]_queryVars => [Next]_vars
  BY DEF QNext, queryVars, Change, Ask, Look, Leave
<1> QED
  BY <1>1, <1>2, PTL DEF QSpec, Spec

=============================================================================
