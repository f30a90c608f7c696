------------------------- MODULE AnteRouting_proofs -------------------------
(***************************************************************************)
(* Theorems about the ante handler, for every set of accounts and of       *)
(* transactions and for chains of transactions of every length.            *)
(*                                                                         *)
(* A decorator refuses or passes; what is known of a transaction that has  *)
(* got through is what the decorators behind it have looked at.  So the    *)
(* invariant says, of the run under way, what each decorator it has passed *)
(* stands for, and the properties follow for a run that has passed all.    *)
(***************************************************************************)
EXTENDS AnteRouting, FiniteSetTheorems, TLAPS

-----------------------------------------------------------------------------
(* Induction.  The library's theorems on induction take a predicate; these  *)
(* two take a set in its place.                                            *)

LEMMA LeastNat ==
    ASSUME NEW S \in SUBSET Nat, S # {}
    PROVE  \E n \in S : \A m \in S : n <= m
<1>1. IsWellFoundedOn(OpToRel(<, Nat), Nat)
  BY NatLessThanWellFounded
<1>2. PICK n \in S : \A m \in S : ~(<<m, n>> \in OpToRel(<, Nat))
  BY <1>1, WFMin
<1>3. \A m \in S : ~(m < n)
  BY <1>2 DEF OpToRel
<1> QED
  BY <1>3

LEMMA NatSetInduction ==
    ASSUME NEW S, 0 \in S, \A n \in Nat : n \in S => n + 1 \in S
    PROVE  Nat \subseteq S
<1> SUFFICES ASSUME ~(Nat \subseteq S) PROVE FALSE
  OBVIOUS
<1>1. PICK n \in Nat \ S : \A m \in Nat \ S : n <= m
  BY LeastNat
<1>2. n # 0 /\ n - 1 \in Nat
  BY <1>1
<1>3. n - 1 \in S
  BY <1>1, <1>2
<1> QED
  BY <1>1, <1>2, <1>3


-----------------------------------------------------------------------------
(* The sum of a function over a finite set.                                *)

\* The element with which a sum over s begins.
First(s) == CHOOSE x \in s : TRUE

\* iter has the sums of f over the sets of D, which has with a set what is left of
\* it without its first element.
IsSum(f, D, iter) ==
    iter = [s \in D |-> IF s = {} THEN 0 ELSE f[First(s)] + iter[s \ {First(s)}]]

LEMMA SumDef ==
    ASSUME NEW f, NEW S
    PROVE  SumFunctionOnSet(f, S) = (CHOOSE iter : IsSum(f, SUBSET S, iter))[S]
  BY DEF SumFunctionOnSet, FoldFunctionOnSet, MapThenFoldSet, First, IsSum

LEMMA FirstOf ==
    ASSUME NEW s, s # {} PROVE First(s) \in s
  BY DEF First

LEMMA SmallerSet ==
    ASSUME NEW S, IsFiniteSet(S), NEW s \in SUBSET S, NEW x \in s
    PROVE  /\ IsFiniteSet(s) /\ Cardinality(s) \in Nat \ {0}
           /\ s \ {x} \in SUBSET S
           /\ Cardinality(s \ {x}) = Cardinality(s) - 1
<1>1. IsFiniteSet(s) /\ Cardinality(s) \in Nat
  BY FS_Subset, FS_CardinalityType
<1>2. Cardinality(s) # 0
  BY <1>1, FS_EmptySet
<1>3. Cardinality(s \ {x}) = Cardinality(s) - 1
  BY <1>1, FS_RemoveElement
<1> QED
  BY <1>1, <1>2, <1>3

\* The subsets of S with at most n elements.
UpTo(S, n) == {s \in SUBSET S : Cardinality(s) <= n}

LEMMA SumExists ==
    ASSUME NEW f, NEW S, IsFiniteSet(S)
    PROVE  \E iter : IsSum(f, SUBSET S, iter)
<1> DEFINE Ns == {n \in Nat : \E iter : IsSum(f, UpTo(S, n), iter)}
<1>1. 0 \in Ns
  <2>1. \A s \in UpTo(S, 0) : s = {}
    <3> SUFFICES ASSUME NEW s \in SUBSET S, Cardinality(s) <= 0 PROVE s = {}
      BY DEF UpTo
    <3>1. IsFiniteSet(s) /\ Cardinality(s) \in Nat
      BY FS_Subset, FS_CardinalityType
    <3> QED
      BY <3>1, FS_EmptySet
  <2>2. IsSum(f, UpTo(S, 0), [s \in UpTo(S, 0) |-> 0])
    BY <2>1 DEF IsSum
  <2> QED
    BY <2>2
<1>2. ASSUME NEW n \in Nat, n \in Ns PROVE n + 1 \in Ns
  <2>1. PICK g : IsSum(f, UpTo(S, n), g)
    BY <1>2
  <2> DEFINE Value(s) == IF s = {} THEN 0 ELSE f[First(s)] + g[s \ {First(s)}]
             h == [s \in UpTo(S, n + 1) |-> Value(s)]
  <2>2. \A s \in UpTo(S, n) : g[s] = Value(s)
    BY <2>1 DEF IsSum
  <2>3. UpTo(S, n) \subseteq UpTo(S, n + 1)
    <3>1. \A s \in SUBSET S : Cardinality(s) \in Nat
      BY FS_Subset, FS_CardinalityType
    <3> QED
      BY <3>1 DEF UpTo
  <2>4. ASSUME NEW s \in UpTo(S, n + 1), s # {}
        PROVE  s \ {First(s)} \in UpTo(S, n)
    <3>1. First(s) \in s /\ s \in SUBSET S /\ Cardinality(s) <= n + 1
      BY <2>4, FirstOf DEF UpTo
    <3>2. /\ Cardinality(s) \in Nat /\ s \ {First(s)} \in SUBSET S
          /\ Cardinality(s \ {First(s)}) = Cardinality(s) - 1
      BY <3>1, SmallerSet
    <3> QED
      BY <3>1, <3>2 DEF UpTo
  <2>5. \A s \in UpTo(S, n) : h[s] = g[s]
    BY <2>2, <2>3
  <2>6. ASSUME NEW s \in UpTo(S, n + 1)
        PROVE  h[s] = IF s = {} THEN 0 ELSE f[First(s)] + h[s \ {First(s)}]
    <3>1. h[s] = Value(s)
      OBVIOUS
    <3>2. s # {} => h[s \ {First(s)}] = g[s \ {First(s)}]
      BY <2>4, <2>5
    <3> QED
      BY <3>1, <3>2
  <2>7. IsSum(f, UpTo(S, n + 1), h)
    <3>1. h = [s \in UpTo(S, n + 1) |-> h[s]]
      OBVIOUS
    <3> HIDE DEF h
    <3> QED
      BY <2>6, <3>1 DEF IsSum
  <2> QED
    BY <2>7
<1>3. Cardinality(S) \in Ns
  <2> HIDE DEF Ns
  <2> QED
    BY <1>1, <1>2, NatSetInduction, FS_CardinalityType
<1>4. UpTo(S, Cardinality(S)) = SUBSET S
  BY FS_Subset DEF UpTo
<1> QED
  BY <1>3, <1>4

\* The sums of two functions over a set agree if the functions do, whatever the sets
\* are that the sums over it are a part of.
LEMMA SumUnique ==
    ASSUME NEW S, IsFiniteSet(S), NEW D, NEW E, SUBSET S \subseteq D, SUBSET S \subseteq E,
           NEW f, NEW g, \A x \in S : f[x] = g[x],
           NEW i, IsSum(f, D, i), NEW j, IsSum(g, E, j)
    PROVE  i[S] = j[S]
<1> DEFINE Ns == {n \in Nat : \A s \in SUBSET S : Cardinality(s) = n => i[s] = j[s]}
<1>0. \A s \in SUBSET S :
        /\ i[s] = IF s = {} THEN 0 ELSE f[First(s)] + i[s \ {First(s)}]
        /\ j[s] = IF s = {} THEN 0 ELSE g[First(s)] + j[s \ {First(s)}]
  BY DEF IsSum
<1>1. 0 \in Ns
  <2> SUFFICES ASSUME NEW s \in SUBSET S, Cardinality(s) = 0 PROVE i[s] = j[s]
    OBVIOUS
  <2>1. s = {}
    BY FS_Subset, FS_EmptySet
  <2> QED
    BY <1>0, <2>1
<1>2. ASSUME NEW n \in Nat, n \in Ns PROVE n + 1 \in Ns
  <2> SUFFICES ASSUME NEW s \in SUBSET S, Cardinality(s) = n + 1 PROVE i[s] = j[s]
    OBVIOUS
  <2>1. s # {}
    BY FS_EmptySet
  <2>2. First(s) \in s
    BY <2>1, FirstOf
  <2>3. s \ {First(s)} \in SUBSET S /\ Cardinality(s \ {First(s)}) = n
    BY <2>2, SmallerSet
  <2>4. i[s \ {First(s)}] = j[s \ {First(s)}]
    BY <1>2, <2>3
  <2> QED
    BY <1>0, <2>1, <2>2, <2>4
<1>3. Cardinality(S) \in Ns
  <2> HIDE DEF Ns
  <2> QED
    BY <1>1, <1>2, NatSetInduction, FS_CardinalityType
<1> QED
  BY <1>3

LEMMA SumIter ==
    ASSUME NEW f, NEW S, IsFiniteSet(S)
    PROVE  \E iter : IsSum(f, SUBSET S, iter) /\ SumFunctionOnSet(f, S) = iter[S]
<1> DEFINE c == CHOOSE iter : IsSum(f, SUBSET S, iter)
<1>1. IsSum(f, SUBSET S, c)
  BY SumExists
<1> QED
  BY <1>1, SumDef

LEMMA SumSame ==
    ASSUME NEW S, IsFiniteSet(S), NEW f, NEW g, \A x \in S : f[x] = g[x]
    PROVE  SumFunctionOnSet(f, S) = SumFunctionOnSet(g, S)
<1>1. PICK i : IsSum(f, SUBSET S, i) /\ SumFunctionOnSet(f, S) = i[S]
  BY SumIter
<1>2. PICK j : IsSum(g, SUBSET S, j) /\ SumFunctionOnSet(g, S) = j[S]
  BY SumIter
<1>3. i[S] = j[S]
  BY <1>1, <1>2, SumUnique
<1> QED
  BY <1>1, <1>2, <1>3

LEMMA SumEmpty ==
    ASSUME NEW f PROVE SumFunctionOnSet(f, {}) = 0
<1>1. PICK i : IsSum(f, SUBSET {}, i) /\ SumFunctionOnSet(f, {}) = i[{}]
  BY SumIter, FS_EmptySet
<1> QED
  BY <1>1 DEF IsSum

LEMMA SumFirst ==
    ASSUME NEW f, NEW S, IsFiniteSet(S), S # {}
    PROVE  SumFunctionOnSet(f, S) = f[First(S)] + SumFunctionOnSet(f, S \ {First(S)})
<1> DEFINE R == S \ {First(S)}
<1>1. IsFiniteSet(R)
  BY FS_RemoveElement
<1>2. PICK i : IsSum(f, SUBSET S, i) /\ SumFunctionOnSet(f, S) = i[S]
  BY SumIter
<1>3. PICK j : IsSum(f, SUBSET R, j) /\ SumFunctionOnSet(f, R) = j[R]
  BY <1>1, SumIter
<1>4. i[R] = j[R]
  <2> HIDE DEF R
  <2>1. SUBSET R \subseteq SUBSET S
    BY DEF R
  <2> QED
    BY <1>1, <1>2, <1>3, <2>1, SumUnique
<1>5. i[S] = f[First(S)] + i[R]
  BY <1>2 DEF IsSum
<1> QED
  BY <1>2, <1>3, <1>4, <1>5

LEMMA SumType ==
    ASSUME NEW S, IsFiniteSet(S), NEW f, \A x \in S : f[x] \in Int
    PROVE  SumFunctionOnSet(f, S) \in Int
<1> DEFINE Ns == {n \in Nat : \A s \in SUBSET S :
                    Cardinality(s) = n => SumFunctionOnSet(f, s) \in Int}
<1>1. 0 \in Ns
  BY FS_Subset, FS_EmptySet, SumEmpty
<1>2. ASSUME NEW n \in Nat, n \in Ns PROVE n + 1 \in Ns
  <2> SUFFICES ASSUME NEW s \in SUBSET S, Cardinality(s) = n + 1
               PROVE  SumFunctionOnSet(f, s) \in Int
    OBVIOUS
  <2>1. s # {} /\ IsFiniteSet(s)
    BY FS_EmptySet, FS_Subset
  <2>2. First(s) \in s
    BY <2>1, FirstOf
  <2>3. s \ {First(s)} \in SUBSET S /\ Cardinality(s \ {First(s)}) = n
    BY <2>2, SmallerSet
  <2>4. SumFunctionOnSet(f, s \ {First(s)}) \in Int
    BY <1>2, <2>3
  <2> QED
    BY <2>1, <2>2, <2>4, SumFirst
<1>3. Cardinality(S) \in Ns
  <2> HIDE DEF Ns
  <2> QED
    BY <1>1, <1>2, NatSetInduction, FS_CardinalityType
<1> QED
  BY <1>3

\* Any element may be the first.
LEMMA SumRemove ==
    ASSUME NEW S, IsFiniteSet(S), NEW f, \A x \in S : f[x] \in Int, NEW x \in S
    PROVE  SumFunctionOnSet(f, S) = f[x] + SumFunctionOnSet(f, S \ {x})
<1> DEFINE Moves(s, y) == SumFunctionOnSet(f, s) = f[y] + SumFunctionOnSet(f, s \ {y})
           Ns == {n \in Nat : \A s \in SUBSET S : \A y \in s :
                    Cardinality(s) = n => Moves(s, y)}
<1>1. 0 \in Ns
  BY SmallerSet
<1>2. ASSUME NEW n \in Nat, n \in Ns PROVE n + 1 \in Ns
  <2> SUFFICES ASSUME NEW s \in SUBSET S, NEW y \in s, Cardinality(s) = n + 1
               PROVE  Moves(s, y)
    OBVIOUS
  <2> DEFINE p == First(s)
  <2>1. p \in s /\ IsFiniteSet(s)
    BY FirstOf, FS_Subset
  <2> HIDE DEF p
  <2>2. Moves(s, p)
    BY <2>1, SumFirst DEF p
  <2>3. CASE y # p
    <3>1. /\ s \ {p} \in SUBSET S /\ Cardinality(s \ {p}) = n
          /\ s \ {y} \in SUBSET S /\ Cardinality(s \ {y}) = n
          /\ y \in s \ {p} /\ p \in s \ {y}
      BY <2>1, <2>3, SmallerSet
    <3>2. Moves(s \ {p}, y) /\ Moves(s \ {y}, p)
      BY <1>2, <3>1
    <3>3. (s \ {p}) \ {y} = (s \ {y}) \ {p}
      OBVIOUS
    <3>4. /\ f[p] \in Int /\ f[y] \in Int
          /\ SumFunctionOnSet(f, (s \ {p}) \ {y}) \in Int
      <4>1. IsFiniteSet((s \ {p}) \ {y})
        BY <2>1, FS_RemoveElement
      <4> QED
        BY <2>1, <4>1, SumType
    <3> DEFINE rest == SumFunctionOnSet(f, (s \ {p}) \ {y})
               withoutP == SumFunctionOnSet(f, s \ {p})
               withoutY == SumFunctionOnSet(f, s \ {y})
    <3>5. /\ SumFunctionOnSet(f, s) = f[p] + withoutP
          /\ withoutP = f[y] + rest /\ withoutY = f[p] + rest
      BY <2>2, <3>2, <3>3
    <3> HIDE DEF rest, withoutP
    <3>6. SumFunctionOnSet(f, s) = f[y] + (f[p] + rest)
      BY <3>4, <3>5 DEF rest
    <3> QED
      BY <3>5, <3>6
  <2> QED
    BY <2>2, <2>3
<1>3. Cardinality(S) \in Ns
  <2> HIDE DEF Ns
  <2> QED
    BY <1>1, <1>2, NatSetInduction, FS_CardinalityType
<1> QED
  BY <1>3

\* Where one value changes, the sum changes by as much.
LEMMA SumChange ==
    ASSUME NEW S, IsFiniteSet(S), NEW f, NEW g, NEW x \in S,
           \A y \in S : f[y] \in Int /\ g[y] \in Int,
           \A y \in S \ {x} : f[y] = g[y]
    PROVE  SumFunctionOnSet(g, S) = SumFunctionOnSet(f, S) + (g[x] - f[x])
<1> DEFINE R == S \ {x}
<1>1. IsFiniteSet(R)
  BY FS_RemoveElement
<1>2. SumFunctionOnSet(f, R) = SumFunctionOnSet(g, R)
  BY <1>1, SumSame
<1>3. SumFunctionOnSet(f, R) \in Int
  BY <1>1, SumType
<1>4. /\ SumFunctionOnSet(f, S) = f[x] + SumFunctionOnSet(f, R)
      /\ SumFunctionOnSet(g, S) = g[x] + SumFunctionOnSet(g, R)
  BY SumRemove
<1> QED
  BY <1>2, <1>3, <1>4

LEMMA SumZero ==
    ASSUME NEW S, IsFiniteSet(S), NEW f, \A x \in S : f[x] = 0
    PROVE  SumFunctionOnSet(f, S) = 0
<1> DEFINE Ns == {n \in Nat : \A s \in SUBSET S :
                    Cardinality(s) = n => SumFunctionOnSet(f, s) = 0}
<1>1. 0 \in Ns
  BY FS_Subset, FS_EmptySet, SumEmpty
<1>2. ASSUME NEW n \in Nat, n \in Ns PROVE n + 1 \in Ns
  <2> SUFFICES ASSUME NEW s \in SUBSET S, Cardinality(s) = n + 1
               PROVE  SumFunctionOnSet(f, s) = 0
    OBVIOUS
  <2>1. s # {} /\ IsFiniteSet(s)
    BY FS_EmptySet, FS_Subset
  <2>2. First(s) \in s
    BY <2>1, FirstOf
  <2>3. s \ {First(s)} \in SUBSET S /\ Cardinality(s \ {First(s)}) = n
    BY <2>2, SmallerSet
  <2>4. SumFunctionOnSet(f, s \ {First(s)}) = 0
    BY <1>2, <2>3
  <2> QED
    BY <2>1, <2>2, <2>4, SumFirst
<1>3. Cardinality(S) \in Ns
  <2> HIDE DEF Ns
  <2> QED
    BY <1>1, <1>2, NatSetInduction, FS_CardinalityType
<1> QED
  BY <1>3

-----------------------------------------------------------------------------
(* The inductive invariant.                                                *)

\* Run r has decorator d behind it.
Passed(r, d) == \E i \in 1 .. r.at - 1 : Chain(r.route)[i] = d

RunType ==
    [mode : Modes, tx : Tx, route : {"evm", "cosmos"}, at : Nat, price : Prices,
     branch : StoreType]

LedgerType == Seq([tx : Tx, route : {"evm", "cosmos"}, price : Prices])

PassedType == Seq([sender : Account, sequence : Nat, fee : Nat, pooled : BOOLEAN])

Types ==
    /\ store \in [Stores -> StoreType]
    /\ committed \in StoreType
    /\ Running => run \in RunType /\ run.at \in 1 .. Len(Chain(run.route)) + 1
    /\ ledger \in LedgerType /\ kept \in LedgerType
    /\ passed \in PassedType

\* What is known of a transaction by the decorators that its run r has passed.
Knows(r) ==
    /\ r.route = Route(r.tx)
    /\ Passed(r, "EVMMono") =>
        /\ Len(r.tx.options) = 1 /\ r.tx.messages = {"ethereum"}
        /\ r.tx.fee >= r.price
    /\ Passed(r, "RejectMessages") => "ethereum" \notin r.tx.messages
    /\ Passed(r, "AuthzLimiter") => "nestedEthereum" \notin r.tx.messages
    /\ Passed(r, "ExtensionOptions") =>
        \A i \in DOMAIN r.tx.options : r.tx.options[i] = "dynamicFee"
    /\ Passed(r, "DeductFee") => r.tx.fee >= r.price

\* The sequences f after a transaction of account a.
Raised(f, a) == [f EXCEPT ![a] = @ + 1]

Incremented(r) == Passed(r, "EVMMono") \/ Passed(r, "IncrementSequence")

\* The balances f after a transaction was charged, and the fees f.
Paid(f, tx) == [f EXCEPT ![tx.sender] = @ - tx.fee]
Collected(f, to, tx) == [f EXCEPT ![to] = @ + tx.fee]

\* The account that has the fees of a chain.
Collector(route) == IF route = "evm" THEN "virtual" ELSE "poa"

Charged(r) == Passed(r, "EVMMono") \/ Passed(r, "DeductFee")

\* A run r on a store s works at the price of the store, and on a branch that has the
\* sequences of the store but for the one it increments, and the money where the store
\* has it but for the one fee it moves.
OnBranch(r, s) ==
    r.mode \in Stores =>
        /\ r.price = s.price /\ r.branch.price = s.price
        /\ Passed(r, "EVMMono") \/ Passed(r, "SigVerification") =>
            r.tx.sequence = s.sequence[r.tx.sender]
        /\ r.branch.sequence =
            IF Incremented(r) THEN Raised(s.sequence, r.tx.sender) ELSE s.sequence
        /\ r.branch.balance = IF Charged(r) THEN Paid(s.balance, r.tx) ELSE s.balance
        /\ r.branch.fees =
            IF Charged(r) THEN Collected(s.fees, Collector(r.route), r.tx) ELSE s.fees

\* The transactions of account a among the first n of a ledger.
Of(l, n, a) == {j \in 1 .. n : l[j].tx.sender = a}
Count(l, n, a) == Cardinality(Of(l, n, a))

\* What the transactions of a ledger have paid in all, chain by chain.
FeeOf(l) == [i \in DOMAIN l |-> l[i].tx.fee]
By(l, route) == {i \in DOMAIN l : l[i].route = route}
Fees(l, route) == SumFunctionOnSet(FeeOf(l), By(l, route))

\* What the accounts have given out in all.
Outlay(balance) == [a \in Account |-> Funds - balance[a]]
Spent(s) == SumFunctionOnSet(Outlay(s.balance), Account)

\* The fees of the store s are those of the ledger l, with those of the EVM that were
\* in the ledger k credited, and came from the accounts.
Balanced(s, l, k) ==
    /\ s.fees["poa"] = Fees(l, "cosmos") + Fees(k, "evm")
    /\ s.fees["virtual"] = Fees(l, "evm") - Fees(k, "evm")
    /\ s.fees["feeCollector"] = 0
    /\ Spent(s) = s.fees["poa"] + s.fees["virtual"]

\* A store and the ledger that has led to it, since the ledger k was committed.
Agree(s, l, k) ==
    /\ Balanced(s, l, k)
    /\ \A a \in Account : s.sequence[a] = Count(l, Len(l), a)
    /\ \A i \in DOMAIN l :
        /\ l[i].tx.sequence = Count(l, i - 1, l[i].tx.sender)
        /\ l[i].tx.fee >= l[i].price
        /\ \/ /\ l[i].route = "evm"
              /\ l[i].tx.options = <<"ethereum">>
              /\ l[i].tx.messages = {"ethereum"}
           \/ /\ l[i].route = "cosmos"
              /\ \A j \in DOMAIN l[i].tx.options : l[i].tx.options[j] = "dynamicFee"
              /\ l[i].tx.messages = {"cosmos"}

\* Of what has passed CheckTx, p: the first n of account a, and what it was charged.
AheadOf(p, n, a) == {i \in 1 .. n : p[i].sender = a}
PassedFee(p) == [i \in DOMAIN p |-> p[i].fee]

\* The store of CheckTx is ahead of the commit c by what has passed.
RunsAhead(s, c, p) ==
    /\ \A i \in DOMAIN p :
        p[i].sequence = c.sequence[p[i].sender] + Cardinality(AheadOf(p, i - 1, p[i].sender))
    /\ \A a \in Account :
        /\ s.sequence[a] = c.sequence[a] + Cardinality(AheadOf(p, Len(p), a))
        /\ c.balance[a] - s.balance[a] =
                SumFunctionOnSet(PassedFee(p), AheadOf(p, Len(p), a))

IInv ==
    /\ Types
    /\ Running => Knows(run)
    /\ Running /\ run.mode \in Stores => OnBranch(run, store[run.mode])
    /\ Agree(store["block"], ledger, kept)
    /\ Agree(committed, kept, kept)
    /\ RunsAhead(store["check"], committed, passed)

-----------------------------------------------------------------------------
(* The chains and the decorators. *)

LEMMA EVMChain ==
    /\ Len(EVMAnte) = 2
    /\ EVMAnte[1] = "EVMMono" /\ EVMAnte[2] = "TxListener"
  BY DEF EVMAnte

LEMMA CosmosChain ==
    /\ Len(POACosmosAnte) = 16
    /\ POACosmosAnte[1] = "RejectMessages" /\ POACosmosAnte[2] = "AuthzLimiter"
    /\ POACosmosAnte[3] = "SetUpContext" /\ POACosmosAnte[4] = "ExtensionOptions"
    /\ POACosmosAnte[5] = "ValidateBasic" /\ POACosmosAnte[6] = "TxTimeoutHeight"
    /\ POACosmosAnte[7] = "ValidateMemo" /\ POACosmosAnte[8] = "MinGasPrice"
    /\ POACosmosAnte[9] = "ConsumeGasForTxSize" /\ POACosmosAnte[10] = "DeductFee"
    /\ POACosmosAnte[11] = "SetPubKey" /\ POACosmosAnte[12] = "ValidateSigCount"
    /\ POACosmosAnte[13] = "SigGasConsume" /\ POACosmosAnte[14] = "SigVerification"
    /\ POACosmosAnte[15] = "IncrementSequence" /\ POACosmosAnte[16] = "RedundantRelay"
  BY DEF POACosmosAnte

\* Each sequence check and increment has one place, the check before the increment,
\* and the chains have none of each other's.
LEMMA ChainOrder ==
    ASSUME NEW route \in {"evm", "cosmos"}, NEW i \in 1 .. Len(Chain(route))
    PROVE  /\ route = "evm" =>
                /\ Chain(route)[i] \in {"EVMMono", "TxListener"}
                /\ Chain(route)[i] = "EVMMono" => i = 1
                /\ Chain(route)[i] = "TxListener" => i = 2
           /\ route = "cosmos" =>
                /\ Chain(route)[i] \notin {"EVMMono", "TxListener"}
                /\ Chain(route)[i] = "SigVerification" => i = 14
                /\ Chain(route)[i] = "IncrementSequence" => i = 15
                /\ Chain(route)[i] = "DeductFee" => i = 10
<1> DEFINE d == Chain(route)[i]
<1>1. CASE route = "evm"
  <2>1. Chain(route) = EVMAnte /\ i \in 1 .. 2
    BY <1>1, EVMChain DEF Chain
  <2>2. CASE i = 1
    <3>1. d = "EVMMono"
      BY <2>1, <2>2, EVMChain
    <3> QED
      BY <1>1, <2>2, <3>1
  <2>3. CASE i = 2
    <3>1. d = "TxListener"
      BY <2>1, <2>3, EVMChain
    <3> QED
      BY <1>1, <2>3, <3>1
  <2> QED
    BY <2>1, <2>2, <2>3
<1>2. CASE route = "cosmos"
  <2>1. Chain(route) = POACosmosAnte /\ i \in 1 .. 16
    BY <1>2, CosmosChain DEF Chain
  <2>2. d \notin {"EVMMono", "TxListener"}
    BY <2>1, CosmosChain
  <2>3. d = "SigVerification" => i = 14
    BY <2>1, CosmosChain
  <2>4. d = "IncrementSequence" => i = 15
    BY <2>1, CosmosChain
  <2>5. d = "DeductFee" => i = 10
    BY <2>1, CosmosChain
  <2> QED
    BY <1>2, <2>2, <2>3, <2>4, <2>5
<1> QED
  BY <1>1, <1>2

LEMMA StoreFields ==
    ASSUME NEW s \in StoreType
    PROVE  /\ s = [balance |-> s.balance, sequence |-> s.sequence, fees |-> s.fees,
                   price |-> s.price]
           /\ s.balance \in [Account -> 0 .. Funds] /\ s.sequence \in [Account -> Nat]
           /\ s.fees \in [{"poa", "virtual", "feeCollector"} -> Nat] /\ s.price \in Prices
  BY DEF StoreType

\* What a decorator makes of a store: it takes no more than there is, and counts
\* the sequence of the sender alone; what it takes is with its chain's collector.
LEMMA EffectIs ==
    ASSUME NEW s \in StoreType, NEW tx \in Tx, NEW d, NEW price, Accepts(d, tx, s, price)
    PROVE  /\ Effect(d, tx, s) \in StoreType
           /\ Effect(d, tx, s).price = s.price
           /\ d \in {"EVMMono", "IncrementSequence"} =>
                Effect(d, tx, s).sequence = Raised(s.sequence, tx.sender)
           /\ d \notin {"EVMMono", "IncrementSequence"} =>
                Effect(d, tx, s).sequence = s.sequence
           /\ d = "EVMMono" =>
                /\ Effect(d, tx, s).balance = Paid(s.balance, tx)
                /\ Effect(d, tx, s).fees = Collected(s.fees, "virtual", tx)
           /\ d = "DeductFee" =>
                /\ Effect(d, tx, s).balance = Paid(s.balance, tx)
                /\ Effect(d, tx, s).fees = Collected(s.fees, "poa", tx)
           /\ d \notin {"EVMMono", "DeductFee"} =>
                /\ Effect(d, tx, s).balance = s.balance
                /\ Effect(d, tx, s).fees = s.fees
<1> DEFINE a == tx.sender
           charged(to) == Charge(s, tx, to)
<1>1. a \in Account /\ tx.fee \in Nat
  BY TxAssumption
<1>2. ASSUME NEW r \in StoreType
      PROVE  /\ NextSequence(r, tx) \in StoreType
             /\ NextSequence(r, tx).price = r.price
             /\ NextSequence(r, tx).sequence = Raised(r.sequence, a)
             /\ NextSequence(r, tx).balance = r.balance
             /\ NextSequence(r, tx).fees = r.fees
  <2>1. NextSequence(r, tx) =
            [balance |-> r.balance, sequence |-> [r.sequence EXCEPT ![a] = @ + 1],
             fees |-> r.fees, price |-> r.price]
    BY StoreFields DEF NextSequence
  <2>2. [r.sequence EXCEPT ![a] = @ + 1] \in [Account -> Nat]
    BY <1>1, StoreFields
  <2> QED
    BY <2>1, <2>2, StoreFields DEF StoreType, Raised
<1>3. ASSUME NEW to \in {"poa", "virtual"}, tx.fee <= s.balance[a]
      PROVE  /\ charged(to) \in StoreType
             /\ charged(to).price = s.price
             /\ charged(to).sequence = s.sequence
             /\ charged(to).balance = Paid(s.balance, tx)
             /\ charged(to).fees = Collected(s.fees, to, tx)
  <2>1. charged(to) =
            [balance |-> [s.balance EXCEPT ![a] = @ - tx.fee], sequence |-> s.sequence,
             fees |-> [s.fees EXCEPT ![to] = @ + tx.fee], price |-> s.price]
    <3>1. charged(to) =
            [[s EXCEPT !.balance[a] = @ - tx.fee] EXCEPT !.fees[to] = @ + tx.fee]
      BY DEF Charge, StoreType
    <3>2. [s EXCEPT !.balance[a] = @ - tx.fee] =
            [balance |-> [s.balance EXCEPT ![a] = @ - tx.fee], sequence |-> s.sequence,
             fees |-> s.fees, price |-> s.price]
      BY StoreFields
    <3> QED
      BY <3>1, <3>2
  <2>2. s.balance[a] - tx.fee \in 0 .. Funds
    BY <1>1, <1>3, StoreFields, AmountsAssumption
  <2>3. [s.balance EXCEPT ![a] = @ - tx.fee] \in [Account -> 0 .. Funds]
    BY <1>1, <2>2, StoreFields
  <2>4. [s.fees EXCEPT ![to] = @ + tx.fee] \in [{"poa", "virtual", "feeCollector"} -> Nat]
    BY <1>1, StoreFields
  <2> QED
    BY <2>1, <2>3, <2>4, StoreFields DEF StoreType, Paid, Collected
<1>4. CASE d = "EVMMono"
  <2>1. tx.fee <= s.balance[a]
    BY <1>4 DEF Accepts, Affords
  <2> QED
    BY <1>2, <1>3, <1>4, <2>1 DEF Effect
<1>5. CASE d = "DeductFee"
  <2>1. tx.fee <= s.balance[a]
    BY <1>5 DEF Accepts, Affords
  <2> QED
    BY <1>3, <1>5, <2>1 DEF Effect
<1>6. CASE d = "IncrementSequence"
  BY <1>2, <1>6 DEF Effect
<1>7. CASE d \notin {"EVMMono", "DeductFee", "IncrementSequence"}
  BY <1>7 DEF Effect
<1> QED
  BY <1>4, <1>5, <1>6, <1>7

-----------------------------------------------------------------------------
(* The transactions of a sender. *)

LEMMA OfIsFinite ==
    ASSUME NEW l, NEW n \in Nat, NEW a
    PROVE  IsFiniteSet(Of(l, n, a)) /\ Count(l, n, a) \in Nat
<1>1. IsFiniteSet(1 .. n)
  BY FS_Interval
<1>2. IsFiniteSet(Of(l, n, a))
  BY <1>1, FS_Subset DEF Of
<1> QED
  BY <1>2, FS_CardinalityType DEF Count

LEMMA OfAppend ==
    ASSUME NEW l \in LedgerType, NEW e \in [tx : Tx, route : {"evm", "cosmos"}, price : Prices],
           NEW a
    PROVE  /\ \A n \in 0 .. Len(l) : Count(Append(l, e), n, a) = Count(l, n, a)
           /\ Count(Append(l, e), Len(l) + 1, a) =
                Count(l, Len(l), a) + (IF a = e.tx.sender THEN 1 ELSE 0)
<1> DEFINE m == Append(l, e)  L == Len(l)
<1>1. /\ L \in Nat /\ Len(m) = L + 1 /\ m[L + 1] = e
      /\ \A i \in 1 .. L : m[i] = l[i]
  BY DEF LedgerType
<1>2. \A n \in 0 .. L : Of(m, n, a) = Of(l, n, a)
  BY <1>1 DEF Of
<1>3. Of(m, L + 1, a) =
        IF a = e.tx.sender THEN Of(l, L, a) \cup {L + 1} ELSE Of(l, L, a)
  BY <1>1 DEF Of
<1>4. L + 1 \notin Of(l, L, a)
  BY <1>1 DEF Of
<1>5. IsFiniteSet(Of(l, L, a)) /\ Cardinality(Of(l, L, a)) \in Nat
  BY <1>1, OfIsFinite DEF Count
<1>6. Cardinality(Of(l, L, a) \cup {L + 1}) = Cardinality(Of(l, L, a)) + 1
  BY <1>4, <1>5, FS_AddElement
<1> QED
  BY <1>2, <1>3, <1>5, <1>6 DEF Count

-----------------------------------------------------------------------------
(* The fees of a ledger. *)

LEMMA LedgerFacts ==
    ASSUME NEW l \in LedgerType
    PROVE  /\ Len(l) \in Nat /\ DOMAIN l = 1 .. Len(l)
           /\ \A i \in DOMAIN l : l[i].tx \in Tx /\ FeeOf(l)[i] = l[i].tx.fee
                                 /\ FeeOf(l)[i] \in Nat
           /\ \A route : IsFiniteSet(By(l, route)) /\ By(l, route) \subseteq DOMAIN l
<1> DEFINE E == [tx : Tx, route : {"evm", "cosmos"}, price : Prices]
<1>1. l \in Seq(E)
  BY DEF LedgerType
<1>2. \A e \in E : e.tx \in Tx
  OBVIOUS
<1> HIDE DEF E
<1>3. Len(l) \in Nat /\ DOMAIN l = 1 .. Len(l) /\ \A i \in DOMAIN l : l[i] \in E
  BY <1>1
<1>4. \A i \in DOMAIN l : l[i].tx \in Tx /\ l[i].tx.fee \in Nat
  BY <1>2, <1>3, TxAssumption
<1>5. IsFiniteSet(DOMAIN l)
  BY <1>3, FS_Interval
<1>6. \A route : IsFiniteSet(By(l, route)) /\ By(l, route) \subseteq DOMAIN l
  BY <1>5, FS_Subset DEF By
<1> QED
  BY <1>3, <1>4, <1>6 DEF FeeOf

LEMMA FeesType ==
    ASSUME NEW l \in LedgerType, NEW route PROVE Fees(l, route) \in Int
<1>1. IsFiniteSet(By(l, route)) /\ \A i \in By(l, route) : FeeOf(l)[i] \in Int
  BY LedgerFacts
<1> QED
  BY <1>1, SumType DEF Fees

LEMMA FeesAppend ==
    ASSUME NEW l \in LedgerType, NEW e \in [tx : Tx, route : {"evm", "cosmos"}, price : Prices],
           NEW route
    PROVE  Fees(Append(l, e), route) =
                Fees(l, route) + (IF e.route = route THEN e.tx.fee ELSE 0)
<1> DEFINE m == Append(l, e)  L == Len(l)
<1>1. /\ L \in Nat /\ m \in LedgerType /\ Len(m) = L + 1 /\ m[L + 1] = e
      /\ DOMAIN l = 1 .. L /\ DOMAIN m = 1 .. L + 1
      /\ \A i \in 1 .. L : m[i] = l[i]
  BY DEF LedgerType
<1> HIDE DEF m
<1>2. \A i \in 1 .. L : FeeOf(m)[i] = FeeOf(l)[i]
  BY <1>1 DEF FeeOf
<1>3. /\ By(l, route) \subseteq 1 .. L /\ IsFiniteSet(By(l, route))
      /\ IsFiniteSet(By(m, route))
  BY <1>1, LedgerFacts
<1>4. SumFunctionOnSet(FeeOf(m), By(l, route)) = Fees(l, route)
  BY <1>2, <1>3, SumSame DEF Fees
<1>5. Fees(l, route) \in Int
  BY FeesType
<1>6. CASE e.route = route
  <2>1. By(m, route) = By(l, route) \cup {L + 1}
    BY <1>1, <1>6 DEF By
  <2>2. L + 1 \notin By(l, route)
    BY <1>1, <1>3
  <2>3. By(m, route) \ {L + 1} = By(l, route) /\ L + 1 \in By(m, route)
    BY <2>1, <2>2
  <2>4. \A i \in By(m, route) : FeeOf(m)[i] \in Int
    BY <1>1, LedgerFacts
  <2>5. Fees(m, route) =
            FeeOf(m)[L + 1] + SumFunctionOnSet(FeeOf(m), By(m, route) \ {L + 1})
    BY <1>3, <2>3, <2>4, SumRemove DEF Fees
  <2>6. FeeOf(m)[L + 1] = e.tx.fee /\ e.tx.fee \in Nat
    BY <1>1, TxAssumption DEF FeeOf
  <2>7. SumFunctionOnSet(FeeOf(m), By(m, route) \ {L + 1}) = Fees(l, route)
    BY <1>4, <2>3, Zenon
  <2>8. Fees(m, route) = e.tx.fee + Fees(l, route)
    BY <2>5, <2>6, <2>7, Zenon
  <2>9. Fees(m, route) = Fees(l, route) + e.tx.fee
    BY <1>5, <2>6, <2>8
  <2> QED
    BY <1>6, <2>9 DEF m
<1>7. CASE e.route # route
  <2>1. By(m, route) = By(l, route)
    BY <1>1, <1>7 DEF By
  <2>2. Fees(m, route) = Fees(l, route) + 0
    BY <1>4, <1>5, <2>1 DEF Fees
  <2> QED
    BY <1>7, <2>2 DEF m
<1> QED
  BY <1>6, <1>7

\* One account's payment is in the outlay once.
LEMMA SpentPaid ==
    ASSUME NEW balance \in [Account -> 0 .. Funds], NEW tx \in Tx
    PROVE  SumFunctionOnSet(Outlay(Paid(balance, tx)), Account) =
                SumFunctionOnSet(Outlay(balance), Account) + tx.fee
<1> DEFINE f == Outlay(balance)  g == Outlay(Paid(balance, tx))  a == tx.sender
<1>1. a \in Account /\ tx.fee \in Nat /\ IsFiniteSet(Account) /\ Funds \in Nat
  BY TxAssumption, AccountAssumption, AmountsAssumption
<1>2. \A b \in Account : balance[b] \in Int
  BY <1>1
<1>3. /\ \A b \in Account : f[b] = Funds - balance[b]
      /\ \A b \in Account \ {a} : g[b] = Funds - balance[b]
      /\ g[a] = Funds - (balance[a] - tx.fee)
  BY <1>1 DEF Outlay, Paid
<1> HIDE DEF f, g, a
<1>a. a \in Account
  BY TxAssumption DEF a
<1>4. /\ \A b \in Account : f[b] \in Int /\ g[b] \in Int
      /\ \A b \in Account \ {a} : f[b] = g[b]
      /\ g[a] - f[a] = tx.fee
  BY <1>1, <1>2, <1>3
<1>5. SumFunctionOnSet(g, Account) = SumFunctionOnSet(f, Account) + (g[a] - f[a])
  <2>1. \A y \in Account : f[y] \in Int /\ g[y] \in Int
    BY <1>4
  <2>2. \A y \in Account \ {a} : f[y] = g[y]
    BY <1>4
  <2>3. IsFiniteSet(Account)
    BY AccountAssumption
  <2> QED
    BY <1>a, <2>1, <2>2, <2>3, SumChange
<1> QED
  BY <1>4, <1>5 DEF f, g

\* What a sender pays is with the collector of the chain by which the ledger has it.
LEMMA BalancedAppend ==
    ASSUME NEW s \in StoreType, NEW l \in LedgerType, NEW k \in LedgerType,
           Balanced(s, l, k),
           NEW e \in [tx : Tx, route : {"evm", "cosmos"}, price : Prices],
           NEW b \in StoreType, b.balance = Paid(s.balance, e.tx),
           b.fees = Collected(s.fees, Collector(e.route), e.tx)
    PROVE  Balanced(b, Append(l, e), k)
<1>1. /\ s.fees \in [{"poa", "virtual", "feeCollector"} -> Nat]
      /\ s.balance \in [Account -> 0 .. Funds]
      /\ e.tx \in Tx /\ e.route \in {"evm", "cosmos"} /\ e.tx.fee \in Nat
  BY StoreFields, TxAssumption
<1>2. /\ s.fees["poa"] = Fees(l, "cosmos") + Fees(k, "evm")
      /\ s.fees["virtual"] = Fees(l, "evm") - Fees(k, "evm")
      /\ s.fees["feeCollector"] = 0
      /\ Spent(s) = s.fees["poa"] + s.fees["virtual"]
  BY DEF Balanced
<1>0. Fees(k, "evm") \in Int /\ Fees(l, "evm") \in Int /\ Fees(l, "cosmos") \in Int
  BY FeesType
<1>3. /\ Fees(Append(l, e), "cosmos") =
            Fees(l, "cosmos") + (IF e.route = "cosmos" THEN e.tx.fee ELSE 0)
      /\ Fees(Append(l, e), "evm") =
            Fees(l, "evm") + (IF e.route = "evm" THEN e.tx.fee ELSE 0)
  BY FeesAppend
<1>4. Spent(b) = Spent(s) + e.tx.fee
  BY <1>1, SpentPaid DEF Spent
<1>5. CASE e.route = "evm"
  <2>1. /\ b.fees["virtual"] = s.fees["virtual"] + e.tx.fee
        /\ b.fees["poa"] = s.fees["poa"] /\ b.fees["feeCollector"] = s.fees["feeCollector"]
    BY <1>1, <1>5 DEF Collected, Collector
  <2>2. /\ Fees(Append(l, e), "cosmos") = Fees(l, "cosmos") + 0
        /\ Fees(Append(l, e), "evm") = Fees(l, "evm") + e.tx.fee
    BY <1>3, <1>5
  <2> QED
    BY <1>0, <1>1, <1>2, <1>4, <2>1, <2>2 DEF Balanced
<1>6. CASE e.route = "cosmos"
  <2>1. /\ b.fees["poa"] = s.fees["poa"] + e.tx.fee
        /\ b.fees["virtual"] = s.fees["virtual"] /\ b.fees["feeCollector"] = s.fees["feeCollector"]
    BY <1>1, <1>6 DEF Collected, Collector
  <2>2. /\ Fees(Append(l, e), "evm") = Fees(l, "evm") + 0
        /\ Fees(Append(l, e), "cosmos") = Fees(l, "cosmos") + e.tx.fee
    BY <1>3, <1>6
  <2> QED
    BY <1>0, <1>1, <1>2, <1>4, <2>1, <2>2 DEF Balanced
<1> QED
  BY <1>1, <1>5, <1>6

-----------------------------------------------------------------------------
(* A run, decorator by decorator. *)

\* The run after its next decorator has passed it on.
Advanced(r) ==
    [r EXCEPT !.at = @ + 1, !.branch = Effect(Chain(r.route)[r.at], r.tx, r.branch)]

\* A run that has a decorator before it.
Ahead(r) == r \in RunType /\ r.at \in 1 .. Len(Chain(r.route))

LEMMA RunFields ==
    ASSUME NEW r \in RunType
    PROVE  /\ r.mode \in Modes /\ r.tx \in Tx /\ r.route \in {"evm", "cosmos"}
           /\ r.at \in Nat /\ r.price \in Prices /\ r.branch \in StoreType
           /\ r # Idle
<1>1. r.mode # "idle"
  BY DEF RunType, Modes, Stores
<1> QED
  BY <1>1 DEF RunType, Idle

LEMMA AdvancedIs ==
    ASSUME NEW r, Ahead(r),
           Accepts(Chain(r.route)[r.at], r.tx, r.branch, r.price)
    PROVE  /\ Advanced(r) \in RunType
           /\ Advanced(r).at = r.at + 1
           /\ Advanced(r).mode = r.mode /\ Advanced(r).tx = r.tx
           /\ Advanced(r).route = r.route /\ Advanced(r).price = r.price
           /\ Advanced(r).branch = Effect(Chain(r.route)[r.at], r.tx, r.branch)
           /\ Advanced(r).branch \in StoreType
           /\ \A d : Passed(Advanced(r), d) <=> Passed(r, d) \/ d = Chain(r.route)[r.at]
<1> DEFINE n == Chain(r.route)[r.at]
           b == Effect(n, r.tx, r.branch)
<1>1. b \in StoreType
  BY RunFields, EffectIs DEF Ahead
<1>2. Advanced(r) = [mode |-> r.mode, tx |-> r.tx, route |-> r.route, at |-> r.at + 1,
                     price |-> r.price, branch |-> b]
  <2>1. Advanced(r) = [[r EXCEPT !.at = @ + 1] EXCEPT !.branch = b]
    BY DEF Advanced, Ahead, RunType
  <2>2. [r EXCEPT !.at = @ + 1] =
            [mode |-> r.mode, tx |-> r.tx, route |-> r.route, at |-> r.at + 1,
             price |-> r.price, branch |-> r.branch]
    BY DEF Ahead, RunType
  <2> QED
    BY <2>1, <2>2
<1>3. Advanced(r) \in RunType
  BY <1>1, <1>2, RunFields DEF Ahead, RunType
<1>4. ASSUME NEW d
      PROVE  Passed(Advanced(r), d) <=> Passed(r, d) \/ d = n
  <2>1. r.at \in Nat /\ r.at >= 1
    BY RunFields DEF Ahead
  <2>2. Passed(Advanced(r), d) <=> \E i \in 1 .. r.at : Chain(r.route)[i] = d
    BY <1>2, <2>1 DEF Passed
  <2> QED
    BY <2>1, <2>2 DEF Passed
<1> QED
  BY <1>1, <1>2, <1>3, <1>4

\* A run begins with nothing passed.
LEMMA StartedKnows ==
    ASSUME NEW r \in RunType, r.at = 1, r.route = Route(r.tx), NEW s \in StoreType,
           r.mode \in Stores => r.price = s.price /\ r.branch = s
    PROVE  Knows(r) /\ OnBranch(r, s)
<1>1. \A d : ~Passed(r, d)
  BY DEF Passed
<1> QED
  BY <1>1 DEF Knows, OnBranch, Incremented, Charged

LEMMA AdvancedKnows ==
    ASSUME NEW r, Ahead(r), Knows(r),
           Accepts(Chain(r.route)[r.at], r.tx, r.branch, r.price)
    PROVE  Knows(Advanced(r))
<1> DEFINE n == Chain(r.route)[r.at]
<1>1. n = "EVMMono" =>
        /\ Len(r.tx.options) = 1 /\ r.tx.messages = {"ethereum"}
        /\ r.tx.fee >= r.price
  BY DEF Accepts
<1>2. /\ n = "RejectMessages" => "ethereum" \notin r.tx.messages
      /\ n = "AuthzLimiter" => "nestedEthereum" \notin r.tx.messages
      /\ n = "ExtensionOptions" =>
            \A i \in DOMAIN r.tx.options : r.tx.options[i] = "dynamicFee"
      /\ n = "DeductFee" => r.tx.fee >= r.price
  BY DEF Accepts
<1> QED
  BY <1>1, <1>2, AdvancedIs DEF Knows

\* A chain has one decorator that charges, so that the branch lacks the fee from there
\* on, once, and the chain's collector has it.
LEMMA AdvancedMoney ==
    ASSUME NEW r, Ahead(r), NEW s \in StoreType, OnBranch(r, s), r.mode \in Stores,
           Accepts(Chain(r.route)[r.at], r.tx, r.branch, r.price)
    PROVE  /\ Advanced(r).branch.balance =
                IF Charged(Advanced(r)) THEN Paid(s.balance, Advanced(r).tx) ELSE s.balance
           /\ Advanced(r).branch.fees =
                IF Charged(Advanced(r))
                THEN Collected(s.fees, Collector(Advanced(r).route), Advanced(r).tx)
                ELSE s.fees
<1> DEFINE n == Chain(r.route)[r.at]
           q == Advanced(r)
<1>1. /\ r.tx \in Tx /\ r.route \in {"evm", "cosmos"} /\ r.branch \in StoreType
      /\ r.at \in 1 .. Len(Chain(r.route)) /\ r.at \in Nat
  BY RunFields DEF Ahead
<1>2. /\ r.branch.balance = IF Charged(r) THEN Paid(s.balance, r.tx) ELSE s.balance
      /\ r.branch.fees =
            IF Charged(r) THEN Collected(s.fees, Collector(r.route), r.tx) ELSE s.fees
  BY DEF OnBranch
<1>3. /\ q.tx = r.tx /\ q.route = r.route /\ q.branch = Effect(n, r.tx, r.branch)
      /\ Charged(q) <=> Charged(r) \/ n \in {"EVMMono", "DeductFee"}
  BY AdvancedIs DEF Charged
<1>4. CASE n \in {"EVMMono", "DeductFee"}
  <2>1. ~Charged(r)
    <3> SUFFICES ASSUME NEW i \in 1 .. r.at - 1,
                        Chain(r.route)[i] \in {"EVMMono", "DeductFee"}
                 PROVE  FALSE
      BY DEF Charged, Passed
    <3>1. i \in 1 .. Len(Chain(r.route)) /\ i < r.at
      BY <1>1
    <3>2. CASE r.route = "evm"
      BY <1>1, <1>4, <3>1, <3>2, ChainOrder
    <3>3. CASE r.route = "cosmos"
      BY <1>1, <1>4, <3>1, <3>3, ChainOrder
    <3> QED
      BY <1>1, <3>2, <3>3
  <2>2. /\ n = "EVMMono" => Collector(r.route) = "virtual"
        /\ n = "DeductFee" => Collector(r.route) = "poa"
    BY <1>1, ChainOrder DEF Collector
  <2>3. /\ q.branch.balance = Paid(r.branch.balance, r.tx)
        /\ q.branch.fees = Collected(r.branch.fees, Collector(r.route), r.tx)
    BY <1>1, <1>3, <1>4, <2>2, EffectIs
  <2> QED
    BY <1>2, <1>3, <1>4, <2>1, <2>3
<1>5. CASE n \notin {"EVMMono", "DeductFee"}
  <2>1. q.branch.balance = r.branch.balance /\ q.branch.fees = r.branch.fees
    BY <1>1, <1>3, <1>5, EffectIs
  <2> QED
    BY <1>2, <1>3, <1>5, <2>1
<1> QED
  BY <1>4, <1>5

\* The sequence is compared with that of the block, since nothing before it in the
\* chain has incremented it, and incremented once.
LEMMA AdvancedOnBranch ==
    ASSUME NEW r, Ahead(r), NEW s \in StoreType, OnBranch(r, s),
           Accepts(Chain(r.route)[r.at], r.tx, r.branch, r.price)
    PROVE  OnBranch(Advanced(r), s)
<1> DEFINE n == Chain(r.route)[r.at]
           a == r.tx.sender
           q == Advanced(r)
<1> SUFFICES ASSUME r.mode \in Stores
             PROVE  OnBranch(q, s)
  BY AdvancedIs DEF OnBranch
<1>1. /\ r.tx \in Tx /\ r.route \in {"evm", "cosmos"} /\ r.branch \in StoreType
      /\ r.at \in 1 .. Len(Chain(r.route)) /\ r.at \in Nat
  BY RunFields DEF Ahead
<1>2. /\ r.price = s.price /\ r.branch.price = s.price
      /\ Passed(r, "EVMMono") \/ Passed(r, "SigVerification") => r.tx.sequence = s.sequence[a]
      /\ r.branch.sequence =
            IF Incremented(r) THEN Raised(s.sequence, a) ELSE s.sequence
  BY DEF OnBranch
<1>3. /\ q.price = s.price /\ q.branch.price = s.price
      /\ n \in {"EVMMono", "IncrementSequence"} =>
            q.branch.sequence = Raised(r.branch.sequence, a)
      /\ n \notin {"EVMMono", "IncrementSequence"} => q.branch.sequence = r.branch.sequence
  <2>1. /\ Effect(n, r.tx, r.branch).price = r.branch.price
        /\ n \in {"EVMMono", "IncrementSequence"} =>
            Effect(n, r.tx, r.branch).sequence = Raised(r.branch.sequence, a)
        /\ n \notin {"EVMMono", "IncrementSequence"} =>
            Effect(n, r.tx, r.branch).sequence = r.branch.sequence
    BY <1>1, EffectIs
  <2>2. q.price = r.price /\ q.branch = Effect(n, r.tx, r.branch)
    BY AdvancedIs
  <2> QED
    BY <1>2, <2>1, <2>2
<1>4. n \in {"EVMMono", "SigVerification", "IncrementSequence"} => ~Incremented(r)
  <2> SUFFICES ASSUME n \in {"EVMMono", "SigVerification", "IncrementSequence"},
                      NEW i \in 1 .. r.at - 1,
                      Chain(r.route)[i] \in {"EVMMono", "IncrementSequence"}
               PROVE  FALSE
    BY DEF Incremented, Passed
  <2>1. i \in 1 .. Len(Chain(r.route)) /\ i < r.at
    BY <1>1
  <2>2. CASE r.route = "evm"
    BY <1>1, <2>1, <2>2, ChainOrder
  <2>3. CASE r.route = "cosmos"
    BY <1>1, <2>1, <2>3, ChainOrder
  <2> QED
    BY <1>1, <2>2, <2>3
<1>5. Passed(q, "EVMMono") \/ Passed(q, "SigVerification") => r.tx.sequence = s.sequence[a]
  <2>1. CASE n \in {"EVMMono", "SigVerification"}
    <3>1. r.tx.sequence = r.branch.sequence[a]
      BY <2>1 DEF Accepts, InSequence
    <3> QED
      BY <1>2, <1>4, <2>1, <3>1
  <2>2. CASE n \notin {"EVMMono", "SigVerification"}
    BY <1>2, <2>2, AdvancedIs
  <2> QED
    BY <2>1, <2>2
<1>6. Incremented(q) <=> Incremented(r) \/ n \in {"EVMMono", "IncrementSequence"}
  BY AdvancedIs DEF Incremented
<1>7. q.branch.sequence =
        IF Incremented(q) THEN Raised(s.sequence, a) ELSE s.sequence
  BY <1>2, <1>3, <1>4, <1>6
<1>8. /\ q.branch.balance = IF Charged(q) THEN Paid(s.balance, q.tx) ELSE s.balance
      /\ q.branch.fees =
            IF Charged(q) THEN Collected(s.fees, Collector(q.route), q.tx) ELSE s.fees
  BY AdvancedMoney
<1> QED
  BY <1>3, <1>5, <1>7, <1>8, AdvancedIs DEF OnBranch

-----------------------------------------------------------------------------
(* A run that has passed its whole chain. *)

Through(r) == r \in RunType /\ r.at = Len(Chain(r.route)) + 1

LEMMA RoutedByFirst ==
    ASSUME NEW tx \in Tx, Route(tx) = "evm", Len(tx.options) = 1
    PROVE  tx.options = <<"ethereum">>
<1>1. tx.options \in Seq(OptionType)
  BY TxAssumption
<1>2. Head(tx.options) = "ethereum"
  BY <1>1 DEF Route
<1>3. tx.options[1] = "ethereum"
  BY <1>1, <1>2
<1> QED
  BY <1>1, <1>3

\* All that the decorators of its chain look at holds of what has got through.
LEMMA ThroughKnows ==
    ASSUME NEW r, Through(r), Knows(r), NEW s \in StoreType, OnBranch(r, s), r.mode \in Stores
    PROVE  /\ r.tx.fee >= s.price
           /\ r.tx.sequence = s.sequence[r.tx.sender]
           /\ r.branch.sequence = Raised(s.sequence, r.tx.sender)
           /\ r.branch.balance = Paid(s.balance, r.tx)
           /\ r.branch.fees = Collected(s.fees, Collector(r.route), r.tx)
           /\ \/ /\ r.route = "evm"
                 /\ r.tx.options = <<"ethereum">>
                 /\ r.tx.messages = {"ethereum"}
              \/ /\ r.route = "cosmos"
                 /\ \A k \in DOMAIN r.tx.options : r.tx.options[k] = "dynamicFee"
                 /\ r.tx.messages = {"cosmos"}
<1>1. /\ r.tx \in Tx /\ r.route \in {"evm", "cosmos"}
      /\ r.price = s.price
  BY RunFields DEF Through, OnBranch
<1>2. CASE r.route = "evm"
  <2>1. Passed(r, "EVMMono")
    <3>1. Chain(r.route) = EVMAnte
      BY <1>2 DEF Chain
    <3>2. r.at = 3
      BY <3>1, EVMChain DEF Through
    <3> QED
      BY <3>1, <3>2, EVMChain DEF Passed
  <2>2. r.tx.options = <<"ethereum">>
    BY <1>1, <1>2, <2>1, RoutedByFirst DEF Knows
  <2> QED
    BY <1>1, <1>2, <2>1, <2>2 DEF Knows, OnBranch, Incremented, Charged
<1>3. CASE r.route = "cosmos"
  <2>1. Chain(r.route) = POACosmosAnte /\ r.at = 17
    <3>1. Chain(r.route) = POACosmosAnte
      BY <1>3 DEF Chain
    <3> QED
      BY <3>1, CosmosChain DEF Through
  <2>2. \A i \in 1 .. 16 : Passed(r, POACosmosAnte[i])
    BY <2>1 DEF Passed
  <2>3. /\ Passed(r, POACosmosAnte[1]) /\ Passed(r, POACosmosAnte[2])
        /\ Passed(r, POACosmosAnte[4]) /\ Passed(r, POACosmosAnte[10])
        /\ Passed(r, POACosmosAnte[14]) /\ Passed(r, POACosmosAnte[15])
    BY <2>2
  <2>4. /\ Passed(r, "RejectMessages") /\ Passed(r, "AuthzLimiter")
        /\ Passed(r, "ExtensionOptions") /\ Passed(r, "DeductFee")
        /\ Passed(r, "SigVerification") /\ Passed(r, "IncrementSequence")
    BY <2>3, CosmosChain
  <2>5. r.tx.messages = {"cosmos"}
    <3>1. r.tx.messages \subseteq {"cosmos"} /\ r.tx.messages # {}
      BY <1>1, <2>4, TxAssumption DEF Knows, MessageType
    <3> QED
      BY <3>1
  <2> QED
    BY <1>1, <1>3, <2>4, <2>5 DEF Knows, OnBranch, Incremented, Charged
<1> QED
  BY <1>1, <1>2, <1>3

\* What passes into a block is entered in the ledger in its turn.
LEMMA ThroughAgrees ==
    ASSUME NEW r, Through(r), Knows(r), NEW s \in StoreType, OnBranch(r, s), r.mode \in Stores,
           NEW l \in LedgerType, NEW k \in LedgerType, Agree(s, l, k)
    PROVE  LET e == [tx |-> r.tx, route |-> r.route, price |-> s.price]
           IN  Append(l, e) \in LedgerType /\ Agree(r.branch, Append(l, e), k)
<1> DEFINE e == [tx |-> r.tx, route |-> r.route, price |-> s.price]
           m == Append(l, e)
           L == Len(l)
<1>1. /\ r.tx \in Tx /\ r.tx.sender \in Account /\ r.route \in {"evm", "cosmos"}
      /\ s.sequence \in [Account -> Nat]
  BY RunFields, TxAssumption, StoreFields DEF Through
<1>2. e \in [tx : Tx, route : {"evm", "cosmos"}, price : Prices]
  BY <1>1, StoreFields
<1>3. /\ L \in Nat /\ m \in LedgerType /\ Len(m) = L + 1 /\ m[L + 1] = e
      /\ DOMAIN l = 1 .. L /\ DOMAIN m = 1 .. L + 1
      /\ \A i \in 1 .. L : m[i] = l[i]
  BY <1>2 DEF LedgerType
<1>4. ASSUME NEW a \in Account
      PROVE  r.branch.sequence[a] = Count(m, Len(m), a)
  <2>1. Count(m, L + 1, a) = Count(l, L, a) + (IF a = r.tx.sender THEN 1 ELSE 0)
    BY <1>2, OfAppend
  <2>2. s.sequence[a] = Count(l, L, a) /\ s.sequence[a] \in Nat
    BY <1>1 DEF Agree
  <2>3. r.branch.sequence[a] = s.sequence[a] + (IF a = r.tx.sender THEN 1 ELSE 0)
    <3>1. r.branch.sequence = Raised(s.sequence, r.tx.sender)
      BY ThroughKnows
    <3> QED
      BY <1>1, <2>2, <3>1 DEF Raised
  <2> QED
    BY <1>3, <2>1, <2>2, <2>3
<1>5. ASSUME NEW i \in 1 .. L + 1
      PROVE  /\ m[i].tx.sequence = Count(m, i - 1, m[i].tx.sender)
             /\ m[i].tx.fee >= m[i].price
             /\ \/ /\ m[i].route = "evm"
                   /\ m[i].tx.options = <<"ethereum">>
                   /\ m[i].tx.messages = {"ethereum"}
                \/ /\ m[i].route = "cosmos"
                   /\ \A j \in DOMAIN m[i].tx.options : m[i].tx.options[j] = "dynamicFee"
                   /\ m[i].tx.messages = {"cosmos"}
  <2>1. i - 1 \in 0 .. L
    BY <1>3
  <2>2. Count(m, i - 1, m[i].tx.sender) = Count(l, i - 1, m[i].tx.sender)
    <3> DEFINE a == m[i].tx.sender
    <3> HIDE DEF a, m, e
    <3>1. \A n \in 0 .. L : Count(m, n, a) = Count(l, n, a)
      BY <1>2, OfAppend DEF m
    <3>2. Count(m, i - 1, a) = Count(l, i - 1, a)
      BY <2>1, <3>1
    <3> QED
      BY <3>2 DEF a
  <2>3. CASE i \in 1 .. L
    BY <1>3, <2>2, <2>3 DEF Agree
  <2>4. CASE i = L + 1
    <3>1. m[i].tx = r.tx /\ m[i].route = r.route /\ m[i].price = s.price
      BY <1>3, <2>4
    <3>2. Count(m, i - 1, r.tx.sender) = r.tx.sequence
      <4>1. Count(l, L, r.tx.sender) = r.tx.sequence
        BY <1>1, ThroughKnows DEF Agree
      <4> QED
        BY <1>3, <2>2, <2>4, <3>1, <4>1
    <3> QED
      BY <3>1, <3>2, ThroughKnows
  <2> QED
    BY <1>3, <2>3, <2>4
<1>6. Balanced(r.branch, m, k)
  <2>1. m = Append(l, e) /\ e.tx = r.tx /\ e.route = r.route /\ Balanced(s, l, k)
    BY DEF Agree
  <2>2. /\ r.branch.balance = Paid(s.balance, r.tx)
        /\ r.branch.fees = Collected(s.fees, Collector(r.route), r.tx)
        /\ r.branch \in StoreType
    BY ThroughKnows, RunFields DEF Through
  <2> HIDE DEF e, m
  <2> QED
    BY <1>1, <1>2, <2>1, <2>2, BalancedAppend
<1> QED
  BY <1>3, <1>4, <1>5, <1>6 DEF Agree

LEMMA AheadFacts ==
    ASSUME NEW p \in PassedType, NEW n \in 0 .. Len(p), NEW a
    PROVE  /\ IsFiniteSet(AheadOf(p, n, a)) /\ Cardinality(AheadOf(p, n, a)) \in Nat
           /\ \A i \in AheadOf(p, n, a) : PassedFee(p)[i] \in Int
           /\ SumFunctionOnSet(PassedFee(p), AheadOf(p, n, a)) \in Int
<1> DEFINE E == [sender : Account, sequence : Nat, fee : Nat, pooled : BOOLEAN]
<1>1. p \in Seq(E) /\ \A e \in E : e.fee \in Nat
  BY DEF PassedType
<1> HIDE DEF E
<1>2. Len(p) \in Nat /\ DOMAIN p = 1 .. Len(p) /\ \A i \in 1 .. Len(p) : p[i].fee \in Nat
  BY <1>1
<1>3. IsFiniteSet(AheadOf(p, n, a)) /\ AheadOf(p, n, a) \subseteq 1 .. Len(p)
  <2>1. IsFiniteSet(1 .. n)
    BY <1>2, FS_Interval
  <2> QED
    BY <1>2, <2>1, FS_Subset DEF AheadOf
<1>4. \A i \in AheadOf(p, n, a) : PassedFee(p)[i] \in Int
  BY <1>2, <1>3 DEF PassedFee
<1> QED
  BY <1>3, <1>4, FS_CardinalityType, SumType

\* What passes CheckTx is one more of its sender, and is charged.
LEMMA ThroughRunsAhead ==
    ASSUME NEW r, Through(r), Knows(r), NEW s \in StoreType, OnBranch(r, s), r.mode \in Stores,
           NEW c \in StoreType, NEW p \in PassedType, RunsAhead(s, c, p), NEW pooled \in BOOLEAN
    PROVE  LET e == [sender |-> r.tx.sender, sequence |-> r.tx.sequence, fee |-> r.tx.fee,
                     pooled |-> pooled]
           IN  Append(p, e) \in PassedType /\ RunsAhead(r.branch, c, Append(p, e))
<1> DEFINE e == [sender |-> r.tx.sender, sequence |-> r.tx.sequence, fee |-> r.tx.fee,
                 pooled |-> pooled]
           m == Append(p, e)
           L == Len(p)
<1>1. /\ r.tx.sender \in Account /\ r.tx.sequence \in Nat /\ r.tx.fee \in Nat
      /\ s.sequence \in [Account -> Nat] /\ c.sequence \in [Account -> Nat]
      /\ s.balance \in [Account -> 0 .. Funds] /\ c.balance \in [Account -> 0 .. Funds]
  BY RunFields, TxAssumption, StoreFields DEF Through
<1>2. /\ r.tx.sequence = s.sequence[r.tx.sender]
      /\ r.branch.sequence = Raised(s.sequence, r.tx.sender)
      /\ r.branch.balance = Paid(s.balance, r.tx)
  BY ThroughKnows
<1>3. /\ L \in Nat /\ m \in PassedType /\ Len(m) = L + 1 /\ m[L + 1] = e
      /\ DOMAIN p = 1 .. L /\ DOMAIN m = 1 .. L + 1
      /\ \A i \in 1 .. L : m[i] = p[i]
  BY <1>1 DEF PassedType
<1>e. e.sender = r.tx.sender /\ e.sequence = r.tx.sequence /\ e.fee = r.tx.fee
  OBVIOUS
<1> HIDE DEF m, e, L
<1>4. ASSUME NEW a
      PROVE  /\ \A n \in 0 .. L : AheadOf(m, n, a) = AheadOf(p, n, a)
             /\ AheadOf(m, L + 1, a) =
                    IF a = r.tx.sender THEN AheadOf(p, L, a) \cup {L + 1} ELSE AheadOf(p, L, a)
             /\ L + 1 \notin AheadOf(p, L, a)
  <2>1. \A n \in 0 .. L : AheadOf(m, n, a) = AheadOf(p, n, a)
    BY <1>3 DEF AheadOf
  <2>2. AheadOf(m, L + 1, a) =
            IF a = r.tx.sender THEN AheadOf(p, L, a) \cup {L + 1} ELSE AheadOf(p, L, a)
    BY <1>3, <1>e DEF AheadOf
  <2>3. L + 1 \notin AheadOf(p, L, a)
    BY <1>3 DEF AheadOf
  <2> QED
    BY <2>1, <2>2, <2>3
<1>5. ASSUME NEW a \in Account
      PROVE  /\ r.branch.sequence[a] = c.sequence[a] + Cardinality(AheadOf(m, L + 1, a))
             /\ c.balance[a] - r.branch.balance[a] =
                    SumFunctionOnSet(PassedFee(m), AheadOf(m, L + 1, a))
  <2> DEFINE P == AheadOf(p, L, a)
             sum == SumFunctionOnSet(PassedFee(p), P)
  <2>1. /\ s.sequence[a] = c.sequence[a] + Cardinality(P)
        /\ c.balance[a] - s.balance[a] = sum
    BY DEF RunsAhead, L
  <2>2. IsFiniteSet(P) /\ Cardinality(P) \in Nat /\ sum \in Int /\ P \subseteq 1 .. L
    <3>1. L \in 0 .. Len(p)
      BY <1>3 DEF L
    <3>2. IsFiniteSet(P) /\ Cardinality(P) \in Nat /\ sum \in Int
      BY <3>1, AheadFacts
    <3>3. P \subseteq 1 .. L
      BY DEF AheadOf
    <3> QED
      BY <3>2, <3>3
  <2>3. /\ \A i \in P : PassedFee(m)[i] = PassedFee(p)[i]
        /\ PassedFee(m)[L + 1] = r.tx.fee
    BY <1>3, <1>e, <2>2 DEF PassedFee
  <2>4. SumFunctionOnSet(PassedFee(m), P) = sum
    BY <2>2, <2>3, SumSame
  <2>5. c.sequence[a] \in Int /\ c.balance[a] \in Int /\ s.balance[a] \in Int
    BY <1>1, AmountsAssumption
  <2> HIDE DEF sum
  <2>6. CASE a = r.tx.sender
    <3>1. AheadOf(m, L + 1, a) = P \cup {L + 1} /\ L + 1 \notin P
      BY <1>4, <2>6
    <3> HIDE DEF P
    <3>2. Cardinality(P \cup {L + 1}) = Cardinality(P) + 1
      BY <2>2, <3>1, FS_AddElement
    <3>3. SumFunctionOnSet(PassedFee(m), P \cup {L + 1}) = r.tx.fee + sum
      <4>1. IsFiniteSet(P \cup {L + 1}) /\ (P \cup {L + 1}) \ {L + 1} = P
        BY <2>2, <3>1, FS_AddElement
      <4>2. \A i \in P \cup {L + 1} : PassedFee(m)[i] \in Int
        <5>1. \A i \in AheadOf(m, L + 1, a) : PassedFee(m)[i] \in Int
          BY <1>3, AheadFacts
        <5> QED
          BY <3>1, <5>1
      <4>3. SumFunctionOnSet(PassedFee(m), P \cup {L + 1}) =
                PassedFee(m)[L + 1]
                    + SumFunctionOnSet(PassedFee(m), (P \cup {L + 1}) \ {L + 1})
        BY <4>1, <4>2, SumRemove
      <4> QED
        BY <2>3, <2>4, <4>1, <4>3
    <3>4. /\ r.branch.sequence[a] = s.sequence[a] + 1
          /\ r.branch.balance[a] = s.balance[a] - r.tx.fee
      BY <1>1, <1>2, <2>6 DEF Raised, Paid
    <3> DEFINE count == Cardinality(P)
               Q == AheadOf(m, L + 1, a)
    <3>5. count \in Nat /\ s.sequence[a] = c.sequence[a] + count
      BY <2>1, <2>2
    <3>6. Cardinality(Q) = count + 1 /\ SumFunctionOnSet(PassedFee(m), Q) = r.tx.fee + sum
      BY <3>1, <3>2, <3>3, Zenon
    <3> HIDE DEF count, Q
    <3>7. r.branch.sequence[a] = c.sequence[a] + (count + 1)
      BY <2>5, <3>4, <3>5
    <3>8. c.balance[a] - r.branch.balance[a] = r.tx.fee + sum
      BY <1>1, <2>1, <2>2, <2>5, <3>4
    <3> QED
      BY <3>6, <3>7, <3>8 DEF Q
  <2>7. CASE a # r.tx.sender
    <3>1. AheadOf(m, L + 1, a) = P
      BY <1>4, <2>7
    <3>2. r.branch.sequence[a] = s.sequence[a] /\ r.branch.balance[a] = s.balance[a]
      BY <1>1, <1>2, <2>7 DEF Raised, Paid
    <3> QED
      BY <2>1, <2>4, <3>1, <3>2
  <2> QED
    BY <2>6, <2>7
<1>6. ASSUME NEW i \in 1 .. L + 1
      PROVE  m[i].sequence =
                c.sequence[m[i].sender] + Cardinality(AheadOf(m, i - 1, m[i].sender))
  <2>1. i - 1 \in 0 .. L
    BY <1>3
  <2>2. AheadOf(m, i - 1, m[i].sender) = AheadOf(p, i - 1, m[i].sender)
    BY <1>4, <2>1
  <2>3. CASE i \in 1 .. L
    BY <1>3, <2>2, <2>3 DEF RunsAhead
  <2>4. CASE i = L + 1
    <3>1. m[i].sender = r.tx.sender /\ m[i].sequence = r.tx.sequence /\ i - 1 = L
      BY <1>3, <1>e, <2>4
    <3>2. s.sequence[r.tx.sender] =
            c.sequence[r.tx.sender] + Cardinality(AheadOf(p, L, r.tx.sender))
      BY <1>1 DEF RunsAhead, L
    <3> QED
      BY <1>2, <2>2, <3>1, <3>2
  <2> QED
    BY <1>3, <2>3, <2>4
<1>7. RunsAhead(r.branch, c, m)
  BY <1>3, <1>5, <1>6 DEF RunsAhead
<1> QED
  BY <1>3, <1>7 DEF m, e

\* CheckTx begins anew from a commit.
LEMMA NothingPassed ==
    ASSUME NEW c \in StoreType
    PROVE  <<>> \in PassedType /\ RunsAhead(c, c, <<>>)
<1>1. <<>> \in PassedType /\ Len(<<>>) = 0 /\ DOMAIN <<>> = {}
  BY DEF PassedType
<1>2. \A a : AheadOf(<<>>, 0, a) = {}
  BY DEF AheadOf
<1>3. SumFunctionOnSet(PassedFee(<<>>), {}) = 0 /\ Cardinality({}) = 0
  BY SumEmpty, FS_EmptySet
<1>4. c.sequence \in [Account -> Nat] /\ c.balance \in [Account -> 0 .. Funds]
  BY StoreFields
<1>5. ASSUME NEW a \in Account
      PROVE  c.sequence[a] = c.sequence[a] + 0 /\ c.balance[a] - c.balance[a] = 0
  <2>1. c.sequence[a] \in Int /\ c.balance[a] \in Int
    BY <1>4, AmountsAssumption
  <2> QED
    BY <2>1
<1> QED
  BY <1>1, <1>2, <1>3, <1>5 DEF RunsAhead

-----------------------------------------------------------------------------
(* The steps. *)

LEMMA GenesisType == Genesis \in StoreType /\ Agree(Genesis, <<>>, <<>>) /\ <<>> \in LedgerType
<1>1. Genesis.price \in Prices
  BY AmountsAssumption DEF Genesis
<1>2. Genesis \in StoreType
  BY <1>1, AmountsAssumption DEF Genesis, StoreType
<1>3. \A a : Count(<<>>, 0, a) = 0
  <2>1. \A a : Of(<<>>, 0, a) = {}
    BY DEF Of
  <2> QED
    BY <2>1, FS_EmptySet DEF Count
<1>4. \A a \in Account : Genesis.sequence[a] = 0
  BY DEF Genesis
<1>5. Len(<<>>) = 0 /\ DOMAIN <<>> = {} /\ <<>> \in LedgerType
  BY DEF LedgerType
<1>6. Balanced(Genesis, <<>>, <<>>)
  <2>1. \A route : Fees(<<>>, route) = 0
    <3>1. \A route : By(<<>>, route) = {}
      BY <1>5 DEF By
    <3> QED
      BY <3>1, SumEmpty DEF Fees
  <2>2. Spent(Genesis) = 0
    <3>1. \A a \in Account : Outlay(Genesis.balance)[a] = 0
      BY AmountsAssumption DEF Outlay, Genesis
    <3> QED
      BY <3>1, AccountAssumption, SumZero DEF Spent
  <2>3. \A m \in {"poa", "virtual", "feeCollector"} : Genesis.fees[m] = 0
    BY DEF Genesis
  <2> QED
    BY <2>1, <2>2, <2>3 DEF Balanced
<1> QED
  BY <1>2, <1>3, <1>4, <1>5, <1>6 DEF Agree

LEMMA InitIInv == Init => IInv
<1> SUFFICES ASSUME Init
             PROVE  IInv
  OBVIOUS
<1>1. /\ store \in [Stores -> StoreType] /\ \A m \in Stores : store[m] = Genesis
      /\ committed = Genesis /\ ~Running /\ ledger = <<>> /\ kept = <<>> /\ passed = <<>>
  BY GenesisType DEF Init, Running
<1>2. RunsAhead(store["check"], committed, passed) /\ passed \in PassedType
  BY <1>1, GenesisType, NothingPassed DEF Stores
<1> QED
  BY <1>1, <1>2, GenesisType DEF IInv, Types, Stores

LEMMA StartStep ==
    ASSUME IInv, NEW mode \in Modes, NEW tx \in Tx, Start(mode, tx)
    PROVE  IInv'
<1>1. /\ store \in [Stores -> StoreType]
      /\ UNCHANGED <<store, committed, ledger, kept, passed>>
  BY DEF IInv, Types, Start
<1>2. StoreOf(mode) \in StoreType /\ (mode \in Stores => StoreOf(mode) = store[mode])
  BY <1>1 DEF StoreOf, Stores
<1>3. Route(tx) \in {"evm", "cosmos"}
  BY DEF Start, Route
<1>4. /\ run' = [mode |-> mode, tx |-> tx, route |-> Route(tx), at |-> 1,
                 price |-> StoreOf(mode).price, branch |-> StoreOf(mode)]
      /\ run' \in RunType
  BY <1>2, <1>3, StoreFields DEF Start, PriceFor, RunType
<1>5. 1 \in 1 .. Len(Chain(Route(tx))) + 1
  BY EVMChain, CosmosChain DEF Chain
<1>6. Knows(run') /\ (run'.mode \in Stores => OnBranch(run', store[run'.mode]))
  <2>1. CASE mode \in Stores
    <3>1. store[mode] \in StoreType
      BY <1>1, <2>1
    <3> QED
      BY <1>2, <1>4, <2>1, <3>1, StartedKnows
  <2>2. CASE mode \notin Stores
    <3>1. store["block"] \in StoreType
      BY <1>1 DEF Stores
    <3> QED
      BY <1>4, <2>2, <3>1, StartedKnows
  <2> QED
    BY <2>1, <2>2
<1>7. Types'
  BY <1>1, <1>4, <1>5 DEF IInv, Types, Running
<1> QED
  BY <1>1, <1>6, <1>7 DEF IInv

LEMMA DecorateStep ==
    ASSUME IInv, Decorate
    PROVE  IInv'
<1>1. /\ Running /\ run \in RunType /\ run.at \in 1 .. Len(Chain(run.route)) + 1
      /\ run.at <= Len(Chain(run.route))
      /\ Knows(run) /\ (run.mode \in Stores => OnBranch(run, store[run.mode]))
      /\ store \in [Stores -> StoreType]
      /\ Accepts(Chain(run.route)[run.at], run.tx, run.branch, run.price)
      /\ UNCHANGED <<store, committed, ledger, kept, passed>>
  BY DEF IInv, Types, Decorate, More, Decorator
<1>2. Len(Chain(run.route)) \in Nat /\ run.at \in Nat
  BY <1>1, RunFields, EVMChain, CosmosChain DEF Chain
<1>3. Ahead(run) /\ run' = Advanced(run)
  BY <1>1, <1>2 DEF Ahead, Advanced, Decorate, Decorator
<1>4. /\ run' \in RunType /\ run'.route = run.route /\ run'.at = run.at + 1
      /\ run'.tx = run.tx /\ run'.mode = run.mode
  BY <1>1, <1>3, AdvancedIs
<1>5. Knows(run')
  BY <1>1, <1>3, AdvancedKnows
<1>6. run.mode \in Stores => OnBranch(run', store[run.mode])
  BY <1>1, <1>3, AdvancedOnBranch
<1>7. Types'
  BY <1>1, <1>2, <1>4, RunFields DEF IInv, Types
<1> QED
  BY <1>1, <1>4, <1>5, <1>6, <1>7 DEF IInv

LEMMA RefuseStep ==
    ASSUME IInv, Refuse
    PROVE  IInv'
<1>1. run' = Idle /\ UNCHANGED <<store, committed, ledger, kept, passed>>
  BY DEF Refuse
<1> QED
  BY <1>1 DEF IInv, Types, Running

LEMMA FinishStep ==
    ASSUME IInv, NEW pooled \in BOOLEAN, Finish(pooled)
    PROVE  IInv'
<1>1. /\ Running /\ run \in RunType /\ run.at \in 1 .. Len(Chain(run.route)) + 1
      /\ ~(run.at <= Len(Chain(run.route)))
      /\ Knows(run) /\ (run.mode \in Stores => OnBranch(run, store[run.mode]))
      /\ run' = Idle /\ UNCHANGED <<committed, kept>>
  BY DEF IInv, Types, Finish, More
<1>2. /\ store \in [Stores -> StoreType] /\ committed \in StoreType
      /\ ledger \in LedgerType /\ kept \in LedgerType /\ passed \in PassedType
      /\ Agree(store["block"], ledger, kept) /\ Agree(committed, kept, kept)
      /\ RunsAhead(store["check"], committed, passed)
  BY DEF IInv, Types
<1>3. Through(run) /\ run.mode \in Modes /\ run.tx \in Tx /\ run.branch \in StoreType
  <2>1. Len(Chain(run.route)) \in Nat /\ run.at \in Nat
    BY <1>1, RunFields, EVMChain, CosmosChain DEF Chain
  <2> QED
    BY <1>1, <2>1, RunFields DEF Through
<1>4. store' \in [Stores -> StoreType]
  BY <1>2, <1>3 DEF Finish, Modes
<1>5. CASE run.mode = "block"
  <2>1. /\ store'["block"] = run.branch /\ store'["check"] = store["check"]
        /\ ledger' = Append(ledger, [tx |-> run.tx, route |-> run.route,
                                     price |-> store["block"].price])
        /\ passed' = passed
    BY <1>2, <1>5 DEF Finish, Stores
  <2>2. OnBranch(run, store["block"]) /\ store["block"] \in StoreType /\ run.mode \in Stores
    BY <1>1, <1>2, <1>5 DEF Stores
  <2>3. ledger' \in LedgerType /\ Agree(run.branch, ledger', kept)
    BY <1>1, <1>2, <1>3, <2>1, <2>2, ThroughAgrees
  <2> QED
    BY <1>1, <1>2, <1>4, <2>1, <2>3 DEF IInv, Types, Running
<1>6. CASE run.mode = "check"
  <2>1. /\ store'["check"] = run.branch /\ store'["block"] = store["block"]
        /\ passed' = Append(passed, [sender |-> run.tx.sender, sequence |-> run.tx.sequence,
                                     fee |-> run.tx.fee, pooled |-> pooled])
        /\ ledger' = ledger
    BY <1>2, <1>6 DEF Finish, Stores
  <2>2. OnBranch(run, store["check"]) /\ store["check"] \in StoreType /\ run.mode \in Stores
    BY <1>1, <1>2, <1>6 DEF Stores
  <2>3. passed' \in PassedType /\ RunsAhead(run.branch, committed, passed')
    BY <1>1, <1>2, <1>3, <2>1, <2>2, ThroughRunsAhead
  <2> QED
    BY <1>1, <1>2, <1>4, <2>1, <2>3 DEF IInv, Types, Running
<1>7. CASE run.mode = "simulate"
  <2>1. store' = store /\ ledger' = ledger /\ passed' = passed
    BY <1>7 DEF Finish
  <2> QED
    BY <1>1, <1>2, <2>1 DEF IInv, Types, Running
<1> QED
  BY <1>3, <1>5, <1>6, <1>7 DEF Modes, Stores

\* What bank credits to POA at the end of a block it takes from the object store.
LEMMA CreditedIs ==
    ASSUME NEW s \in StoreType, NEW price \in Prices
    PROVE  LET c == [Credited(s) EXCEPT !.price = price]
           IN  /\ c \in StoreType
               /\ c.sequence = s.sequence /\ c.balance = s.balance
               /\ c.fees["poa"] = s.fees["poa"] + s.fees["virtual"]
               /\ c.fees["virtual"] = 0
               /\ c.fees["feeCollector"] = s.fees["feeCollector"]
<1> DEFINE fees == [s.fees EXCEPT !["poa"] = @ + s.fees["virtual"], !["virtual"] = 0]
           c == [Credited(s) EXCEPT !.price = price]
<1>1. s.fees \in [{"poa", "virtual", "feeCollector"} -> Nat]
  BY StoreFields
<1>2. /\ fees \in [{"poa", "virtual", "feeCollector"} -> Nat]
      /\ fees["poa"] = s.fees["poa"] + s.fees["virtual"] /\ fees["virtual"] = 0
      /\ fees["feeCollector"] = s.fees["feeCollector"]
  BY <1>1
<1>3. Credited(s) = [[s EXCEPT !.fees["poa"] = @ + s.fees["virtual"]]
                        EXCEPT !.fees["virtual"] = 0]
  BY DEF Credited, StoreType
<1>4. Credited(s) = [balance |-> s.balance, sequence |-> s.sequence, fees |-> fees,
                     price |-> s.price]
  <2>1. [s EXCEPT !.fees["poa"] = @ + s.fees["virtual"]] =
            [balance |-> s.balance, sequence |-> s.sequence,
             fees |-> [s.fees EXCEPT !["poa"] = @ + s.fees["virtual"]], price |-> s.price]
    BY StoreFields
  <2>2. fees = [[s.fees EXCEPT !["poa"] = @ + s.fees["virtual"]] EXCEPT !["virtual"] = 0]
    BY <1>1
  <2> HIDE DEF fees
  <2> QED
    BY <1>3, <2>1, <2>2
<1> HIDE DEF fees
<1>5. c = [balance |-> s.balance, sequence |-> s.sequence, fees |-> fees, price |-> price]
  BY <1>4
<1> HIDE DEF c
<1> QED
  BY <1>2, <1>5, StoreFields DEF StoreType, c

\* A price set at the end of a block is for the next one; the sequences stay, and the
\* fees of the block's EVM transactions are credited with it.
LEMMA CommitStep ==
    ASSUME IInv, NEW price \in Prices, Commit(price)
    PROVE  IInv'
<1> DEFINE b == store["block"]
           s == [Credited(b) EXCEPT !.price = price]
<1>1. /\ b \in StoreType /\ ledger \in LedgerType /\ kept \in LedgerType
      /\ Agree(b, ledger, kept)
  BY DEF IInv, Types, Stores
<1>2. /\ s \in StoreType
      /\ s.sequence = b.sequence /\ s.balance = b.balance
      /\ s.fees["poa"] = b.fees["poa"] + b.fees["virtual"]
      /\ s.fees["virtual"] = 0
      /\ s.fees["feeCollector"] = b.fees["feeCollector"]
  BY <1>1, CreditedIs
<1>3. /\ committed' = s /\ store' = [m \in Stores |-> s]
      /\ kept' = ledger /\ passed' = <<>> /\ UNCHANGED <<run, ledger>> /\ run = Idle
  BY DEF Commit
<1> HIDE DEF s, b
<1>4. Balanced(s, ledger, ledger)
  <2>1. /\ Fees(ledger, "cosmos") \in Int /\ Fees(ledger, "evm") \in Int
        /\ Fees(kept, "evm") \in Int
    BY <1>1, FeesType
  <2>2. /\ b.fees["poa"] = Fees(ledger, "cosmos") + Fees(kept, "evm")
        /\ b.fees["virtual"] = Fees(ledger, "evm") - Fees(kept, "evm")
        /\ b.fees["feeCollector"] = 0
        /\ Spent(b) = b.fees["poa"] + b.fees["virtual"]
    BY <1>1 DEF Agree, Balanced
  <2>3. Spent(s) = Spent(b)
    BY <1>2 DEF Spent
  <2>4. /\ s.fees["poa"] = Fees(ledger, "cosmos") + Fees(ledger, "evm")
        /\ s.fees["virtual"] = Fees(ledger, "evm") - Fees(ledger, "evm")
        /\ s.fees["poa"] + s.fees["virtual"] = s.fees["poa"]
    BY <1>2, <2>1, <2>2
  <2>5. Spent(s) = s.fees["poa"] + s.fees["virtual"]
    BY <1>2, <2>2, <2>3, <2>4
  <2> QED
    BY <1>2, <2>2, <2>4, <2>5 DEF Balanced
<1>5. Agree(s, ledger, ledger)
  BY <1>1, <1>2, <1>4 DEF Agree
<1>6. passed' \in PassedType /\ RunsAhead(s, s, passed')
  BY <1>2, <1>3, NothingPassed
<1>7. store'["block"] = s /\ store'["check"] = s
  BY <1>3 DEF Stores
<1> QED
  BY <1>1, <1>2, <1>3, <1>5, <1>6, <1>7 DEF IInv, Types, Running

LEMMA CrashStep ==
    ASSUME IInv, Crash
    PROVE  IInv'
<1>1. /\ store' = [m \in Stores |-> committed]
      /\ store'["block"] = committed /\ store'["check"] = committed
      /\ run' = Idle /\ ledger' = kept /\ passed' = <<>> /\ UNCHANGED <<committed, kept>>
  BY DEF Crash, Stores
<1>2. passed' \in PassedType /\ RunsAhead(committed, committed, passed')
  BY <1>1, NothingPassed DEF IInv, Types
<1> QED
  BY <1>1, <1>2 DEF IInv, Types, Running

LEMMA NextIInv == IInv /\ [Next]_vars => IInv'
<1> SUFFICES ASSUME IInv, [Next]_vars
             PROVE  IInv'
  OBVIOUS
<1>1. CASE UNCHANGED vars
  BY <1>1 DEF vars, IInv, Types, Running
<1>2. CASE Next
  BY <1>2, StartStep, DecorateStep, RefuseStep, FinishStep, CommitStep, CrashStep DEF Next
<1> QED
  BY <1>1, <1>2

\* Every part of the invariant holds at all times.
LEMMA Invariance == Spec => []IInv
  BY InitIInv, NextIInv, PTL DEF Spec

-----------------------------------------------------------------------------
(* The theorems. *)

\* A run is always at a place of its chain and works on a store in which no account
\* has less than nothing, whatever is charged, refused, committed or lost.
THEOREM TypeCorrect == Spec => []TypeOK
<1>1. IInv => TypeOK
  <2> SUFFICES ASSUME IInv
               PROVE  TypeOK
    OBVIOUS
  <2>1. Running =>
            /\ run.mode \in Modes /\ run.tx \in Tx /\ run.route \in {"evm", "cosmos"}
            /\ run.price \in Prices /\ run.branch \in StoreType
    BY RunFields DEF IInv, Types
  <2>2. \A i \in DOMAIN ledger : ledger[i].tx \in Tx
    <3>1. ledger \in LedgerType
      BY DEF IInv, Types
    <3> DEFINE E == [tx : Tx, route : {"evm", "cosmos"}, price : Prices]
    <3>2. \A e \in E : e.tx \in Tx
      OBVIOUS
    <3>3. ledger \in Seq(E)
      BY <3>1 DEF LedgerType
    <3> HIDE DEF E
    <3>4. \A i \in DOMAIN ledger : ledger[i] \in E
      BY <3>3
    <3> QED
      BY <3>2, <3>4
  <2>3. \A i \in DOMAIN passed : passed[i].sender \in Account
    <3> DEFINE E == [sender : Account, sequence : Nat, fee : Nat, pooled : BOOLEAN]
    <3>1. passed \in Seq(E) /\ \A e \in E : e.sender \in Account
      BY DEF IInv, Types, PassedType
    <3> HIDE DEF E
    <3> QED
      BY <3>1
  <2> QED
    BY <2>1, <2>2, <2>3 DEF IInv, Types, TypeOK
<1> QED
  BY <1>1, Invariance, PTL

\* Whatever chains its transactions take, a sender is charged once for each of its
\* sequences and in their order (ante.go:87-108): the n-th transaction of a sender
\* to pass into a block has sequence n - 1, through refusals, simulations and crashes.
\* And it pays the price in force: the parameters of the fee market are those of the
\* block in which it passes (ante.go:61, 81).
THEOREM SendersAreChargedInOrder == Spec => []ChargedOnceInOrder
<1>1. IInv => OnceInOrder
  BY DEF IInv, Agree, OnceInOrder, Count, Of
<1>2. IInv => PaysPriceInForce
  BY DEF IInv, Agree, PaysPriceInForce
<1> QED
  BY <1>1, <1>2, Invariance, PTL DEF ChargedOnceInOrder

\* The choice by the first extension option alone (ante.go:36) lets nothing through
\* that the chain does not know, and no Ethereum message but by the EVM chain.
THEOREM ChainsKnowWhatPasses == Spec => []KnownToItsChain
<1>1. IInv => KnownToItsChain
  BY DEF IInv, Agree, KnownToItsChain
<1> QED
  BY <1>1, Invariance, PTL

\* What the accounts have lost is with POA, but for what the EVM collected in the block
\* under way, which is in the object store and POA's at the end of the block, to the last
\* coin and over any number of blocks and crashes; the fee collector of the SDK has
\* nothing (ante.go:102, app.go:354, 463, 604, 731).
THEOREM EveryFeeIsAccounted == Spec => []FeesAccounted
<1>1. IInv => FeesAccounted
  <2> SUFFICES ASSUME IInv
               PROVE  FeesAccounted
    OBVIOUS
  <2>1. Balanced(store["block"], ledger, kept) /\ Balanced(committed, kept, kept)
    BY DEF IInv, Agree
  <2>2. \A l, route : FeesOf(l, route) = Fees(l, route)
    BY DEF FeesOf, Fees, FeeOf, By
  <2>3. Fees(kept, "evm") \in Int
    BY FeesType DEF IInv, Types
  <2>4. Outlays(store["block"]) = Spent(store["block"])
    BY DEF Outlays, Spent, Outlay
  <2> QED
    BY <2>1, <2>2, <2>3, <2>4 DEF Balanced, FeesAccounted
<1> QED
  BY <1>1, Invariance, PTL

\* Whatever the pool makes of it (app.go:797-804), what CheckTx has let through since the
\* last commit has its sender's next sequences, in order and without a gap, and has been
\* charged for in CheckTx's store.
THEOREM CheckTxRunsAhead == Spec => []CheckedInOrder
<1>1. IInv => CheckedInOrder
  BY DEF IInv, RunsAhead, CheckedInOrder, PassedOf, AheadOf, PassedFee
<1> QED
  BY <1>1, Invariance, PTL

=============================================================================
