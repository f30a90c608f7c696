-------------------------- MODULE PoaBlocks_proofs --------------------------
(***************************************************************************)
(* Theorems about PoaBlocks, for any validators and operators and blocks   *)
(* of every size: CometBFT follows POA, the EVM finds a proposer whose     *)
(* entry is as old as the set that CometBFT uses, and the POA account has  *)
(* the fees and nothing else.                                              *)
(***************************************************************************)
EXTENDS PoaBlocks, WellFoundedInduction, TLAPS

-----------------------------------------------------------------------------
(* The modules that have still to end the block.                           *)

Modules == {
    "genutil", "gov", "poa", "bank", "auth", "evm", "erc20", "feemarket", "ibc",
    "transfer", "upgrade", "consensus", "gmp", "tokenfactory", "ift"}

\* Module m is one of s.
Left(m, s) == \E i \in DOMAIN s : s[i] = m

\* Whatever governance changes POA has still to report.
GovFirst(s) ==
    /\ \A i, j \in DOMAIN s : s[i] = "gov" /\ s[j] = "poa" => i < j
    /\ Left("gov", s) => Left("poa", s)

LEMMA EndBlockersFacts ==
    /\ EndBlockers \in Seq(Modules)
    /\ GovFirst(EndBlockers)
    /\ Left("gov", EndBlockers) /\ Left("poa", EndBlockers) /\ Left("bank", EndBlockers)
<1>1. EndBlockers \in Seq(Modules) /\ DOMAIN EndBlockers = 1..15
  <2>1. EndBlockers \in Seq(Modules)
    BY DEF EndBlockers, Modules
  <2>2. Len(EndBlockers) = 15
    BY DEF EndBlockers
  <2>3. DOMAIN EndBlockers = 1..Len(EndBlockers)
    BY <2>1
  <2> QED
    BY <2>1, <2>2, <2>3
<1>2. EndBlockers[2] = "gov" /\ EndBlockers[3] = "poa" /\ EndBlockers[4] = "bank"
  BY DEF EndBlockers
<1>3. ASSUME NEW i \in 1..15, EndBlockers[i] = "gov" PROVE i = 2
  BY <1>3 DEF EndBlockers
<1>4. ASSUME NEW i \in 1..15, EndBlockers[i] = "poa" PROVE i = 3
  BY <1>4 DEF EndBlockers
<1> QED
  BY <1>1, <1>2, <1>3, <1>4 DEF GovFirst, Left

LEMMA TailFacts ==
    ASSUME NEW s \in Seq(Modules), s # <<>>, GovFirst(s)
    PROVE  /\ Tail(s) \in Seq(Modules)
           /\ GovFirst(Tail(s))
           /\ \A m : Left(m, s) <=> Left(m, Tail(s)) \/ Head(s) = m
           /\ Head(s) = "poa" => ~Left("gov", Tail(s))
<1> DEFINE t == Tail(s)
<1>1. /\ t \in Seq(Modules) /\ Len(s) \in Nat /\ Len(s) >= 1
      /\ DOMAIN s = 1..Len(s) /\ DOMAIN t = 1..(Len(s) - 1)
      /\ \A i \in 1..(Len(s) - 1) : t[i] = s[i + 1]
      /\ Head(s) = s[1]
  OBVIOUS
<1> HIDE DEF t
<1>2. ASSUME NEW m, Left(m, s) PROVE Left(m, t) \/ Head(s) = m
  <2>1. PICK i \in DOMAIN s : s[i] = m
    BY <1>2 DEF Left
  <2>2. CASE i = 1
    BY <1>1, <2>1, <2>2
  <2>3. CASE i # 1
    <3>1. i - 1 \in DOMAIN t /\ t[i - 1] = s[i]
      BY <1>1, <2>3
    <3> QED
      BY <2>1, <3>1 DEF Left
  <2> QED
    BY <2>2, <2>3
<1>3. ASSUME NEW m, Left(m, t) \/ Head(s) = m PROVE Left(m, s)
  <2>1. CASE Head(s) = m
    BY <1>1, <2>1 DEF Left
  <2>2. CASE Left(m, t)
    <3>1. PICK i \in DOMAIN t : t[i] = m
      BY <2>2 DEF Left
    <3>2. i + 1 \in DOMAIN s /\ s[i + 1] = m
      BY <1>1, <3>1
    <3> QED
      BY <3>2 DEF Left
  <2> QED
    BY <1>3, <2>1, <2>2
<1>4. ASSUME NEW i \in DOMAIN t, NEW j \in DOMAIN t, t[i] = "gov", t[j] = "poa" PROVE i < j
  <2>1. i + 1 \in DOMAIN s /\ j + 1 \in DOMAIN s /\ s[i + 1] = "gov" /\ s[j + 1] = "poa"
    BY <1>1, <1>4
  <2>2. i + 1 < j + 1
    BY <2>1 DEF GovFirst
  <2> QED
    BY <1>1, <2>2
<1>5. ASSUME Head(s) = "poa" PROVE ~Left("gov", t)
  <2> SUFFICES ASSUME NEW i \in DOMAIN t, t[i] = "gov" PROVE FALSE
    BY DEF Left
  <2>1. i + 1 \in DOMAIN s /\ s[i + 1] = "gov" /\ 1 \in DOMAIN s /\ s[1] = "poa"
    BY <1>1, <1>5
  <2>2. i + 1 < 1
    BY <2>1 DEF GovFirst
  <2> QED
    BY <1>1, <2>2
<1>6. Left("gov", t) => Left("poa", t)
  BY <1>2, <1>3, <1>5 DEF GovFirst
<1> QED
  BY <1>1, <1>2, <1>3, <1>4, <1>5, <1>6 DEF GovFirst, t

-----------------------------------------------------------------------------
(* The iteration over the validators.                                      *)

LEMMA FirstIsFirst ==
    ASSUME NEW places \in SUBSET Nat, places # {}
    PROVE  First(places) \in places
<1>1. IsWellFoundedOn(OpToRel(<, Nat), Nat)
  BY NatLessThanWellFounded
<1>2. PICK i \in places : \A j \in places : ~(<<j, i>> \in OpToRel(<, Nat))
  BY <1>1, WFMin
<1>3. ASSUME NEW j \in places PROVE i <= j
  <2>1. ~(j < i)
    BY <1>2 DEF OpToRel
  <2> QED
    BY <2>1
<1> QED
  BY <1>3 DEF First

\* An active validator with an account address is found, whoever comes before it.
LEMMA ActiveIsFound ==
    ASSUME NEW v \in Active, operator \in [Validator -> Operators \cup {None}],
           operator[v] \notin Undecodable
    PROVE  GetValidatorByConsAddr(v) = ValAddress(operator[v])
<1>1. \A i \in StopsAt(v) : Validators[i] = v
  BY DEF StopsAt, Callback
<1>2. Callback(v, v) = [stop |-> TRUE, found |-> ValAddress(operator[v])]
  BY DEF Callback
<1>3. StopsAt(v) # {}
  <2>1. PICK i \in DOMAIN Validators : Validators[i] = v
    BY DEF Active, Validator, ToSet
  <2> QED
    BY <1>2, <2>1 DEF StopsAt
<1>4. StopsAt(v) \subseteq Nat
  BY PoaAssumption DEF StopsAt
<1>5. Validators[First(StopsAt(v))] = v
  BY <1>1, <1>3, <1>4, FirstIsFirst
<1> QED
  BY <1>2, <1>3, <1>5 DEF GetValidatorByConsAddr

-----------------------------------------------------------------------------
(* The invariant.                                                          *)

\* A validator that CometBFT uses in this block and whose entry has not changed in
\* this block or the one before is active; one that it will use in the next, if its
\* entry has not changed in this block.
Following ==
    /\ stage = "idle" =>
        /\ soon = Active
        /\ \A v \in now : age[v] >= 1 => v \in Active
    /\ stage # "idle" =>
        /\ \A v \in now : age[v] = 2 => v \in Active
        /\ \A v \in soon : age[v] >= 1 => v \in Active

\* Once POA has ended the block nobody changes its entries, and what governance had
\* passed is executed.
Reporting ==
    /\ rest \in Seq(Modules) /\ GovFirst(rest)
    /\ stage = "ending" /\ ~Left("gov", rest) => proposal = None
    /\ stage = "ending" /\ ~Left("poa", rest) => told = Active

\* Every fee is on the POA account or in the object store, and nothing else is.
Fees ==
    /\ virtual \in Nat /\ balance \in Nat /\ paid \in Nat
    /\ virtual + balance = paid
    /\ stage = "ending" /\ ~Left("bank", rest) => virtual = 0

IInv ==
    /\ TypeOK
    /\ Following
    /\ Reporting
    /\ Fees
    /\ lookup # None => lookup.proposer \in Validator
    /\ UntouchedProposerFound

-----------------------------------------------------------------------------
(* The steps.                                                              *)

LEMMA InvInit == Init => IInv
<1> SUFFICES ASSUME Init PROVE IInv
  OBVIOUS
<1>1. operator \in [Validator -> Operators \cup {None}] /\ Active # {} /\ Active \subseteq Validator
  BY DEF Init, Active
<1>2. TypeOK
  BY <1>1 DEF Init, TypeOK
<1>3. Following
  BY DEF Init, Following
<1>4. Reporting
  BY DEF Init, Reporting, GovFirst, Left
<1>5. Fees
  BY DEF Init, Fees
<1> QED
  BY <1>2, <1>3, <1>4, <1>5 DEF Init, IInv, UntouchedProposerFound

\* A change of an entry leaves a validator, and the other entries.
LEMMA ApplyFacts ==
    ASSUME TypeOK, NEW change \in Changes, Apply(change)
    PROVE  /\ operator' \in [Validator -> Operators \cup {None}]
           /\ age' \in [Validator -> 0..2]
           /\ Active' # {}
           /\ \A v \in Validator : age'[v] >= 1 => age'[v] = age[v] /\ operator'[v] = operator[v]
<1> DEFINE w == change.validator
           o == change.operator
<1>1. w \in Validator /\ o \in Operators \cup {None}
  BY DEF Changes
<1>2. operator \in [Validator -> Operators \cup {None}] /\ age \in [Validator -> 0..2] /\ Active # {}
  BY DEF TypeOK
<1>3. operator' = [operator EXCEPT ![w] = o] /\ age' = [age EXCEPT ![w] = 0]
  BY DEF Apply
<1>4. o # None \/ Active # {w}
  BY DEF Apply, Possible
<1> HIDE DEF w, o
<1>5. /\ operator' \in [Validator -> Operators \cup {None}] /\ age' \in [Validator -> 0..2]
      /\ operator'[w] = o /\ age'[w] = 0
      /\ \A v \in Validator \ {w} : operator'[v] = operator[v] /\ age'[v] = age[v]
  BY <1>1, <1>2, <1>3
<1>6. Active' # {}
  <2>1. CASE o # None
    BY <1>1, <1>5, <2>1 DEF Active
  <2>2. CASE Active # {w}
    <3>1. PICK v \in Active : v # w
      BY <1>2, <2>2
    <3> QED
      BY <1>5, <3>1 DEF Active
  <2> QED
    BY <1>4, <2>1, <2>2
<1>7. ASSUME NEW v \in Validator, age'[v] >= 1
      PROVE  age'[v] = age[v] /\ operator'[v] = operator[v]
  <2>1. v # w
    BY <1>5, <1>7
  <2> QED
    BY <1>5, <2>1
<1> QED
  BY <1>5, <1>6, <1>7

\* What a step of a block keeps that changes entries of POA or none, but no set of
\* CometBFT's and neither stage nor proposer.
LEMMA EntriesKeep ==
    ASSUME IInv, stage # "idle", UNCHANGED <<now, soon, proposer, lookup>>, stage' = stage,
           \/ UNCHANGED <<operator, age>>
           \/ \E change \in Changes : Apply(change)
    PROVE  /\ operator' \in [Validator -> Operators \cup {None}]
           /\ age' \in [Validator -> 0..2]
           /\ Active' # {} /\ Active' \subseteq Validator
           /\ Following'
           /\ UntouchedProposerFound'
<1>1. /\ operator' \in [Validator -> Operators \cup {None}]
      /\ age' \in [Validator -> 0..2]
      /\ Active' # {}
      /\ \A v \in Validator : age'[v] >= 1 => age'[v] = age[v] /\ operator'[v] = operator[v]
  <2>1. CASE UNCHANGED <<operator, age>>
    BY <2>1 DEF IInv, TypeOK, Active
  <2>2. CASE \E change \in Changes : Apply(change)
    BY <2>2, ApplyFacts DEF IInv
  <2> QED
    BY <2>1, <2>2
<1>2. ASSUME NEW v \in Validator, age'[v] >= 1, v \in Active PROVE v \in Active'
  BY <1>1, <1>2 DEF Active
<1>3. now \subseteq Validator /\ soon \subseteq Validator
  BY DEF IInv, TypeOK
<1>4. Following'
  <2>1. ASSUME NEW v \in now, age'[v] = 2 PROVE v \in Active'
    <3>1. v \in Validator /\ age'[v] >= 1 /\ age[v] = 2
      BY <1>1, <1>3, <2>1
    <3> QED
      BY <1>2, <3>1 DEF IInv, Following
  <2>2. ASSUME NEW v \in soon, age'[v] >= 1 PROVE v \in Active'
    <3>1. v \in Validator /\ age[v] >= 1
      BY <1>1, <1>3, <2>2
    <3> QED
      BY <1>2, <2>2, <3>1 DEF IInv, Following
  <2> QED
    BY <2>1, <2>2 DEF Following
<1>5. UntouchedProposerFound'
  <2> SUFFICES ASSUME lookup # None, lookup.found = None
               PROVE  operator'[lookup.proposer] \in Undecodable \/ age'[lookup.proposer] <= 1
    BY DEF UntouchedProposerFound
  <2> DEFINE p == lookup.proposer
  <2>1. p \in Validator /\ (operator[p] \in Undecodable \/ age[p] <= 1)
    BY DEF IInv, UntouchedProposerFound
  <2>2. age'[p] \in 0..2
    BY <1>1, <2>1
  <2> HIDE DEF p
  <2>3. CASE age'[p] >= 1
    BY <1>1, <2>1, <2>3 DEF p
  <2>4. CASE ~(age'[p] >= 1)
    BY <2>2, <2>4 DEF p
  <2> QED
    BY <2>3, <2>4 DEF p
<1> QED
  BY <1>1, <1>4, <1>5 DEF Active

LEMMA BeginBlockStep == IInv /\ BeginBlock => IInv'
<1> SUFFICES ASSUME IInv, BeginBlock PROVE IInv'
  OBVIOUS
<1>1. /\ stage = "idle" /\ stage' = "txs" /\ proposer' \in now /\ lookup' = None
      /\ age' = [v \in Validator |-> IF age[v] < 2 THEN age[v] + 1 ELSE 2]
      /\ virtual' = 0 /\ balance' = 0 /\ paid' = 0
      /\ UNCHANGED <<operator, now, soon, told, rest, proposal>>
  BY DEF BeginBlock
<1>2. Active' = Active
  BY <1>1 DEF Active
<1>3. /\ age' \in [Validator -> 0..2]
      /\ \A v \in Validator : age'[v] = 2 => age[v] >= 1
  BY <1>1 DEF IInv, TypeOK
<1>4. proposer' # None
  BY <1>1, PoaAssumption DEF IInv, TypeOK
<1>5. TypeOK'
  BY <1>1, <1>2, <1>3, <1>4 DEF IInv, TypeOK
<1>6. Following'
  BY <1>1, <1>2, <1>3 DEF IInv, TypeOK, Following
<1>7. Reporting' /\ Fees'
  BY <1>1 DEF IInv, Reporting, Fees
<1> QED
  BY <1>1, <1>5, <1>6, <1>7 DEF IInv, UntouchedProposerFound

\* A transaction that changes no entry, and what it pays.
LEMMA DeliverKeeps ==
    ASSUME IInv, Deliver, UNCHANGED <<operator, age>>,
           proposal' # None => proposal' \in Changes,
           Fees', lookup' # None => lookup'.proposer \in Validator, UntouchedProposerFound'
    PROVE  IInv'
<1>1. stage = "txs" /\ stage' = "txs" /\ UNCHANGED <<now, soon, told, rest, proposer>>
  BY DEF Deliver
<1>2. Active' = Active
  BY DEF Active
<1>3. TypeOK'
  BY <1>1, <1>2 DEF IInv, TypeOK
<1>4. Following'
  BY <1>1, <1>2 DEF IInv, Following
<1>5. Reporting'
  BY <1>1 DEF IInv, Reporting
<1> QED
  BY <1>3, <1>4, <1>5 DEF IInv

LEMMA FeeFacts ==
    ASSUME Fees, stage = "txs", stage' = "txs", paid' = paid + 1,
           \/ balance' = balance + Received /\ virtual' = virtual
           \/ balance' = balance /\ virtual' = virtual + 1
    PROVE  Fees'
  BY DEF Fees, Received, FeeRecipient

LEMMA EthereumTxStep == IInv /\ EthereumTx => IInv'
<1> SUFFICES ASSUME IInv, EthereumTx PROVE IInv'
  OBVIOUS
<1> DEFINE found == GetValidatorByConsAddr(proposer)
<1>1. /\ Deliver /\ stage = "txs" /\ stage' = "txs"
      /\ lookup' = [proposer |-> proposer, found |-> found]
      /\ UNCHANGED <<operator, proposal, balance, age>>
  BY DEF EthereumTx, Deliver
<1>2. \/ UNCHANGED <<virtual, paid>>
      \/ virtual' = virtual + 1 /\ paid' = paid + 1
  BY DEF EthereumTx
<1>3. Fees'
  <2>1. Fees
    BY DEF IInv
  <2>2. CASE UNCHANGED <<virtual, paid>>
    BY <1>1, <2>1, <2>2 DEF Fees
  <2>3. CASE virtual' = virtual + 1 /\ paid' = paid + 1
    BY <1>1, <2>1, <2>3, FeeFacts
  <2> QED
    BY <1>2, <2>2, <2>3
<1>4. proposer \in now /\ now \subseteq Validator /\ age \in [Validator -> 0..2]
      /\ operator \in [Validator -> Operators \cup {None}]
  BY <1>1 DEF IInv, TypeOK
<1>5. ASSUME age[proposer] = 2, operator[proposer] \notin Undecodable PROVE found # None
  <2>1. proposer \in Active
    BY <1>1, <1>4, <1>5 DEF IInv, Following
  <2>2. found = ValAddress(operator[proposer])
    BY <1>4, <1>5, <2>1, ActiveIsFound
  <2>3. operator[proposer] \in Operators
    BY <1>4, <2>1 DEF Active
  <2> QED
    BY <2>2, <2>3, PoaAssumption DEF ValAddress
<1>6. lookup'.proposer = proposer /\ lookup'.found = found
  BY <1>1
<1> HIDE DEF found
<1>7. UntouchedProposerFound'
  <2>1. age[proposer] = 2 \/ age[proposer] <= 1
    BY <1>4
  <2> QED
    BY <1>1, <1>5, <1>6, <2>1 DEF UntouchedProposerFound
<1> QED
  BY <1>1, <1>3, <1>4, <1>6, <1>7, DeliverKeeps DEF IInv, TypeOK

LEMMA MsgSendStep == IInv /\ MsgSend => IInv'
<1> SUFFICES ASSUME IInv, MsgSend PROVE IInv'
  OBVIOUS
<1>1. /\ Deliver /\ stage = "txs" /\ stage' = "txs" /\ paid' = paid + 1
      /\ balance' = balance + Received + 0
      /\ UNCHANGED <<operator, proposal, virtual, lookup, age>>
  BY DEF MsgSend, Deliver, blockedAddresses
<1>2. Fees'
  BY <1>1, FeeFacts DEF IInv, Received, FeeRecipient, Fees
<1> QED
  BY <1>1, <1>2, DeliverKeeps DEF IInv, TypeOK, UntouchedProposerFound

LEMMA VoteStep == ASSUME NEW change \in Changes PROVE IInv /\ Vote(change) => IInv'
<1> SUFFICES ASSUME IInv, Vote(change) PROVE IInv'
  OBVIOUS
<1>1. /\ Deliver /\ stage = "txs" /\ stage' = "txs" /\ Fee /\ proposal' = change
      /\ UNCHANGED <<operator, virtual, lookup, age>>
  BY DEF Vote, Deliver
<1>2. Fees'
  BY <1>1, FeeFacts DEF IInv, Fee
<1> QED
  BY <1>1, <1>2, DeliverKeeps DEF IInv, UntouchedProposerFound

LEMMA UpdateValidatorsStep ==
    ASSUME NEW change \in Changes PROVE IInv /\ UpdateValidatorsTx(change) => IInv'
<1> SUFFICES ASSUME IInv, UpdateValidatorsTx(change) PROVE IInv'
  OBVIOUS
<1>1. /\ stage = "txs" /\ stage' = "txs" /\ Fee /\ Apply(change)
      /\ UNCHANGED <<now, soon, told, rest, proposer, proposal, virtual, lookup>>
  BY DEF UpdateValidatorsTx, Deliver
<1>2. Fees'
  BY <1>1, FeeFacts DEF IInv, Fee
<1>3. /\ operator' \in [Validator -> Operators \cup {None}] /\ age' \in [Validator -> 0..2]
      /\ Active' # {} /\ Following' /\ UntouchedProposerFound'
  BY <1>1, EntriesKeep
<1>4. TypeOK'
  BY <1>1, <1>3 DEF IInv, TypeOK
<1> QED
  BY <1>1, <1>2, <1>3, <1>4 DEF IInv, Reporting

LEMMA EndTxsStep == IInv /\ EndTxs => IInv'
<1> SUFFICES ASSUME IInv, EndTxs PROVE IInv'
  OBVIOUS
<1>1. /\ stage = "txs" /\ stage' = "ending" /\ rest' = EndBlockers
      /\ UNCHANGED <<operator, now, soon, told, proposer, proposal, virtual, balance,
                     lookup, paid, age>>
  BY DEF EndTxs
<1>2. Active' = Active
  BY <1>1 DEF Active
<1>3. Reporting' /\ Fees'
  BY <1>1, EndBlockersFacts DEF IInv, Reporting, Fees
<1>4. TypeOK' /\ Following'
  BY <1>1, <1>2 DEF IInv, TypeOK, Following
<1> QED
  BY <1>1, <1>3, <1>4 DEF IInv, UntouchedProposerFound

\* A module ends the block, and changes entries of POA or none.
LEMMA EndsKeep ==
    ASSUME IInv, NEW m, Ends(m),
           \/ UNCHANGED <<operator, age>>
           \/ \E change \in Changes : Apply(change),
           told' # {} /\ told' \subseteq Validator,
           proposal' # None => proposal' \in Changes,
           ~Left("gov", rest') => proposal' = None,
           ~Left("poa", rest') => told' = Active',
           Fees'
    PROVE  IInv'
<1>1. /\ stage = "ending" /\ stage' = "ending" /\ rest # <<>> /\ rest' = Tail(rest)
      /\ UNCHANGED <<now, soon, proposer, lookup, paid>>
  BY DEF Ends
<1>2. /\ operator' \in [Validator -> Operators \cup {None}] /\ age' \in [Validator -> 0..2]
      /\ Active' # {} /\ Following' /\ UntouchedProposerFound'
  BY <1>1, EntriesKeep
<1>3. TypeOK'
  BY <1>1, <1>2 DEF IInv, TypeOK
<1>4. rest' \in Seq(Modules) /\ GovFirst(rest')
  BY <1>1, TailFacts DEF IInv, Reporting
<1> QED
  BY <1>1, <1>2, <1>3, <1>4 DEF IInv, Reporting

LEMMA EndBlockStep == IInv /\ EndBlock => IInv'
<1> SUFFICES ASSUME IInv, EndBlock PROVE IInv'
  OBVIOUS
<1>1. rest \in Seq(Modules) /\ GovFirst(rest) /\ (stage = "ending" /\ ~Left("poa", rest) => told = Active)
  BY DEF IInv, Reporting
<1>2. stage = "ending" /\ ~Left("gov", rest) => proposal = None
  BY DEF IInv, Reporting
<1>3. /\ told # {} /\ told \subseteq Validator
      /\ proposal # None => proposal \in Changes
      /\ Active # {} /\ Active \subseteq Validator
  BY DEF IInv, TypeOK, Active
<1>4. CASE GovEndBlock
  <2>1. /\ Ends("gov") /\ proposal' = None /\ UNCHANGED <<told, virtual, balance>>
        /\ rest # <<>> /\ rest' = Tail(rest) /\ Head(rest) = "gov" /\ UNCHANGED <<stage, paid>>
    BY <1>4 DEF GovEndBlock, Ends
  <2>2. UNCHANGED <<operator, age>> \/ \E change \in Changes : Apply(change)
    BY <1>3, <1>4 DEF GovEndBlock
  <2>3. Left("gov", rest)
    BY <1>1, <2>1, TailFacts
  <2>4. Left("poa", rest')
    BY <1>1, <2>1, <2>3, TailFacts DEF GovFirst
  <2>5. ~Left("bank", rest') => ~Left("bank", rest)
    BY <1>1, <2>1, TailFacts
  <2>6. Fees'
    BY <2>1, <2>5 DEF IInv, Fees
  <2> QED
    BY <1>3, <2>1, <2>2, <2>4, <2>6, EndsKeep
<1>5. CASE PoaEndBlock
  <2>1. /\ Ends("poa") /\ told' = Active /\ UNCHANGED <<operator, age, proposal, virtual, balance>>
        /\ rest # <<>> /\ rest' = Tail(rest) /\ Head(rest) = "poa" /\ UNCHANGED <<stage, paid>>
        /\ stage = "ending"
    BY <1>5 DEF PoaEndBlock, Ends
  <2>2. Active' = Active
    BY <2>1 DEF Active
  <2>3. /\ ~Left("gov", rest') => ~Left("gov", rest)
        /\ ~Left("bank", rest') => ~Left("bank", rest)
    BY <1>1, <2>1, TailFacts
  <2>4. Fees'
    BY <2>1, <2>3 DEF IInv, Fees
  <2> QED
    BY <1>2, <1>3, <2>1, <2>2, <2>3, <2>4, EndsKeep
<1>6. CASE BankEndBlock
  <2>1. /\ Ends("bank") /\ balance' = balance + virtual /\ virtual' = 0
        /\ UNCHANGED <<operator, age, proposal, told>>
        /\ rest # <<>> /\ rest' = Tail(rest) /\ Head(rest) = "bank" /\ UNCHANGED <<stage, paid>>
        /\ stage = "ending"
    BY <1>6 DEF BankEndBlock, Ends
  <2>2. Active' = Active
    BY <2>1 DEF Active
  <2>3. /\ ~Left("gov", rest') => ~Left("gov", rest)
        /\ ~Left("poa", rest') => ~Left("poa", rest)
    BY <1>1, <2>1, TailFacts
  <2>4. Fees'
    BY <2>1 DEF IInv, Fees
  <2> QED
    BY <1>1, <1>2, <1>3, <2>1, <2>2, <2>3, <2>4, EndsKeep
<1>7. CASE OtherEndBlock
  <2>1. PICK m \in ToSet(EndBlockers) \ {"gov", "poa", "bank"} : Ends(m)
    BY <1>7 DEF OtherEndBlock
  <2>2. /\ UNCHANGED <<operator, age, proposal, told, virtual, balance>>
        /\ rest # <<>> /\ rest' = Tail(rest) /\ Head(rest) = m /\ UNCHANGED <<stage, paid>>
        /\ stage = "ending"
    BY <1>7, <2>1 DEF OtherEndBlock, Ends
  <2>3. Active' = Active
    BY <2>2 DEF Active
  <2>4. /\ ~Left("gov", rest') => ~Left("gov", rest)
        /\ ~Left("poa", rest') => ~Left("poa", rest)
        /\ ~Left("bank", rest') => ~Left("bank", rest)
    BY <1>1, <2>1, <2>2, TailFacts
  <2>5. Fees'
    BY <2>2, <2>4 DEF IInv, Fees
  <2> QED
    BY <1>1, <1>2, <1>3, <2>1, <2>2, <2>3, <2>4, <2>5, EndsKeep
<1> QED
  BY <1>4, <1>5, <1>6, <1>7 DEF EndBlock

LEMMA CommitStep == IInv /\ Commit => IInv'
<1> SUFFICES ASSUME IInv, Commit PROVE IInv'
  OBVIOUS
<1>1. /\ stage = "ending" /\ rest = <<>> /\ stage' = "idle" /\ now' = soon /\ soon' = told
      /\ virtual' = 0 /\ proposer' = None
      /\ UNCHANGED <<operator, told, rest, proposal, balance, lookup, paid, age>>
  BY DEF Commit
<1>2. \A m : ~Left(m, rest)
  BY <1>1 DEF Left
<1>3. told = Active /\ virtual = 0
  BY <1>1, <1>2 DEF IInv, Reporting, Fees
<1>4. Active' = Active
  BY <1>1 DEF Active
<1>5. proposal = None
  BY <1>1, <1>2 DEF IInv, Reporting
<1>6. TypeOK'
  BY <1>1, <1>4, <1>5 DEF IInv, TypeOK
<1>7. Following'
  BY <1>1, <1>3, <1>4 DEF IInv, Following
<1>8. Reporting' /\ Fees'
  BY <1>1, <1>3 DEF IInv, Reporting, Fees
<1> QED
  BY <1>1, <1>6, <1>7, <1>8 DEF IInv, UntouchedProposerFound

LEMMA InvNext == IInv /\ [Next]_vars => IInv'
<1> SUFFICES ASSUME IInv, [Next]_vars PROVE IInv'
  OBVIOUS
<1>1. CASE UNCHANGED vars
  BY <1>1 DEF vars, IInv, TypeOK, Following, Reporting, Fees, UntouchedProposerFound, Active
<1> QED
  BY <1>1, BeginBlockStep, EndTxsStep, EndBlockStep, CommitStep, EthereumTxStep, MsgSendStep,
     UpdateValidatorsStep, VoteStep DEF Next, Block

LEMMA Invariance == Spec => []IInv
  BY InvInit, InvNext, PTL DEF Spec

\* POA always has a validator, CometBFT too, and the proposer of a block is one of
\* those that CometBFT uses in it (app.go:600).
THEOREM TypeCorrect == Spec => []TypeOK
<1>1. IInv => TypeOK
  BY DEF IInv
<1> QED
  BY <1>1, Invariance, PTL

\* Any number of validators: after a block CometBFT will go on with the set that POA
\* has, since governance ends the block before POA (app.go:602).
THEOREM CometAlwaysFollows == Spec => []CometFollows
<1>1. IInv => CometFollows
  BY DEF IInv, Following, CometFollows
<1> QED
  BY <1>1, Invariance, PTL

\* Whatever validators the iteration comes to before the proposer, and whatever
\* became of their entries, a proposer whose own entry is good and at least two
\* blocks old is found (app.go:180-203).
THEOREM UntouchedProposersAreFound == Spec => []UntouchedProposerFound
<1>1. IInv => UntouchedProposerFound
  BY DEF IInv
<1> QED
  BY <1>1, Invariance, PTL

\* Blocks of any number of transactions: no fee is lost between the object store and
\* the POA account, and no user can add to what POA distributes (app.go:354, 604, 861).
THEOREM FeesAreExact == Spec => []FeesExact
<1>1. ASSUME IInv PROVE FeesExact
  <2>1. balance <= paid
    BY <1>1 DEF IInv, Fees
  <2>2. ASSUME stage = "ending", rest = <<>> PROVE balance >= paid
    <3>1. ~Left("bank", rest)
      BY <2>2 DEF Left
    <3> QED
      BY <1>1, <2>2, <3>1 DEF IInv, Fees
  <2> QED
    BY <2>1, <2>2 DEF FeesExact
<1> QED
  BY <1>1, Invariance, PTL

\* A removed validator whose entry is two blocks old can no longer propose.
RemovedHasLeft == \A v \in Validator \ Active : age[v] = 2 => v \notin now

\* The safety part of RemovedLeaves, with no fairness: from two blocks after its removal on
\* no block has the validator as proposer (app.go:602).
THEOREM TheRemovedHaveLeft == Spec => []RemovedHasLeft
<1>1. IInv => RemovedHasLeft
  BY DEF IInv, Following, RemovedHasLeft, TypeOK
<1> QED
  BY <1>1, Invariance, PTL

=============================================================================
