---------------------------- MODULE AnteRouting -----------------------------
(***************************************************************************)
(* NewPOAEVMAnteHandler of app/ante.go: which chain of decorators a        *)
(* transaction meets, and what becomes of it, decorator by decorator.      *)
(*                                                                         *)
(* A run works on a branch of a store: that of CheckTx, that of the block, *)
(* or, for a simulation, one that is never written back.  BaseApp, which   *)
(* is not in the repository, writes the branch back when the last          *)
(* decorator has passed and drops it when one refuses.  What comes after,  *)
(* the messages in a block and the insertion into the pool in CheckTx, can *)
(* fail as it may: the branch stays written.                               *)
(*                                                                         *)
(* The EVM takes its fees virtually (EnableVirtualFeeCollection, on the    *)
(* object store of the bank keeper): they reach the POA account when bank  *)
(* ends the block.  What the listener tells whom is in PendingTxListeners. *)
(***************************************************************************)
EXTENDS Integers, Sequences, FiniteSets, Functions

CONSTANTS
    Account,
    Tx,              \* the transactions there are
    Funds,           \* what every account has at first
    Prices           \* the gas prices the fee market can ask for

\* Of a transaction: its extension options, the kinds of its messages, its
\* sender, sequence and fee, and the decorator it fails for a reason of its
\* own (a bad signature, a long memo, ...), or "none".
OptionType == {"ethereum", "dynamicFee", "other"}
MessageType == {"ethereum", "nestedEthereum", "cosmos"}

\* BaseApp takes no transaction without messages.
ASSUME TxAssumption ==
    \A tx \in Tx :
        /\ tx.options \in Seq(OptionType)
        /\ tx.messages \in (SUBSET MessageType) \ {{}}
        /\ tx.sender \in Account /\ tx.sequence \in Nat /\ tx.fee \in Nat

ASSUME AccountAssumption == IsFiniteSet(Account)

ASSUME AmountsAssumption ==
    /\ Funds \in Nat /\ Prices \subseteq Nat
    /\ \E p \in Prices : \A q \in Prices : p <= q

Stores == {"check", "block"}
Modes == Stores \cup {"simulate"}

VARIABLES
    store,       \* the store of CheckTx and that of the block
    committed,   \* the store at the last commit
    run,         \* the run under way, or Idle
    ledger,      \* history: the runs that were written to the block's store
    kept,        \* history: the ledger at the last commit
    passed       \* history: the runs that were written to CheckTx's store since
                 \* the last commit, and whether the pool then took them

vars == <<store, committed, run, ledger, kept, passed>>

Idle == [mode |-> "idle"]

-----------------------------------------------------------------------------
(* The chains. *)

EVMAnte == <<"EVMMono", "TxListener">>

\* Mutation: the sequence is not incremented.
POACosmosAnteNoIncrement == <<
    "RejectMessages", "AuthzLimiter", "SetUpContext", "ExtensionOptions",
    "ValidateBasic", "TxTimeoutHeight", "ValidateMemo", "MinGasPrice",
    "ConsumeGasForTxSize", "DeductFee", "SetPubKey", "ValidateSigCount",
    "SigGasConsume", "SigVerification", "RedundantRelay">>

\* Mutation: messages inside authz messages are not looked at.
POACosmosAnteNoLimiter == <<
    "RejectMessages", "SetUpContext", "ExtensionOptions",
    "ValidateBasic", "TxTimeoutHeight", "ValidateMemo", "MinGasPrice",
    "ConsumeGasForTxSize", "DeductFee", "SetPubKey", "ValidateSigCount",
    "SigGasConsume", "SigVerification", "IncrementSequence", "RedundantRelay">>

POACosmosAnte == <<
    "RejectMessages", "AuthzLimiter", "SetUpContext", "ExtensionOptions",
    "ValidateBasic", "TxTimeoutHeight", "ValidateMemo", "MinGasPrice",
    "ConsumeGasForTxSize", "DeductFee", "SetPubKey", "ValidateSigCount",
    "SigGasConsume", "SigVerification", "IncrementSequence", "RedundantRelay">>

\* Mutation: an option nobody knows selects a handler like any other.
RouteOther(tx) ==
    IF tx.options = <<>> THEN "cosmos"
    ELSE CASE Head(tx.options) = "ethereum" -> "evm"
           [] Head(tx.options) = "dynamicFee" -> "cosmos"
           [] OTHER -> "other"

\* The first option selects; without options it is a Cosmos transaction.
Route(tx) ==
    IF tx.options = <<>> THEN "cosmos"
    ELSE CASE Head(tx.options) = "ethereum" -> "evm"
           [] Head(tx.options) = "dynamicFee" -> "cosmos"
           [] OTHER -> "none"

Chain(route) == IF route = "evm" THEN EVMAnte ELSE POACosmosAnte

-----------------------------------------------------------------------------
(* The decorators, on the branch s with the price that was read for the run. *)

\* Mutation: the price is that of the start of the node.
PriceOfStart(s) == CHOOSE p \in Prices : \A q \in Prices : p <= q

\* Both chains are built anew for each run, from the fee market's parameters
\* in its context.
PriceFor(s) == s.price

Affords(tx, s) == tx.fee <= s.balance[tx.sender]
InSequence(tx, s) == tx.sequence = s.sequence[tx.sender]

\* What each decorator looks at in the state; the rest is the transaction's own.
Accepts(d, tx, s, price) ==
    /\ tx.fails # d
    /\ d = "EVMMono" =>
        /\ Len(tx.options) = 1
        /\ tx.messages = {"ethereum"}
        /\ tx.fee >= price
        /\ Affords(tx, s)
        /\ InSequence(tx, s)
    /\ d = "RejectMessages" => "ethereum" \notin tx.messages
    /\ d = "AuthzLimiter" => "nestedEthereum" \notin tx.messages
    /\ d = "ExtensionOptions" => \A i \in DOMAIN tx.options : tx.options[i] = "dynamicFee"
    /\ d \in {"MinGasPrice", "DeductFee"} => tx.fee >= price
    /\ d = "DeductFee" => Affords(tx, s)
    /\ d = "SigVerification" => InSequence(tx, s)

Charge(s, tx, to) ==
    [s EXCEPT !.balance[tx.sender] = @ - tx.fee, !.fees[to] = @ + tx.fee]

NextSequence(s, tx) == [s EXCEPT !.sequence[tx.sender] = @ + 1]

\* Mutation: the fee goes to the SDK's own fee collector.
EffectFeeCollector(d, tx, s) ==
    CASE d = "EVMMono" -> NextSequence(Charge(s, tx, "virtual"), tx)
      [] d = "DeductFee" -> Charge(s, tx, "feeCollector")
      [] d = "IncrementSequence" -> NextSequence(s, tx)
      [] OTHER -> s

Effect(d, tx, s) ==
    CASE d = "EVMMono" -> NextSequence(Charge(s, tx, "virtual"), tx)
      [] d = "DeductFee" -> Charge(s, tx, "poa")
      [] d = "IncrementSequence" -> NextSequence(s, tx)
      [] OTHER -> s

-----------------------------------------------------------------------------

Genesis ==
    [balance |-> [a \in Account |-> Funds],
     sequence |-> [a \in Account |-> 0],
     fees |-> [m \in {"poa", "virtual", "feeCollector"} |-> 0],
     price |-> CHOOSE p \in Prices : \A q \in Prices : p <= q]

Init ==
    /\ store = [m \in Stores |-> Genesis]
    /\ committed = Genesis
    /\ run = Idle
    /\ ledger = <<>>
    /\ kept = <<>>
    /\ passed = <<>>

StoreOf(mode) == IF mode = "block" THEN store["block"] ELSE store["check"]

\* The handler is chosen and built; an option nobody knows ends it here.
Start(mode, tx) ==
    /\ run = Idle
    /\ Route(tx) # "none"
    /\ run' = [mode |-> mode, tx |-> tx, route |-> Route(tx), at |-> 1,
               price |-> PriceFor(StoreOf(mode)), branch |-> StoreOf(mode)]
    /\ UNCHANGED <<store, committed, ledger, kept, passed>>

Running == run # Idle
Decorator == Chain(run.route)[run.at]
More == Running /\ run.at <= Len(Chain(run.route))

\* One decorator passes the transaction on.
Decorate ==
    /\ More
    /\ Accepts(Decorator, run.tx, run.branch, run.price)
    /\ run' = [run EXCEPT !.at = @ + 1,
                          !.branch = Effect(Decorator, run.tx, run.branch)]
    /\ UNCHANGED <<store, committed, ledger, kept, passed>>

\* One decorator refuses it: the branch is dropped.
Refuse ==
    /\ More
    /\ ~Accepts(Decorator, run.tx, run.branch, run.price)
    /\ run' = Idle
    /\ UNCHANGED <<store, committed, ledger, kept, passed>>

\* Mutation: what the pool refuses is not written.
FinishUnwritten(pooled) ==
    /\ Running /\ ~More
    /\ run' = Idle
    /\ store' = IF run.mode = "simulate" \/ (run.mode = "check" /\ ~pooled) THEN store
                ELSE [store EXCEPT ![run.mode] = run.branch]
    /\ ledger' = IF run.mode = "block"
                 THEN Append(ledger, [tx |-> run.tx, route |-> run.route,
                                      price |-> store["block"].price])
                 ELSE ledger
    /\ passed' = IF run.mode = "check"
                 THEN Append(passed, [sender |-> run.tx.sender, sequence |-> run.tx.sequence,
                                      fee |-> run.tx.fee, pooled |-> pooled])
                 ELSE passed
    /\ UNCHANGED <<committed, kept>>

\* The chain has ended: the branch is written, except a simulation's.  Then, in
\* CheckTx, the pool takes the transaction or still refuses it, being full or
\* for what it asks for itself; the sender is told, the branch stays written.
Finish(pooled) ==
    /\ Running /\ ~More
    /\ run' = Idle
    /\ store' = IF run.mode = "simulate" THEN store
                ELSE [store EXCEPT ![run.mode] = run.branch]
    /\ ledger' = IF run.mode = "block"
                 THEN Append(ledger, [tx |-> run.tx, route |-> run.route,
                                      price |-> store["block"].price])
                 ELSE ledger
    /\ passed' = IF run.mode = "check"
                 THEN Append(passed, [sender |-> run.tx.sender, sequence |-> run.tx.sequence,
                                      fee |-> run.tx.fee, pooled |-> pooled])
                 ELSE passed
    /\ UNCHANGED <<committed, kept>>

\* Bank's end of the block: what was collected virtually is paid to POA.
Credited(s) ==
    [s EXCEPT !.fees["poa"] = @ + s.fees["virtual"], !.fees["virtual"] = 0]

\* Mutation: nothing is credited.
CommitUncredited(price) ==
    /\ run = Idle
    /\ LET s == [store["block"] EXCEPT !.price = price]
       IN  /\ committed' = s
           /\ store' = [m \in Stores |-> s]
    /\ kept' = ledger
    /\ passed' = <<>>
    /\ UNCHANGED <<run, ledger>>

\* The end of a block: bank credits what was collected virtually, the fee market
\* sets its price, CheckTx begins anew from what is committed.
Commit(price) ==
    /\ run = Idle
    /\ LET s == [Credited(store["block"]) EXCEPT !.price = price]
       IN  /\ committed' = s
           /\ store' = [m \in Stores |-> s]
    /\ kept' = ledger
    /\ passed' = <<>>
    /\ UNCHANGED <<run, ledger>>

\* The node stops within a block and begins again from the last commit.
Crash ==
    /\ store' = [m \in Stores |-> committed]
    /\ run' = Idle
    /\ ledger' = kept
    /\ passed' = <<>>
    /\ UNCHANGED <<committed, kept>>

Next ==
    \/ \E mode \in Modes, tx \in Tx : Start(mode, tx)
    \/ Decorate \/ Refuse
    \/ \E pooled \in BOOLEAN : Finish(pooled)
    \/ \E price \in Prices : Commit(price)
    \/ Crash

Spec == Init /\ [][Next]_vars
-----------------------------------------------------------------------------

\* Type invariant: a run is at a place of its chain, on a branch of a store.
StoreType ==
    [balance : [Account -> 0..Funds], sequence : [Account -> Nat],
     fees : [{"poa", "virtual", "feeCollector"} -> Nat], price : Prices]

TypeOK ==
    /\ store \in [Stores -> StoreType]
    /\ committed \in StoreType
    /\ Running =>
        /\ run.mode \in Modes /\ run.tx \in Tx /\ run.route \in {"evm", "cosmos"}
        /\ run.at \in 1..Len(Chain(run.route)) + 1
        /\ run.price \in Prices /\ run.branch \in StoreType
    /\ \A i \in DOMAIN ledger : ledger[i].tx \in Tx
    /\ \A i \in DOMAIN passed : passed[i].sender \in Account

\* The transactions of a sender are let in in the order of their sequences, each
\* once, whichever chain they took and whatever was refused in between: the n-th
\* one has sequence n - 1.
OnceInOrder ==
    \A i \in DOMAIN ledger :
        ledger[i].tx.sequence =
            Cardinality({j \in 1..i - 1 : ledger[j].tx.sender = ledger[i].tx.sender})

\* What passes into a block pays the price that is in force in that block, not one
\* that was read earlier (ante.go:61, 81).
PaysPriceInForce == \A i \in DOMAIN ledger : ledger[i].tx.fee >= ledger[i].price

\* A sender is charged once for each of its sequences, in their order and at the
\* price of the day (ante.go:87-108).
ChargedOnceInOrder == OnceInOrder /\ PaysPriceInForce

\* The handler is selected by the first option alone (ante.go:36), yet no
\* transaction passes with an option that its chain does not know.  And an
\* Ethereum message gets into a block by the EVM chain alone, in the company of
\* Ethereum messages alone: none slips through the Cosmos chain without options,
\* behind a dynamic fee, or inside an authz message (ante.go:90).
KnownToItsChain ==
    \A i \in DOMAIN ledger :
        LET tx == ledger[i].tx
        IN  \/ /\ ledger[i].route = "evm"
               /\ tx.options = <<"ethereum">>
               /\ tx.messages = {"ethereum"}
            \/ /\ ledger[i].route = "cosmos"
               /\ \A k \in DOMAIN tx.options : tx.options[k] = "dynamicFee"
               /\ tx.messages = {"cosmos"}

FeesOf(l, route) ==
    SumFunctionOnSet([i \in DOMAIN l |-> l[i].tx.fee], {i \in DOMAIN l : l[i].route = route})

Outlays(s) == SumFunctionOnSet([a \in Account |-> Funds - s.balance[a]], Account)

\* Within a block the POA account has the fees of the Cosmos transactions that passed,
\* to the last decorator, and those of the EVM's of all blocks that ended; the EVM's of
\* this block wait in the object store and are POA's at its end, so that none is left
\* there at a commit, and none lost or paid twice by a crash in between.  The fee
\* collector of the SDK has none, and what the accounts have given is what there is
\* (ante.go:102, app.go:354, 463, 604, 731).
FeesAccounted ==
    LET s == store["block"]
    IN  /\ s.fees["poa"] = FeesOf(ledger, "cosmos") + FeesOf(kept, "evm")
        /\ s.fees["virtual"] = FeesOf(ledger, "evm") - FeesOf(kept, "evm")
        /\ committed.fees["poa"] = FeesOf(kept, "cosmos") + FeesOf(kept, "evm")
        /\ committed.fees["virtual"] = 0
        /\ s.fees["feeCollector"] = 0
        /\ Outlays(s) = s.fees["poa"] + s.fees["virtual"]

\* The runs of account a among the first n that passed CheckTx.
PassedOf(a, n) == {i \in 1..n : passed[i].sender = a}

\* CheckTx works ahead of the blocks, from the last commit: what it has let through of
\* a sender has the sequences that follow the committed one, each once and in order,
\* and has been charged for.  That goes for what the pool refused after all as well
\* (app.go:797-804): it has used up its sequence and its fee until the next commit,
\* so that its sender cannot send it again before.
CheckedInOrder ==
    /\ \A i \in DOMAIN passed :
        passed[i].sequence = committed.sequence[passed[i].sender]
                                + Cardinality(PassedOf(passed[i].sender, i - 1))
    /\ \A a \in Account :
        LET s == store["check"]
        IN  /\ s.sequence[a] = committed.sequence[a] + Cardinality(PassedOf(a, Len(passed)))
            /\ committed.balance[a] - s.balance[a] =
                    SumFunctionOnSet([i \in DOMAIN passed |-> passed[i].fee],
                                     PassedOf(a, Len(passed)))

=============================================================================
