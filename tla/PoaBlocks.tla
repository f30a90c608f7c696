----------------------------- MODULE PoaBlocks ------------------------------
(***************************************************************************)
(* Blocks of a chain whose validators are those of POA: the order in which *)
(* the modules end a block (app/app.go:600), the validator set that POA    *)
(* keeps and the one that CometBFT uses, which follows two blocks later,   *)
(* the adapter that finds the operator of a proposer for the EVM           *)
(* (poaStakingKeeper), and the way of the fees to the POA account.         *)
(*                                                                         *)
(* POA, gov, bank and CometBFT are not in the repository; they are         *)
(* modelled as NewApp, the adapter and the fee decorator use them.         *)
(***************************************************************************)
EXTENDS Integers, Sequences, FiniteSets, SequencesExt

CONSTANTS
    Validators,   \* the validators, in the order in which POA iterates
    Operators,    \* operator addresses
    Undecodable,  \* those of Operators that are no account addresses
    MaxTxs,       \* bound on the transactions of a block that matter here
    None

Validator == ToSet(Validators)

ASSUME PoaAssumption ==
    /\ Validators \in Seq(Validator) /\ IsInjective(Validators) /\ Validators # <<>>
    /\ Undecodable \subseteq Operators /\ Undecodable # Operators
    /\ MaxTxs \in Nat
    /\ None \notin Validator
    /\ \A accAddr \in Operators : None # <<"valoper", accAddr>>

VARIABLES
    operator,   \* POA: of an active validator its operator, else None
    now, soon,  \* CometBFT: the validators of this block and of the next
    told,       \* the set that POA last reported
    stage,      \* idle, txs, ending
    rest,       \* the modules that have still to end the block
    proposer,   \* of the block, or None
    proposal,   \* a change that governance has passed and not executed, or None
    virtual,    \* fees of this block in the object store
    balance,    \* of the POA account, without what it had before this block
    lookup,     \* the last answer that the EVM got in this block, or None
    first,      \* this is the block of height 1
    txs,        \* history: the transactions of this block
    paid,       \* history: the fees of this block
    age         \* history: blocks since a validator's entry changed, up to 2

vars == <<operator, now, soon, told, stage, rest, proposer, proposal, virtual,
          balance, lookup, first, txs, paid, age>>

Active == {v \in Validator : operator[v] # None}

\* A change of one entry of POA: a new operator, or None to remove it.
Changes == [validator : Validator, operator : Operators \cup {None}]

-----------------------------------------------------------------------------
(* poaStakingKeeper *)

\* The same bytes under the prefix of validator operators.
ValAddress(accAddr) == <<"valoper", accAddr>>

\* Mutation: the address is converted before the validators are compared.
CallbackConvertsFirst(consAddr, v) ==
    IF operator[v] \in Undecodable THEN [stop |-> TRUE, found |-> None]
    ELSE IF v # consAddr THEN [stop |-> FALSE, found |-> None]
    ELSE [stop |-> TRUE, found |-> ValAddress(operator[v])]

\* What the callback makes of validator v; a conversion that fails ends the
\* iteration with an error.
Callback(consAddr, v) ==
    IF v # consAddr THEN [stop |-> FALSE, found |-> None]
    ELSE IF operator[v] \in Undecodable THEN [stop |-> TRUE, found |-> None]
    ELSE [stop |-> TRUE, found |-> ValAddress(operator[v])]

\* The places of active validators at which the iteration would end.
StopsAt(consAddr) ==
    {i \in DOMAIN Validators :
        Validators[i] \in Active /\ Callback(consAddr, Validators[i]).stop}

First(places) == CHOOSE i \in places : \A j \in places : i <= j

\* The operator of an active validator, or None.
GetValidatorByConsAddr(consAddr) ==
    IF StopsAt(consAddr) = {} THEN None
    ELSE Callback(consAddr, Validators[First(StopsAt(consAddr))]).found

-----------------------------------------------------------------------------
(* Fees. *)

\* Mutation: the global fee recipient keeps its default.
FeeRecipientDefault == "fee_collector"

\* ante.FeeRecipientModule, and the recipient of DeductFee.
FeeRecipient == "poa"

\* Every module account is closed to transfers of users.
blockedAddresses ==
    {"fee_collector", "gov", "poa", "transfer", "evm", "feemarket", "erc20",
     "tokenfactory", "gmp", "ift"}

-----------------------------------------------------------------------------
(* The end of a block. *)

\* Mutation: POA before governance.
EndBlockersPOAFirst == <<
    "genutil", "poa", "gov", "bank", "auth", "evm", "erc20", "feemarket", "ibc",
    "transfer", "upgrade", "consensus", "gmp", "tokenfactory", "ift">>

\* Mutation: bank is forgotten.
EndBlockersNoBank == <<
    "genutil", "gov", "poa", "auth", "evm", "erc20", "feemarket", "ibc",
    "transfer", "upgrade", "consensus", "gmp", "tokenfactory", "ift">>

\* Mutation: governance is forgotten.
EndBlockersNoGov == <<
    "genutil", "poa", "bank", "auth", "evm", "erc20", "feemarket", "ibc",
    "transfer", "upgrade", "consensus", "gmp", "tokenfactory", "ift">>

EndBlockers == <<
    "genutil", "gov", "poa", "bank", "auth", "evm", "erc20", "feemarket", "ibc",
    "transfer", "upgrade", "consensus", "gmp", "tokenfactory", "ift">>

-----------------------------------------------------------------------------

\* A genesis with one validator or more, all of whom CometBFT knows.
Init ==
    /\ operator \in [Validator -> Operators \cup {None}]
    /\ Active # {}
    /\ now = Active /\ soon = Active /\ told = Active
    /\ stage = "idle" /\ rest = <<>>
    /\ proposer = None /\ proposal = None /\ lookup = None
    /\ virtual = 0 /\ balance = 0 /\ paid = 0 /\ txs = 0
    /\ first = TRUE
    /\ age = [v \in Validator |-> 2]

\* POA keeps one validator at least.
Possible(change) == change.operator # None \/ Active # {change.validator}

Apply(change) ==
    /\ Possible(change)
    /\ operator' = [operator EXCEPT ![change.validator] = change.operator]
    /\ age' = [age EXCEPT ![change.validator] = 0]

BeginBlock ==
    /\ stage = "idle"
    /\ proposer' \in now
    /\ stage' = "txs"
    /\ age' = [v \in Validator |-> IF age[v] < 2 THEN age[v] + 1 ELSE 2]
    /\ lookup' = None
    /\ virtual' = 0 /\ balance' = 0 /\ paid' = 0 /\ txs' = 0
    /\ UNCHANGED <<operator, now, soon, told, rest, proposal, first>>

Deliver ==
    /\ stage = "txs" /\ txs < MaxTxs
    /\ txs' = txs + 1
    /\ UNCHANGED <<now, soon, told, stage, rest, proposer, first>>

\* An Ethereum transaction needs the coinbase address, which is the proposer's;
\* its fee goes to the object store first (EnableVirtualFeeCollection).
EthereumTx ==
    /\ Deliver
    /\ LET found == GetValidatorByConsAddr(proposer)
       IN  /\ lookup' = [proposer |-> proposer, found |-> found]
           /\ IF found = None THEN UNCHANGED <<virtual, paid>>
              ELSE virtual' = virtual + 1 /\ paid' = paid + 1
    /\ UNCHANGED <<operator, proposal, balance, age>>

\* The fee of any other transaction is sent at once.
Received == IF FeeRecipient = "poa" THEN 1 ELSE 0

Fee ==
    /\ paid' = paid + 1
    /\ balance' = balance + Received

\* The admin changes an entry.
UpdateValidatorsTx(change) ==
    /\ Deliver /\ Fee
    /\ Apply(change)
    /\ UNCHANGED <<proposal, virtual, lookup>>

\* A transfer to the POA account.
MsgSend ==
    /\ Deliver
    /\ paid' = paid + 1
    /\ balance' = balance + Received + (IF "poa" \in blockedAddresses THEN 0 ELSE 1)
    /\ UNCHANGED <<operator, proposal, virtual, lookup, age>>

\* The last vote for a proposal to change an entry.
Vote(change) ==
    /\ proposal = None
    /\ Deliver /\ Fee
    /\ proposal' = change
    /\ UNCHANGED <<operator, virtual, lookup, age>>

EndTxs ==
    /\ stage = "txs"
    /\ stage' = "ending"
    /\ rest' = EndBlockers
    /\ UNCHANGED <<operator, now, soon, told, proposer, proposal, virtual, balance,
                   lookup, first, txs, paid, age>>

\* Module m is the next to end the block.
Ends(m) ==
    /\ stage = "ending" /\ rest # <<>> /\ Head(rest) = m
    /\ rest' = Tail(rest)
    /\ UNCHANGED <<now, soon, stage, proposer, lookup, first, txs, paid>>

\* Governance executes what was passed.
GovEndBlock ==
    /\ Ends("gov")
    /\ IF proposal # None /\ Possible(proposal)
       THEN Apply(proposal)
       ELSE UNCHANGED <<operator, age>>
    /\ proposal' = None
    /\ UNCHANGED <<told, virtual, balance>>

\* POA reports its validators.  At height 1 it checks the fee recipient: with
\* any other the chain would stop here.
PoaEndBlock ==
    /\ Ends("poa")
    /\ first => FeeRecipient = "poa"
    /\ told' = Active
    /\ UNCHANGED <<operator, age, proposal, virtual, balance>>

\* Bank credits what was collected virtually.
BankEndBlock ==
    /\ Ends("bank")
    /\ balance' = balance + virtual
    /\ virtual' = 0
    /\ UNCHANGED <<operator, age, proposal, told>>

OtherEndBlock ==
    /\ \E m \in ToSet(EndBlockers) \ {"gov", "poa", "bank"} : Ends(m)
    /\ UNCHANGED <<operator, age, proposal, told, virtual, balance>>

EndBlock == GovEndBlock \/ PoaEndBlock \/ BankEndBlock \/ OtherEndBlock

\* What was reported in a block is in use two blocks later.  The object store
\* does not outlive the block.
Commit ==
    /\ stage = "ending" /\ rest = <<>>
    /\ stage' = "idle"
    /\ now' = soon /\ soon' = told
    /\ first' = FALSE
    /\ virtual' = 0
    /\ proposer' = None
    /\ UNCHANGED <<operator, told, rest, proposal, balance, lookup, txs, paid, age>>

Block == BeginBlock \/ EndTxs \/ EndBlock \/ Commit

Next ==
    \/ Block
    \/ EthereumTx \/ MsgSend
    \/ \E change \in Changes : UpdateValidatorsTx(change) \/ Vote(change)

\* CometBFT goes on making blocks, empty ones too.
Spec == Init /\ [][Next]_vars /\ WF_vars(Block)
-----------------------------------------------------------------------------

\* Type invariant: neither set of validators is ever empty.
TypeOK ==
    /\ operator \in [Validator -> Operators \cup {None}] /\ Active # {}
    /\ \A set \in {now, soon, told} : set # {} /\ set \subseteq Validator
    /\ stage \in {"idle", "txs", "ending"}
    /\ rest # <<>> => stage = "ending"
    /\ proposer # None <=> stage # "idle"
    /\ proposer # None => proposer \in now
    /\ proposal # None => proposal \in Changes /\ stage \in {"txs", "ending"}
    /\ stage = "idle" => virtual = 0
    /\ age \in [Validator -> 0..2]

\* Between blocks the set that CometBFT will use is the one POA has, whether
\* the admin or governance changed it last (app.go:602).
CometFollows == stage = "idle" => soon = Active

\* The EVM fails to find the proposer only if its own operator address is no
\* address or its entry was changed in this block or the one before; entries
\* of other validators do not matter (app.go:180-203).
UntouchedProposerFound ==
    lookup # None /\ lookup.found = None =>
        \/ operator[lookup.proposer] \in Undecodable
        \/ age[lookup.proposer] <= 1

\* The POA account, which is what POA distributes to the validators, has nothing
\* but fees, since no user can send it anything (app.go:861); and at the end of a
\* block it has all the fees of the block, those that were collected virtually
\* too (app.go:354, 463, 604).
FeesExact ==
    /\ balance <= paid
    /\ stage = "ending" /\ rest = <<>> => balance >= paid

\* A validator that stays removed does not stay a proposer: the chain goes on,
\* past height 1 too, where POA looks at the fee recipient that setAnteHandler
\* chose (app.go:729), and CometBFT gets to use what POA reported.
RemovedLeaves ==
    \A v \in Validator : <>[](v \notin Active) => <>[](v \notin now)

=============================================================================
