------------------------------ MODULE Genesis -------------------------------
(***************************************************************************)
(* From the default genesis to a chain: the genesis that `init` writes     *)
(* (app/genesis.go and the override of bank in NewApp), the one that       *)
(* App.DefaultGenesis makes, the patches of scripts/local-node.sh or of an *)
(* operator, and InitChainer, which initialises one module after another   *)
(* in the order of NewApp.                                                 *)
(*                                                                         *)
(* Of a genesis only the parts are kept that two modules, or a module and  *)
(* a patch, must agree on.  What the modules make of their part is not in  *)
(* the repository; it is modelled from the comments and the tests that     *)
(* say what they need.                                                     *)
(***************************************************************************)
EXTENDS Integers, Sequences, FiniteSets, SequencesExt, Functions

CONSTANTS
    DefaultEVMDenom,  \* evmtypes.DefaultParams().EvmDenom
    BondDenom,        \* "stake", the denom of the SDK's defaults
    OtherNames,       \* what DENOM and DISPLAY_DENOM can be besides names of the code
    Malformed,        \* the names that are no denoms
    Users,            \* the number of genesis accounts
    None

\* The display unit of the default metadata: its denom with a suffix.
DisplayOf(evmDenom) == <<evmDenom, "display">>

\* A name with the suffix is not the name without it, "stake" does not have it,
\* and a denom with it is a denom (genesis.go:50).
ASSUME CodeNames ==
    /\ Users \in Nat
    /\ DisplayOf(DefaultEVMDenom) \notin {DefaultEVMDenom, BondDenom}
    /\ {DefaultEVMDenom, DisplayOf(DefaultEVMDenom)} \cap Malformed = {}

\* What the environment of the script can name: one of the code's names, or any other.
Names == {DefaultEVMDenom, DisplayOf(DefaultEVMDenom), BondDenom} \cup OtherNames

VARIABLES
    genesis,   \* the app state of genesis.json, or None
    maker,     \* who made it: script, operator or app
    names,     \* DENOM and DISPLAY_DENOM of this run of the script, or None
    todo,      \* the patches of the script that are still to come
    patched,   \* history: the patches that were applied
    skipped,   \* history: those that failed without stopping the script
    validated, \* history: the document went through `genesis validate`
    phase,     \* none, patching, booting, booted or failed
    rest,      \* the modules that InitGenesis has still to initialise
    chain      \* the state of the chain, as far as it is initialised

vars == <<genesis, maker, names, todo, patched, skipped, validated, phase, rest, chain>>

-----------------------------------------------------------------------------
(* The default genesis. *)

\* A base unit, and 18 digits up another one, under which it is displayed.
TwoUnits(base, display) ==
    [base |-> base, display |-> display,
     units |-> <<[denom |-> base, exponent |-> 0], [denom |-> display, exponent |-> 18]>>]

\* Mutation: displayed under the name of the base.
EVMBankDenomMetadataOneName(evmDenom) ==
    [TwoUnits(evmDenom, DisplayOf(evmDenom)) EXCEPT !.display = evmDenom]

EVMBankDenomMetadata(evmDenom) == TwoUnits(evmDenom, DisplayOf(evmDenom))

\* The defaults of the modules themselves.
ModuleDefaults ==
    [metadata |-> <<>>, evmDenom |-> DefaultEVMDenom, precompiles |-> "default",
     deposit |-> BondDenom, validators |-> 0, users |-> 0]

\* BasicModuleManager.DefaultGenesis, with the override of bank.
BasicDefaultGenesis ==
    [ModuleDefaults EXCEPT !.metadata = Append(@, EVMBankDenomMetadata(DefaultEVMDenom))]

\* App.DefaultGenesis: the precompiles of this chain, and the metadata of the
\* EVM denom once more.
AppDefaultGenesis ==
    [BasicDefaultGenesis EXCEPT
        !.precompiles = "chain",
        !.metadata = Append(@, EVMBankDenomMetadata(DefaultEVMDenom))]

InitGenesisFile == BasicDefaultGenesis

-----------------------------------------------------------------------------
(* Patches. *)

Rename(denom, to) == IF denom = BondDenom THEN to ELSE denom

RenameMetadata(m, to) ==
    [base |-> Rename(m.base, to), display |-> Rename(m.display, to),
     units |-> [j \in DOMAIN m.units |->
        [denom |-> Rename(m.units[j].denom, to), exponent |-> m.units[j].exponent]]]

ScriptMetadata(n) == TwoUnits(n.denom, n.display)

\* The genesis documents that there can be.
Documents ==
    LET default == EVMBankDenomMetadata(DefaultEVMDenom)
    IN  [metadata : {<<default>>, <<default, default>>}
                      \cup {<<RenameMetadata(default, to)>> : to \in Names}
                      \cup {<<ScriptMetadata(n)>> : n \in [denom : Names, display : Names]},
         evmDenom : Names, precompiles : {"default", "chain"}, deposit : Names,
         validators : {0, 1}, users : {0, Users}]

\* Before `init` there is none, and only the script has names.
ASSUME NoneAssumption == None \notin Documents \cup [denom : Names, display : Names]

\* What a patch makes of a genesis, under the names of the environment.
Patch(patch, g, n) ==
    CASE patch = "accounts" -> [g EXCEPT !.users = Users]
      [] patch = "rename" ->
           [g EXCEPT !.deposit = Rename(@, n.denom),
                     !.evmDenom = Rename(@, n.denom),
                     !.metadata = [i \in DOMAIN g.metadata |->
                                        RenameMetadata(g.metadata[i], n.denom)]]
      [] patch = "poa" -> [g EXCEPT !.validators = 1]
      [] patch = "gov" -> [g EXCEPT !.deposit = n.denom]
      [] patch = "evmDenom" -> [g EXCEPT !.evmDenom = n.denom]
      [] patch = "precompiles" -> [g EXCEPT !.precompiles = "chain"]
      [] patch = "metadata" -> [g EXCEPT !.metadata = <<ScriptMetadata(n)>>]

Script == <<"accounts", "rename", "poa", "gov", "evmDenom", "precompiles", "metadata">>

\* A command of its own stops the script when it fails.  `jq ... > tmp && mv`
\* does not: errexit leaves out all of a list but its last command.
Stops(patch) == patch \in {"accounts", "rename"}

\* add-genesis-account refuses an amount whose denom is none; jq takes any name.
Works(patch, n) == patch = "accounts" => n.denom \notin Malformed

-----------------------------------------------------------------------------
(* InitChainer. *)

\* Mutation: the EVM before bank.
GenesisOrderEVMFirst == <<
    "auth", "evm", "bank", "gov", "poa", "ibc", "feemarket", "erc20", "transfer",
    "genutil", "upgrade", "consensus", "tokenfactory", "gmp", "ift">>

\* Mutation: accounts after the modules that make their own.
GenesisOrderAuthLate == <<
    "bank", "gov", "auth", "poa", "ibc", "evm", "feemarket", "erc20", "transfer",
    "genutil", "upgrade", "consensus", "tokenfactory", "gmp", "ift">>

GenesisOrder == <<
    "auth", "bank", "gov", "poa", "ibc", "evm", "feemarket", "erc20", "transfer",
    "genutil", "upgrade", "consensus", "tokenfactory", "gmp", "ift">>

\* The modules with an account (maccPerms), but for the fee collector's.
AccountModules ==
    {"gov", "poa", "transfer", "evm", "feemarket", "erc20", "tokenfactory", "gmp", "ift"}

Nothing == [metadata |-> <<>>, evmCoin |-> None, precompiles |-> {}, validators |-> 0,
            accounts |-> {}]

\* The number of the next account.
NextNumber == Cardinality(chain.accounts)

\* The exponent of the display unit, by which the EVM knows its coin.
Decimals(m) == m.units[CHOOSE j \in DOMAIN m.units : m.units[j].denom = m.display].exponent

\* What the bank module checks of one metadata: the base comes first with exponent
\* 0, the units go up, no two have one name, and one of them is displayed.
ValidMetadata(m) ==
    /\ {m.base, m.display} \cap Malformed = {}
    /\ m.units[1] = [denom |-> m.base, exponent |-> 0]
    /\ \A i, j \in DOMAIN m.units : i < j =>
        /\ m.units[i].exponent < m.units[j].exponent
        /\ m.units[i].denom # m.units[j].denom
    /\ \E j \in DOMAIN m.units : m.units[j].denom = m.display

\* And of its genesis: no denom has metadata twice.
Valid(g) ==
    /\ IsInjective([i \in DOMAIN g.metadata |-> g.metadata[i].base])
    /\ \A i \in DOMAIN g.metadata : ValidMetadata(g.metadata[i])

\* The metadata that bank keeps for a denom: the last that it was given.
Known(denom) == {i \in DOMAIN chain.metadata : chain.metadata[i].base = denom}

\* Module m cannot be initialised: InitGenesis panics.
PanicsIn(m) == m = "evm" /\ Known(genesis.evmDenom) = {}

\* What module m puts into the chain.
InitModule(m) ==
    CASE m = "auth" ->
           [chain EXCEPT !.accounts =
               @ \cup {[owner |-> <<"user", n>>, number |-> n] : n \in 0..(genesis.users - 1)}
                 \cup {[owner |-> <<"module", "fee_collector">>, number |-> NextNumber + genesis.users]}]
      [] m = "bank" -> [chain EXCEPT !.metadata = genesis.metadata]
      [] m = "poa" -> [chain EXCEPT !.validators = genesis.validators]
      [] m = "evm" ->
           LET last == CHOOSE i \in Known(genesis.evmDenom) :
                           \A j \in Known(genesis.evmDenom) : j <= i
           IN  [chain EXCEPT
                   !.evmCoin = [denom |-> genesis.evmDenom,
                                decimals |-> Decimals(chain.metadata[last])],
                   !.precompiles = {genesis.precompiles}]
      [] OTHER -> chain

-----------------------------------------------------------------------------

Init ==
    /\ genesis = None
    /\ maker = "none"
    /\ names = None
    /\ todo = <<>>
    /\ patched = {}
    /\ skipped = {}
    /\ validated = FALSE
    /\ phase = "none"
    /\ rest = <<>>
    /\ chain = Nothing

\* `init`, by an operator or by the script, which takes its names from the
\* environment.
InitCmd(who) ==
    /\ phase = "none" /\ who \in {"script", "operator"}
    /\ genesis' = InitGenesisFile
    /\ maker' = who
    /\ \/ who = "script" /\ todo' = Script /\ names' \in [denom : Names, display : Names]
       \/ who = "operator" /\ UNCHANGED <<todo, names>>
    /\ phase' = "patching"
    /\ UNCHANGED <<patched, skipped, validated, rest, chain>>

\* A program that makes its chain of App.DefaultGenesis, and adds a validator.
DefaultGenesis ==
    /\ phase = "none"
    /\ genesis' = Patch("poa", AppDefaultGenesis, names)
    /\ maker' = "app"
    /\ patched' = {"poa"}
    /\ phase' = "patching"
    /\ UNCHANGED <<names, todo, skipped, validated, rest, chain>>

\* The next patch of the script: it is applied, or it fails.
ScriptPatch ==
    /\ phase = "patching" /\ todo # <<>>
    /\ LET patch == Head(todo)
       IN  \/ /\ Works(patch, names)
              /\ genesis' = Patch(patch, genesis, names)
              /\ patched' = patched \cup {patch}
              /\ todo' = Tail(todo)
              /\ UNCHANGED <<skipped, phase>>
           \/ /\ Stops(patch)
              /\ phase' = "failed"
              /\ skipped' = skipped \cup ToSet(todo)
              /\ todo' = <<>>
              /\ UNCHANGED <<genesis, patched>>
           \/ /\ ~Stops(patch)
              /\ skipped' = skipped \cup {patch}
              /\ todo' = Tail(todo)
              /\ UNCHANGED <<genesis, patched, phase>>
    /\ UNCHANGED <<maker, names, validated, rest, chain>>

\* The operator adds accounts and the validator (README, "Manual init").
OperatorPatch(patch) ==
    /\ phase = "patching" /\ maker = "operator"
    /\ patch \in {"accounts", "poa"} \ patched
    /\ genesis' = Patch(patch, genesis, names)
    /\ patched' = patched \cup {patch}
    /\ UNCHANGED <<maker, names, todo, skipped, validated, phase, rest, chain>>

\* `genesis validate`, with which the script ends and which anybody else may run,
\* looks at each module's part alone.  What it refuses is not started.
Start(validate) ==
    /\ phase = "patching" /\ todo = <<>>
    /\ maker = "script" => validate
    /\ validated' = (validated \/ validate)
    /\ IF validate /\ ~Valid(genesis)
       THEN phase' = "failed" /\ UNCHANGED rest
       ELSE phase' = "booting" /\ rest' = GenesisOrder
    /\ UNCHANGED <<genesis, maker, names, todo, patched, skipped, chain>>

\* The next module's InitGenesis.  A module with an account makes it now or
\* when it first needs it.
InitGenesis ==
    /\ phase = "booting" /\ rest # <<>>
    /\ LET m == Head(rest)
           own == {[owner |-> <<"module", m>>, number |-> NextNumber]}
       IN  IF PanicsIn(m)
           THEN /\ phase' = "failed"
                /\ rest' = <<>>
                /\ chain' = Nothing
           ELSE /\ \/ chain' = InitModule(m)
                   \/ /\ m \in AccountModules
                      /\ chain' = [InitModule(m) EXCEPT !.accounts = @ \cup own]
                /\ rest' = Tail(rest)
                /\ UNCHANGED phase
    /\ UNCHANGED <<genesis, maker, names, todo, patched, skipped, validated>>

\* The end of InitChain: without a validator nothing of it stays.
InitChainer ==
    /\ phase = "booting" /\ rest = <<>>
    /\ IF chain.validators > 0
       THEN phase' = "booted" /\ UNCHANGED chain
       ELSE phase' = "failed" /\ chain' = Nothing
    /\ UNCHANGED <<genesis, maker, names, todo, patched, skipped, validated, rest>>

\* Mutation: the modules write to the store itself, not to a branch of it.
CrashHalfway ==
    /\ phase = "booting"
    /\ phase' = "patching"
    /\ rest' = <<>>
    /\ UNCHANGED <<genesis, maker, names, todo, patched, skipped, validated, chain>>

\* The node is killed during InitChain: nothing was committed.
Crash ==
    /\ phase = "booting"
    /\ phase' = "patching"
    /\ rest' = <<>>
    /\ chain' = Nothing
    /\ UNCHANGED <<genesis, maker, names, todo, patched, skipped, validated>>

\* The script begins by killing the node and removing its directory.
Cleanup ==
    /\ phase # "none"
    /\ genesis' = None /\ maker' = "none" /\ names' = None /\ todo' = <<>>
    /\ patched' = {} /\ skipped' = {} /\ validated' = FALSE
    /\ phase' = "none" /\ rest' = <<>> /\ chain' = Nothing

Next ==
    \/ \E who \in {"script", "operator"} : InitCmd(who)
    \/ DefaultGenesis
    \/ ScriptPatch
    \/ \E patch \in {"accounts", "poa"} : OperatorPatch(patch)
    \/ \E validate \in BOOLEAN : Start(validate)
    \/ InitGenesis \/ InitChainer \/ Crash \/ Cleanup

Spec == Init /\ [][Next]_vars
-----------------------------------------------------------------------------

\* Type invariant: the chain holds something only while it boots and after.
TypeOK ==
    /\ phase \in {"none", "patching", "booting", "booted", "failed"}
    /\ maker \in {"none", "script", "operator", "app"}
    /\ genesis = None <=> phase = "none"
    /\ IF maker = "script" THEN names \in [denom : Names, display : Names] ELSE names = None
    /\ validated \in BOOLEAN
    /\ patched \cup skipped \subseteq ToSet(Script)
    /\ todo # <<>> => phase = "patching" /\ maker = "script"
    /\ maker = "script" /\ phase # "failed" => patched \cup skipped \cup ToSet(todo) = ToSet(Script)
    /\ rest # <<>> => phase = "booting"
    /\ phase \notin {"booting", "booted"} => chain = Nothing

\* "The chain boots without external patching", but for the validator: apart from
\* a missing validator, the script's runs in which a patch failed or whose
\* environment gives one name, or none that is a denom, for both units, and a
\* document of App.DefaultGenesis, with its metadata twice, that is put to
\* `genesis validate`, no genesis fails, whoever makes it and under whatever
\* names (genesis.go:39, app.go:574, 720, local-node.sh:21, README.md:107).
FailsWithReason ==
    phase = "failed" =>
        \/ genesis.validators = 0
        \/ skipped # {}
        \/ maker = "script" /\ names.display \in Malformed \cup {names.denom}
        \/ maker = "app" /\ validated

\* The EVM takes its coin to have 18 decimals on every chain that boots, whoever
\* made the genesis and whatever names the environment gives (genesis.go:45).  And
\* unless the script skipped both the EVM's denom and its metadata, a patch skipped
\* without notice either keeps the node from starting or leaves a chain whose EVM
\* runs on DENOM, as the deposits do (local-node.sh:127-181).
EVMCoinRight ==
    /\ chain.evmCoin # None => chain.evmCoin.decimals = 18
    /\ phase = "booted" /\ maker = "script" /\ ~({"evmDenom", "metadata"} \subseteq skipped) =>
         chain.evmCoin.denom = names.denom /\ genesis.deposit = names.denom

\* No two accounts have one number, whichever modules make their account
\* during InitGenesis (app.go:614).
AccountsDistinct ==
    \A a, b \in chain.accounts : a.number = b.number => a = b

=============================================================================
