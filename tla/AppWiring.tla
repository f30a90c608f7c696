----------------------------- MODULE AppWiring ------------------------------
(***************************************************************************)
(* NewApp of app/app.go: the construction of the application, statement    *)
(* group by statement group, in the order of Order.                        *)
(*                                                                         *)
(* What is kept of a constructor is what it holds afterwards.  A component *)
(* can take another one in three ways:                                     *)
(*   - a value: a struct, an interface or *pointer, as it is at that time; *)
(*   - a pointer field such as app.POAKeeper, which is nil before the      *)
(*     field is set and the living object after;                           *)
(*   - the address of a field, such as &app.Erc20Keeper, which can be      *)
(*     taken before the field is set.                                      *)
(* The version of a component counts the times it was assigned or amended: *)
(* 0 is Go's zero value.  Copies keep a version, links follow it.          *)
(***************************************************************************)
EXTENDS Integers, Sequences

VARIABLES
    given,       \* what NewApp finds: arguments, options, process state
    pc,          \* the place in Order
    status,      \* building, ready, exited, failed or broken
    version,     \* of each component
    copies,      \* values that were taken: by whom, of what, which version
    links,       \* pointers that were taken: by whom, to what
    stores,      \* store keys: made, non-transient, the runner's, opened, mounted
    sealed       \* BaseApp takes no more setters

vars == <<given, pc, status, version, copies, links, stores, sealed>>

Component == {
    "encodingConfig", "txConfig", "MsgServiceRouter", "ConsensusParamsKeeper",
    "AccountKeeper", "BankKeeper", "POAKeeper", "GovKeeper", "UpgradeKeeper",
    "IBCKeeper", "FeeMarketKeeper", "TransferKeeper", "stakingAdapter",
    "EVMKeeper", "Erc20Keeper", "transferStackV2", "GMPKeeper", "ibcRouterV2",
    "TokenFactoryKeeper", "IFTKeeper", "cbGMPModule", "ModuleManager",
    "BasicModuleManager", "ParamStore", "Handlers", "AnteHandler",
    "PostHandler", "CheckTxHandler", "PrepareProposal", "EVMMempool"}

\* BaseApp panics when one of these is set on it after it is sealed.
Setters == {"ParamStore", "Handlers", "AnteHandler", "PostHandler",
            "CheckTxHandler", "PrepareProposal", "EVMMempool"}

\* A store of each of the three kinds that NewApp makes.
KVStores == {"auth", "bank", "consensus", "gov", "upgrade", "poa", "ibc",
             "transfer", "gmp", "evm", "feemarket", "erc20", "tokenfactory", "ift"}
ObjectStores == {"bankObject", "evmObject"}
TransientStores == {"poaTransient"}

\* The groups of statements of NewApp, in order.
Base == <<"encodingConfig", "BaseApp", "StoreKeys", "Runner", "SandboxApp">>

SDKKeepers == <<
    "ConsensusParamsKeeper", "AccountKeeper", "BankKeeper", "BankWithObjStoreKey",
    "txConfig", "POAKeeper", "GovKeeper", "GovHooks", "UpgradeKeeper">>

IBCAndEVM == <<
    "IBCKeeper", "FeeMarketKeeper", "TransferKeeper", "stakingAdapter", "EVMKeeper",
    "Erc20Keeper", "transferStackV2", "GMPKeeper", "ibcRouterV2", "LightClient">>

Modules == <<
    "TokenFactoryKeeper", "IFTKeeper", "cbGMPModule", "ModuleManager",
    "BasicModuleManager", "Services">>

Serving ==
    <<"MountStores", "Handlers", "AnteHandler", "PostHandler", "EVMMempool", "Proto", "Load">>

Order == Base \o SDKKeepers \o IBCAndEVM \o Modules \o Serving

Value(h, c) == [by |-> h, of |-> c, version |-> version[c]]
Link(h, c) == [by |-> h, to |-> c]

At(s) == status = "building" /\ Order[pc] = s

\* The statements end without a fault and the next ones follow.
Proceed ==
    /\ pc' = pc + 1
    /\ status' = IF pc = Len(Order) THEN "ready" ELSE "building"

Give(cs) == version' = [c \in Component |-> version[c] + IF c \in cs THEN 1 ELSE 0]

\* h keeps values, what the pointers refer to, and the addresses of fields.
Take(h, values, pointers, addresses) ==
    LET nils == {c \in pointers : version[c] = 0}
    IN  /\ copies' = copies \cup {Value(h, c) : c \in values \cup nils}
        /\ links' = links \cup {Link(h, c) : c \in (pointers \ nils) \cup addresses}

\* keys[name] of a key that is not there is nil.
Open(names) ==
    stores' = [stores EXCEPT !.opened =
        @ \cup {IF n \in stores.keys THEN n ELSE "nil" : n \in names}]

\* A statement reads through a field that is nil, or sets a sealed BaseApp.
Panics(through, sets) ==
    \/ \E c \in through : version[c] = 0
    \/ sealed /\ sets \cap Setters # {}

\* The statements of a group that reads through some fields and sets others.
Do(s, through, sets) ==
    /\ At(s)
    /\ Give(sets)
    /\ IF Panics(through, sets)
       THEN status' = "broken" /\ UNCHANGED pc
       ELSE Proceed
    /\ UNCHANGED <<given, sealed>>

\* A keeper: what it takes and the stores it opens.
Keeper(c, through, values, pointers, addresses, names) ==
    /\ Do(c, through, {c})
    /\ Take(c, values, pointers, addresses)
    /\ Open(names)

-----------------------------------------------------------------------------

Init ==
    /\ given \in [loadLatest : BOOLEAN, chainConfig : BOOLEAN, cosmosPoolMaxTx : {-1, 0}]
    /\ pc = 1
    /\ status = "building"
    /\ version = [c \in Component |-> 0]
    /\ copies = {}
    /\ links = {}
    /\ stores = [keys |-> {}, nonTransient |-> {}, runner |-> {}, opened |-> {}, mounted |-> {}]
    /\ sealed = FALSE

\* The first txConfig is that of the encoding configuration.
MakeEncodingConfig ==
    /\ Do("encodingConfig", {}, {"encodingConfig", "txConfig"})
    /\ UNCHANGED <<copies, links, stores>>

\* The decoder and the encoder are those of the first txConfig.
NewBaseApp ==
    /\ Do("BaseApp", {}, {"MsgServiceRouter"})
    /\ Take("BaseApp", {"encodingConfig", "txConfig"}, {}, {})
    /\ UNCHANGED stores

\* Mutation: the object stores are forgotten (no second loop).
NewStoreKeysNoObjects ==
    /\ Do("StoreKeys", {}, {})
    /\ stores' = [stores EXCEPT
            !.keys = KVStores \cup ObjectStores \cup TransientStores,
            !.nonTransient = KVStores]
    /\ UNCHANGED <<copies, links>>

NewStoreKeys ==
    /\ Do("StoreKeys", {}, {})
    /\ stores' = [stores EXCEPT
            !.keys = KVStores \cup ObjectStores \cup TransientStores,
            !.nonTransient = KVStores \cup ObjectStores]
    /\ UNCHANGED <<copies, links>>

SetRunner ==
    /\ Do("Runner", {}, {})
    /\ Take("Runner", {"txConfig"}, {}, {})
    /\ stores' = [stores EXCEPT !.runner = stores.nonTransient]

\* app.txConfig is the first txConfig, until NewTxConfig.
MakeApp ==
    /\ Do("SandboxApp", {}, {})
    /\ UNCHANGED <<copies, links, stores>>

NewConsensusParamsKeeper ==
    /\ Do("ConsensusParamsKeeper", {}, {"ConsensusParamsKeeper", "ParamStore"})
    /\ Open({"consensus"})
    /\ UNCHANGED <<copies, links>>

NewAccountKeeper == Keeper("AccountKeeper", {}, {}, {}, {}, {"auth"})

NewBankKeeper == Keeper("BankKeeper", {}, {"AccountKeeper"}, {}, {}, {"bank"})

\* The bank keeper is replaced by one that knows the object store.
BankWithObjStoreKey ==
    /\ Do("BankWithObjStoreKey", {"BankKeeper"}, {"BankKeeper"})
    /\ Open({"bankObject"})
    /\ UNCHANGED <<copies, links>>

\* The txConfig that knows how to show coins as text replaces the first one, in
\* app and in the variable; what was taken of the first one stays.
NewTxConfig ==
    /\ Do("txConfig", {}, {"txConfig"})
    /\ Take("txConfig", {"encodingConfig", "BankKeeper"}, {}, {})
    /\ UNCHANGED stores

NewPOAKeeper ==
    Keeper("POAKeeper", {}, {"AccountKeeper", "BankKeeper"}, {}, {}, {"poa", "poaTransient"})

\* The vote function holds *app.POAKeeper, a copy.
NewGovKeeper ==
    Keeper("GovKeeper", {"POAKeeper"}, {"AccountKeeper", "BankKeeper", "POAKeeper"},
           {"MsgServiceRouter"}, {}, {"gov"})

SetGovHooks ==
    /\ Do("GovHooks", {"GovKeeper", "POAKeeper"}, {"GovKeeper"})
    /\ Take("GovKeeper", {}, {"POAKeeper"}, {})
    /\ UNCHANGED stores

NewUpgradeKeeper == Keeper("UpgradeKeeper", {}, {}, {}, {}, {"upgrade"})

NewIBCKeeper == Keeper("IBCKeeper", {}, {}, {"UpgradeKeeper"}, {}, {"ibc"})

NewFeeMarketKeeper == Keeper("FeeMarketKeeper", {}, {}, {}, {}, {"feemarket"})

NewTransferKeeper ==
    Keeper("TransferKeeper", {"IBCKeeper"}, {"AccountKeeper", "BankKeeper"},
           {"IBCKeeper", "MsgServiceRouter"}, {}, {"transfer"})

MakeStakingAdapter == Keeper("stakingAdapter", {}, {}, {"POAKeeper"}, {}, {})

\* Mutation: the ERC-20 keeper is passed by value.
NewEVMKeeperByValue ==
    Keeper("EVMKeeper", {"IBCKeeper", "GovKeeper"},
           {"AccountKeeper", "BankKeeper", "stakingAdapter", "FeeMarketKeeper", "GovKeeper",
            "Erc20Keeper"},
           {"IBCKeeper"},
           {"ConsensusParamsKeeper"},
           {"evm", "evmObject"})

\* The ERC-20 keeper does not exist yet: the EVM and the bank precompile take
\* its address.  The gov precompile holds *app.GovKeeper, a copy.
NewEVMKeeper ==
    Keeper("EVMKeeper", {"IBCKeeper", "GovKeeper"},
           {"AccountKeeper", "BankKeeper", "stakingAdapter", "FeeMarketKeeper", "GovKeeper"},
           {"IBCKeeper"},
           {"ConsensusParamsKeeper", "Erc20Keeper"},
           {"evm", "evmObject"})

NewErc20Keeper ==
    Keeper("Erc20Keeper", {}, {"AccountKeeper", "BankKeeper", "stakingAdapter"},
           {"EVMKeeper", "TransferKeeper"}, {}, {"erc20"})

NewTransferStack ==
    Keeper("transferStackV2", {}, {"Erc20Keeper"}, {"TransferKeeper"}, {}, {})

NewGMPKeeper ==
    Keeper("GMPKeeper", {}, {"AccountKeeper"}, {"MsgServiceRouter"}, {}, {"gmp"})

\* The route of transfer, and both routers into the IBC keeper: the empty one
\* of v1, and a pointer to that of v2, which is not complete yet.
SetRouters ==
    /\ Do("ibcRouterV2", {"IBCKeeper"}, {"ibcRouterV2", "IBCKeeper"})
    /\ copies' = copies \cup {Value("ibcRouterV2", "transferStackV2")}
    /\ links' = links \cup {Link("IBCKeeper", "ibcRouterV2")}
    /\ UNCHANGED stores

\* The light client's route in the client keeper; the transfer module.
AddLightClient ==
    /\ Do("LightClient", {"IBCKeeper"}, {"IBCKeeper"})
    /\ Take("ModuleManager", {}, {"TransferKeeper"}, {})
    /\ UNCHANGED stores

NewTokenFactoryKeeper ==
    Keeper("TokenFactoryKeeper", {}, {"AccountKeeper", "BankKeeper"}, {}, {}, {"tokenfactory"})

NewIFTKeeper ==
    Keeper("IFTKeeper", {"IBCKeeper"}, {"AccountKeeper"},
           {"GMPKeeper", "MsgServiceRouter", "IBCKeeper"}, {"TokenFactoryKeeper"}, {"ift"})

AddGMPRoute ==
    /\ Do("cbGMPModule", {"IBCKeeper", "ibcRouterV2"}, {"cbGMPModule", "ibcRouterV2"})
    /\ Take("cbGMPModule", {}, {"GMPKeeper", "IBCKeeper"}, {"IFTKeeper"})
    /\ UNCHANGED stores

NewModuleManager ==
    Keeper("ModuleManager", {},
           {"AccountKeeper", "BankKeeper", "ConsensusParamsKeeper", "FeeMarketKeeper",
            "Erc20Keeper", "TokenFactoryKeeper", "IFTKeeper", "txConfig"},
           {"GovKeeper", "UpgradeKeeper", "POAKeeper", "IBCKeeper", "GMPKeeper", "EVMKeeper"},
           {}, {})

NewBasicManager ==
    Keeper("BasicModuleManager", {"ModuleManager"}, {}, {"ModuleManager"}, {}, {})

\* The modules' services: the message router that keepers hold is filled.
RegisterServices ==
    /\ Do("Services", {"ModuleManager", "MsgServiceRouter"}, {"MsgServiceRouter"})
    /\ UNCHANGED <<copies, links, stores>>

MountStores ==
    /\ Do("MountStores", {}, {})
    /\ stores' = [stores EXCEPT !.mounted = stores.keys]
    /\ UNCHANGED <<copies, links>>

\* InitChainer, PreBlocker, BeginBlocker and EndBlocker are methods of app.
SetHandlers ==
    /\ Do("Handlers", {}, {"Handlers"})
    /\ Take("Handlers", {}, {"ModuleManager"}, {})
    /\ UNCHANGED stores

setAnteHandler ==
    Keeper("AnteHandler", {}, {"AccountKeeper", "BankKeeper", "FeeMarketKeeper", "txConfig"},
           {"EVMKeeper", "IBCKeeper"}, {}, {})

setPostHandler ==
    /\ Do("PostHandler", {}, {"PostHandler"})
    /\ UNCHANGED <<copies, links, stores>>

\* No mempool without a chain configuration or with a negative cap; else the
\* mempool, with the ante handler there is now, and the handlers around it.
configureEVMMempool ==
    IF given.chainConfig /\ given.cosmosPoolMaxTx >= 0
    THEN /\ Do("EVMMempool", {}, {"EVMMempool", "CheckTxHandler", "PrepareProposal"})
         /\ Take("EVMMempool", {"FeeMarketKeeper", "txConfig", "AnteHandler"}, {"EVMKeeper"}, {})
         /\ UNCHANGED stores
    ELSE /\ Do("EVMMempool", {}, {})
         /\ UNCHANGED <<copies, links, stores>>

\* Annotations that do not validate are printed and nothing else.
CheckProto ==
    /\ Do("Proto", {}, {})
    /\ UNCHANGED <<copies, links, stores>>

\* Loading seals BaseApp.
LoadLatestVersion ==
    /\ At("Load")
    /\ Proceed
    /\ sealed' = given.loadLatest
    /\ UNCHANGED <<given, version, copies, links, stores>>

\* What can fail for other reasons than the order: streaming, the transaction
\* configuration, the services, the options of the ante handler, the post
\* handler, the proto registry and the loading, which panic or exit.
Fails(s, how) ==
    /\ At(s)
    /\ status' = how
    /\ UNCHANGED <<given, pc, version, copies, links, stores, sealed>>

FailStreaming == Fails("Runner", "exited")
FailTxConfig == Fails("txConfig", "failed")
FailServices == Fails("Services", "failed")
FailAnteOptions == Fails("AnteHandler", "failed")
FailPostHandler == Fails("PostHandler", "failed")
FailProto == Fails("Proto", "failed")
FailLoad == given.loadLatest /\ Fails("Load", "exited")

\* appExport loads the version it wants after NewApp was told to load none.
LoadHeight ==
    /\ status = "ready" /\ ~sealed
    /\ sealed' = TRUE
    /\ UNCHANGED <<given, pc, status, version, copies, links, stores>>

Next ==
    \/ MakeEncodingConfig \/ NewBaseApp \/ NewStoreKeys \/ SetRunner \/ MakeApp
    \/ NewConsensusParamsKeeper \/ NewAccountKeeper
    \/ NewBankKeeper \/ BankWithObjStoreKey \/ NewTxConfig
    \/ NewPOAKeeper \/ NewGovKeeper \/ SetGovHooks \/ NewUpgradeKeeper
    \/ NewIBCKeeper \/ NewFeeMarketKeeper \/ NewTransferKeeper
    \/ MakeStakingAdapter \/ NewEVMKeeper \/ NewErc20Keeper
    \/ NewTransferStack \/ NewGMPKeeper \/ SetRouters \/ AddLightClient
    \/ NewTokenFactoryKeeper \/ NewIFTKeeper \/ AddGMPRoute
    \/ NewModuleManager \/ NewBasicManager \/ RegisterServices \/ MountStores
    \/ SetHandlers \/ setAnteHandler \/ setPostHandler \/ configureEVMMempool
    \/ CheckProto \/ LoadLatestVersion \/ LoadHeight
    \/ FailStreaming \/ FailTxConfig \/ FailServices \/ FailAnteOptions
    \/ FailPostHandler \/ FailProto \/ FailLoad

Spec == Init /\ [][Next]_vars

-----------------------------------------------------------------------------

\* BaseApp and the parallel runner are given the decoder of a txConfig.
Decoders == {e \in copies : e.of = "txConfig" /\ e.by \in {"BaseApp", "Runner"}}

\* No group of statements reads through a field that a later group sets, or sets
\* BaseApp after it was sealed.  And when NewApp returns, every pointer points to
\* something, and every value that a component was given is still the component's
\* present state: nothing works with a keeper, a handler or a router that was
\* completed later (app.go:354, 388, 450-461, 481, 498-537, 789).  The exception
\* are the decoders of the txConfig that app.go:362-366 replaces: BaseApp and the
\* runner keep those, both of one and the same txConfig, so that a transaction is
\* decoded alike whoever decodes it.
WiringComplete ==
    /\ status # "broken"
    /\ status = "ready" =>
         /\ \A e \in copies \ Decoders : e.version = version[e.of]
         /\ \A d, e \in Decoders : d.version = e.version
         /\ \A e \in links : version[e.to] > 0

\* An application that can serve has mounted every store that its keepers
\* opened, and the parallel runner of app.go:299 knows every store but the
\* transient ones: a store it does not know is not isolated between the
\* transactions it runs at once.  And each of the handlers that BaseApp calls was
\* set, once.
ReadyToServe ==
    sealed =>
        /\ stores.opened \subseteq stores.mounted
        /\ stores.runner = stores.mounted \ TransientStores
        /\ \A s \in {"ParamStore", "Handlers", "AnteHandler", "PostHandler"} : version[s] = 1

=============================================================================
