------------------------------ MODULE Sandboxd ------------------------------
(***************************************************************************)
(* The life of the sandboxd process around its home directory: main and    *)
(* the root command (cmd/sandboxd/main.go, NewRootCmd), the commands that   *)
(* make an application (start, export) or change the home directory (init, *)
(* prune), the blocks of a running node, its shutdown, and crashes.  One   *)
(* process at a time uses the home directory.                              *)
(*                                                                         *)
(* NewApp itself is in AppWiring; here it is one step that takes the bech32 *)
(* prefixes of the global configuration and loads a version of the stores. *)
(* A state of the chain is known by the number of blocks that made it.     *)
(***************************************************************************)
EXTENDS Integers, FiniteSets

CONSTANTS
    ChainID,      \* the ids an operator may give
    MaxBlocks,    \* bound on the blocks of all chains of one lineage
    None          \* no document, no application, no id

ASSUME BlocksAssumption == MaxBlocks \in Nat

ASSUME NoneAssumption ==
    None \notin [prefixes : {"cosmos-sdk", "cosmos-evm"}, db : {"memory", "home"},
                 chainID : ChainID \cup {None}, height : Nat,
                 open : SUBSET {"store", "mempool"}]

VARIABLES
    phase,     \* of the process: down, main, rooted, command or running
    config,    \* sdk.Config: its prefixes and whether it is sealed
    genesis,   \* config/genesis.json of the home directory, or None
    db,        \* the committed versions: height to state
    app,       \* the application of the process, or None
    work,      \* the state of a block that is executed and not committed, or None
    export,    \* the document of the last export, or None
    last       \* what the last command came to, for the properties

vars == <<phase, config, genesis, db, app, work, export, last>>

Height == 1..MaxBlocks
Latest == CHOOSE h \in DOMAIN db : \A i \in DOMAIN db : i <= h
Begun == DOMAIN db # {}

\* since: the blocks before the last restart at height zero.
State == [blocks : 0..MaxBlocks, since : 0..MaxBlocks]

-----------------------------------------------------------------------------
(* The process. *)

NewProcess == [prefixes |-> "cosmos-sdk", sealed |-> FALSE]

Init ==
    /\ phase = "down"
    /\ config = NewProcess
    /\ genesis = None
    /\ db = <<>>
    /\ app = None
    /\ work = None
    /\ export = None
    /\ last = [command |-> "none", outcome |-> "ok"]

\* The process is gone, with all that was only in its memory.
Gone ==
    /\ phase' = "down"
    /\ config' = NewProcess
    /\ app' = None
    /\ work' = None

Ends(command, outcome) ==
    /\ Gone
    /\ last' = [command |-> command, outcome |-> outcome]

\* Mutation: the configuration is left for later.
setupSDKConfigLater ==
    /\ phase = "down"
    /\ phase' = "main"
    /\ UNCHANGED <<config, genesis, db, app, work, export, last>>

\* A set after the seal panics; the seal itself may be repeated.
setupSDKConfig ==
    /\ phase = "down"
    /\ phase' = "main"
    /\ config' = [prefixes |-> "cosmos-evm", sealed |-> TRUE]
    /\ UNCHANGED <<genesis, db, app, work, export, last>>

\* main without a home directory.
NoHomeDirectory ==
    /\ phase = "main"
    /\ Ends("main", "exit")
    /\ UNCHANGED <<genesis, db, export>>

\* The root command: an application on a store in memory, for its codecs and
\* its modules, which is never closed; and the second seal (initRootCmd).
NewRootCmd ==
    /\ phase = "main"
    /\ phase' = "rooted"
    /\ app' = [prefixes |-> config.prefixes, db |-> "memory",
               chainID |-> None, height |-> 0, open |-> {}]
    /\ config' = [config EXCEPT !.sealed = TRUE]
    /\ UNCHANGED <<genesis, db, work, export, last>>

\* PersistentPreRunE: the client context from the flags and client.toml, the
\* configuration files of the node.  Each of its calls can fail.
PersistentPreRunE ==
    /\ phase = "rooted"
    /\ \/ phase' = "command" /\ UNCHANGED <<config, app, work, last>>
       \/ Ends("prerun", "exit")
    /\ UNCHANGED <<genesis, db, export>>

Crash ==
    /\ phase # "down"
    /\ Ends("crash", "exit")
    /\ UNCHANGED <<genesis, db, export>>

-----------------------------------------------------------------------------
(* Commands on the home directory. *)

\* init refuses to overwrite a genesis file.
InitCmd(id) ==
    /\ phase = "command" /\ genesis = None
    /\ genesis' = [chainID |-> id, initialHeight |-> 1, state |-> [blocks |-> 0, since |-> 0]]
    /\ Ends("init", "ok")
    /\ UNCHANGED <<db, export>>

\* The operator makes a new home from a full export.  CometBFT begins at
\* height 1 where the document says 0.
Import(id) ==
    /\ phase = "down" /\ export # None
    /\ genesis' = [chainID |-> id,
                   initialHeight |-> IF export.height = 0 THEN 1 ELSE export.height,
                   state |-> IF export.height = 0
                             THEN [export.state EXCEPT !.since = export.state.blocks]
                             ELSE export.state]
    /\ db' = <<>>
    /\ export' = None
    /\ UNCHANGED <<phase, config, app, work, last>>

\* prune drops old versions and keeps the latest.
PruneCmd ==
    /\ phase = "command" /\ Begun
    /\ \E kept \in SUBSET DOMAIN db :
        /\ Latest \in kept
        /\ db' = [h \in kept |-> db[h]]
    /\ Ends("prune", "ok")
    /\ UNCHANGED <<genesis, export>>

-----------------------------------------------------------------------------
(* start *)

\* Mutation: only the flag is read.
chainIDFromOptsFlag(flag) == flag

\* The flag, or what the genesis file says, or no id.
chainIDFromOpts(flag) ==
    IF flag # None THEN flag
    ELSE IF genesis # None THEN genesis.chainID ELSE None

\* Mutation: the latest version is not loaded.
newAppUnloaded(flag) ==
    [prefixes |-> config.prefixes, db |-> "home", chainID |-> chainIDFromOpts(flag),
     height |-> 0, open |-> {"store"}]

\* NewApp for the node, with the latest version loaded.
newApp(flag) ==
    [prefixes |-> config.prefixes, db |-> "home", chainID |-> chainIDFromOpts(flag),
     height |-> IF Begun THEN Latest ELSE 0, open |-> {"store"}]

\* Any flag, on every start: the operator's word is compared with nothing here.
StartCmd(flag) ==
    /\ phase = "command" /\ genesis # None
    /\ \/ /\ phase' = "running"
          /\ \E pool \in {{}, {"mempool"}} : app' = [newApp(flag) EXCEPT !.open = @ \cup pool]
          /\ last' = [command |-> "start", outcome |-> "ok", flag |-> flag]
          /\ UNCHANGED <<config, work>>
       \/ Ends("load", "exit")
    /\ UNCHANGED <<genesis, db, export>>

\* BaseApp refuses an InitChain for another chain than its own.
Refuse ==
    /\ phase = "running" /\ ~Begun /\ work = None
    /\ app.chainID # genesis.chainID
    /\ Gone
    /\ last' = [last EXCEPT !.outcome = "refused"]
    /\ UNCHANGED <<genesis, db, export>>

\* The first block, after InitChain, or the next one.
FinalizeBlock ==
    /\ phase = "running" /\ work = None
    /\ ~Begun => app.chainID = genesis.chainID
    /\ LET before == IF Begun THEN db[app.height] ELSE genesis.state
       IN  /\ before.blocks < MaxBlocks
           /\ work' = [before EXCEPT !.blocks = @ + 1]
    /\ UNCHANGED <<phase, config, genesis, db, app, export, last>>

Commit ==
    /\ phase = "running" /\ work # None
    /\ LET height == IF Begun THEN app.height + 1 ELSE genesis.initialHeight
       IN  /\ db' = [h \in DOMAIN db \cup {height} |-> IF h = height THEN work ELSE db[h]]
           /\ app' = [app EXCEPT !.height = height]
    /\ work' = None
    /\ UNCHANGED <<phase, config, genesis, export, last>>

\* Close closes the mempool, if there is one, and then the store, and reports
\* what failed of either.
Close ==
    /\ phase = "running"
    /\ \E failed \in SUBSET app.open :
        /\ last' = [command |-> "stop",
                    outcome |-> IF failed = {} THEN "ok" ELSE "error"]
    /\ Gone
    /\ UNCHANGED <<genesis, db, export>>

-----------------------------------------------------------------------------
(* export *)

\* Mutation: the height of the last block, not of the next one.
DocumentHeightOfLast(height, forZeroHeight) == IF forZeroHeight THEN 0 ELSE height

DocumentHeight(height, forZeroHeight) == IF forZeroHeight THEN 0 ELSE height + 1

\* The state at the loaded version, as a genesis that goes on from there.
ExportAppStateAndValidators(height, forZeroHeight) ==
    [height |-> DocumentHeight(height, forZeroHeight), state |-> db[height]]

\* Mutation: the latest version is loaded whatever was asked for.
LoadedForLatest(height) == Latest

\* NewApp loads the latest version if the height is -1; else it loads none and
\* LoadHeight loads the one that was asked for.
LoadedFor(height) == IF height = -1 THEN Latest ELSE height

ExportCmd(height, forZeroHeight) ==
    /\ phase = "command" /\ Begun
    /\ IF LoadedFor(height) \in DOMAIN db
       THEN /\ export' = ExportAppStateAndValidators(LoadedFor(height), forZeroHeight)
            /\ Gone
            /\ last' = [command |-> "export", outcome |-> "ok",
                        height |-> height, forZeroHeight |-> forZeroHeight]
       ELSE /\ Ends("export", "exit")
            /\ UNCHANGED export
    /\ UNCHANGED <<genesis, db>>

Next ==
    \/ setupSDKConfig \/ NoHomeDirectory \/ NewRootCmd \/ PersistentPreRunE \/ Crash
    \/ \E id \in ChainID : InitCmd(id) \/ Import(id)
    \/ PruneCmd
    \/ \E flag \in {None} \cup ChainID : StartCmd(flag)
    \/ Refuse \/ FinalizeBlock \/ Commit \/ Close
    \/ \E height \in {-1} \cup Height, zero \in BOOLEAN : ExportCmd(height, zero)

Spec == Init /\ [][Next]_vars
-----------------------------------------------------------------------------

\* Type invariant: an application is of a process, a block of a running node.
TypeOK ==
    /\ phase \in {"down", "main", "rooted", "command", "running"}
    /\ genesis # None => genesis.chainID \in ChainID /\ genesis.state \in State
    /\ DOMAIN db \subseteq Height /\ \A h \in DOMAIN db : db[h] \in State
    /\ Begun => genesis # None
    /\ app # None <=> phase \in {"rooted", "command", "running"}
    /\ work # None => phase = "running" /\ work \in State
    /\ phase = "running" /\ Begun => app.height = Latest
    /\ export # None => export.height \in {0} \cup (Height \cup {MaxBlocks + 1}) /\ export.state \in State

\* Every application of a process, the temporary one too, takes its address
\* prefixes from a configuration that is complete and sealed: addresses that one
\* part of the process writes are read by another (main.go:19, app.go:340).  And
\* a block is executed under another chain id than that of the genesis only on a
\* chain that has begun, and only if the operator gave that id to this very
\* process: app.go:1040 lets any flag win on every start and only InitChain
\* compares, so the first block is always under the chain's own id, and the id of
\* a wrong flag ends with the process.  InitChain turns away no other node than
\* one whose operator gave a wrong id.
ExecutedUnderGivenID ==
    /\ app # None => config.sealed /\ app.prefixes = "cosmos-evm"
    /\ work # None /\ app.chainID # genesis.chainID =>
           Begun /\ app.chainID \in ChainID /\ last.flag = app.chainID
    /\ last.outcome = "refused" => last.flag \notin {None, genesis.chainID}

\* Through crashes, exports at any kept height and new chains made from them,
\* the state at a height is the work of exactly that many blocks since the
\* last restart at zero: none is lost, none is executed twice, and the heights
\* of the new chain go on where the old one was exported (export.go:18).
HeightsContinue == \A h \in DOMAIN db : db[h].blocks - db[h].since = h

\* An export is the committed state of the height it was asked for, with -1 of
\* the latest, and changes no version (app.go:1073-1080).
ExportAsAsked ==
    [][export' # export /\ export' # None =>
        /\ LET h == IF last'.height = -1 THEN Latest ELSE last'.height
           IN  h \in DOMAIN db /\ export'.state = db[h]
        /\ last'.forZeroHeight <=> export'.height = 0
        /\ db' = db]_vars

=============================================================================
