# sandbox-ledger in TLA+

Specifications of [sandbox-ledger](../src/README.md), a Cosmos SDK chain with an
EVM that carries confidential tokens (Zeto), model-checked with TLC and, where
marked, proved with TLAPS. Paths are relative to the repository, `src/`.

Modelled: the Solidity library `SmtLib` that the token contracts keep their
commitments in, with its search over the history of roots; the application, from
its construction over its transactions and blocks to its shutdown; its genesis; the
scripts that start a local network and deploy to it.

## The system

| part | state it keeps | operations | what makes it correct |
| --- | --- | --- | --- |
| **SmtLib** (`contracts/src/iden3-shims/SmtLib.sol`) | node store, root history, inverse of the history, maximum depth | `initialize`, `setMaxDepth`, `addLeaf`; views `getProof*`, `getRoot*` | a root is a function of the leaves alone; every root ever made stays provable; a refused leaf is refused for lack of depth only |
| **BinarySearchSmtRoots** (same file) | locals of one call | `binarySearchUint256` | returns; in bounds; the last entry not later than the request |
| **Chain clock** (external) | `block.number`, `block.timestamp` | next block | number grows by one; the timestamp is in seconds and can stand still |
| **PoseidonHasher, IHasher** | none | `hash` (never called: `setHasher` drops it) | - |
| **Deployment** (`contracts/deploy-zeto.sh`, `DeployZetoAnon.s.sol`) | chain contents, broadcast log, manifest | wait for the RPC, deploy in three stages, collect addresses | the manifest names contracts of the chain that runs |
| **Local network** (`scripts/local-node.sh`, `kill-local-node.sh`) | chain directory, node process | wipe, init, patch genesis and configuration, start, hand over | a node that starts from the genesis the script validated |
| **Application** (`app/app.go`, `app/export.go`, `cmd/sandboxd`) | keepers, handlers, mempool, global configuration | `NewApp`, ABCI calls, `Close`, export | nothing is used before it is set; what was captured is still true; heights go on |
| **Blocks** (`app/app.go:582-612, 674-693`) | validators, fees of the block | begin, transactions, end in the modules' order | CometBFT gets the validators POA has; fees reach the POA account, and nothing else does |
| **Genesis** (`app/genesis.go`) | genesis documents | two kinds of `DefaultGenesis` | EVM `InitGenesis` finds its denom |
| **Ante routing** (`app/ante.go`) | none | dispatch on the first extension option; chain of decorators | each transaction meets the checks of its kind, fees go to POA |
| **POA staking adapter** (`app/app.go:169-211`) | none | look up the proposer | the proposer's operator, or an error |
| **Pending-transaction listeners** (`app/app.go:753-761`) | a slice | register, notify | no listener is lost or half seen |
| IBC, GMP, IFT, token factory, ERC-20, fee market, mempool, BlockSTM | elsewhere | constructed and registered by `app.go` | in other repositories |
| Zeto contracts, verifiers | elsewhere | - | submodules, not in the repository |
| Packaging, CI, system tests | files | - | - |

How they meet. `local-node.sh` makes a genesis, starts `sandboxd` (`NewRootCmd`,
`newApp`, `NewApp`) and calls `deploy-zeto.sh`, which deploys the Poseidon
libraries, `SmtLib` linked to them, and the token implementation. A token calls
`SmtLib` inside EVM transactions, which pass the ante handlers and the mempool;
its users query roots and proofs.

What is hard here. *Time*: blocks come twice a second (`local-node.sh:201`),
timestamps are whole seconds, so the history has many entries of one time.
*Sharing*: every version of the tree lives in one node store. *Hashes*: the code
does not rely on them to be collision-free (`SmtLib.sol:558`) but asserts.
*Depth*: the maximum can be raised at any time and old roots are read under the
new one. Outside the contracts: a shell script that deploys to a node it started
in the background, files that outlive the chain they describe, and objects of
`NewApp` that are captured before they are complete. `PROJECT.json` lists each of
these hazards at its line.

## Modules

    SmtTree                     the tree as operators on a node store
      SmtLib                    the library as a state machine, with its clock; it
                                refines VersionedMap
        SmtQueries              with queries by time and block
          (INSTANCE BinarySearchSmtRoots)
        MCSmtLib                a perfect hash and one with collisions
    BinarySearchSmtRoots        the search, statement by statement
    VersionedMap                what SmtLib promises, with no trees and no hashes
    AppWiring                   NewApp
    Sandboxd                    the process, its commands, its home directory
    Genesis                     from the default genesis to InitChain
    AnteRouting                 a transaction on its way through the decorators
    PoaBlocks                   blocks, validators, fees
    PendingTxListeners          a slice shared without a lock
    LocalNet                    local-node.sh and deploy-zeto.sh
    *_proofs                    theorems
    MC*                         instances for TLC

**SmtTree.** A `uint256` index is the function from bit positions to bits; its
width is `MAX_DEPTH_HARD_CAP`, in the code 256 of 256. The mapping `nodes` is a
function on the hashes that are stored. A hash is `<<Compress(node)>>` and the
empty hash, the code's 0, is `<<>>`; nothing is assumed of the constant operator
`Compress`, except that no node hashes to 0. The recursions of `_addLeaf` and
`_pushLeaf` and the loop of `getProofByRoot` follow one way down, `Descent`.
`_addLeaf` ends where that way meets no MIDDLE node; `_pushLeaf` goes on to the
first depth where the two leaves' bits differ (`PartingDepth`). On the way back
they build one node for each depth: `NewWay` is that sequence of nodes,
`SiblingAt` what is beside it. `AddNodes` stores them, if `NoCollision`.
`FitsDepth` collects the two places that revert with "Max depth reached".
`SmtLib.sol:468` adds a leaf below EMPTY or in place of the leaf with its index;
`Pushes` is the other case. For the side that reads, `getProofByRoot` fills a proof's
fields; `RecomputedRoot` and `Convinces` are what a verifier makes of them, `Content`
the map that all proofs of a root describe, and `CanonicalRoot` the root of such a map,
defined with no reference to the way trees are written.

**SmtLib.** One action per function that changes storage; a call that reverts is
no step, as the EVM undoes it. An action contains all the function calls: `AddLeaf`
writes the nodes, appends to `rootEntries` and pushes to `rootIndexes`. The code
counts the places of the history from 0, and so do `Places` and `Entry`.
`NextBlock` is the chain: the height grows by one and the second does not go back.

**BinarySearchSmtRoots.** One action per branch of the loops. `field` is the
history as `fieldSelector` reads it; by itself the module runs on every ordered
history, also ones SmtLib never has.

**SmtQueries.** `SmtLib` and one reader. The search is an instance of
`BinarySearchSmtRoots` whose `field` is read off the current history. An EVM call
sees one state, so `Change` waits while a search runs.

**VersionedMap.** A list of versions, each a map from indexes to values. `SmtLib`
maps to it (`Abstract`, `IsVersionedMap`): a version's content is what the library's
own proofs say of its root (`ContentOf`), so the refinement ties writing and reading
together.

**AppWiring.** `Order` is the order of the statements of `NewApp`, one name for each
group, and each group is an action that can happen when it is its turn. A component has a
version, the number of assignments to it. A constructor takes components by value, by a
pointer that is in a field (nil before the field is set) or by the address of a field
(`&app.Erc20Keeper`, `app.go:451`), and the module keeps who took what how; so a copy that
is amended later and a pointer that stays nil can both be seen when `NewApp` returns.
`Panics` is a read through nil or a setter of a sealed BaseApp. `txConfig` is assigned
twice: BaseApp and the parallel runner take the decoder of the first one, everything later
the second. Errors of the code that NewApp calls are actions (`Fail...`).
`configureEVMMempool` has no way to return an error, so that the panic of `app.go:651` is
not among them.

**Sandboxd.** One process and its home directory. `config` is the process-global
`sdk.Config`; `db` maps heights to states, a state being the number of blocks that made
it; `export` is the last exported document and `Import` the operator who makes a new chain
of it. Each start has a `--chain-id` of its own, any or none, whatever the genesis says
(`chainIDFromOpts`); BaseApp compares the two at InitChain only (`Refuse`).
`FinalizeBlock` and `Commit` are two actions with `Crash` in between. `Close` closes the
mempool and the store, each of which can fail, and reports it.

**Genesis.** Of a genesis the parts that have to agree: denoms, bank metadata,
precompiles, validators, accounts. The script takes `DENOM` and `DISPLAY_DENOM` from its
environment (`local-node.sh:21`), so `InitCmd` chooses any two `Names`: those the code
itself uses, others, and some that are no denoms. `Start` is with or without `genesis
validate`, with which the script always ends; `Valid` is what bank looks at in it.
`InitGenesis`, which validates nothing, is one step for each module in `GenesisOrder`;
which modules make their account then is open. A patch of the
script can fail and stop it, or, for the `jq ... && mv` lines that `set -e` does not
cover, fail and be skipped. The patches of `ift`, `feemarket` and of the block's
gas concern one module each and are left out.

**AnteRouting.** A run takes a branch of a store, of CheckTx or of the block or one
that is dropped in the end, through the chain that `Route` selects. `Accepts` and
`Effect` say of each decorator what it looks at and changes in the state; a fault of
the transaction itself (signature, memo, ...) is its field `fails`. The branch is
dropped in `Refuse` or written in `Finish`, which in CheckTx goes on to the pool: that
may still refuse the transaction (`pooled`), and the branch stays written. The EVM
collects its fees virtually, in the object store (`app.go:463`); bank's end of the block
pays them to POA (`Credited`, in `Commit`).

**PoaBlocks.** POA's validators, and CometBFT's, which follow two blocks later; in
between a proposer can be a validator that POA has removed. Transactions change
entries, vote, pay fees, and ask the adapter for the proposer; then the modules of
`EndBlockers` end the block one after another. `GetValidatorByConsAddr` is the
iteration with the adapter's callback: it ends at the first active validator at which
the callback stops.

**PendingTxListeners.** The three words of the slice are read and written one at a
time, by registrations and by a notification; `RegisterEarly` is a registration while
nothing else goes on. What Go leaves undefined, a torn slice or a read past an array,
may end the process.

**LocalNet.** The node, its chain, one run of `deploy-zeto.sh` with what it knows,
the broadcast log and the manifest. Addresses follow from deployer and nonce: a new
chain gives the same ones again, which is what makes stale files look right. Of a
failed command it is open whether its transaction was included. `Collect` may fail at
either of its `jq`: the first leaves the manifest `Empty`, as the shell has emptied the
file by then, the second leaves it written.

These seven modules meet in their common state rather than in a composition: AppWiring
ends where Sandboxd's `newApp` is one step, Genesis ends where PoaBlocks and
AnteRouting begin, Sandboxd's `FinalizeBlock` is a block of PoaBlocks, whose
transactions have passed AnteRouting, and LocalNet's node is a Sandboxd that runs.
A product of any two would check nothing that the parts do not.

## Runs

The runs on the tree have `CHECK_DEADLOCK FALSE`: their bounds stop the clock and
the history, and a search by itself ends. So has `wiring`: a construction ends. The
others check deadlock.

| run | cfg | bounds | what it shows |
| --- | --- | --- | --- |
| `tree` | `MCSmtLib_tree.cfg` | 3 bits, 2 values, 3 writes, 1 block | shape of the tree: `ProofsConvince`, `HistoryIndependence`, `RefusesOnlyForDepth`, `ProofsStable` |
| `collisions` | `MCSmtLib_collisions.cfg` | 2 bits, 2 values, 4 writes, 2 blocks, hash of thirteen values | `IsVersionedMap`: refinement of VersionedMap, also when nodes collide |
| `queries` | `MCSmtQueries.cfg` | 1 bit, 2 values, 3 writes, 3 blocks, 3 seconds | history: `RootIndexesExact`, `HistoryMonotone`, `ReplacedIffNotCurrent`, `AppendOnly`; questions about it: `AnswerInForce`, `PastIsSettled` |
| `binary_search` | `BinarySearchSmtRoots.cfg` | up to 6 entries, times 0 to 4 | `InBounds`, `Correct`, `Terminates` |
| `wiring` | `AppWiring.cfg` | none: `NewApp` as it is, all options | `WiringComplete`, `ReadyToServe` |
| `process` | `Sandboxd.cfg` | 2 chain ids, any of them or none on each start, 3 blocks | `ExecutedUnderGivenID`, `HeightsContinue`, `ExportAsAsked` |
| `ante` | `MCAnteRouting.cfg` | 1 sender, sequences 0 and 1, 80 transactions, 2 prices | `ChargedOnceInOrder` (each in its turn, at the price in force), `KnownToItsChain`, `FeesAccounted` (of both chains, over the ends of blocks), `CheckedInOrder` (CheckTx ahead of the blocks, the pool after it) |
| `genesis` | `Genesis.cfg` | 2 users; `DENOM` and `DISPLAY_DENOM` each one of 5 names; any patches skipped | `FailsWithReason`, `EVMCoinRight`, `AccountsDistinct` |
| `blocks` | `MCPoaBlocks.cfg` | 2 validators, 2 operators, 2 transactions a block, blocks without end | `CometFollows`, `UntouchedProposerFound`, `FeesExact`, `RemovedLeaves` |
| `listeners` | `MCPendingTxListeners.cfg` | 2 registrations at once after up to 3, notifications without end | `RegisteredHeard`, `CrashOnlyInRace` |
| `local_net` | `LocalNet.cfg` | 2 EVM ids and 1 override, 7 contracts on a chain, runs without end | `ManifestExact`, `EveryRunEnds` |
| `assertion_comment` | `MCSmtQueries_assertion.cfg` | as `queries` | a violation, see Findings |

`TypeOK` is checked in `tree` and in the runs of the application that have one.

Why the bounds are enough. Three bits let two leaves agree on two bits, so that
`_pushLeaf` makes nodes with an empty side, and three writes let a third leaf part
from that pair above, in or below the shared way; `maxDepth` grows through 1, 2, 3
between them, so leaves are refused and refusals lifted. In `queries`, three writes
of two values let a root recur with another in between, or twice in a row; three
writes in up to three blocks, whose seconds can stand still, give all patterns of
equal times. Six entries in the search give odd and even halves at each level. The
hash of `collisions` does not collide for every pair, so executions without a
collision are in that run as well.

`HistoryIndependence` compares each root with `CanonicalRoot`, a definition of the
tree from its leaves alone that shares nothing with the way the tree is written;
`ProofsConvince` recomputes the root from a proof's fields as an outside verifier
would; `RefusesOnlyForDepth` says, in terms of the leaves alone, when a write is
refused, which needs a perfect hash. For
`IsVersionedMap` under collisions, a write that meets one does not happen.

Of the other runs: three blocks let a chain be exported at a height that is neither
the first nor the last, go on elsewhere and be exported again. One sender with two
sequences has a transaction before its turn, in its turn and after it; `MCTx` has
every combination of up to two options with the kinds of messages, and refusals
before and after the fee is taken. Two validators let one be looked for past the
other, and be removed. Two registrations after none, one, two or three meet the
slice when it is nil, full or has room. Seven contracts are one deployment and an
earlier one that failed after two of five. The five names of `genesis` are the three
that the code has (the EVM's default denom, its display unit, and "stake", which is also
the default of `DISPLAY_DENOM`), one that is none of them, and one that is no denom:
names are only compared, so that two further ones would differ in nothing.

`WiringComplete` speaks of the state at the end and not of the order, so that any
reordering of `NewApp` that works would pass. It excepts the two decoders of the replaced
`txConfig` and asks of them that they are of the same one. `ExecutedUnderGivenID` says how
far a wrong `--chain-id` reaches: never to the first block, and no further than the
process that was given it. `CheckedInOrder` is about what passed CheckTx: its sequences go
on from the committed one without a gap, also past a transaction that the pool refused.
`FailsWithReason` names all reasons for which a genesis may fail: no validator, a patch
that failed, a display name that is no denom or DENOM's own, and the duplicate metadata of
`App.DefaultGenesis` if that is validated. `EVMCoinRight` holds for one skipped patch and
not for two: with the patches of the EVM's denom and of the bank metadata both missing the
chain boots on the default denom, and nobody has been told. `UntouchedProposerFound`
bounds the third observation below: two blocks after the last change of its entry a
proposer is found again. `CrashOnlyInRace` and `RegisteredHeard` say what remains of the
listeners without a lock: registrations that overlap nothing are safe.

Fairness. `BinarySearchSmtRoots` has weak fairness of its steps: the EVM executes a call
it has begun. Nothing makes anyone call the library. `PoaBlocks` has weak fairness of
`Block`: CometBFT goes on to propose and commit, with empty blocks when there is nothing
else. `LocalNet` has it of `Step`, the commands of the script itself, which end or fail,
and the deadline of `wait_for_rpc` is one of them; nothing is assumed of the node.

## Proofs

Checked by `tlapm`, for every value of the constants. Theorems of a module hold under
its named assumptions and nothing else:

* bounds and amounts are numbers: `CapAssumption`, `ValueAssumption` (0, which a proof
  has where there is no leaf, is a value), `BoundsAssumption`, `TimeAssumption`,
  `LengthAssumption`, `BlocksAssumption`, `AmountsAssumption` (which also gives the fee
  market a lowest price), the bounds in `PoaAssumption` and `IDAssumption`, and the number
  of users in Genesis' `CodeNames`; a chain has finitely many accounts
  (`AccountAssumption`);
* things of different kinds are different: `NoneAssumption` in LocalNet, Sandboxd and
  Genesis, `ListenerAssumption`, `PoaAssumption`, and LocalNet's `IDAssumption`, by which a
  Cosmos id is no EVM id;
* `CodeNames` also has what `genesis.go:50` does to a name: with the suffix for the display
  unit it is another one, is not "stake", and is a denom as the default itself is. Nothing
  is assumed of `DENOM` and `DISPLAY_DENOM`, which the environment gives, nor whether the
  EVM's default denom and the bond denom are one;
* `TxAssumption` has the shape of a transaction, with at least one message, as BaseApp
  demands; `PoaAssumption` lets POA iterate over each of its validators once and leaves
  one operator that can be decoded.

Nothing is assumed of the hash. Only `RefusalIsForDepth` has a hypothesis of its own,
that `Compress` is injective, and says so in its statement; Poseidon into 254 bits
cannot be, so for the code the theorem speaks of the executions in which nodes did not
collide. `RefusalsAreExplained` is the same without the hypothesis: a collision is then
the second reason for a refusal.

**The tree** (the first part of `SmtLib_proofs`, lemmas only). `DescentDef` shows that the
recursive function `Descent` satisfies its equation, by induction over sets of numbers
(`NatSetInduction`, from the well-foundedness of `<`, as the library's induction rules
take an operator). Then, in this order: a way that starts in a store stays in it
(`DescentInStore`) and a write turns a store into a store (`AddedStore`); a tree
(`IsTree`: every way ends within `maxDepth`, at a leaf only if the leaf belongs on the
way) stays one, with the same ways and proofs, in a larger store and under a larger depth
(`TreeStays`), which is why the versions can share their nodes; the proofs of a tree
convince (`TreeConvinces`); a write makes a tree in which the written leaf is found and
every other index ends where it did (`WriteTree`, from `OnNewWay` and `OffNewWay`); and
the root of a tree is its `CanonicalRoot`, by induction from the leaves up
(`TreeIsCanonical`). The last needs that no MIDDLE node stands for fewer than two leaves,
or two trees could have the same leaves: `Compact`, which a write keeps (`WriteCompact`).

**The library** (the rest of `SmtLib_proofs`). `IInv` is `TypeOK`, `RootIndexesExact` and
`HistoryMonotone`. They need each other: a root `addLeaf` starts from must be a hash the
store knows (`TypeOK`), there must be one (`HistoryMonotone`), and a push must go to the
end of a list of smaller places (`RootIndexesExact`). `TInv` adds `Trees` (the store is
`Compact` and every root of the history is that of a tree) and `FirstEmpty` (only the
first root is that of the empty tree). From them:

* of the store and the history: `TypeCorrect`, `IndexesAreExact`, `HistoryIsMonotone`,
  `StorageOnlyGrows`; `ReplacedExactly`, which rests on `FirstEmpty`, since the code
  says "not replaced" with the empty root;
* of the meaning of the tree: `ProofsAlwaysConvince`, `ProofsAreStable`,
  `RootsAreCanonical`, `RefusalsAreExplained`, `RefusalIsForDepth`;
* `ImplementsVersionedMap`, the refinement: `Initialize` maps to opening the map,
  `AddLeaf` to a put, everything else to a stutter, as old versions keep their content
  (`VersionsStay`) and the new one is the last with one leaf changed (`AddLeafPuts`);
* of the queries: `QInv` adds that the search is in its own invariant, on the library's
  history. `SearchProofs` is an instance of the search's proofs, so its theorems hold
  here once the history is shown to be one that the search takes (`FieldIsHistory`).
  `AnswersAreInForce` and `ThePastIsSettled` follow, and `QueriesOnlyRead`: the library
  with its readers is the library, so everything above holds of it.

**The search** (`BinarySearchSmtRoots_proofs`). `SearchIsCorrect` and `SearchInBounds`.
`IInv` says what the range still means: all entries left of `min` are at or before the
value, all right of `max` after it, and in the inner loop the entry at `mid` is at the
value. `Correct` alone is not inductive, being silent until the search returns.
`EveryLookGains` is what can be said of `Terminates` without fairness, for every length:
each step leaves the search fewer steps (`StepsLeft`), and a round that goes left or right
at most half of the range, so that the rounds are logarithmic and only the walk along
equal entries is not.

**The process** (`Sandboxd_proofs`). For `HeightsAlwaysContinue`, `IInv` extends what
the property says of versions to everything that becomes one: the genesis document, the
export, and the block that is executed and not committed; and it says that a running
application has loaded the latest version, without which the next block would be made of
an old state. `PInv` has the ids: a node that runs has the id of its flag, whatever that
is, or else of the genesis; where these differ, the block it works on is not the first,
as InitChain comes before that one; a node that was refused for its id left nothing that
a later chain is made from, so what it was refused for stays true.
`TypeCorrect`, `BlocksUnderGivenID` and `ExportsAreAsAsked` follow.

**The local network** (`LocalNet_proofs`). For `ManifestAlwaysExact`, `IInv` says what a
run knows at each stage and that it is on the chain (`Known`), and that before `collect`
the log under the chain's id is this run's own (`Logged`), so that the manifest is exact
if `jq` writes it and empty if it does not. `Logged` holds because no other
run and no new chain comes in between, and a chain's contracts stay. `NInv` adds that a
node has a chain, for `TypeCorrect`. `RunsGoForward` counts the commands that a run has
before it, seven at most: its own steps take one away and nothing else touches a run, so
that `EveryRunEnds` needs only that a command ends.

**Genesis** (`Genesis_proofs`). Both halves walk a list, `Script` and `GenesisOrder`, and
`IInv` says what each prefix of it has done; `Remains` relates what is left of a list to
the prefix. `DocumentInv` says what the document has, by its maker and by the patches
made, under whatever names the environment gave; `ScriptInv`, that after k places of the
script exactly the first k patches are made or skipped (`NextPatch`). `BootInv` has
`Made(k)`, what a chain has after k modules, with accounts that are numbered from 0
without a gap (`Numbered`), however many users there are and whichever modules made theirs
(`NextModule`); and `OneNameEach`, by which no document that boots has one name for both
units. For the script's that is what validation is for (`ValidDistinct`); the others get
theirs from `genesis.go:50`. `FailsWithReason` is part of `IInv`: that a module panics is
seen only when it is its turn, and the invariant gives the document it then looks at
(`PanicsForPatch`); a document with all patches made and two names that are denoms passes
validation (`ValidFacts`). `FailsOnlyWithReason`, `EVMCoin`, `OneNumberEach` and
`TypeCorrect` follow.

**Ante routing** (`AnteRouting_proofs`). A transaction that is through has satisfied
each decorator of its chain, against the branch as it was then. `IInv` says what each
passed decorator stands for (`Knows`), that the branch of a run has the price, the
sequences and the money of its store but for its own increment and fee (`OnBranch`), that
the block's store is what its ledger makes of it (`Agree`), also at the last commit, which
a crash returns to, and that CheckTx's store is the committed one and what has passed since
(`RunsAhead`). `SendersAreChargedInOrder`, `ChainsKnowWhatPasses`, `CheckTxRunsAhead` and
`TypeCorrect` are read off it when the chain is through; `CheckTxRunsAhead` for both
answers of the pool, as the branch is written before it is asked.

For `EveryFeeIsAccounted`, `Agree` has the money as well (`Balanced`), and `OnBranch` says
that a run has moved one fee at most, to the collector of its chain: each chain has one
decorator that charges, at one place (`ChainOrder`). What POA and the object store have is
then a sum over the ledger and what is missing a sum over the accounts, and one more
transaction adds its fee to both (`FeesAppend`, `SpentPaid`). Of the EVM's fees, those of
the ledger at the last commit are POA's and the rest is in the object store, which the end
of the block empties (`CreditedIs`); a crash goes back to the store and the ledger of one
and the same commit. The sums are folds that choose an order;
that they take on an element in any order (`SumRemove`), and change by what one term
changes (`SumChange`), is proved by induction on the size of the set, from
`NatSetInduction` again.

**Listeners** (`PendingTxListeners_proofs`). For `TheRegisteredAreHeard`, `IInv` gives
every listener whose registration overlapped no other a place (`Has`) that it has in
every array, and that is below every length, which anyone holds: the slice, any
registration's copy, the notification. Then a mixture of words, or an append into the
array of a torn slice, has it as well: an append changes no slot below the length that
it read. `Alone`, `Writing` and `Clean` say when the slice is one that was meant, for
`NoCrashWithoutRace`.

**Blocks** (`PoaBlocks_proofs`). `Following` relates the age of an entry to the sets
that still have it: two blocks old, and whoever proposes now is active; one block, and
whoever proposes next is. `Reporting` says that no change comes after POA's report:
governance ends its block before POA does, in `EndBlockers`. `Fees` has every fee on the
account or in the object store until bank moves it. `CometAlwaysFollows`, `FeesAreExact`
and `TypeCorrect` follow; for `UntouchedProposersAreFound`, the iteration must get past
every other validator (`ActiveIsFound`), which it does as the callback stops at the one
it looks for only, even if another's operator cannot be decoded. `TheRemovedHaveLeft` is
the safety part of `RemovedLeaves`: two blocks after its removal a validator is not the
proposer; that those blocks come is left to fairness.

Model-checked only:

* `Terminates`, `EveryRunEnds`, `RemovedLeaves`: liveness is out of the prover's reach.
  `EveryLookGains`, `RunsGoForward` and `TheRemovedHaveLeft` are their safety parts.
* `WiringComplete` and `ReadyToServe`: AppWiring has no constants, so that TLC's run is
  exhaustive and there is no other instance for a proof to cover.

## Findings

A comment above `assert(found)` (`SmtLib.sol:612`) says that there is always a root
entry. `getRootInfoByTime` and `getRootInfoByBlock` have no `onlyInitialized`
modifier, so before `initialize` they end in the assertion and not in "Smt is not
initialized" as `getRoot` does (run `assertion_comment`). Once initialised, the
assertion always holds (`AnswerInForce`).

Observations made while modelling, in which a comment or the README says something
else than the code, and which the modules follow as the code has them:

* `sdk.Config` is sealed by `main` (`main.go:42`) and again by `initRootCmd`
  (`app.go:949`) in every start, and nothing panics; `testutil/address_prefix.go:16`
  says that a second `Seal()` does. What would panic is a set after the seal, which
  does not happen (`setupSDKConfig` and `NewRootCmd` in Sandboxd).
* `app.go:716` and `genesis.go:41` promise that a vanilla `sandboxd init && start`
  boots. The genesis that `init` writes has no POA validator, and `init` does not go
  through `App.DefaultGenesis` (`genesis.go:64`), where the first comment is; the
  README (line 109) has it right (`FailsWithReason` names this case).
* A proposer that POA has removed is not found, so the EVM has no coinbase for the
  block, against the comment at `app.go:164` (`UntouchedProposerFound` is as much as
  holds).
* `CHAIN_ID` means the Cosmos id to `local-node.sh` and the EVM id to
  `deploy-zeto.sh`, and `EVM_CHAIN_ID` does not reach the latter: either override,
  which `local-node.sh:12` allows, ends a complete deployment with "Broadcast log not
  found" and no manifest, unless an earlier chain left a log under that id
  (`ManifestExact` has to assume that the ids agree).
* The `txConfig` with the textual sign mode (`app.go:362-366`) is not the one that BaseApp
  and the parallel runner decode with: they have got the decoder of the first
  (`app.go:272`, `275`, `300`), and nothing sets it anew (`WiringComplete` excepts it).
* A `--chain-id` on a restart is taken unchecked (`app.go:1040`), and blocks are executed
  under it; only a chain's first block is safe from it (`ExecutedUnderGivenID`).
* With the mempool of `app.go:797-804` CheckTx can refuse a transaction that has passed the
  ante handler, been reported to the listeners (`ante.go:74`) and used up its sequence in
  CheckTx's state (`CheckedInOrder`).
* `DENOM` and `DISPLAY_DENOM` under one name are refused by `genesis validate` alone; with the
  metadata patch skipped nobody looks at the display name at all (`FailsWithReason`).
* A `jq` that fails at `deploy-zeto.sh:156` leaves an empty manifest where that of an earlier
  run was (`Empty` in LocalNet).
* `PRIVATE_KEY`, which README line 155 names as an override, is always computed from
  the mnemonic (`deploy-zeto.sh:35`).

## Limits of the model

* `getRootHistory` and `getRootInfoListByRoot` page through answers that are
  modelled, by `ArrayUtils.calculateBounds`, which is not in the repository.
* Gas is not modelled: a way down is at most as long as `maxDepth`, the inner loop
  of the search as long as the run of equal times.
* A node whose Poseidon hash is 0 is left out: the code would take it for the
  empty subtree.
* `nodeType` takes the three values the code writes; the reverts for others
  (lines 268, 707) cannot be reached.
* Application: gas and the contents of messages are not modelled, and with them what the
  EVM gives back of a fee when a message has used less, and a value that an EVM
  transaction sends to the POA account (PoaBlocks has the bank's transfers); nor the orders of
  PreBlock and BeginBlock, whose modules touch nothing that `app.go` relates.
  `App.DefaultGenesis` is called by tests only; its duplicate metadata does not pass
  bank's validation, and the program itself validates no such document
  (`FailsWithReason` has the case of somebody who does).
* The runs of the scripts come one at a time. Two at once would share chain, log and
  manifest; nothing in the repository keeps them apart and nothing starts two.
* `CLEANUP` and `VOTING_PERIOD` of `local-node.sh` are set and never read.

## Plan

1. Done: the tree and its history; the application, genesis, blocks, transactions,
   listeners and the local network, model-checked.
2. Done: theorems of every safety property that a run checks and that has constants: of
   the tree, the library and its refinement, the search and the queries, the process, the
   genesis, the ante handler, the listeners, the blocks and the local network.
3. Left: the guardrail of `package-contracts.sh` against linked artefacts, which would be a
   small module of its own, and a transaction that is mined before its state is visible
   (`deploy-zeto.sh:83`).

## Not modelled

IBC, GMP, IFT, token factory, ERC-20, mempool, BlockSTM and Zeto internals (other
repositories; AppWiring has how they are put together); registration of commands,
queries and API routes, packaging and CI (no state worth checking); `PoseidonHasher`
(never called).
