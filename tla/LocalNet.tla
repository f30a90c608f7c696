------------------------------ MODULE LocalNet ------------------------------
(***************************************************************************)
(* A local network: scripts/local-node.sh, which wipes the chain, starts a *)
(* node in the background and hands over to contracts/deploy-zeto.sh;      *)
(* that script, which an operator may run again by itself; and the node,   *)
(* which may be slow, die, be killed and be started again meanwhile.       *)
(*                                                                         *)
(* The address of a contract follows from the deployer and its nonce, so   *)
(* here it is the number of the contract on its chain: a new chain gives   *)
(* the same addresses again.  Of a failed command nobody knows whether its *)
(* transaction was included.  One run of the scripts at a time: two would  *)
(* share the chain, the log and the manifest with nothing to keep them     *)
(* apart.                                                                  *)
(***************************************************************************)
EXTENDS Integers, Sequences, FiniteSets

CONSTANTS
    EVMID,      \* the EVM chain ids a node may be given
    DefaultID,  \* 19460, the default of both scripts
    CosmosIDs,  \* the values of CHAIN_ID that the environment may give to
                \* local-node.sh
    MaxCode,    \* bound on the contracts of a chain
    None

ASSUME IDAssumption ==
    DefaultID \in EVMID /\ CosmosIDs \cap EVMID = {} /\ MaxCode \in Nat

\* What is deployed: a library, a contract, or the verifiers together.
Kinds == {"PoseidonUnit2L", "PoseidonUnit3L", "SmtLib", "Verifiers", "Factory"}

Contracts == [kind : Kinds, p2 : Nat, p3 : Nat, smt : Nat]

Chains == [id : EVMID, code : Seq(Contracts)]

ASSUME NoneAssumption == None \notin [factory : Nat] \cup Chains

VARIABLES
    node,       \* down, starting or serving
    chain,      \* its EVM id and its contracts, or None
    run,        \* the last run of the deployment: where it is, what it knows
    log,        \* forge's broadcast log, by EVM chain id
    manifest    \* deployments/sandbox-dev-1.json, or None

vars == <<node, chain, run, log, manifest>>

Idle == [at |-> "idle"]

\* A contract, with the addresses that were linked into it.
Contract(kind, p2, p3, smt) == [kind |-> kind, p2 |-> p2, p3 |-> p3, smt |-> smt]

-----------------------------------------------------------------------------
(* The environment of a run. *)

\* CHAIN_ID of deploy-zeto.sh.  local-node.sh takes the same name for the id of
\* the Cosmos chain; a value from the environment reaches both.
Lookup(chainID) == IF chainID = None THEN DefaultID ELSE chainID

NewRun(chainID) ==
    [at |-> "waiting", lookup |-> Lookup(chainID), p2 |-> 0, p3 |-> 0, smt |-> 0]

Under == run.at \notin {"idle", "done", "failed"}

Begins(chainID) == ~Under /\ run' = NewRun(chainID)

-----------------------------------------------------------------------------

Init ==
    /\ node = "down"
    /\ chain = None
    /\ run = Idle
    /\ log = [id \in EVMID \cup CosmosIDs |-> None]
    /\ manifest = None

\* local-node.sh: the node is killed, its directory removed and made again, and
\* a node started, which may exit at once; nobody looks.  The manifest and the
\* log stay.
LocalNode(evmID, chainID) ==
    /\ chain' = [id |-> evmID, code |-> <<>>]
    /\ node' = "starting"
    /\ Begins(chainID)
    /\ UNCHANGED <<log, manifest>>

\* The same without the deployment: SKIP_ZETO_BOOTSTRAP, the foreground, or
\* only the configuration, without a node.
LocalNodeOnly(evmID) ==
    /\ ~Under
    /\ chain' = [id |-> evmID, code |-> <<>>]
    /\ node' \in {"starting", "down"}
    /\ UNCHANGED <<run, log, manifest>>

\* The script stops after it removed the directory: a patch of the genesis or
\* its validation failed.
LocalNodeStops ==
    /\ ~Under
    /\ chain' = None
    /\ node' = "down"
    /\ UNCHANGED <<run, log, manifest>>

\* deploy-zeto.sh by itself.
DeployAgain(chainID) ==
    /\ chain # None
    /\ Begins(chainID)
    /\ UNCHANGED <<node, chain, log, manifest>>

NodeServes ==
    /\ node = "starting"
    /\ node' = "serving"
    /\ UNCHANGED <<chain, run, log, manifest>>

\* A crash, or kill-local-node.sh.
NodeDies ==
    /\ node # "down"
    /\ node' = "down"
    /\ UNCHANGED <<chain, run, log, manifest>>

NodeRestarts ==
    /\ node = "down" /\ chain # None
    /\ node' = "starting"
    /\ UNCHANGED <<chain, run, log, manifest>>

-----------------------------------------------------------------------------
(* deploy-zeto.sh *)

Goes(at) == run' = [run EXCEPT !.at = at]
Fails(why) == run' = [at |-> "failed", why |-> why]

RPCReady ==
    /\ run.at = "waiting" /\ node = "serving"
    /\ Goes("p2")
    /\ UNCHANGED <<node, chain, log, manifest>>

\* Mutation: there is no deadline.
GiveUpNever == FALSE /\ UNCHANGED vars

\* The deadline passes without an answer.
GiveUp ==
    /\ run.at = "waiting" /\ node # "serving"
    /\ Fails("no RPC")
    /\ UNCHANGED <<node, chain, log, manifest>>

\* A contract of the run is included in the chain.
Included(contract) ==
    /\ node = "serving" /\ Len(chain.code) < MaxCode
    /\ chain' = [chain EXCEPT !.code = Append(@, contract)]

Address == Len(chain.code) + 1

\* The contract of a stage, linked to what the run knows.
ContractOf ==
    CASE run.at = "p2" -> Contract("PoseidonUnit2L", 0, 0, 0)
      [] run.at = "p3" -> Contract("PoseidonUnit3L", 0, 0, 0)
      [] run.at = "smt" -> Contract("SmtLib", run.p2, run.p3, 0)
      [] run.at = "verifiers" -> Contract("Verifiers", 0, 0, 0)
      [] run.at = "factory" -> Contract("Factory", run.p2, run.p3, run.smt)

Stages == {"p2", "p3", "smt", "verifiers", "factory"}

\* A command fails: its transaction was not included, or it was and the answer
\* got lost.
StageFails ==
    /\ run.at \in Stages
    /\ Included(ContractOf) \/ UNCHANGED chain
    /\ Fails("stage")
    /\ UNCHANGED <<node, log, manifest>>

\* Mutation: the second library takes the name of the first.
DeployPoseidonMixed ==
    /\ run.at \in {"p2", "p3"}
    /\ Included(ContractOf)
    /\ run' = [run EXCEPT !.p2 = Address, !.p3 = Address,
                          !.at = IF @ = "p2" THEN "p3" ELSE "smt"]
    /\ UNCHANGED <<node, log, manifest>>

\* Mutation: a command that prints no address is taken for one that worked.
DeployPoseidonUnchecked ==
    /\ run.at \in {"p2", "p3"}
    /\ Included(ContractOf) \/ UNCHANGED chain
    /\ Goes(IF run.at = "p2" THEN "p3" ELSE "smt")
    /\ UNCHANGED <<node, log, manifest>>

\* Stage 1, cast send: the two libraries, one after the other.
DeployPoseidon ==
    /\ run.at \in {"p2", "p3"}
    /\ Included(ContractOf)
    /\ run' = IF run.at = "p2"
              THEN [run EXCEPT !.p2 = Address, !.at = "p3"]
              ELSE [run EXCEPT !.p3 = Address, !.at = "smt"]
    /\ UNCHANGED <<node, log, manifest>>

\* Stage 2, forge create.
DeploySmtLib ==
    /\ run.at = "smt"
    /\ Included(ContractOf)
    /\ run' = [run EXCEPT !.smt = Address, !.at = "verifiers"]
    /\ UNCHANGED <<node, log, manifest>>

\* Stage 3, forge script: one transaction after the other, and the log.
DeployVerifiers ==
    /\ run.at = "verifiers"
    /\ Included(ContractOf)
    /\ Goes("factory")
    /\ UNCHANGED <<node, log, manifest>>

DeployFactory ==
    /\ run.at = "factory"
    /\ Included(ContractOf)
    /\ log' = [log EXCEPT ![chain.id] = [factory |-> Address]]
    /\ Goes("collect")
    /\ UNCHANGED <<node, manifest>>

\* A manifest that names nothing: the shell has emptied the file before jq reads
\* the log, and a jq that fails leaves it so.
Empty == [p2 |-> 0, p3 |-> 0, smt |-> 0, factory |-> 0]

\* The manifest: the libraries of this run, and what the log says.  Once it is
\* written it is read back for the factory, which may fail as well.
Collect ==
    /\ run.at = "collect"
    /\ IF log[run.lookup] = None
       THEN Fails("no log") /\ UNCHANGED manifest
       ELSE \/ Fails("jq") /\ manifest' = Empty
            \/ /\ manifest' = [p2 |-> run.p2, p3 |-> run.p3, smt |-> run.smt,
                               factory |-> log[run.lookup].factory]
               /\ Fails("jq") \/ run' = [at |-> "done"]
    /\ UNCHANGED <<node, chain, log>>

Step ==
    \/ RPCReady \/ GiveUp \/ StageFails
    \/ DeployPoseidon \/ DeploySmtLib
    \/ DeployVerifiers \/ DeployFactory \/ Collect

Next ==
    \/ Step
    \/ \E chainID \in {None} \cup CosmosIDs :
        \/ DeployAgain(chainID)
        \/ \E evmID \in EVMID : LocalNode(evmID, chainID)
    \/ \E evmID \in EVMID : LocalNodeOnly(evmID)
    \/ LocalNodeStops
    \/ NodeServes \/ NodeDies \/ NodeRestarts

\* A run of the script goes on, or a command of it ends with an error; the
\* deadline is the script's own.  Nothing is assumed of the node.
Spec == Init /\ [][Next]_vars /\ WF_vars(Step)
-----------------------------------------------------------------------------

\* Type invariant: a node has a chain, and a run past a stage knows the address of that stage.
TypeOK ==
    /\ node \in {"down", "starting", "serving"}
    /\ node # "down" => chain # None
    /\ chain # None => chain \in Chains /\ Len(chain.code) <= MaxCode
    /\ run.at \in {"p3", "smt", "verifiers", "factory", "collect"} => run.p2 # 0
    /\ run.at \in {"smt", "verifiers", "factory", "collect"} => run.p3 # 0
    /\ run.at \in {"verifiers", "factory", "collect"} => run.smt # 0

\* What is at an address of the chain.
At(address, contract) ==
    address \in DOMAIN chain.code /\ chain.code[address] = contract

\* A run whose ids agree and that deployed everything leaves a manifest of contracts
\* that are on the chain as it is now, each linked to the others that the manifest
\* names, whatever an earlier run left on the chain or on the disk, and whatever
\* became of the node meanwhile; or it fails and leaves an empty one, never that of
\* an earlier run (deploy-zeto.sh:153-178).
ManifestExact ==
    [][run.at = "collect" /\ run' # run /\ run.lookup = chain.id =>
            LET m == manifest'
            IN  \/ /\ At(m.p2, Contract("PoseidonUnit2L", 0, 0, 0))
                   /\ At(m.p3, Contract("PoseidonUnit3L", 0, 0, 0))
                   /\ At(m.smt, Contract("SmtLib", m.p2, m.p3, 0))
                   /\ At(m.factory, Contract("Factory", m.p2, m.p3, m.smt))
                \/ run'.at = "failed" /\ m = Empty]_vars

\* Every run ends, with a manifest or an error, whether the node comes up, dies
\* or never answers (deploy-zeto.sh:47).
EveryRunEnds == []<>(~Under)

=============================================================================
