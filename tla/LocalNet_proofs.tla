--------------------------- MODULE LocalNet_proofs ---------------------------
(***************************************************************************)
(* Theorems about LocalNet: what a run of deploy-zeto.sh knows is on the   *)
(* chain, and so is what it writes.                                        *)
(***************************************************************************)
EXTENDS LocalNet, TLAPS

Runs ==
    [at : {"waiting", "collect"} \cup Stages, lookup : EVMID \cup CosmosIDs,
     p2 : Nat, p3 : Nat, smt : Nat]

Logs == [EVMID \cup CosmosIDs -> {None} \cup [factory : Nat]]

-----------------------------------------------------------------------------
(* The invariant.  Each part of it is about values, not about variables.   *)

\* The contract c is at the address a.
Has(code, a, c) == a \in DOMAIN code /\ code[a] = c

\* A run that is past a stage knows where the contract of that stage is.
Known(r, code) ==
    /\ r.at \in {"p3", "smt", "verifiers", "factory", "collect"} =>
         Has(code, r.p2, Contract("PoseidonUnit2L", 0, 0, 0))
    /\ r.at \in {"smt", "verifiers", "factory", "collect"} =>
         Has(code, r.p3, Contract("PoseidonUnit3L", 0, 0, 0))
    /\ r.at \in {"verifiers", "factory", "collect"} =>
         Has(code, r.smt, Contract("SmtLib", r.p2, r.p3, 0))

\* The log of a run that has only to collect is its own, not an earlier run's.
Logged(r, l, c) ==
    r.at = "collect" =>
        /\ l[c.id] # None
        /\ Has(c.code, l[c.id].factory, Contract("Factory", r.p2, r.p3, r.smt))

IInv ==
    /\ log \in Logs
    /\ chain # None => chain \in Chains
    /\ Under => /\ chain \in Chains
                /\ run \in Runs
                /\ Known(run, chain.code)
                /\ Logged(run, log, chain)

LEMMA CodeGrows ==
    ASSUME NEW code \in Seq(Contracts), NEW d \in Contracts
    PROVE  /\ Append(code, d) \in Seq(Contracts)
           /\ Has(Append(code, d), Len(code) + 1, d)
           /\ Len(code) + 1 \in Nat
           /\ \A a, c : Has(code, a, c) => Has(Append(code, d), a, c)
  BY DEF Has

LEMMA ContractIsContract ==
    ASSUME run \in Runs, run.at \in Stages
    PROVE  ContractOf \in Contracts
<1>1. ASSUME NEW kind \in Kinds, NEW a \in Nat, NEW b \in Nat, NEW c \in Nat
      PROVE  Contract(kind, a, b, c) \in Contracts
  BY DEF Contract, Contracts
<1>2. run.p2 \in Nat /\ run.p3 \in Nat /\ run.smt \in Nat
  BY DEF Runs
<1>3. CASE run.at = "p2"
  <2>1. ContractOf = Contract("PoseidonUnit2L", 0, 0, 0)
    BY <1>3 DEF ContractOf
  <2> QED
    BY <1>1, <1>2, <2>1 DEF Kinds
<1>4. CASE run.at = "p3"
  <2>1. ContractOf = Contract("PoseidonUnit3L", 0, 0, 0)
    BY <1>4 DEF ContractOf
  <2> QED
    BY <1>1, <1>2, <2>1 DEF Kinds
<1>5. CASE run.at = "smt"
  <2>1. ContractOf = Contract("SmtLib", run.p2, run.p3, 0)
    BY <1>5 DEF ContractOf
  <2> QED
    BY <1>1, <1>2, <2>1 DEF Kinds
<1>6. CASE run.at = "verifiers"
  <2>1. ContractOf = Contract("Verifiers", 0, 0, 0)
    BY <1>6 DEF ContractOf
  <2> QED
    BY <1>1, <1>2, <2>1 DEF Kinds
<1>7. CASE run.at = "factory"
  <2>1. ContractOf = Contract("Factory", run.p2, run.p3, run.smt)
    BY <1>7 DEF ContractOf
  <2> QED
    BY <1>1, <1>2, <2>1 DEF Kinds
<1> QED
  BY <1>3, <1>4, <1>5, <1>6, <1>7 DEF Stages

\* What is known stays known.
LEMMA KnownStays ==
    ASSUME NEW r, NEW code, NEW longer,
           Known(r, code), \A a, c : Has(code, a, c) => Has(longer, a, c)
    PROVE  Known(r, longer)
  BY DEF Known

\* A contract of a stage is included.
LEMMA InclusionFacts ==
    ASSUME IInv, run.at \in Stages, Included(ContractOf)
    PROVE  /\ chain \in Chains /\ chain' \in Chains /\ chain'.id = chain.id
           /\ Address \in Nat
           /\ Has(chain'.code, Address, ContractOf)
           /\ \A a, c : Has(chain.code, a, c) => Has(chain'.code, a, c)
           /\ Known(run, chain'.code)
<1>1. Under
  BY DEF Under, Stages
<1>2. chain \in Chains /\ run \in Runs /\ Known(run, chain.code)
  BY <1>1 DEF IInv
<1>3. ContractOf \in Contracts
  BY <1>2, ContractIsContract
<1>4. chain.code \in Seq(Contracts)
  BY <1>2 DEF Chains
<1>5. chain' = [chain EXCEPT !.code = Append(chain.code, ContractOf)]
  BY DEF Included
<1>6. chain'.code = Append(chain.code, ContractOf) /\ chain'.id = chain.id
  BY <1>2, <1>5 DEF Chains
<1>7. chain' \in Chains
  BY <1>2, <1>3, <1>4, <1>5, CodeGrows DEF Chains
<1>8. /\ Address \in Nat /\ Has(chain'.code, Address, ContractOf)
      /\ \A a, c : Has(chain.code, a, c) => Has(chain'.code, a, c)
  BY <1>3, <1>4, <1>6, CodeGrows DEF Address
<1> QED
  BY <1>2, <1>6, <1>7, <1>8, KnownStays

-----------------------------------------------------------------------------
(* The steps.                                                              *)

LEMMA InvInit == Init => IInv
  BY DEF Init, IInv, Logs, Idle, Under

\* A run that is over knows nothing, and one that begins neither.
LEMMA NewRunFacts ==
    ASSUME NEW chainID \in {None} \cup CosmosIDs
    PROVE  /\ NewRun(chainID) \in Runs
           /\ NewRun(chainID).at = "waiting"
  BY IDAssumption DEF NewRun, Runs, Lookup

LEMMA InvNext == IInv /\ [Next]_vars => IInv'
<1> SUFFICES ASSUME IInv, [Next]_vars PROVE IInv'
  OBVIOUS
<1>1. ASSUME NEW evmID \in EVMID, NEW chainID \in {None} \cup CosmosIDs, LocalNode(evmID, chainID)
      PROVE  IInv'
  <2>1. [id |-> evmID, code |-> <<>>] \in Chains
    BY DEF Chains
  <2>2. chain' = [id |-> evmID, code |-> <<>>] /\ run' = NewRun(chainID) /\ log' = log
    BY <1>1 DEF LocalNode, Begins
  <2> QED
    BY <2>1, <2>2, NewRunFacts DEF IInv, Known, Logged
<1>2. ASSUME NEW chainID \in {None} \cup CosmosIDs, DeployAgain(chainID) PROVE IInv'
  <2>1. chain # None /\ chain' = chain /\ run' = NewRun(chainID) /\ log' = log
    BY <1>2 DEF DeployAgain, Begins
  <2> QED
    BY <2>1, NewRunFacts DEF IInv, Known, Logged
<1>3. ASSUME NEW evmID \in EVMID, LocalNodeOnly(evmID) PROVE IInv'
  <2>1. [id |-> evmID, code |-> <<>>] \in Chains
    BY DEF Chains
  <2> QED
    BY <1>3, <2>1 DEF IInv, LocalNodeOnly, Under
<1>4. CASE LocalNodeStops
  BY <1>4 DEF IInv, LocalNodeStops, Under
<1>5. CASE NodeServes \/ NodeDies \/ NodeRestarts
  BY <1>5 DEF IInv, NodeServes, NodeDies, NodeRestarts, Under
<1>6. CASE RPCReady
  <2>1. run \in Runs /\ run' = [run EXCEPT !.at = "p2"] /\ UNCHANGED <<chain, log>> /\ Under
    BY <1>6 DEF IInv, RPCReady, Goes, Under
  <2>2. run' \in Runs /\ run'.at = "p2"
    BY <2>1 DEF Runs, Stages
  <2> QED
    BY <2>1, <2>2 DEF IInv, Known, Logged
<1>7. CASE GiveUp
  BY <1>7 DEF IInv, GiveUp, Fails, Under
<1>8. CASE StageFails
  <2>1. run'.at = "failed" /\ log' = log
    BY <1>8 DEF StageFails, Fails
  <2>2. chain' # None => chain' \in Chains
    BY <1>8, InclusionFacts DEF StageFails, IInv
  <2> QED
    BY <2>1, <2>2 DEF IInv, Under
<1>9. CASE DeployPoseidon
  <2>1. /\ run.at \in {"p2", "p3"} /\ run.at \in Stages /\ Included(ContractOf) /\ log' = log
        /\ run \in Runs
    BY <1>9 DEF DeployPoseidon, Stages, IInv, Under
  <2>2. CASE run.at = "p2"
    <3>1. run' = [run EXCEPT !.p2 = Address, !.at = "p3"]
      BY <1>9, <2>2 DEF DeployPoseidon
    <3>2. run' \in Runs /\ run'.at = "p3" /\ run'.p2 = Address
      BY <2>1, <3>1, InclusionFacts DEF Runs, Stages
    <3>3. ContractOf = Contract("PoseidonUnit2L", 0, 0, 0)
      BY <2>2 DEF ContractOf
    <3> QED
      BY <2>1, <3>2, <3>3, InclusionFacts DEF IInv, Known, Logged
  <2>3. CASE run.at = "p3"
    <3>1. run' = [run EXCEPT !.p3 = Address, !.at = "smt"]
      BY <1>9, <2>3 DEF DeployPoseidon
    <3>2. run' \in Runs /\ run'.at = "smt" /\ run'.p3 = Address /\ run'.p2 = run.p2
      BY <2>1, <3>1, InclusionFacts DEF Runs, Stages
    <3>3. ContractOf = Contract("PoseidonUnit3L", 0, 0, 0)
      BY <2>3 DEF ContractOf
    <3> QED
      BY <2>1, <2>3, <3>2, <3>3, InclusionFacts DEF IInv, Known, Logged
  <2> QED
    BY <2>1, <2>2, <2>3
<1>10. CASE DeploySmtLib
  <2>1. /\ run.at = "smt" /\ run.at \in Stages /\ Included(ContractOf) /\ log' = log
        /\ run \in Runs /\ run' = [run EXCEPT !.smt = Address, !.at = "verifiers"]
    BY <1>10 DEF DeploySmtLib, Stages, IInv, Under
  <2>2. /\ run' \in Runs /\ run'.at = "verifiers" /\ run'.smt = Address
        /\ run'.p2 = run.p2 /\ run'.p3 = run.p3
    BY <2>1, InclusionFacts DEF Runs, Stages
  <2>3. ContractOf = Contract("SmtLib", run.p2, run.p3, 0)
    BY <2>1 DEF ContractOf
  <2> QED
    BY <2>1, <2>2, <2>3, InclusionFacts DEF IInv, Known, Logged
<1>11. CASE DeployVerifiers
  <2>1. /\ run.at = "verifiers" /\ run.at \in Stages /\ Included(ContractOf) /\ log' = log
        /\ run \in Runs /\ run' = [run EXCEPT !.at = "factory"]
    BY <1>11 DEF DeployVerifiers, Goes, Stages, IInv, Under
  <2>2. /\ run' \in Runs /\ run'.at = "factory" /\ run'.smt = run.smt
        /\ run'.p2 = run.p2 /\ run'.p3 = run.p3
    BY <2>1 DEF Runs, Stages
  <2> QED
    BY <2>1, <2>2, InclusionFacts DEF IInv, Known, Logged
<1>12. CASE DeployFactory
  <2>1. /\ run.at = "factory" /\ run.at \in Stages /\ Included(ContractOf)
        /\ log' = [log EXCEPT ![chain.id] = [factory |-> Address]]
        /\ run \in Runs /\ run' = [run EXCEPT !.at = "collect"]
    BY <1>12 DEF DeployFactory, Goes, Stages, IInv, Under
  <2>2. /\ run' \in Runs /\ run'.at = "collect" /\ run'.smt = run.smt
        /\ run'.p2 = run.p2 /\ run'.p3 = run.p3
    BY <2>1 DEF Runs, Stages
  <2>3. chain.id \in EVMID /\ Address \in Nat /\ chain'.id = chain.id
    BY <2>1, InclusionFacts DEF Chains
  <2>4. [factory |-> Address] \in [factory : Nat]
    BY <2>3
  <2>5. log' \in Logs /\ log'[chain.id] = [factory |-> Address]
    BY <2>1, <2>3, <2>4 DEF IInv, Logs
  <2>6. log'[chain'.id] # None /\ log'[chain'.id].factory = Address
    <3>1. [factory |-> Address] # None
      BY <2>4, NoneAssumption
    <3> QED
      BY <2>3, <2>5, <3>1
  <2>7. ContractOf = Contract("Factory", run.p2, run.p3, run.smt)
    BY <2>1 DEF ContractOf
  <2>8. Logged(run', log', chain')
    BY <2>1, <2>2, <2>6, <2>7, InclusionFacts DEF Logged
  <2>9. Known(run', chain'.code)
    BY <2>1, <2>2, InclusionFacts DEF Known
  <2> QED
    BY <2>1, <2>2, <2>5, <2>8, <2>9, InclusionFacts DEF IInv
<1>13. CASE Collect
  <2>1. run'.at \in {"done", "failed"}
    <3>1. CASE log[run.lookup] = None
      <4>1. Fails("no log")
        BY <1>13, <3>1 DEF Collect
      <4> QED
        BY <4>1 DEF Fails
    <3>2. CASE log[run.lookup] # None
      BY <1>13, <3>2 DEF Collect, Fails
    <3> QED
      BY <3>1, <3>2
  <2>2. UNCHANGED <<chain, log>>
    BY <1>13 DEF Collect
  <2> QED
    BY <2>1, <2>2 DEF IInv, Under
<1>14. CASE UNCHANGED vars
  BY <1>14 DEF IInv, vars, Under
<1> QED
  BY <1>1, <1>2, <1>3, <1>4, <1>5, <1>6, <1>7, <1>8, <1>9, <1>10, <1>11, <1>12, <1>13, <1>14
     DEF Next, Step

\* For any ids, any number of runs and chains of any length: a run whose ids agree
\* and that deployed everything leaves a manifest of what is on the chain, linked to
\* what else it names, or fails with an empty one (deploy-zeto.sh:153-178).
THEOREM ManifestAlwaysExact == Spec => ManifestExact
<1> DEFINE Exact ==
      run.at = "collect" /\ run' # run /\ run.lookup = chain.id =>
         LET m == manifest'
         IN  \/ /\ At(m.p2, Contract("PoseidonUnit2L", 0, 0, 0))
                /\ At(m.p3, Contract("PoseidonUnit3L", 0, 0, 0))
                /\ At(m.smt, Contract("SmtLib", m.p2, m.p3, 0))
                /\ At(m.factory, Contract("Factory", m.p2, m.p3, m.smt))
             \/ run'.at = "failed" /\ m = Empty
<1>1. IInv /\ [Next]_vars => [Exact]_vars
  <2> SUFFICES ASSUME IInv, Next, run.at = "collect", run' # run, run.lookup = chain.id
               PROVE  Exact
    OBVIOUS
  <2>1. Collect
    BY DEF Next, Step, LocalNode, DeployAgain, Begins, Under, LocalNodeOnly, LocalNodeStops,
           NodeServes, NodeDies, NodeRestarts, RPCReady, GiveUp, StageFails, Stages,
           DeployPoseidon, DeploySmtLib, DeployVerifiers, DeployFactory
  <2>2. Known(run, chain.code) /\ Logged(run, log, chain)
    BY DEF IInv, Under
  <2>3. log[run.lookup] # None
    BY <2>2 DEF Logged
  <2>4. CASE manifest' = [p2 |-> run.p2, p3 |-> run.p3, smt |-> run.smt,
                          factory |-> log[run.lookup].factory]
    BY <2>2, <2>4 DEF Known, Logged, Has, At
  <2>5. CASE Fails("jq") /\ manifest' = Empty
    BY <2>5 DEF Fails
  <2> QED
    BY <2>1, <2>3, <2>4, <2>5 DEF Collect
<1> QED
  BY <1>1, InvInit, InvNext, PTL DEF Spec, ManifestExact

-----------------------------------------------------------------------------
(* The type invariant.                                                     *)

\* A node has a chain, and a chain is within its bound.
NInv ==
    /\ node \in {"down", "starting", "serving"}
    /\ node # "down" => chain # None
    /\ chain # None => Len(chain.code) <= MaxCode

LEMMA NewChain ==
    ASSUME NEW evmID \in EVMID
    PROVE  /\ [id |-> evmID, code |-> <<>>] # None
           /\ Len([id |-> evmID, code |-> <<>>].code) <= MaxCode
<1>1. [id |-> evmID, code |-> <<>>] \in Chains
  BY DEF Chains
<1> QED
  BY <1>1, NoneAssumption, IDAssumption

LEMMA IncludedKeeps ==
    ASSUME IInv, NInv, run.at \in Stages, Included(ContractOf), UNCHANGED node
    PROVE  NInv'
<1>1. chain \in Chains /\ chain' \in Chains
  BY InclusionFacts
<1>2. chain.code \in Seq(Contracts) /\ Len(chain.code) < MaxCode
  BY <1>1 DEF Included, Chains
<1>3. chain'.code = Append(chain.code, ContractOf)
  BY <1>1 DEF Included, Chains
<1>4. Len(chain'.code) = Len(chain.code) + 1 /\ Len(chain.code) \in Nat
  BY <1>2, <1>3
<1>5. Len(chain'.code) <= MaxCode
  BY <1>2, <1>4, IDAssumption
<1>6. chain' # None
  BY <1>1, NoneAssumption
<1> QED
  BY <1>5, <1>6 DEF NInv

LEMMA NInvNext == IInv /\ NInv /\ [Next]_vars => NInv'
<1> SUFFICES ASSUME IInv, NInv, [Next]_vars PROVE NInv'
  OBVIOUS
<1>1. ASSUME NEW evmID \in EVMID, chain' = [id |-> evmID, code |-> <<>>],
             node' \in {"down", "starting"}
      PROVE  NInv'
  BY <1>1, NewChain DEF NInv
<1>2. ASSUME NEW evmID \in EVMID, NEW chainID \in {None} \cup CosmosIDs, LocalNode(evmID, chainID)
      PROVE  NInv'
  BY <1>1, <1>2 DEF LocalNode
<1>3. ASSUME NEW evmID \in EVMID, LocalNodeOnly(evmID) PROVE NInv'
  BY <1>1, <1>3 DEF LocalNodeOnly
<1>4. ASSUME NEW chainID \in {None} \cup CosmosIDs, DeployAgain(chainID) PROVE NInv'
  BY <1>4 DEF DeployAgain, NInv
<1>5. CASE LocalNodeStops
  BY <1>5 DEF LocalNodeStops, NInv
<1>6. CASE NodeServes \/ NodeDies \/ NodeRestarts
  BY <1>6 DEF NodeServes, NodeDies, NodeRestarts, NInv
<1>7. CASE RPCReady \/ GiveUp \/ Collect
  BY <1>7 DEF RPCReady, GiveUp, Collect, NInv
<1>8. CASE StageFails
  <2>1. run.at \in Stages /\ UNCHANGED node
    BY <1>8 DEF StageFails
  <2>2. CASE UNCHANGED chain
    BY <2>1, <2>2 DEF NInv
  <2> QED
    BY <1>8, <2>1, <2>2, IncludedKeeps DEF StageFails
<1>9. CASE DeployPoseidon \/ DeploySmtLib \/ DeployVerifiers \/ DeployFactory
  BY <1>9, IncludedKeeps DEF DeployPoseidon, DeploySmtLib, DeployVerifiers, DeployFactory, Stages
<1>10. CASE UNCHANGED vars
  BY <1>10 DEF vars, NInv
<1> QED
  BY <1>2, <1>3, <1>4, <1>5, <1>6, <1>7, <1>8, <1>9, <1>10 DEF Next, Step

\* There is no node without a chain, and a run that is past a stage knows an address
\* for it, whatever failed before and whatever was started again (deploy-zeto.sh:138).
THEOREM TypeCorrect == Spec => []TypeOK
<1>1. Init => NInv
  BY DEF Init, NInv
<1>2. ASSUME IInv, NInv PROVE TypeOK
  <2>1. ASSUME Under, NEW a, NEW c, Has(chain.code, a, c) PROVE a # 0
    <3>1. chain.code \in Seq(Contracts)
      BY <1>2, <2>1 DEF IInv, Chains
    <3> QED
      BY <2>1, <3>1 DEF Has
  <2>2. Under => Known(run, chain.code)
    BY <1>2 DEF IInv
  <2>3. run.at \in {"p3", "smt", "verifiers", "factory", "collect"} => Under
    BY DEF Under
  <2>4. run.at \in {"p3", "smt", "verifiers", "factory", "collect"} => run.p2 # 0
    BY <2>1, <2>2, <2>3 DEF Known
  <2>5. run.at \in {"smt", "verifiers", "factory", "collect"} => run.p3 # 0
    BY <2>1, <2>2, <2>3 DEF Known
  <2>6. run.at \in {"verifiers", "factory", "collect"} => run.smt # 0
    BY <2>1, <2>2, <2>3 DEF Known
  <2> QED
    BY <1>2, <2>4, <2>5, <2>6 DEF IInv, NInv, TypeOK
<1> QED
  BY <1>1, <1>2, InvInit, InvNext, NInvNext, PTL DEF Spec

-----------------------------------------------------------------------------
(* How long a run takes.                                                   *)

\* The commands a run has before it, at most.
CommandsLeft ==
    CASE run.at = "waiting" -> 7
      [] run.at = "p2" -> 6
      [] run.at = "p3" -> 5
      [] run.at = "smt" -> 4
      [] run.at = "verifiers" -> 3
      [] run.at = "factory" -> 2
      [] run.at = "collect" -> 1
      [] OTHER -> 0

LEMMA StepGains == IInv /\ Step => CommandsLeft' < CommandsLeft
<1> SUFFICES ASSUME IInv, Step PROVE CommandsLeft' < CommandsLeft
  OBVIOUS
<1>1. Under
  BY DEF Step, Under, Stages, RPCReady, GiveUp, StageFails, DeployPoseidon, DeploySmtLib,
         DeployVerifiers, DeployFactory, Collect
<1>2. run \in Runs
  BY <1>1 DEF IInv
<1>3. ASSUME NEW why, Fails(why) PROVE CommandsLeft' = 0
  BY <1>3 DEF Fails, CommandsLeft
<1>4. ASSUME NEW at \in {"p2", "factory", "collect"}, Goes(at) PROVE run'.at = at
  BY <1>2, <1>4 DEF Goes, Runs
<1>5. CASE RPCReady
  BY <1>4, <1>5 DEF RPCReady, CommandsLeft
<1>6. CASE GiveUp \/ StageFails
  <2>1. CommandsLeft' = 0
    BY <1>3, <1>6 DEF GiveUp, StageFails
  <2>2. CommandsLeft > 0
    <3>1. run.at \in {"waiting", "p2", "p3", "smt", "verifiers", "factory"}
      BY <1>6 DEF GiveUp, StageFails, Stages
    <3> QED
      BY <3>1 DEF CommandsLeft
  <2> QED
    BY <2>1, <2>2
<1>7. CASE DeployPoseidon
  <2>1. run.at = "p2" => run'.at = "p3"
    BY <1>2, <1>7 DEF DeployPoseidon, Runs
  <2>2. run.at = "p3" => run'.at = "smt"
    BY <1>2, <1>7 DEF DeployPoseidon, Runs
  <2>3. run.at \in {"p2", "p3"}
    BY <1>7 DEF DeployPoseidon
  <2> QED
    BY <2>1, <2>2, <2>3 DEF CommandsLeft
<1>8. CASE DeploySmtLib
  <2>1. run.at = "smt" /\ run'.at = "verifiers"
    BY <1>2, <1>8 DEF DeploySmtLib, Runs
  <2> QED
    BY <2>1 DEF CommandsLeft
<1>9. CASE DeployVerifiers
  BY <1>4, <1>9 DEF DeployVerifiers, CommandsLeft
<1>10. CASE DeployFactory
  BY <1>4, <1>10 DEF DeployFactory, CommandsLeft
<1>11. CASE Collect
  <2>1. run.at = "collect"
    BY <1>11 DEF Collect
  <2>2. CommandsLeft' = 0
    <3>1. CASE Fails("no log") \/ Fails("jq")
      BY <1>3, <3>1
    <3>2. CASE run' = [at |-> "done"]
      BY <3>2 DEF CommandsLeft
    <3> QED
      BY <1>11, <3>1, <3>2 DEF Collect
  <2> QED
    BY <2>1, <2>2 DEF CommandsLeft
<1> QED
  BY <1>5, <1>6, <1>7, <1>8, <1>9, <1>10, <1>11 DEF Step

\* A run never goes back or starts over: each of its own steps leaves it fewer commands,
\* of seven, and whatever becomes of the node meanwhile leaves the run as it is
\* (deploy-zeto.sh:47-151).
THEOREM RunsGoForward == Spec => [][Under => CommandsLeft' < CommandsLeft \/ run' = run]_vars
<1>1. IInv /\ [Next]_vars => [Under => CommandsLeft' < CommandsLeft \/ run' = run]_vars
  BY StepGains DEF Next, DeployAgain, LocalNode, Begins, LocalNodeOnly, LocalNodeStops,
                   NodeServes, NodeDies, NodeRestarts
<1> QED
  BY <1>1, InvInit, InvNext, PTL DEF Spec

=============================================================================
