--------------------------- MODULE Sandboxd_proofs ---------------------------
(***************************************************************************)
(* Theorems about Sandboxd: through crashes, pruning, exports and imports, *)
(* the state at a height is the work of that many blocks, an export is the *)
(* version it was asked for, and a block is executed under an id that is   *)
(* not the chain's only if the operator gave it, and never the first one.  *)
(***************************************************************************)
EXTENDS Sandboxd, WellFoundedInduction, TLAPS

-----------------------------------------------------------------------------
(* The latest version.                                                     *)

\* Latest, of any set of heights.
Greatest(S) == CHOOSE h \in S : \A i \in S : i <= h

LEMMA GreatestIsGreatest ==
    ASSUME NEW S \in SUBSET Height, S # {}
    PROVE  Greatest(S) \in S /\ \A i \in S : i <= Greatest(S)
<1> DEFINE T == {MaxBlocks - h : h \in S}
<1>1. S \subseteq Nat /\ \A h \in S : h <= MaxBlocks
  BY BlocksAssumption DEF Height
<1>2. T \in SUBSET Nat /\ T # {}
  <2>1. \A h \in S : MaxBlocks - h \in Nat
    BY <1>1, BlocksAssumption
  <2>2. PICK h \in S : TRUE
    OBVIOUS
  <2>3. MaxBlocks - h \in T
    OBVIOUS
  <2> QED
    BY <2>1, <2>3
<1>3. IsWellFoundedOn(OpToRel(<, Nat), Nat)
  BY NatLessThanWellFounded
<1>4. PICK t \in T : \A u \in T : ~(<<u, t>> \in OpToRel(<, Nat))
  BY <1>2, <1>3, WFMin
<1>5. \A u \in T : ~(u < t)
  BY <1>2, <1>4 DEF OpToRel
<1>6. PICK h \in S : t = MaxBlocks - h
  OBVIOUS
<1>7. ASSUME NEW i \in S PROVE i <= h
  <2>1. MaxBlocks - i \in T
    OBVIOUS
  <2>2. ~(MaxBlocks - i < MaxBlocks - h)
    BY <1>5, <1>6, <2>1
  <2> QED
    BY <1>1, <2>2, BlocksAssumption
<1> QED
  BY <1>7 DEF Greatest

LEMMA GreatestAdded ==
    ASSUME NEW S \in SUBSET Nat, NEW h \in Nat, \A i \in S : i < h
    PROVE  Greatest(S \cup {h}) = h
<1>1. \A g \in S \cup {h} : (\A i \in S \cup {h} : i <= g) <=> g = h
  OBVIOUS
<1> QED
  BY <1>1 DEF Greatest

-----------------------------------------------------------------------------
(* The invariant.  Each of them is about a value, not about a variable.    *)

\* The blocks since the last restart at height zero.
Age(s) == s.blocks - s.since

Sound(s) == s \in State /\ s.since <= s.blocks

SoundVersions(d) ==
    /\ DOMAIN d \subseteq Height
    /\ \A h \in DOMAIN d : Sound(d[h]) /\ Age(d[h]) = h

\* A genesis document begins with the block after those that made its state.
SoundGenesis(g) == Sound(g.state) /\ g.initialHeight = Age(g.state) + 1

\* So does an export, unless it is for a restart at height zero.
SoundExport(e) == Sound(e.state) /\ (e.height # 0 => e.height = Age(e.state) + 1)

\* What a version is worth depends on the documents and the blocks that become
\* versions; those depend on the application having loaded the latest one.
IInv ==
    /\ SoundVersions(db)
    /\ genesis # None => SoundGenesis(genesis)
    /\ export # None => SoundExport(export)
    /\ phase = "running" => genesis # None
    /\ phase = "running" /\ Begun => app.height = Latest
    /\ work # None =>
        /\ phase = "running"
        /\ Sound(work)
        /\ Age(work) = IF Begun THEN Latest + 1 ELSE genesis.initialHeight

LEMMA SoundFacts ==
    ASSUME NEW s, Sound(s)
    PROVE  /\ s.blocks \in Nat /\ s.since \in Nat
           /\ s.since <= s.blocks /\ s.blocks <= MaxBlocks
           /\ Age(s) \in Nat /\ Age(s) <= MaxBlocks
  BY BlocksAssumption DEF Sound, State, Age

LEMMA LatestFacts ==
    ASSUME SoundVersions(db), Begun
    PROVE  /\ Latest \in DOMAIN db /\ Latest \in Height
           /\ \A h \in DOMAIN db : h <= Latest
           /\ Sound(db[Latest]) /\ Age(db[Latest]) = Latest
<1>1. Latest = Greatest(DOMAIN db)
  BY DEF Latest, Greatest
<1>2. Latest \in DOMAIN db /\ \A h \in DOMAIN db : h <= Latest
  BY <1>1, GreatestIsGreatest DEF SoundVersions, Begun
<1> QED
  BY <1>2 DEF SoundVersions

\* One more block on a sound state.
LEMMA OneMoreBlock ==
    ASSUME NEW s, Sound(s), s.blocks < MaxBlocks
    PROVE  /\ Sound([s EXCEPT !.blocks = @ + 1])
           /\ Age([s EXCEPT !.blocks = @ + 1]) = Age(s) + 1
  BY BlocksAssumption DEF Sound, State, Age

-----------------------------------------------------------------------------
(* The process.                                                            *)

Apps ==
    [prefixes : {"cosmos-evm"}, db : {"memory", "home"}, chainID : ChainID \cup {None},
     height : Nat, open : SUBSET {"store", "mempool"}]

Starts == [command : {"start"}, outcome : {"ok"}, flag : ChainID \cup {None}]

\* The ids and the prefixes that a process uses.  A node that was refused cannot
\* have left anything that a later chain is made from, so its genesis stays what
\* it was refused for.
PInv ==
    /\ phase \in {"down", "main", "rooted", "command", "running"}
    /\ phase # "down" => config \in [prefixes : {"cosmos-evm"}, sealed : {TRUE}]
    /\ phase \in {"down", "main"} => app = None
    /\ phase \in {"rooted", "command", "running"} => app \in Apps
    /\ genesis # None => genesis.chainID \in ChainID
    /\ Begun => genesis # None
    /\ export # None => Begun
    /\ phase = "running" =>
        /\ last \in Starts
        /\ app.chainID = IF last.flag # None THEN last.flag ELSE genesis.chainID
        /\ work # None /\ ~Begun => app.chainID = genesis.chainID
    /\ last.outcome = "refused" =>
        ~Begun /\ export = None /\ last.flag \notin {None, genesis.chainID}

-----------------------------------------------------------------------------
(* The steps.                                                              *)

LEMMA InvInit == Init => IInv
  BY DEF Init, IInv, SoundVersions

\* A process that ends leaves the files as they are.
LEMMA GoneKeeps ==
    ASSUME IInv, Gone, SoundVersions(db'), UNCHANGED genesis,
           export' # None => SoundExport(export')
    PROVE  IInv'
  BY DEF IInv, Gone

LEMMA InvNext == IInv /\ PInv /\ [Next]_vars => IInv'
<1> SUFFICES ASSUME IInv, PInv, [Next]_vars PROVE IInv'
  OBVIOUS
<1>1. CASE setupSDKConfig \/ NewRootCmd
  BY <1>1 DEF IInv, setupSDKConfig, NewRootCmd, Begun, Latest
<1>2. CASE PersistentPreRunE
  BY <1>2 DEF IInv, PersistentPreRunE, Ends, Gone, Begun, Latest
<1>3. CASE NoHomeDirectory \/ Crash
  BY <1>3, GoneKeeps DEF IInv, NoHomeDirectory, Crash, Ends
<1>4. ASSUME NEW id \in ChainID, InitCmd(id) PROVE IInv'
  <2> DEFINE state == [blocks |-> 0, since |-> 0]
             made == [chainID |-> id, initialHeight |-> 1, state |-> state]
  <2>1. SoundGenesis(made)
    BY BlocksAssumption DEF SoundGenesis, Sound, State, Age
  <2>2. genesis' = made
    BY <1>4 DEF InitCmd
  <2> QED
    BY <1>4, <2>1, <2>2 DEF IInv, InitCmd, Ends, Gone
<1>5. ASSUME NEW id \in ChainID, Import(id) PROVE IInv'
  <2> DEFINE state == IF export.height = 0
                      THEN [export.state EXCEPT !.since = export.state.blocks]
                      ELSE export.state
             made == [chainID |-> id,
                      initialHeight |-> IF export.height = 0 THEN 1 ELSE export.height,
                      state |-> state]
  <2>1. SoundExport(export)
    BY <1>5 DEF IInv, Import
  <2>2. SoundGenesis(made)
    BY <2>1, BlocksAssumption DEF SoundExport, SoundGenesis, Sound, State, Age
  <2>3. genesis' = made /\ db' = <<>> /\ export' = None /\ phase' = "down" /\ work' = work
    BY <1>5 DEF Import
  <2>4. work = None
    BY <1>5 DEF IInv, Import
  <2>5. SoundVersions(<<>>)
    BY DEF SoundVersions
  <2> HIDE DEF made
  <2> QED
    BY <2>2, <2>3, <2>4, <2>5 DEF IInv
<1>6. CASE PruneCmd
  <2>1. PICK kept \in SUBSET DOMAIN db : db' = [h \in kept |-> db[h]]
    BY <1>6 DEF PruneCmd
  <2>2. SoundVersions([h \in kept |-> db[h]])
    BY DEF IInv, SoundVersions
  <2> QED
    BY <1>6, <2>1, <2>2, GoneKeeps DEF IInv, PruneCmd, Ends
<1>7. ASSUME NEW flag \in {None} \cup ChainID, StartCmd(flag) PROVE IInv'
  <2>1. CASE Ends("load", "exit")
    <3>1. SoundVersions(db') /\ UNCHANGED genesis /\ (export' # None => SoundExport(export'))
      BY <1>7 DEF IInv, StartCmd
    <3> QED
      BY <2>1, <3>1, GoneKeeps DEF Ends
  <2>2. CASE \E pool \in {{}, {"mempool"}} :
                app' = [newApp(flag) EXCEPT !.open = @ \cup pool] /\ phase' = "running"
    <3>1. app'.height = IF Begun THEN Latest ELSE 0
      BY <2>2 DEF newApp
    <3>2. work = None
      BY <1>7 DEF IInv, StartCmd
    <3>3. UNCHANGED <<genesis, db, export>> /\ genesis # None /\ phase' = "running"
      BY <1>7, <2>2 DEF StartCmd
    <3>4. CASE work' = work
      BY <3>1, <3>2, <3>3, <3>4 DEF IInv, Begun, Latest
    <3>5. CASE work' # work
      BY <1>7, <3>5, GoneKeeps DEF IInv, StartCmd, Ends
    <3> QED
      BY <3>4, <3>5
  <2> QED
    BY <1>7, <2>1, <2>2 DEF StartCmd
<1>8. CASE Refuse \/ Close
  BY <1>8, GoneKeeps DEF IInv, Refuse, Close
<1>9. CASE FinalizeBlock
  <2> DEFINE before == IF Begun THEN db[app.height] ELSE genesis.state
  <2>1. phase = "running" /\ before.blocks < MaxBlocks
    BY <1>9 DEF FinalizeBlock
  <2>2. work' = [before EXCEPT !.blocks = @ + 1]
    BY <1>9 DEF FinalizeBlock
  <2>3. Sound(before) /\ Age(before) + 1 = IF Begun THEN Latest + 1 ELSE genesis.initialHeight
    BY <2>1, LatestFacts DEF IInv, SoundGenesis
  <2>4. UNCHANGED <<phase, genesis, db, app, export>>
    BY <1>9 DEF FinalizeBlock
  <2> HIDE DEF before
  <2>5. Sound(work') /\ Age(work') = IF Begun THEN Latest + 1 ELSE genesis.initialHeight
    BY <2>1, <2>2, <2>3, OneMoreBlock
  <2> QED
    BY <2>1, <2>4, <2>5 DEF IInv, Begun, Latest
<1>10. CASE Commit
  <2> DEFINE height == IF Begun THEN app.height + 1 ELSE genesis.initialHeight
             made == [h \in DOMAIN db \cup {height} |-> IF h = height THEN work ELSE db[h]]
  <2>1. phase = "running" /\ work # None /\ work' = None
    BY <1>10 DEF Commit
  <2>2. db' = made /\ app' = [app EXCEPT !.height = height] /\ UNCHANGED <<phase, genesis, export>>
    BY <1>10 DEF Commit
  <2>3. Sound(work) /\ Age(work) = height
    BY <2>1 DEF IInv
  <2>4. height \in Height /\ \A h \in DOMAIN db : h < height
    <3>1. height \in Nat /\ height <= MaxBlocks
      BY <2>3, SoundFacts
    <3>2. CASE Begun
      <4>1. Latest \in Height /\ \A h \in DOMAIN db : h <= Latest /\ h \in Height
        BY <3>2, LatestFacts DEF IInv, SoundVersions
      <4>2. height = Latest + 1
        BY <2>1, <3>2 DEF IInv
      <4> HIDE DEF height
      <4> QED
        BY <3>1, <4>1, <4>2, BlocksAssumption DEF Height
    <3>3. CASE ~Begun
      <4>1. Sound(genesis.state) /\ height = Age(genesis.state) + 1
        BY <2>1, <3>3 DEF IInv, SoundGenesis
      <4>2. height >= 1
        BY <4>1, SoundFacts
      <4> QED
        BY <3>1, <3>3, <4>2, BlocksAssumption DEF Height, Begun
    <3> QED
      BY <3>2, <3>3
  <2>5. SoundVersions(made)
    BY <2>3, <2>4 DEF IInv, SoundVersions
  <2>6. Greatest(DOMAIN made) = height
    <3>1. DOMAIN db \subseteq Nat
      BY BlocksAssumption DEF IInv, SoundVersions, Height
    <3>2. height \in Nat
      BY <2>4 DEF Height
    <3> HIDE DEF height
    <3> QED
      BY <2>4, <3>1, <3>2, GreatestAdded
  <2>7. Latest' = Greatest(DOMAIN made)
    BY <2>2 DEF Latest, Greatest
  <2>8. app'.height = height
    BY <2>1, <2>2 DEF PInv, Apps
  <2> HIDE DEF height, made
  <2> QED
    BY <2>1, <2>2, <2>5, <2>6, <2>7, <2>8 DEF IInv
<1>11. ASSUME NEW height \in {-1} \cup Height, NEW zero \in BOOLEAN, ExportCmd(height, zero)
       PROVE  IInv'
  <2> DEFINE at == LoadedFor(height)
             made == ExportAppStateAndValidators(at, zero)
  <2>1. CASE at \in DOMAIN db
    <3>1. Sound(db[at]) /\ Age(db[at]) = at
      BY <2>1 DEF IInv, SoundVersions
    <3>2. SoundExport(made)
      BY <3>1 DEF SoundExport, ExportAppStateAndValidators, DocumentHeight
    <3>3. export' = made /\ Gone /\ UNCHANGED <<genesis, db>>
      BY <1>11, <2>1 DEF ExportCmd
    <3> HIDE DEF made
    <3> QED
      BY <3>2, <3>3, GoneKeeps DEF IInv
  <2>2. CASE at \notin DOMAIN db
    BY <1>11, <2>2, GoneKeeps DEF IInv, ExportCmd, Ends
  <2> QED
    BY <2>1, <2>2
<1>12. CASE UNCHANGED vars
  BY <1>12 DEF IInv, vars, Begun, Latest
<1> QED
  BY <1>1, <1>2, <1>3, <1>4, <1>5, <1>6, <1>7, <1>8, <1>9, <1>10, <1>11, <1>12 DEF Next

LEMMA PInvInit == Init => PInv
  BY DEF Init, PInv, Begun

\* A process that ends with the files as they are, and not as one refused.
LEMMA GoneKeepsProcess ==
    ASSUME PInv, Gone, UNCHANGED <<genesis, db, export>>, last'.outcome # "refused"
    PROVE  PInv'
  BY DEF PInv, Gone, Begun

LEMMA PInvNext == IInv /\ PInv /\ [Next]_vars => PInv'
<1> SUFFICES ASSUME IInv, PInv, [Next]_vars PROVE PInv'
  OBVIOUS
<1>1. CASE setupSDKConfig
  BY <1>1 DEF PInv, setupSDKConfig, Begun
<1>2. CASE NewRootCmd
  <2> DEFINE made == [prefixes |-> config.prefixes, db |-> "memory",
                      chainID |-> None, height |-> 0, open |-> {}]
  <2>1. config \in [prefixes : {"cosmos-evm"}, sealed : {TRUE}]
    BY <1>2 DEF PInv, NewRootCmd
  <2>2. made \in Apps
    BY <2>1 DEF Apps
  <2>3. config' \in [prefixes : {"cosmos-evm"}, sealed : {TRUE}]
    BY <1>2, <2>1 DEF NewRootCmd
  <2>4. app' = made /\ phase' = "rooted" /\ UNCHANGED <<genesis, db, work, export, last>>
    BY <1>2 DEF NewRootCmd
  <2> HIDE DEF made
  <2> QED
    BY <2>1, <2>2, <2>3, <2>4 DEF PInv, Begun
<1>3. CASE PersistentPreRunE
  <2>1. CASE Ends("prerun", "exit")
    BY <1>3, <2>1, GoneKeepsProcess DEF PersistentPreRunE, Ends
  <2>2. CASE phase' = "command" /\ UNCHANGED <<config, app, work, last>>
    BY <1>3, <2>2 DEF PInv, PersistentPreRunE, Begun
  <2> QED
    BY <1>3, <2>1, <2>2 DEF PersistentPreRunE
<1>4. CASE NoHomeDirectory \/ Crash
  BY <1>4, GoneKeepsProcess DEF NoHomeDirectory, Crash, Ends
<1>5. ASSUME NEW id \in ChainID, InitCmd(id) PROVE PInv'
  <2>1. genesis'.chainID = id /\ genesis = None /\ UNCHANGED <<db, export>>
    BY <1>5 DEF InitCmd
  <2>2. ~Begun /\ export = None
    BY <2>1 DEF PInv
  <2>3. Gone /\ last'.outcome = "ok"
    BY <1>5 DEF InitCmd, Ends
  <2> QED
    BY <2>1, <2>2, <2>3 DEF PInv, Gone, Begun
<1>6. ASSUME NEW id \in ChainID, Import(id) PROVE PInv'
  <2>1. genesis'.chainID = id /\ db' = <<>> /\ export' = None
    BY <1>6 DEF Import
  <2>2. phase = "down" /\ UNCHANGED <<phase, config, app, work, last>>
    BY <1>6 DEF Import
  <2>3. last.outcome # "refused"
    BY <1>6 DEF Import, PInv
  <2> QED
    BY <2>1, <2>2, <2>3 DEF PInv, Begun
<1>7. CASE PruneCmd
  <2>1. PICK kept \in SUBSET DOMAIN db : Latest \in kept /\ db' = [h \in kept |-> db[h]]
    BY <1>7 DEF PruneCmd
  <2>2. Begun /\ Begun'
    BY <1>7, <2>1 DEF PruneCmd, Begun
  <2>3. Gone /\ last'.outcome = "ok" /\ UNCHANGED <<genesis, export>>
    BY <1>7 DEF PruneCmd, Ends
  <2> QED
    BY <2>2, <2>3 DEF PInv, Gone
<1>8. ASSUME NEW flag \in {None} \cup ChainID, StartCmd(flag) PROVE PInv'
  <2>1. CASE Ends("load", "exit")
    BY <1>8, <2>1, GoneKeepsProcess DEF StartCmd, Ends
  <2>2. CASE /\ phase' = "running"
             /\ \E pool \in {{}, {"mempool"}} : app' = [newApp(flag) EXCEPT !.open = @ \cup pool]
             /\ last' = [command |-> "start", outcome |-> "ok", flag |-> flag]
             /\ UNCHANGED <<config, work>>
    <3>1. PICK pool \in {{}, {"mempool"}} : app' = [newApp(flag) EXCEPT !.open = @ \cup pool]
      BY <2>2
    <3>2. genesis # None /\ UNCHANGED <<genesis, db, export>> /\ phase = "command"
      BY <1>8 DEF StartCmd
    <3>3. genesis.chainID \in ChainID /\ config \in [prefixes : {"cosmos-evm"}, sealed : {TRUE}]
      BY <3>2 DEF PInv
    <3>4. flag \in ChainID \cup {None}
      OBVIOUS
    <3>5. /\ chainIDFromOpts(flag) = IF flag # None THEN flag ELSE genesis.chainID
          /\ chainIDFromOpts(flag) \in ChainID
      BY <3>2, <3>3, <3>4 DEF chainIDFromOpts
    <3>6. IF Begun THEN Latest \in Nat ELSE TRUE
      BY LatestFacts, BlocksAssumption DEF IInv, Height
    <3>7. newApp(flag) \in Apps /\ newApp(flag).open = {"store"}
      BY <3>3, <3>5, <3>6 DEF newApp, Apps
    <3>8. app' \in Apps /\ app'.chainID = chainIDFromOpts(flag)
      <4>1. app'.chainID = newApp(flag).chainID
        BY <3>1, <3>7 DEF Apps
      <4> QED
        BY <3>1, <3>7, <4>1 DEF Apps, newApp
    <3>9. last' \in Starts /\ last'.flag = flag /\ last'.outcome = "ok"
      BY <2>2, <3>4 DEF Starts
    <3>10. work = None /\ work' = None /\ config' = config
      BY <2>2, <3>2 DEF IInv
    <3> QED
      BY <2>2, <3>2, <3>3, <3>5, <3>8, <3>9, <3>10 DEF PInv, Begun
  <2> QED
    BY <1>8, <2>1, <2>2 DEF StartCmd
<1>9. CASE Refuse
  <2>1. /\ phase = "running" /\ ~Begun /\ app.chainID # genesis.chainID
        /\ Gone /\ last' = [last EXCEPT !.outcome = "refused"]
        /\ UNCHANGED <<genesis, db, export>>
    BY <1>9 DEF Refuse
  <2>2. last \in Starts /\ last.flag \notin {None, genesis.chainID} /\ export = None
    BY <2>1 DEF PInv
  <2>3. last'.flag = last.flag
    BY <2>1, <2>2 DEF Starts
  <2> QED
    BY <2>1, <2>2, <2>3 DEF PInv, Gone, Begun
<1>10. CASE FinalizeBlock
  <2>1. phase = "running" /\ (~Begun => app.chainID = genesis.chainID)
    BY <1>10 DEF FinalizeBlock
  <2>2. UNCHANGED <<phase, config, genesis, db, app, export, last>>
    BY <1>10 DEF FinalizeBlock
  <2> QED
    BY <2>1, <2>2 DEF PInv, Begun
<1>11. CASE Commit
  <2> DEFINE height == IF Begun THEN app.height + 1 ELSE genesis.initialHeight
  <2>1. phase = "running" /\ work # None /\ app' = [app EXCEPT !.height = height]
    BY <1>11 DEF Commit
  <2>2. UNCHANGED <<phase, config, genesis, export, last>>
    BY <1>11 DEF Commit
  <2>3. app \in Apps /\ genesis # None
    BY <2>1 DEF PInv, IInv
  <2>4. height \in Nat
    <3>1. genesis.initialHeight \in Nat
      BY <2>3, SoundFacts DEF IInv, SoundGenesis
    <3> QED
      BY <2>3, <3>1 DEF Apps
  <2> HIDE DEF height
  <2>5. app' \in Apps /\ app'.chainID = app.chainID
    BY <2>1, <2>3, <2>4 DEF Apps
  <2>6. height \in DOMAIN db'
    BY <1>11 DEF Commit, height
  <2>7. Begun'
    BY <2>6 DEF Begun
  <2>8. /\ last \in Starts
        /\ app.chainID = IF last.flag # None THEN last.flag ELSE genesis.chainID
    BY <2>1 DEF PInv
  <2>9. last.outcome # "refused"
    BY <2>8 DEF Starts
  <2> QED
    BY <2>1, <2>2, <2>3, <2>5, <2>7, <2>8, <2>9 DEF PInv
<1>12. CASE Close
  <2>1. Gone /\ UNCHANGED <<genesis, db, export>> /\ last'.outcome # "refused"
    BY <1>12 DEF Close
  <2> QED
    BY <2>1, GoneKeepsProcess
<1>13. ASSUME NEW height \in {-1} \cup Height, NEW zero \in BOOLEAN, ExportCmd(height, zero)
       PROVE  PInv'
  <2>1. Begun /\ UNCHANGED <<genesis, db>> /\ Gone /\ last'.outcome # "refused"
    BY <1>13 DEF ExportCmd, Ends
  <2> QED
    BY <2>1 DEF PInv, Gone, Begun
<1>14. CASE UNCHANGED vars
  BY <1>14 DEF PInv, vars, Begun
<1> QED
  BY <1>1, <1>2, <1>3, <1>4, <1>5, <1>6, <1>7, <1>8, <1>9, <1>10, <1>11, <1>12, <1>13,
     <1>14 DEF Next

\* What the two together keep, of any number of blocks and any chain ids.
LEMMA Invariance == Spec => [](IInv /\ PInv)
  BY InvInit, InvNext, PInvInit, PInvNext, PTL DEF Spec

\* For any number of blocks and any chain ids: no block is lost and none executed
\* twice, over crashes between FinalizeBlock and Commit, and the heights of a chain
\* made from an export go on where that export was made (export.go:18).
THEOREM HeightsAlwaysContinue == Spec => []HeightsContinue
<1>1. IInv => HeightsContinue
  BY DEF IInv, SoundVersions, HeightsContinue, Age
<1> QED
  BY <1>1, Invariance, PTL

\* An application is of a process that is past main, a block of a running node, which
\* has the latest version loaded (app.go:664); what is on the disk is what the commands
\* and the blocks make.
THEOREM TypeCorrect == Spec => []TypeOK
<1>1. ASSUME IInv, PInv PROVE TypeOK
  <2>1. app # None <=> phase \in {"rooted", "command", "running"}
    <3>1. None \notin Apps
      <4>1. Apps \subseteq
                [prefixes : {"cosmos-sdk", "cosmos-evm"}, db : {"memory", "home"},
                 chainID : ChainID \cup {None}, height : Nat,
                 open : SUBSET {"store", "mempool"}]
        BY DEF Apps
      <4> QED
        BY <4>1, NoneAssumption
    <3> QED
      BY <1>1, <3>1 DEF PInv
  <2>2. export # None => /\ export.height \in {0} \cup (Height \cup {MaxBlocks + 1})
                         /\ export.state \in State
    BY <1>1, SoundFacts, BlocksAssumption DEF IInv, SoundExport, Sound, Height
  <2> QED
    BY <1>1, <2>1, <2>2 DEF IInv, PInv, TypeOK, SoundVersions, SoundGenesis, Sound
<1> QED
  BY <1>1, Invariance, PTL

\* Whatever flags the operator starts with and however often, the first block is
\* executed under the id of the genesis, a later one under another id only if the
\* operator gave it to the process that executes it (app.go:1040), and no application
\* is made before the prefixes are set and sealed (main.go:19).
THEOREM BlocksUnderGivenID == Spec => []ExecutedUnderGivenID
<1>1. ASSUME IInv, PInv PROVE ExecutedUnderGivenID
  <2>1. work # None /\ app.chainID # genesis.chainID =>
            Begun /\ app.chainID \in ChainID /\ last.flag = app.chainID
    BY <1>1 DEF IInv, PInv, Starts
  <2> QED
    BY <1>1, <2>1 DEF IInv, PInv, ExecutedUnderGivenID, Apps
<1> QED
  BY <1>1, Invariance, PTL

\* An export of any height that is kept is that version and no other, and says that
\* it is for a restart at zero only if it is (app.go:1073).
THEOREM ExportsAreAsAsked == Spec => ExportAsAsked
<1> DEFINE Asked ==
        export' # export /\ export' # None =>
            /\ LET h == IF last'.height = -1 THEN Latest ELSE last'.height
               IN  h \in DOMAIN db /\ export'.state = db[h]
            /\ last'.forZeroHeight <=> export'.height = 0
            /\ db' = db
<1>1. ASSUME IInv, [Next]_vars, export' # export, export' # None PROVE Asked
  <2>1. PICK height \in {-1} \cup Height, zero \in BOOLEAN : ExportCmd(height, zero)
    BY <1>1 DEF Next, vars, setupSDKConfig, NoHomeDirectory, NewRootCmd, PersistentPreRunE,
       Crash, InitCmd, Import, PruneCmd, StartCmd, Refuse, FinalizeBlock, Commit, Close
  <2> DEFINE at == LoadedFor(height)
  <2>2. /\ at \in DOMAIN db /\ export' = ExportAppStateAndValidators(at, zero) /\ db' = db
        /\ last' = [command |-> "export", outcome |-> "ok",
                    height |-> height, forZeroHeight |-> zero]
    BY <1>1, <2>1 DEF ExportCmd
  <2>3. last'.height = height /\ last'.forZeroHeight = zero
    BY <2>2
  <2>4. at \in Height
    BY <1>1, <2>2 DEF IInv, SoundVersions
  <2>5. /\ export'.state = db[at]
        /\ export'.height = IF zero THEN 0 ELSE at + 1
    BY <2>2 DEF ExportAppStateAndValidators, DocumentHeight
  <2>6. at = IF height = -1 THEN Latest ELSE height
    BY DEF LoadedFor
  <2> HIDE DEF at
  <2>7. zero <=> export'.height = 0
    BY <2>4, <2>5, BlocksAssumption DEF Height
  <2> QED
    BY <2>2, <2>3, <2>5, <2>6, <2>7
<1> QED
  BY <1>1, Invariance, PTL DEF Spec, ExportAsAsked

=============================================================================
