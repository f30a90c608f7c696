--------------------------- MODULE Genesis_proofs ---------------------------
(***************************************************************************)
(* Theorems about Genesis, for any names that the environment may give the *)
(* script, any denom that the EVM may have by default, that of the         *)
(* deposits included, and any number of genesis accounts: a genesis fails  *)
(* to boot only for a reason that FailsWithReason lists, the EVM's coin    *)
(* has 18 decimals, and no two accounts have one number.                   *)
(*                                                                         *)
(* The argument follows two lists: how much of Script is still to come,    *)
(* and how much of GenesisOrder.                                           *)
(***************************************************************************)
EXTENDS Genesis, FiniteSetTheorems, SequenceTheorems, TLAPS

-----------------------------------------------------------------------------
(* What is left of a list after k of its elements.                         *)

Remains(s, whole, k) ==
    /\ k \in 0..Len(whole)
    /\ s = SubSeq(whole, k + 1, Len(whole))

LEMMA RemainsAll ==
    ASSUME NEW S, NEW whole \in Seq(S) PROVE Remains(whole, whole, 0)
BY SubSeqFull DEF Remains

LEMMA RemainsFacts ==
    ASSUME NEW S, NEW whole \in Seq(S), NEW s, NEW k, Remains(s, whole, k)
    PROVE  /\ s = <<>> <=> k = Len(whole)
           /\ s # <<>> => /\ k + 1 \in 1..Len(whole)
                          /\ Head(s) = whole[k + 1]
                          /\ Remains(Tail(s), whole, k + 1)
           /\ ToSet(s) = {whole[i] : i \in (k + 1)..Len(whole)}
<1>1. Len(whole) \in Nat /\ k \in 0..Len(whole) /\ s = SubSeq(whole, k + 1, Len(whole))
  BY DEF Remains
<1>2. CASE k = Len(whole)
  <2>1. s = <<>>
    BY <1>1, <1>2, SubSeqEmpty
  <2>2. ToSet(s) = {}
    BY <2>1 DEF ToSet
  <2> QED
    BY <1>1, <1>2, <2>1, <2>2
<1>3. CASE k # Len(whole)
  <2>1. /\ k + 1 \in 1..Len(whole) /\ Len(whole) \in (k + 1)..Len(whole)
        /\ Len(whole) - k # 0
    BY <1>1, <1>3
  <2>2. Head(s) = whole[k + 1] /\ Tail(s) = SubSeq(whole, (k + 1) + 1, Len(whole))
    BY <1>1, <2>1, HeadTailOfSubSeq
  <2>3. \A i \in (k + 1)..Len(whole) : whole[i] \in S
    BY <1>1, ElementOfSeq
  <2>4. /\ s \in Seq(S)
        /\ Len(s) = Len(whole) - k
        /\ \A i \in 1..(Len(whole) - k) : s[i] = whole[k + i]
    <3>1. /\ SubSeq(whole, k + 1, Len(whole)) \in Seq(S)
          /\ Len(SubSeq(whole, k + 1, Len(whole)))
                = IF k + 1 <= Len(whole) THEN Len(whole) - (k + 1) + 1 ELSE 0
          /\ \A i \in 1..(Len(whole) - (k + 1) + 1) :
                SubSeq(whole, k + 1, Len(whole))[i] = whole[(k + 1) + i - 1]
      BY <1>1, <2>1, <2>3, SubSeqProperties
    <3>2. \A i \in Nat : (k + 1) + i - 1 = k + i
      BY <1>1
    <3> QED
      BY <1>1, <2>1, <3>1, <3>2
  <2>5. DOMAIN s = 1..(Len(whole) - k)
    BY <2>4, LenProperties
  <2>6. ToSet(s) = {whole[i] : i \in (k + 1)..Len(whole)}
    <3>1. ASSUME NEW i \in (k + 1)..Len(whole) PROVE whole[i] \in ToSet(s)
      <4>1. i - k \in DOMAIN s /\ s[i - k] = whole[i]
        <5>1. i - k \in 1..(Len(whole) - k) /\ k + (i - k) = i
          BY <1>1
        <5>2. s[i - k] = whole[k + (i - k)]
          BY <2>4, <5>1
        <5> QED
          BY <2>5, <5>1, <5>2
      <4> QED
        BY <4>1 DEF ToSet
    <3>2. ASSUME NEW i \in DOMAIN s PROVE s[i] \in {whole[j] : j \in (k + 1)..Len(whole)}
      <4>1. s[i] = whole[k + i] /\ k + i \in (k + 1)..Len(whole)
        BY <1>1, <2>4, <2>5
      <4> QED
        BY <4>1
    <3> QED
      BY <3>1, <3>2 DEF ToSet
  <2>7. s # <<>>
    <3>1. Len(s) # 0
      BY <2>1, <2>4
    <3> QED
      BY <3>1
  <2>8. Remains(Tail(s), whole, k + 1)
    BY <1>1, <2>1, <2>2 DEF Remains
  <2> QED
    BY <1>3, <2>1, <2>2, <2>6, <2>7, <2>8
<1> QED
  BY <1>2, <1>3

-----------------------------------------------------------------------------
(* The two lists.                                                          *)

Patches == {"accounts", "rename", "poa", "gov", "evmDenom", "precompiles", "metadata"}

Modules == {
    "auth", "bank", "gov", "poa", "ibc", "evm", "feemarket", "erc20", "transfer",
    "genutil", "upgrade", "consensus", "tokenfactory", "gmp", "ift"}

LEMMA ScriptFacts ==
    /\ Script \in Seq(Patches) /\ Len(Script) = 7
    /\ Script[1] = "accounts" /\ Script[2] = "rename" /\ Script[3] = "poa"
    /\ Script[4] = "gov" /\ Script[5] = "evmDenom" /\ Script[6] = "precompiles"
    /\ Script[7] = "metadata"
    /\ ToSet(Script) = Patches
<1>1. Script \in Seq(Patches) /\ Len(Script) = 7
  BY DEF Script, Patches
<1>2. /\ Script[1] = "accounts" /\ Script[2] = "rename" /\ Script[3] = "poa"
      /\ Script[4] = "gov" /\ Script[5] = "evmDenom" /\ Script[6] = "precompiles"
      /\ Script[7] = "metadata"
  BY DEF Script
<1>3. DOMAIN Script = 1..7
  BY <1>1, LenProperties
<1>4. ToSet(Script) \subseteq Patches
  BY <1>1, <1>3, ElementOfSeq DEF ToSet
<1>5. Patches \subseteq ToSet(Script)
  BY <1>2, <1>3 DEF Patches, ToSet
<1> QED
  BY <1>1, <1>2, <1>4, <1>5

LEMMA OrderFacts ==
    /\ GenesisOrder \in Seq(Modules) /\ Len(GenesisOrder) = 15
    /\ \A i \in 1..15 :
        /\ GenesisOrder[i] = "auth" <=> i = 1
        /\ GenesisOrder[i] = "bank" <=> i = 2
        /\ GenesisOrder[i] = "poa" <=> i = 4
        /\ GenesisOrder[i] = "evm" <=> i = 6
<1>1. GenesisOrder \in Seq(Modules) /\ Len(GenesisOrder) = 15
  BY DEF GenesisOrder, Modules
<1>2. /\ GenesisOrder[1] = "auth" /\ GenesisOrder[2] = "bank" /\ GenesisOrder[3] = "gov"
      /\ GenesisOrder[4] = "poa" /\ GenesisOrder[5] = "ibc" /\ GenesisOrder[6] = "evm"
      /\ GenesisOrder[7] = "feemarket" /\ GenesisOrder[8] = "erc20"
      /\ GenesisOrder[9] = "transfer" /\ GenesisOrder[10] = "genutil"
      /\ GenesisOrder[11] = "upgrade" /\ GenesisOrder[12] = "consensus"
      /\ GenesisOrder[13] = "tokenfactory" /\ GenesisOrder[14] = "gmp"
      /\ GenesisOrder[15] = "ift"
  BY DEF GenesisOrder
<1> QED
  BY <1>1, <1>2

\* The patches at place k of the script and before.
Done(k) == {Script[i] : i \in 1..k}

LEMMA DoneFacts ==
    /\ Done(0) = {}
    /\ \A k \in 0..6 : Done(k + 1) = Done(k) \cup {Script[k + 1]}
    /\ \A k \in 0..7 : Done(k) \cup {Script[i] : i \in (k + 1)..7} = Patches
    /\ Done(7) = Patches
    /\ {"rename", "gov", "evmDenom", "metadata"} \cap Done(1) = {}
<1>1. Done(0) = {}
  BY DEF Done
<1>2. ASSUME NEW k \in 0..6 PROVE Done(k + 1) = Done(k) \cup {Script[k + 1]}
  <2>1. 1..(k + 1) = (1..k) \cup {k + 1}
    OBVIOUS
  <2> QED
    BY <2>1 DEF Done
<1>3. DOMAIN Script = 1..7 /\ ToSet(Script) = Patches
  BY ScriptFacts, LenProperties
<1>4. ASSUME NEW k \in 0..7 PROVE Done(k) \cup {Script[i] : i \in (k + 1)..7} = Patches
  <2>1. 1..7 = (1..k) \cup ((k + 1)..7)
    OBVIOUS
  <2>2. Done(k) \cup {Script[i] : i \in (k + 1)..7} = {Script[i] : i \in 1..7}
    BY <2>1 DEF Done
  <2> QED
    BY <1>3, <2>2 DEF ToSet
<1>5. Done(7) = Patches
  BY <1>3 DEF Done, ToSet
<1>6. {"rename", "gov", "evmDenom", "metadata"} \cap Done(1) = {}
  BY ScriptFacts DEF Done
<1> QED
  BY <1>1, <1>2, <1>4, <1>5, <1>6

-----------------------------------------------------------------------------
(* The documents.                                                          *)

DefaultMetadata == EVMBankDenomMetadata(DefaultEVMDenom)

\* The default metadata after the script's rename: the base is renamed if it is
\* the denom of the deposits, the display unit has another name.
RenamedMetadata(n) == TwoUnits(Rename(DefaultEVMDenom, n.denom), DisplayOf(DefaultEVMDenom))

AllNames == [denom : Names, display : Names]

LEMMA TwoUnitsFacts ==
    ASSUME NEW base, NEW display, NEW m, m = TwoUnits(base, display)
    PROVE  /\ m.base = base /\ m.display = display
           /\ DOMAIN m.units = {1, 2}
           /\ m.units[1] = [denom |-> base, exponent |-> 0]
           /\ m.units[2] = [denom |-> display, exponent |-> 18]
BY DEF TwoUnits

LEMMA DecimalsFacts ==
    ASSUME NEW base, NEW display, base # display PROVE Decimals(TwoUnits(base, display)) = 18
<1> DEFINE m == TwoUnits(base, display)
<1>1. /\ m.display = display
      /\ DOMAIN m.units = {1, 2}
      /\ m.units[1] = [denom |-> base, exponent |-> 0]
      /\ m.units[2] = [denom |-> display, exponent |-> 18]
  BY TwoUnitsFacts
<1> HIDE DEF m
<1>2. (CHOOSE j \in DOMAIN m.units : m.units[j].denom = m.display) = 2
  BY <1>1
<1>3. Decimals(m) = 18
  BY <1>1, <1>2 DEF Decimals
<1> QED
  BY <1>3 DEF m

\* The rename of the script leaves the display unit of the default metadata as it is.
LEMMA RenameFacts ==
    ASSUME NEW n, NEW d, n.denom = d
    PROVE  RenameMetadata(DefaultMetadata, d) = RenamedMetadata(n)
<1> DEFINE base == DefaultEVMDenom
           display == DisplayOf(DefaultEVMDenom)
           us == DefaultMetadata.units
           them == <<[denom |-> Rename(base, d), exponent |-> 0],
                     [denom |-> display, exponent |-> 18]>>
<1>1. /\ DefaultMetadata.base = base /\ DefaultMetadata.display = display
      /\ DOMAIN us = {1, 2}
      /\ us[1] = [denom |-> base, exponent |-> 0]
      /\ us[2] = [denom |-> display, exponent |-> 18]
  BY TwoUnitsFacts DEF DefaultMetadata, EVMBankDenomMetadata
<1>2. Rename(display, d) = display
  BY CodeNames DEF Rename
<1>3. /\ DOMAIN them = {1, 2} /\ them = [j \in {1, 2} |-> them[j]]
      /\ them[1] = [denom |-> Rename(base, d), exponent |-> 0]
      /\ them[2] = [denom |-> display, exponent |-> 18]
  OBVIOUS
<1>4. [j \in DOMAIN us |-> [denom |-> Rename(us[j].denom, d), exponent |-> us[j].exponent]] = them
  <2> HIDE DEF us, them, base, display
  <2>1. /\ [denom |-> Rename(us[1].denom, d), exponent |-> us[1].exponent] = them[1]
        /\ [denom |-> Rename(us[2].denom, d), exponent |-> us[2].exponent] = them[2]
    BY <1>1, <1>2, <1>3
  <2> QED
    BY <1>1, <1>3, <2>1
<1>5. RenameMetadata(DefaultMetadata, d)
        = [base |-> Rename(base, d), display |-> display, units |-> them]
  BY <1>1, <1>2, <1>4 DEF RenameMetadata
<1> QED
  BY <1>5 DEF RenamedMetadata, TwoUnits

LEMMA RenamePatch ==
    ASSUME NEW g \in Documents, g.metadata = <<DefaultMetadata>>,
           g.evmDenom = DefaultEVMDenom, g.deposit = BondDenom, NEW n \in AllNames
    PROVE  /\ Patch("rename", g, n).metadata = <<RenamedMetadata(n)>>
           /\ Patch("rename", g, n).evmDenom = Rename(DefaultEVMDenom, n.denom)
           /\ Patch("rename", g, n).deposit = n.denom
           /\ Patch("rename", g, n) \in Documents
<1>1. n.denom \in Names
  BY DEF AllNames
<1>2. [i \in DOMAIN g.metadata |-> RenameMetadata(g.metadata[i], n.denom)]
        = <<RenameMetadata(DefaultMetadata, n.denom)>>
  <2>1. DOMAIN g.metadata = {1} /\ g.metadata[1] = DefaultMetadata
    OBVIOUS
  <2>2. [i \in {1} |-> RenameMetadata(DefaultMetadata, n.denom)]
          = <<RenameMetadata(DefaultMetadata, n.denom)>>
    OBVIOUS
  <2> QED
    BY <2>1, <2>2
<1>3. Patch("rename", g, n)
        = [g EXCEPT !.deposit = n.denom, !.evmDenom = Rename(DefaultEVMDenom, n.denom),
                    !.metadata = <<RenameMetadata(DefaultMetadata, n.denom)>>]
  BY <1>2 DEF Patch, Rename
<1>4. Rename(DefaultEVMDenom, n.denom) \in Names
  BY <1>1 DEF Rename, Names
<1>5. RenameMetadata(DefaultMetadata, n.denom) = RenamedMetadata(n)
  BY RenameFacts
<1>6. Patch("rename", g, n) \in Documents
  <2> DEFINE m == RenameMetadata(DefaultMetadata, n.denom)
             d == Rename(DefaultEVMDenom, n.denom)
  <2>1. <<m>> \in {<<RenameMetadata(DefaultMetadata, to)>> : to \in Names}
    BY <1>1
  <2> HIDE DEF m, d
  <2> QED
    BY <1>1, <1>3, <1>4, <2>1 DEF Documents, DefaultMetadata, m, d
<1> QED
  BY <1>3, <1>5, <1>6 DEF Documents

LEMMA PatchFacts ==
    ASSUME NEW g \in Documents, NEW patch \in Patches \ {"rename"}, NEW n \in AllNames
    PROVE  /\ Patch(patch, g, n) \in Documents
           /\ Patch(patch, g, n).metadata
                = IF patch = "metadata" THEN <<ScriptMetadata(n)>> ELSE g.metadata
           /\ Patch(patch, g, n).evmDenom = IF patch = "evmDenom" THEN n.denom ELSE g.evmDenom
           /\ Patch(patch, g, n).deposit = IF patch = "gov" THEN n.denom ELSE g.deposit
<1>1. <<ScriptMetadata(n)>> \in {<<ScriptMetadata(x)>> : x \in AllNames}
  OBVIOUS
<1>2. n.denom \in Names
  BY DEF AllNames
<1> QED
  BY <1>1, <1>2 DEF Patch, Patches, Documents, AllNames

\* The patches that do not read the names.
LEMMA NamelessPatch ==
    ASSUME NEW g \in Documents, NEW patch \in {"accounts", "poa"}, NEW n
    PROVE  /\ Patch(patch, g, n) \in Documents
           /\ Patch(patch, g, n).metadata = g.metadata
           /\ Patch(patch, g, n).evmDenom = g.evmDenom
BY DEF Patch, Documents

LEMMA AppendTwice ==
    ASSUME NEW x PROVE Append(<<x>>, x) = <<x, x>>
<1>1. /\ <<x>> \in Seq({x}) /\ Len(<<x>>) = 1 /\ <<x>>[1] = x
      /\ <<x, x>> \in Seq({x}) /\ Len(<<x, x>>) = 2
      /\ <<x, x>>[1] = x /\ <<x, x>>[2] = x
  OBVIOUS
<1>2. ASSUME NEW one \in Seq({x}), Len(one) = 1, one[1] = x,
             NEW two \in Seq({x}), Len(two) = 2, two[1] = x, two[2] = x
      PROVE  Append(one, x) = two
  <2>1. /\ Append(one, x) \in Seq({x}) /\ Len(Append(one, x)) = 2
        /\ Append(one, x)[1] = x /\ Append(one, x)[2] = x
    <3>1. x \in {x}
      OBVIOUS
    <3>2. /\ Append(one, x) \in Seq({x})
          /\ Len(Append(one, x)) = Len(one) + 1
          /\ \A i \in 1..Len(one) : Append(one, x)[i] = one[i]
          /\ Append(one, x)[Len(one) + 1] = x
      BY <1>2, <3>1, AppendProperties, Zenon
    <3> QED
      BY <1>2, <3>2
  <2>2. \A i \in 1..Len(Append(one, x)) : Append(one, x)[i] = two[i]
    BY <1>2, <2>1
  <2> QED
    BY <1>2, <2>1, <2>2, SeqEqual
<1> QED
  BY <1>1, <1>2

LEMMA DefaultFacts ==
    /\ InitGenesisFile \in Documents
    /\ InitGenesisFile.metadata = <<DefaultMetadata>>
    /\ InitGenesisFile.evmDenom = DefaultEVMDenom
    /\ InitGenesisFile.deposit = BondDenom
    /\ AppDefaultGenesis \in Documents
    /\ AppDefaultGenesis.metadata = <<DefaultMetadata, DefaultMetadata>>
    /\ AppDefaultGenesis.evmDenom = DefaultEVMDenom
<1>1. Append(<<>>, DefaultMetadata) = <<DefaultMetadata>>
  OBVIOUS
<1>2. Append(<<DefaultMetadata>>, DefaultMetadata) = <<DefaultMetadata, DefaultMetadata>>
  BY AppendTwice
<1>3. /\ InitGenesisFile = [ModuleDefaults EXCEPT !.metadata = <<DefaultMetadata>>]
      /\ AppDefaultGenesis = [InitGenesisFile EXCEPT !.precompiles = "chain",
                                !.metadata = <<DefaultMetadata, DefaultMetadata>>]
  BY <1>1, <1>2 DEF InitGenesisFile, BasicDefaultGenesis, AppDefaultGenesis, ModuleDefaults,
                    DefaultMetadata
<1> QED
  BY <1>3 DEF ModuleDefaults, Documents, DefaultMetadata, Names

\* A single metadata of two units is valid when both have names, and not the same.
LEMMA ValidFacts ==
    ASSUME NEW g, NEW base, NEW display, g.metadata = <<TwoUnits(base, display)>>,
           base # display, {base, display} \cap Malformed = {}
    PROVE  Valid(g)
<1> DEFINE m == TwoUnits(base, display)
<1>1. DOMAIN g.metadata = {1} /\ g.metadata[1] = m
  OBVIOUS
<1>2. /\ m.base = base /\ m.display = display
      /\ DOMAIN m.units = {1, 2}
      /\ m.units[1] = [denom |-> base, exponent |-> 0]
      /\ m.units[2] = [denom |-> display, exponent |-> 18]
  BY TwoUnitsFacts
<1> HIDE DEF m
<1>3. ValidMetadata(m)
  BY <1>2 DEF ValidMetadata
<1>4. IsInjective([i \in DOMAIN g.metadata |-> g.metadata[i].base])
  BY <1>1 DEF IsInjective
<1> QED
  BY <1>1, <1>3, <1>4 DEF Valid

\* And one that was validated has not the same name for both.
LEMMA ValidDistinct ==
    ASSUME NEW g, NEW base, NEW display, g.metadata = <<TwoUnits(base, display)>>, Valid(g)
    PROVE  base # display
<1> DEFINE m == TwoUnits(base, display)
<1>1. ValidMetadata(m)
  <2>1. 1 \in DOMAIN g.metadata /\ g.metadata[1] = m
    OBVIOUS
  <2> QED
    BY <2>1 DEF Valid
<1>2. /\ DOMAIN m.units = {1, 2}
      /\ m.units[1] = [denom |-> base, exponent |-> 0]
      /\ m.units[2] = [denom |-> display, exponent |-> 18]
  BY TwoUnitsFacts
<1> HIDE DEF m
<1>3. m.units[1].denom # m.units[2].denom
  BY <1>1, <1>2 DEF ValidMetadata
<1> QED
  BY <1>2, <1>3

-----------------------------------------------------------------------------
(* Accounts.                                                               *)

\* Accounts are numbered from 0 without a number that is used twice.
Numbered(accounts) ==
    /\ IsFiniteSet(accounts)
    /\ \A a \in accounts : a.number \in 0..(Cardinality(accounts) - 1)
    /\ \A a, b \in accounts : a.number = b.number => a = b

LEMMA NextAccount ==
    ASSUME NEW accounts, Numbered(accounts), NEW owner
    PROVE  Numbered(accounts \cup {[owner |-> owner, number |-> Cardinality(accounts)]})
<1> DEFINE new == [owner |-> owner, number |-> Cardinality(accounts)]
           all == accounts \cup {new}
<1>1. Cardinality(accounts) \in Nat
  BY FS_CardinalityType DEF Numbered
<1>2. new.number = Cardinality(accounts)
  OBVIOUS
<1> HIDE DEF new
<1>3. \A a \in accounts : a.number \in 0..(Cardinality(accounts) - 1)
  BY DEF Numbered
<1>4. new \notin accounts
  BY <1>1, <1>2, <1>3
<1>5. IsFiniteSet(all) /\ Cardinality(all) = Cardinality(accounts) + 1
  BY <1>4, FS_AddElement DEF Numbered
<1>6. \A a \in all : a.number \in 0..(Cardinality(all) - 1)
  BY <1>1, <1>2, <1>3, <1>5
<1>7. ASSUME NEW a \in all, NEW b \in all, a.number = b.number PROVE a = b
  BY <1>1, <1>2, <1>3, <1>7 DEF Numbered
<1>8. Numbered(all)
  BY <1>5, <1>6, <1>7 DEF Numbered
<1> QED
  BY <1>8 DEF new

\* The accounts of the users, as the auth module numbers them.
UserAccounts(n) == {[owner |-> <<"user", i>>, number |-> i] : i \in 0..(n - 1)}

LEMMA UserAccountsFacts ==
    ASSUME NEW n \in Nat
    PROVE  Numbered(UserAccounts(n)) /\ Cardinality(UserAccounts(n)) = n
<1> DEFINE Account(i) == [owner |-> <<"user", i>>, number |-> i]
           f == [i \in 0..(n - 1) |-> Account(i)]
<1>1. \A i \in 0..(n - 1) : f[i] = Account(i) /\ f[i].number = i
  OBVIOUS
<1>2. UserAccounts(n) = {f[i] : i \in 0..(n - 1)}
  BY DEF UserAccounts
<1>3. f \in [0..(n - 1) -> UserAccounts(n)]
  BY <1>2
<1> HIDE DEF f
<1>4. f \in Bijection(0..(n - 1), UserAccounts(n))
  <2>1. IsInjective(f)
    BY <1>1, <1>3 DEF IsInjective
  <2>2. \A a \in UserAccounts(n) : \E i \in 0..(n - 1) : f[i] = a
    BY <1>2
  <2> QED
    BY <1>3, <2>1, <2>2 DEF Bijection, Injection, Surjection
<1>5. IsFiniteSet(0..(n - 1)) /\ Cardinality(0..(n - 1)) = n
  BY FS_Interval
<1>6. IsFiniteSet(UserAccounts(n)) /\ Cardinality(UserAccounts(n)) = n
  BY <1>4, <1>5, FS_Bijection DEF ExistsBijection
<1>7. ASSUME NEW a \in UserAccounts(n)
      PROVE  a.number \in 0..(n - 1) /\ a = f[a.number]
  <2>1. PICK i \in 0..(n - 1) : a = f[i]
    BY <1>2
  <2>2. a.number = i
    BY <1>1, <2>1
  <2> QED
    BY <2>1, <2>2
<1>8. \A a, b \in UserAccounts(n) : a.number = b.number => a = b
  BY <1>7
<1> QED
  BY <1>6, <1>7, <1>8 DEF Numbered

-----------------------------------------------------------------------------
(* The inductive invariant.                                                *)

\* The document is one of the few there can be, and whoever made it, its parts
\* are as the patches that were applied have left them.
DocumentInv ==
    /\ maker \in {"none", "script", "operator", "app"}
    /\ phase \in {"none", "patching", "booting", "booted", "failed"}
    /\ maker = "none" <=> phase = "none"
    /\ IF phase = "none" THEN genesis = None ELSE genesis \in Documents
    /\ IF maker = "script" THEN names \in AllNames ELSE names = None
    /\ validated \in BOOLEAN
    /\ maker = "operator" =>
        genesis.metadata = <<DefaultMetadata>> /\ genesis.evmDenom = DefaultEVMDenom
    /\ maker = "app" =>
        /\ genesis.metadata = <<DefaultMetadata, DefaultMetadata>>
        /\ genesis.evmDenom = DefaultEVMDenom
    /\ maker = "script" =>
        /\ genesis.metadata
            = IF "metadata" \in patched THEN <<ScriptMetadata(names)>>
              ELSE IF "rename" \in patched THEN <<RenamedMetadata(names)>>
              ELSE <<DefaultMetadata>>
        /\ genesis.evmDenom
            = IF "evmDenom" \in patched THEN names.denom
              ELSE IF "rename" \in patched THEN Rename(DefaultEVMDenom, names.denom)
              ELSE DefaultEVMDenom
        /\ genesis.deposit
            = IF {"rename", "gov"} \cap patched # {} THEN names.denom ELSE BondDenom
        /\ "accounts" \in patched => names.denom \notin Malformed

\* The script has come to some place of its list, and a rename that fails ends it.
ScriptInv ==
    /\ patched \cup skipped \subseteq Patches
    /\ phase = "none" => patched \cup skipped = {} /\ validated = FALSE
    /\ maker # "script" \/ phase # "patching" => todo = <<>>
    /\ maker = "script" /\ phase # "failed" =>
        \E k \in 0..7 :
            /\ Remains(todo, Script, k)
            /\ patched \cup skipped = Done(k)
            /\ "rename" \notin skipped

\* The modules at place k of the order and before are done: the next one, or the end.
LEMMA NextModule ==
    ASSUME NEW k \in 0..15, Remains(rest, GenesisOrder, k)
    PROVE  /\ rest = <<>> => k = 15
           /\ rest # <<>> => /\ k \in 0..14 /\ k + 1 \in 1..15
                             /\ Head(rest) = GenesisOrder[k + 1]
                             /\ Remains(Tail(rest), GenesisOrder, k + 1)
<1>1. GenesisOrder \in Seq(Modules) /\ Len(GenesisOrder) = 15
  BY OrderFacts
<1>2. /\ rest = <<>> <=> k = 15
      /\ rest # <<>> => /\ k + 1 \in 1..15
                        /\ Head(rest) = GenesisOrder[k + 1]
                        /\ Remains(Tail(rest), GenesisOrder, k + 1)
  <2>1. ASSUME NEW whole \in Seq(Modules), Len(whole) = 15, Remains(rest, whole, k)
        PROVE  /\ rest = <<>> <=> k = 15
               /\ rest # <<>> => /\ k + 1 \in 1..15
                                 /\ Head(rest) = whole[k + 1]
                                 /\ Remains(Tail(rest), whole, k + 1)
    <3>1. /\ rest = <<>> <=> k = Len(whole)
          /\ rest # <<>> => /\ k + 1 \in 1..Len(whole)
                            /\ Head(rest) = whole[k + 1]
                            /\ Remains(Tail(rest), whole, k + 1)
      BY <2>1, RemainsFacts, Zenon
    <3> QED
      BY <2>1, <3>1
  <2> QED
    BY <1>1, <2>1
<1>3. rest # <<>> => k \in 0..14
  BY <1>2
<1> QED
  BY <1>2, <1>3

\* What k modules have made of the chain.
Made(k) ==
    /\ chain = [metadata |-> chain.metadata, evmCoin |-> chain.evmCoin,
                precompiles |-> chain.precompiles, validators |-> chain.validators,
                accounts |-> chain.accounts]
    /\ Numbered(chain.accounts)
    /\ k = 0 => chain.accounts = {}
    /\ k >= 2 => chain.metadata = genesis.metadata
    /\ k >= 4 => chain.validators = genesis.validators
    /\ k < 6 => chain.evmCoin = None
    /\ k >= 6 =>
        /\ chain.evmCoin = [denom |-> genesis.evmDenom, decimals |-> 18]
        /\ \E i \in DOMAIN genesis.metadata : genesis.metadata[i].base = genesis.evmDenom

\* The units of each metadata have two names: what the script might leave with one
\* is not started.
OneNameEach(g) ==
    \A i \in DOMAIN g.metadata : \E base, display :
        base # display /\ g.metadata[i] = TwoUnits(base, display)

\* The modules are initialised one after another.
BootInv ==
    /\ phase \in {"booting", "booted"} =>
        \E k \in 0..15 : Remains(rest, GenesisOrder, k) /\ Made(k)
    /\ phase \in {"booting", "booted"} => OneNameEach(genesis)
    /\ phase # "booting" => rest = <<>>
    /\ phase \notin {"booting", "booted"} => chain = Nothing

IInv == DocumentInv /\ ScriptInv /\ BootInv /\ FailsWithReason

-----------------------------------------------------------------------------
(* One module's InitGenesis.                                               *)

LEMMA DocumentMetadata ==
    ASSUME NEW g \in Documents PROVE DOMAIN g.metadata \subseteq {1, 2}
<1>1. ASSUME NEW x PROVE DOMAIN <<x>> = {1} /\ DOMAIN <<x, x>> = {1, 2}
  OBVIOUS
<1>2. \E x : g.metadata \in {<<x>>, <<x, x>>}
  BY DEF Documents
<1> QED
  BY <1>1, <1>2

\* The EVM reads its coin off the metadata that bank has for its denom.
LEMMA EVMModule ==
    ASSUME genesis \in Documents, OneNameEach(genesis),
           chain.metadata = genesis.metadata, ~PanicsIn("evm")
    PROVE  /\ InitModule("evm") =
                [chain EXCEPT !.evmCoin = [denom |-> genesis.evmDenom, decimals |-> 18],
                              !.precompiles = {genesis.precompiles}]
           /\ \E i \in DOMAIN genesis.metadata : genesis.metadata[i].base = genesis.evmDenom
<1> DEFINE K == Known(genesis.evmDenom)
           last == CHOOSE i \in K : \A j \in K : j <= i
<1>1. K # {} /\ K \subseteq {1, 2} /\ K \subseteq DOMAIN genesis.metadata
  BY DocumentMetadata DEF PanicsIn, Known
<1>2. \E i \in K : \A j \in K : j <= i
  <2> HIDE DEF K
  <2>1. CASE 2 \in K
    BY <1>1, <2>1
  <2>2. CASE 2 \notin K
    <3>1. K = {1}
      BY <1>1, <2>2
    <3> QED
      BY <3>1
  <2> QED
    BY <2>1, <2>2
<1>3. last \in K
  <2> HIDE DEF K
  <2> QED
    BY <1>2
<1>4. Decimals(chain.metadata[last]) = 18
  <2> HIDE DEF last
  <2>1. PICK base, display : base # display /\ genesis.metadata[last] = TwoUnits(base, display)
    BY <1>1, <1>3 DEF OneNameEach
  <2> QED
    BY <2>1, DecimalsFacts
<1>5. InitModule("evm") =
        [chain EXCEPT !.evmCoin = [denom |-> genesis.evmDenom,
                                   decimals |-> Decimals(chain.metadata[last])],
                      !.precompiles = {genesis.precompiles}]
  BY DEF InitModule
<1>6. genesis.metadata[last].base = genesis.evmDenom
  <2>1. K = {i \in DOMAIN chain.metadata : chain.metadata[i].base = genesis.evmDenom}
    BY DEF Known
  <2> HIDE DEF K, last
  <2> QED
    BY <1>3, <2>1
<1> HIDE DEF last
<1> QED
  BY <1>1, <1>3, <1>4, <1>5, <1>6

\* The first module makes the accounts of the genesis, and one of its own.
LEMMA AuthModule ==
    ASSUME genesis \in Documents, chain.accounts = {}
    PROVE  LET accounts == UserAccounts(genesis.users)
                             \cup {[owner |-> <<"module", "fee_collector">>,
                                    number |-> genesis.users]}
           IN  Numbered(accounts) /\ InitModule("auth") = [chain EXCEPT !.accounts = accounts]
<1> DEFINE fee == [owner |-> <<"module", "fee_collector">>, number |-> genesis.users]
<1>1. genesis.users \in Nat
  BY CodeNames DEF Documents
<1>2. Numbered(UserAccounts(genesis.users)) /\ Cardinality(UserAccounts(genesis.users)) = genesis.users
  BY <1>1, UserAccountsFacts
<1>3. Numbered(UserAccounts(genesis.users) \cup {fee})
  BY <1>2, NextAccount
<1>4. NextNumber + genesis.users = genesis.users
  BY <1>1, FS_EmptySet DEF NextNumber
<1>5. InitModule("auth") = [chain EXCEPT !.accounts =
               @ \cup UserAccounts(genesis.users)
                 \cup {[owner |-> <<"module", "fee_collector">>, number |-> NextNumber + genesis.users]}]
  BY DEF InitModule, UserAccounts
<1>6. {} \cup UserAccounts(genesis.users) = UserAccounts(genesis.users)
  OBVIOUS
<1> QED
  BY <1>3, <1>4, <1>5, <1>6

LEMMA BootStep ==
    ASSUME DocumentInv, OneNameEach(genesis), phase = "booting", NEW k \in 0..14, Made(k),
           NEW m, m = GenesisOrder[k + 1], ~PanicsIn(m), genesis' = genesis,
           \/ chain' = InitModule(m)
           \/ /\ m \in AccountModules
              /\ chain' = [InitModule(m) EXCEPT !.accounts =
                                @ \cup {[owner |-> <<"module", m>>, number |-> NextNumber]}]
    PROVE  Made(k + 1)'
<1> DEFINE c == InitModule(m)
           own == {[owner |-> <<"module", m>>, number |-> NextNumber]}
<1>1. /\ m = "auth" <=> k = 0
      /\ m = "bank" <=> k = 1
      /\ m = "poa" <=> k = 3
      /\ m = "evm" <=> k = 5
  <2>1. k + 1 \in 1..15
    OBVIOUS
  <2> QED
    BY <2>1, OrderFacts
<1>2. genesis \in Documents
  BY DEF DocumentInv
<1>3. /\ chain = [metadata |-> chain.metadata, evmCoin |-> chain.evmCoin,
                  precompiles |-> chain.precompiles, validators |-> chain.validators,
                  accounts |-> chain.accounts]
      /\ Numbered(chain.accounts)
      /\ k = 0 => chain.accounts = {}
      /\ k >= 2 => chain.metadata = genesis.metadata
      /\ k >= 4 => chain.validators = genesis.validators
      /\ k < 6 => chain.evmCoin = None
      /\ k >= 6 =>
          /\ chain.evmCoin = [denom |-> genesis.evmDenom, decimals |-> 18]
          /\ \E i \in DOMAIN genesis.metadata : genesis.metadata[i].base = genesis.evmDenom
  BY DEF Made
<1>4. /\ c = [metadata |-> c.metadata, evmCoin |-> c.evmCoin,
              precompiles |-> c.precompiles, validators |-> c.validators,
              accounts |-> c.accounts]
      /\ Numbered(c.accounts)
      /\ k + 1 >= 2 => c.metadata = genesis.metadata
      /\ k + 1 >= 4 => c.validators = genesis.validators
      /\ k + 1 < 6 => c.evmCoin = None
      /\ k + 1 >= 6 =>
          /\ c.evmCoin = [denom |-> genesis.evmDenom, decimals |-> 18]
          /\ \E i \in DOMAIN genesis.metadata : genesis.metadata[i].base = genesis.evmDenom
      /\ m # "auth" => c.accounts = chain.accounts
  <2>1. CASE m = "auth"
    <3> DEFINE accounts == UserAccounts(genesis.users)
                             \cup {[owner |-> <<"module", "fee_collector">>,
                                    number |-> genesis.users]}
    <3>1. Numbered(accounts) /\ c = [chain EXCEPT !.accounts = accounts]
      BY <1>1, <1>2, <1>3, <2>1, AuthModule
    <3> HIDE DEF accounts, c
    <3> QED
      BY <1>1, <1>3, <2>1, <3>1
  <2>2. CASE m = "bank"
    <3>1. c = [chain EXCEPT !.metadata = genesis.metadata]
      BY <2>2 DEF InitModule
    <3> HIDE DEF c
    <3> QED
      BY <1>1, <1>3, <2>2, <3>1
  <2>3. CASE m = "poa"
    <3>1. c = [chain EXCEPT !.validators = genesis.validators]
      BY <2>3 DEF InitModule
    <3> HIDE DEF c
    <3> QED
      BY <1>1, <1>3, <2>3, <3>1
  <2>4. CASE m = "evm"
    <3>1. /\ c = [chain EXCEPT !.evmCoin = [denom |-> genesis.evmDenom, decimals |-> 18],
                               !.precompiles = {genesis.precompiles}]
          /\ \E i \in DOMAIN genesis.metadata : genesis.metadata[i].base = genesis.evmDenom
      BY <1>1, <1>2, <1>3, <2>4, EVMModule
    <3> HIDE DEF c
    <3>2. /\ c = [metadata |-> c.metadata, evmCoin |-> c.evmCoin,
                  precompiles |-> c.precompiles, validators |-> c.validators,
                  accounts |-> c.accounts]
          /\ c.metadata = chain.metadata /\ c.validators = chain.validators
          /\ c.accounts = chain.accounts
          /\ c.evmCoin = [denom |-> genesis.evmDenom, decimals |-> 18]
      <4> DEFINE coin == [denom |-> genesis.evmDenom, decimals |-> 18]
                 known == {genesis.precompiles}
      <4>1. c = [chain EXCEPT !.evmCoin = coin, !.precompiles = known]
        BY <3>1
      <4> HIDE DEF coin, known
      <4>2. /\ c = [metadata |-> c.metadata, evmCoin |-> c.evmCoin,
                    precompiles |-> c.precompiles, validators |-> c.validators,
                    accounts |-> c.accounts]
            /\ c.metadata = chain.metadata /\ c.validators = chain.validators
            /\ c.accounts = chain.accounts /\ c.evmCoin = coin
        BY <1>3, <4>1
      <4> QED
        BY <4>2 DEF coin
    <3> QED
      BY <1>1, <1>3, <2>4, <3>1, <3>2
  <2>5. CASE m \notin {"auth", "bank", "poa", "evm"}
    <3>1. c = chain
      BY <2>5 DEF InitModule
    <3> HIDE DEF c
    <3> QED
      BY <1>1, <1>3, <2>5, <3>1
  <2> QED
    BY <2>1, <2>2, <2>3, <2>4, <2>5
<1>5. m \in AccountModules => Numbered(c.accounts \cup own)
  <2>1. m \in AccountModules => c.accounts = chain.accounts
    BY <1>4 DEF AccountModules
  <2>2. Numbered(chain.accounts \cup {[owner |-> <<"module", m>>,
                                       number |-> Cardinality(chain.accounts)]})
    BY <1>3, NextAccount
  <2> QED
    BY <2>1, <2>2 DEF NextNumber
<1>6. \/ chain' = c
      \/ chain' = [c EXCEPT !.accounts = @ \cup own] /\ Numbered(c.accounts \cup own)
  BY <1>5
<1> HIDE DEF c, own
<1>7. /\ chain' = [metadata |-> chain'.metadata, evmCoin |-> chain'.evmCoin,
                   precompiles |-> chain'.precompiles, validators |-> chain'.validators,
                   accounts |-> chain'.accounts]
      /\ chain'.metadata = c.metadata /\ chain'.evmCoin = c.evmCoin
      /\ chain'.validators = c.validators
      /\ Numbered(chain'.accounts)
  BY <1>4, <1>6
<1> QED
  BY <1>4, <1>7 DEF Made, Numbered

-----------------------------------------------------------------------------
(* The invariant is inductive: one lemma for each of its parts.            *)

LEMMA InitInv == Init => IInv
<1> SUFFICES ASSUME Init PROVE IInv
  OBVIOUS
<1> USE DEF Init
<1>1. DocumentInv
  BY DEF DocumentInv
<1>2. ScriptInv
  BY DEF ScriptInv
<1>3. BootInv
  BY DEF BootInv
<1>4. FailsWithReason
  BY DEF FailsWithReason
<1> QED
  BY <1>1, <1>2, <1>3, <1>4 DEF IInv

\* The patch that comes next, as the invariant knows it.
LEMMA NextPatch ==
    ASSUME DocumentInv, ScriptInv, phase = "patching", todo # <<>>
    PROVE  /\ maker = "script" /\ genesis \in Documents
           /\ \E k \in 0..6 :
                /\ Remains(todo, Script, k) /\ Remains(Tail(todo), Script, k + 1)
                /\ Head(todo) = Script[k + 1]
                /\ Head(todo) \in Patches
                /\ Head(todo) = "rename" <=> k = 1
                /\ patched \cup skipped = Done(k)
                /\ Done(k + 1) = Done(k) \cup {Head(todo)}
                /\ "rename" \notin skipped
                /\ k = 1 => {"rename", "gov", "evmDenom", "metadata"} \cap patched = {}
<1>1. maker = "script" /\ genesis \in Documents
  BY DEF DocumentInv, ScriptInv
<1>2. PICK k \in 0..7 : /\ Remains(todo, Script, k)
                        /\ patched \cup skipped = Done(k)
                        /\ "rename" \notin skipped
  BY <1>1 DEF ScriptInv
<1>3. k + 1 \in 1..7 /\ Head(todo) = Script[k + 1] /\ Remains(Tail(todo), Script, k + 1)
  <2>1. Script \in Seq(Patches) /\ Len(Script) = 7
    BY ScriptFacts
  <2> QED
    BY <1>2, <2>1, RemainsFacts
<1>4. k \in 0..6
  BY <1>3
<1>5. Head(todo) \in Patches /\ (Head(todo) = "rename" <=> k = 1)
  BY <1>3, <1>4, ScriptFacts DEF Patches
<1>6. k = 1 => {"rename", "gov", "evmDenom", "metadata"} \cap patched = {}
  BY <1>2, DoneFacts
<1> QED
  BY <1>1, <1>2, <1>3, <1>4, <1>5, <1>6, DoneFacts

LEMMA DocumentStep == IInv /\ [Next]_vars => DocumentInv'
<1> SUFFICES ASSUME IInv, [Next]_vars PROVE DocumentInv'
  OBVIOUS
<1>1. DocumentInv /\ ScriptInv /\ BootInv
  BY DEF IInv
<1>2. ASSUME NEW who \in {"script", "operator"}, InitCmd(who) PROVE DocumentInv'
  <2>1. /\ phase = "none" /\ phase' = "patching" /\ maker' = who
        /\ patched' = {} /\ validated' = FALSE /\ genesis' = InitGenesisFile
    BY <1>1, <1>2 DEF InitCmd, ScriptInv
  <2>2. IF who = "script" THEN names' \in AllNames ELSE names' = None
    BY <1>1, <1>2 DEF InitCmd, DocumentInv, AllNames
  <2> QED
    BY <2>1, <2>2, DefaultFacts DEF DocumentInv
<1>3. CASE DefaultGenesis
  <2>1. names = None /\ names' = None
    BY <1>1, <1>3 DEF DefaultGenesis, DocumentInv
  <2>2. /\ Patch("poa", AppDefaultGenesis, names) \in Documents
        /\ Patch("poa", AppDefaultGenesis, names).metadata = <<DefaultMetadata, DefaultMetadata>>
        /\ Patch("poa", AppDefaultGenesis, names).evmDenom = DefaultEVMDenom
    BY DefaultFacts, NamelessPatch
  <2> QED
    BY <1>1, <1>3, <2>1, <2>2 DEF DefaultGenesis, DocumentInv
<1>4. CASE ScriptPatch
  <2> DEFINE patch == Head(todo)
  <2>1. /\ phase = "patching" /\ maker = "script" /\ maker' = "script"
        /\ genesis \in Documents /\ UNCHANGED <<names, validated>>
    BY <1>1, <1>4, NextPatch DEF ScriptPatch
  <2>2. PICK k \in 0..6 :
            /\ Head(todo) \in Patches
            /\ Head(todo) = "rename" <=> k = 1
            /\ k = 1 => {"rename", "gov", "evmDenom", "metadata"} \cap patched = {}
    BY <1>1, <1>4, NextPatch DEF ScriptPatch
  <2>3. /\ names \in AllNames /\ validated \in BOOLEAN
        /\ genesis.metadata
            = IF "metadata" \in patched THEN <<ScriptMetadata(names)>>
              ELSE IF "rename" \in patched THEN <<RenamedMetadata(names)>>
              ELSE <<DefaultMetadata>>
        /\ genesis.evmDenom
            = IF "evmDenom" \in patched THEN names.denom
              ELSE IF "rename" \in patched THEN Rename(DefaultEVMDenom, names.denom)
              ELSE DefaultEVMDenom
        /\ genesis.deposit
            = IF {"rename", "gov"} \cap patched # {} THEN names.denom ELSE BondDenom
        /\ "accounts" \in patched => names.denom \notin Malformed
    BY <1>1, <2>1 DEF DocumentInv
  <2>4. CASE genesis' = genesis /\ patched' = patched /\ phase' \in {"patching", "failed"}
    BY <1>1, <2>1, <2>4 DEF DocumentInv
  <2>5. CASE /\ Works(patch, names)
             /\ genesis' = Patch(patch, genesis, names) /\ patched' = patched \cup {patch}
             /\ phase' = phase
    <3>1. CASE patch = "rename"
      <4>1. /\ genesis' \in Documents
            /\ genesis'.metadata = <<RenamedMetadata(names)>>
            /\ genesis'.evmDenom = Rename(DefaultEVMDenom, names.denom)
            /\ genesis'.deposit = names.denom
        BY <2>1, <2>2, <2>3, <2>5, <3>1, RenamePatch
      <4>2. {"rename", "gov", "evmDenom", "metadata"} \cap patched' = {"rename"}
            /\ ("accounts" \in patched' <=> "accounts" \in patched)
        BY <2>2, <2>5, <3>1
      <4> QED
        BY <2>1, <2>3, <2>5, <4>1, <4>2 DEF DocumentInv
    <3>2. CASE patch # "rename"
      <4>1. /\ genesis' \in Documents
            /\ genesis'.metadata
                = IF patch = "metadata" THEN <<ScriptMetadata(names)>> ELSE genesis.metadata
            /\ genesis'.evmDenom = IF patch = "evmDenom" THEN names.denom ELSE genesis.evmDenom
            /\ genesis'.deposit = IF patch = "gov" THEN names.denom ELSE genesis.deposit
        BY <2>1, <2>2, <2>3, <2>5, <3>2, PatchFacts
      <4>2. "accounts" \in patched' => names.denom \notin Malformed
        BY <2>3, <2>5 DEF Works
      <4> QED
        BY <2>1, <2>2, <2>3, <2>5, <3>2, <4>1, <4>2 DEF DocumentInv
    <3> QED
      BY <3>1, <3>2
  <2> QED
    BY <1>4, <2>1, <2>4, <2>5 DEF ScriptPatch
<1>5. ASSUME NEW patch \in {"accounts", "poa"}, OperatorPatch(patch) PROVE DocumentInv'
  <2>1. phase = "patching" /\ maker = "operator" /\ genesis \in Documents
    BY <1>1, <1>5 DEF OperatorPatch, DocumentInv
  <2>2. /\ Patch(patch, genesis, names) \in Documents
        /\ Patch(patch, genesis, names).metadata = genesis.metadata
        /\ Patch(patch, genesis, names).evmDenom = genesis.evmDenom
    BY <2>1, NamelessPatch
  <2> QED
    BY <1>1, <1>5, <2>1, <2>2 DEF OperatorPatch, DocumentInv
<1>6. ASSUME NEW validate \in BOOLEAN, Start(validate) PROVE DocumentInv'
  BY <1>1, <1>6 DEF Start, DocumentInv
<1>7. CASE InitGenesis
  <2>1. phase = "booting" /\ phase' \in {"booting", "failed"}
        /\ UNCHANGED <<genesis, maker, names, patched, validated>>
    BY <1>7 DEF InitGenesis
  <2> QED
    BY <1>1, <2>1 DEF DocumentInv
<1>8. CASE InitChainer
  BY <1>1, <1>8 DEF InitChainer, DocumentInv
<1>9. CASE Crash
  BY <1>1, <1>9 DEF Crash, DocumentInv
<1>10. CASE Cleanup
  BY <1>10 DEF Cleanup, DocumentInv
<1>11. CASE UNCHANGED vars
  BY <1>1, <1>11 DEF vars, DocumentInv
<1> QED
  BY <1>2, <1>3, <1>4, <1>5, <1>6, <1>7, <1>8, <1>9, <1>10, <1>11 DEF Next

LEMMA ScriptStep == IInv /\ [Next]_vars => ScriptInv'
<1> SUFFICES ASSUME IInv, [Next]_vars PROVE ScriptInv'
  OBVIOUS
<1>1. DocumentInv /\ ScriptInv
  BY DEF IInv
<1>2. ASSUME NEW who \in {"script", "operator"}, InitCmd(who) PROVE ScriptInv'
  <2>1. patched \cup skipped = {} /\ patched' \cup skipped' = {}
        /\ "rename" \notin skipped'
        /\ (who = "operator" => todo' = <<>>)
    BY <1>1, <1>2 DEF InitCmd, ScriptInv
  <2>2. Remains(Script, Script, 0) /\ Done(0) = {}
    BY RemainsAll, ScriptFacts, DoneFacts
  <2> QED
    BY <1>2, <2>1, <2>2 DEF InitCmd, ScriptInv
<1>3. CASE DefaultGenesis
  <2>1. todo = <<>> /\ patched' \cup skipped' = {"poa"}
    BY <1>1, <1>3 DEF DefaultGenesis, ScriptInv, DocumentInv
  <2> QED
    BY <1>3, <2>1 DEF DefaultGenesis, ScriptInv, Patches
<1>4. CASE ScriptPatch
  <2> DEFINE patch == Head(todo)
  <2>1. phase = "patching" /\ todo # <<>> /\ maker = "script" /\ maker' = "script"
    BY <1>1, <1>4, NextPatch DEF ScriptPatch
  <2>2. PICK k \in 0..6 :
                /\ Remains(todo, Script, k) /\ Remains(Tail(todo), Script, k + 1)
                /\ patch \in Patches
                /\ patched \cup skipped = Done(k)
                /\ Done(k + 1) = Done(k) \cup {patch}
                /\ "rename" \notin skipped
    BY <1>1, <2>1, NextPatch
  <2>3. patched \cup skipped \subseteq Patches
    BY <1>1 DEF ScriptInv
  <2>4. k + 1 \in 0..7
    OBVIOUS
  <2>5. CASE /\ patched' = patched \cup {patch}
             /\ todo' = Tail(todo)
             /\ UNCHANGED <<skipped, phase>>
    <3>1. patched' \cup skipped' = Done(k + 1)
      BY <2>2, <2>5
    <3> QED
      BY <2>1, <2>2, <2>3, <2>4, <2>5, <3>1 DEF ScriptInv
  <2>6. CASE /\ phase' = "failed"
             /\ skipped' = skipped \cup ToSet(todo)
             /\ todo' = <<>>
             /\ UNCHANGED patched
    <3>1. ToSet(todo) = {Script[i] : i \in (k + 1)..Len(Script)}
      BY <2>2, ScriptFacts, RemainsFacts
    <3>2. ToSet(todo) \subseteq Patches
      <4>1. Script \in Seq(Patches) /\ Len(Script) = 7
        BY ScriptFacts
      <4>2. \A i \in 1..7 : Script[i] \in Patches
        BY <4>1, ElementOfSeq
      <4> QED
        BY <3>1, <4>1, <4>2
    <3> QED
      BY <2>1, <2>3, <2>6, <3>2 DEF ScriptInv
  <2>7. CASE /\ ~Stops(patch)
             /\ skipped' = skipped \cup {patch}
             /\ todo' = Tail(todo)
             /\ UNCHANGED <<patched, phase>>
    <3>1. patched' \cup skipped' = Done(k + 1)
      BY <2>2, <2>7
    <3>2. "rename" \notin skipped'
      BY <2>2, <2>7 DEF Stops
    <3> QED
      BY <2>1, <2>2, <2>3, <2>4, <2>7, <3>1, <3>2 DEF ScriptInv
  <2> QED
    BY <1>4, <2>5, <2>6, <2>7 DEF ScriptPatch
<1>5. ASSUME NEW patch \in {"accounts", "poa"}, OperatorPatch(patch) PROVE ScriptInv'
  BY <1>1, <1>5 DEF OperatorPatch, ScriptInv, Patches
<1>6. ASSUME NEW validate \in BOOLEAN, Start(validate) PROVE ScriptInv'
  <2>1. todo = <<>> /\ phase' \in {"failed", "booting"} /\ phase = "patching"
        /\ UNCHANGED <<maker, todo, patched, skipped>>
    BY <1>6 DEF Start
  <2> QED
    BY <1>1, <2>1 DEF ScriptInv
<1>7. ASSUME phase = "booting", phase' \in {"patching", "booting", "booted", "failed"},
             UNCHANGED <<maker, todo, patched, skipped>>
      PROVE  ScriptInv'
  BY <1>1, <1>7 DEF ScriptInv
<1>8. CASE InitGenesis
  <2>1. /\ phase = "booting" /\ phase' \in {"patching", "booting", "booted", "failed"}
        /\ UNCHANGED <<maker, todo, patched, skipped>>
    BY <1>8 DEF InitGenesis
  <2> QED
    BY <1>7, <2>1
<1>9. CASE InitChainer
  BY <1>7, <1>9 DEF InitChainer
<1>10. CASE Crash
  BY <1>7, <1>10 DEF Crash
<1>11. CASE Cleanup
  BY <1>11 DEF Cleanup, ScriptInv
<1>12. CASE UNCHANGED vars
  BY <1>1, <1>12 DEF vars, ScriptInv
<1> QED
  BY <1>2, <1>3, <1>4, <1>5, <1>6, <1>8, <1>9, <1>10, <1>11, <1>12 DEF Next

\* Nothing has happened to the chain when InitGenesis begins.
LEMMA MadeNothing == chain = Nothing => Made(0)
<1> SUFFICES ASSUME chain = Nothing PROVE Made(0)
  OBVIOUS
<1>1. /\ chain = [metadata |-> <<>>, evmCoin |-> None, precompiles |-> {}, validators |-> 0,
                  accounts |-> {}]
  BY DEF Nothing
<1>2. Numbered({})
  BY FS_EmptySet DEF Numbered
<1> QED
  BY <1>1, <1>2 DEF Made

\* A step that leaves the chain and its document alone leaves what was made alone.
LEMMA MadeKept ==
    ASSUME NEW k \in Nat, Made(k), UNCHANGED <<genesis, chain>> PROVE Made(k)'
BY DEF Made, Numbered

\* What starts has two names for the units: as the code gives them, or as validated.
LEMMA StartsDistinct ==
    ASSUME DocumentInv, phase = "patching", maker = "script" => Valid(genesis)
    PROVE  OneNameEach(genesis)
<1>1. DefaultMetadata = TwoUnits(DefaultEVMDenom, DisplayOf(DefaultEVMDenom))
      /\ DefaultEVMDenom # DisplayOf(DefaultEVMDenom)
  BY CodeNames DEF DefaultMetadata, EVMBankDenomMetadata
<1>2. CASE maker \in {"operator", "app"}
  <2>1. genesis.metadata \in {<<DefaultMetadata>>, <<DefaultMetadata, DefaultMetadata>>}
    BY <1>2 DEF DocumentInv
  <2>2. \A i \in DOMAIN genesis.metadata : genesis.metadata[i] = DefaultMetadata
    BY <2>1
  <2> QED
    BY <1>1, <2>2 DEF OneNameEach
<1>3. CASE maker = "script"
  <2>1. \E base, display : genesis.metadata = <<TwoUnits(base, display)>>
    BY <1>1, <1>3 DEF DocumentInv, ScriptMetadata, RenamedMetadata
  <2>2. PICK base, display : genesis.metadata = <<TwoUnits(base, display)>>
    BY <2>1
  <2>3. base # display
    BY <1>3, <2>2, ValidDistinct
  <2>4. \A i \in DOMAIN genesis.metadata : genesis.metadata[i] = TwoUnits(base, display)
    BY <2>2
  <2> QED
    BY <2>3, <2>4 DEF OneNameEach
<1> QED
  BY <1>2, <1>3 DEF DocumentInv

LEMMA BootingStep == IInv /\ [Next]_vars => BootInv'
<1> SUFFICES ASSUME IInv, [Next]_vars PROVE BootInv'
  OBVIOUS
<1>1. DocumentInv /\ BootInv
  BY DEF IInv
<1>2. ASSUME phase' \notin {"booting", "booted"},
             \/ rest' = <<>>
             \/ UNCHANGED rest /\ phase # "booting",
             \/ chain' = Nothing
             \/ UNCHANGED chain /\ phase \notin {"booting", "booted"}
      PROVE  BootInv'
  BY <1>1, <1>2 DEF BootInv
<1>3. ASSUME NEW who \in {"script", "operator"}, InitCmd(who) PROVE BootInv'
  BY <1>2, <1>3 DEF InitCmd
<1>4. CASE DefaultGenesis
  BY <1>2, <1>4 DEF DefaultGenesis
<1>5. CASE ScriptPatch
  <2>1. phase = "patching" /\ phase' \in {"patching", "failed"} /\ UNCHANGED <<rest, chain>>
    BY <1>5 DEF ScriptPatch
  <2> QED
    BY <1>2, <2>1
<1>6. ASSUME NEW patch \in {"accounts", "poa"}, OperatorPatch(patch) PROVE BootInv'
  BY <1>2, <1>6 DEF OperatorPatch
<1>7. ASSUME NEW validate \in BOOLEAN, Start(validate) PROVE BootInv'
  <2>1. phase = "patching" /\ chain = Nothing /\ chain' = chain /\ genesis' = genesis
    BY <1>1, <1>7 DEF Start, BootInv
  <2>2. CASE phase' = "failed" /\ UNCHANGED rest
    BY <1>2, <2>1, <2>2
  <2>3. CASE phase' = "booting" /\ rest' = GenesisOrder
    <3>1. Remains(GenesisOrder, GenesisOrder, 0)
      BY RemainsAll, OrderFacts
    <3>2. Made(0)'
      BY <2>1, MadeNothing, MadeKept
    <3>3. maker = "script" => Valid(genesis)
      BY <1>7, <2>3 DEF Start
    <3>4. OneNameEach(genesis)
      BY <1>1, <2>1, <3>3, StartsDistinct
    <3>5. OneNameEach(genesis)'
      BY <2>1, <3>4
    <3> QED
      BY <2>1, <2>3, <3>1, <3>2, <3>5 DEF BootInv
  <2> QED
    BY <1>7, <2>2, <2>3 DEF Start
<1>8. CASE InitGenesis
  <2> DEFINE m == Head(rest)
  <2>1. phase = "booting" /\ rest # <<>> /\ genesis' = genesis
    BY <1>8 DEF InitGenesis
  <2>2. PICK k \in 0..15 : Remains(rest, GenesisOrder, k) /\ Made(k)
    BY <1>1, <2>1 DEF BootInv
  <2>3. k \in 0..14 /\ m = GenesisOrder[k + 1] /\ Remains(Tail(rest), GenesisOrder, k + 1)
    BY <2>1, <2>2, NextModule
  <2>4. CASE PanicsIn(m)
    <3>1. phase' = "failed" /\ rest' = <<>> /\ chain' = Nothing
      BY <1>8, <2>4 DEF InitGenesis
    <3> QED
      BY <1>2, <3>1
  <2>5. CASE ~PanicsIn(m)
    <3>1. /\ \/ chain' = InitModule(m)
             \/ /\ m \in AccountModules
                /\ chain' = [InitModule(m) EXCEPT !.accounts =
                                @ \cup {[owner |-> <<"module", m>>, number |-> NextNumber]}]
          /\ rest' = Tail(rest) /\ phase' = phase
      BY <1>8, <2>5 DEF InitGenesis
    <3> HIDE DEF m
    <3>4. OneNameEach(genesis) /\ OneNameEach(genesis)'
      BY <1>1, <2>1 DEF BootInv
    <3>2. Made(k + 1)'
      BY <1>1, <3>4, <2>1, <2>2, <2>3, <2>5, <3>1, BootStep
    <3>3. k + 1 \in 0..15
      BY <2>3
    <3> QED
      BY <2>1, <2>3, <3>1, <3>2, <3>3, <3>4 DEF BootInv
  <2> QED
    BY <2>4, <2>5
<1>9. CASE InitChainer
  <2>1. CASE phase' = "failed" /\ chain' = Nothing
    BY <1>2, <1>9, <2>1 DEF InitChainer
  <2>2. CASE phase' = "booted" /\ UNCHANGED chain
    <3>1. phase = "booting" /\ rest = <<>> /\ UNCHANGED <<genesis, rest, chain>>
      BY <1>9, <2>2 DEF InitChainer
    <3>2. PICK k \in 0..15 : Remains(rest, GenesisOrder, k) /\ Made(k)
      BY <1>1, <3>1 DEF BootInv
    <3>3. Made(k)'
      BY <3>1, <3>2, MadeKept
    <3>4. OneNameEach(genesis)'
      BY <1>1, <3>1 DEF BootInv
    <3> QED
      BY <2>2, <3>1, <3>2, <3>3, <3>4 DEF BootInv
  <2> QED
    BY <1>9, <2>1, <2>2 DEF InitChainer
<1>10. CASE Crash
  BY <1>2, <1>10 DEF Crash
<1>11. CASE Cleanup
  BY <1>2, <1>11 DEF Cleanup
<1>12. CASE UNCHANGED vars
  <2>1. UNCHANGED <<genesis, phase, rest, chain>>
    BY <1>12 DEF vars
  <2>2. \A k \in 0..15 : Made(k) => Made(k)'
    BY <2>1, MadeKept
  <2>3. phase \in {"booting", "booted"} => OneNameEach(genesis)'
    BY <1>1, <2>1 DEF BootInv
  <2> QED
    BY <1>1, <2>1, <2>2, <2>3 DEF BootInv
<1> QED
  BY <1>3, <1>4, <1>5, <1>6, <1>7, <1>8, <1>9, <1>10, <1>11, <1>12 DEF Next

\* At its end the script has tried every patch, and has renamed.
LEMMA ScriptEnded ==
    ASSUME DocumentInv, ScriptInv, maker = "script", phase # "failed", todo = <<>>
    PROVE  /\ patched \cup skipped = Patches /\ "rename" \in patched
           /\ "metadata" \notin skipped => genesis.metadata = <<ScriptMetadata(names)>>
           /\ "evmDenom" \notin skipped => genesis.evmDenom = names.denom
           /\ genesis.deposit = names.denom
           /\ "accounts" \notin skipped => names.denom \notin Malformed
<1>1. PICK k \in 0..7 : /\ Remains(todo, Script, k)
                        /\ patched \cup skipped = Done(k)
                        /\ "rename" \notin skipped
  BY DEF ScriptInv
<1>2. Script \in Seq(Patches) /\ Len(Script) = 7
  BY ScriptFacts
<1>3. k = 7
  BY <1>1, <1>2, RemainsFacts
<1>4. patched \cup skipped = Patches
  BY <1>1, <1>3, DoneFacts
<1> QED
  BY <1>1, <1>4 DEF Patches, DocumentInv

\* The EVM finds no metadata only for a document that the script has patched in part.
LEMMA PanicsForPatch ==
    ASSUME DocumentInv, ScriptInv, phase = "booting",
           chain.metadata = genesis.metadata, Known(genesis.evmDenom) = {}
    PROVE  skipped # {}
<1>1. \A i \in DOMAIN genesis.metadata : genesis.metadata[i].base # genesis.evmDenom
  BY DEF Known
<1>2. DefaultMetadata.base = DefaultEVMDenom
  BY DEF DefaultMetadata, EVMBankDenomMetadata, TwoUnits
<1>3. CASE maker \in {"operator", "app"}
  <2>1. /\ genesis.metadata \in {<<DefaultMetadata>>, <<DefaultMetadata, DefaultMetadata>>}
        /\ genesis.evmDenom = DefaultEVMDenom
    BY <1>3 DEF DocumentInv
  <2>2. 1 \in DOMAIN genesis.metadata /\ genesis.metadata[1] = DefaultMetadata
    BY <2>1
  <2> QED
    BY <1>1, <1>2, <2>1, <2>2
<1>4. CASE maker = "script" /\ skipped = {}
  <2>1. genesis.metadata = <<ScriptMetadata(names)>> /\ genesis.evmDenom = names.denom
    BY <1>4, ScriptEnded DEF ScriptInv
  <2>2. ScriptMetadata(names).base = names.denom
    BY DEF ScriptMetadata, TwoUnits
  <2>3. 1 \in DOMAIN genesis.metadata /\ genesis.metadata[1] = ScriptMetadata(names)
    BY <2>1
  <2> QED
    BY <1>1, <2>1, <2>2, <2>3
<1> QED
  BY <1>3, <1>4 DEF DocumentInv

LEMMA FailsStep == IInv /\ [Next]_vars => FailsWithReason'
<1> SUFFICES ASSUME IInv, [Next]_vars PROVE FailsWithReason'
  OBVIOUS
<1>1. DocumentInv /\ ScriptInv /\ BootInv /\ FailsWithReason
  BY DEF IInv
<1>2. ASSUME phase' # "failed" PROVE FailsWithReason'
  BY <1>2 DEF FailsWithReason
<1>3. ASSUME NEW who \in {"script", "operator"}, InitCmd(who) PROVE FailsWithReason'
  BY <1>2, <1>3 DEF InitCmd
<1>4. CASE DefaultGenesis
  BY <1>2, <1>4 DEF DefaultGenesis
<1>5. CASE ScriptPatch
  <2>1. CASE phase' = phase
    BY <1>2, <1>5, <2>1 DEF ScriptPatch
  <2>2. CASE skipped' = skipped \cup ToSet(todo)
    <3>1. PICK k \in 0..6 : Remains(todo, Script, k)
      BY <1>1, <1>5, NextPatch DEF ScriptPatch
    <3>2. Script \in Seq(Patches) /\ Len(Script) = 7
      BY ScriptFacts
    <3>3. ToSet(todo) = {Script[i] : i \in (k + 1)..7}
      BY <3>1, <3>2, RemainsFacts
    <3>4. k + 1 \in (k + 1)..7
      OBVIOUS
    <3>5. Script[k + 1] \in ToSet(todo)
      BY <3>3, <3>4
    <3> QED
      BY <2>2, <3>5 DEF FailsWithReason
  <2> QED
    BY <1>5, <2>1, <2>2 DEF ScriptPatch
<1>6. ASSUME NEW patch \in {"accounts", "poa"}, OperatorPatch(patch) PROVE FailsWithReason'
  BY <1>2, <1>6 DEF OperatorPatch
<1>7. ASSUME NEW validate \in BOOLEAN, Start(validate) PROVE FailsWithReason'
  <2>1. /\ phase = "patching" /\ todo = <<>> /\ UNCHANGED <<genesis, maker, names, skipped>>
        /\ validated' = (validated \/ validate)
        /\ phase' = "failed" => validate /\ ~Valid(genesis)
    BY <1>7 DEF Start
  <2>2. CASE maker = "app"
    BY <1>2, <2>1, <2>2 DEF FailsWithReason
  <2>3. CASE maker = "operator"
    <3>1. genesis.metadata = <<TwoUnits(DefaultEVMDenom, DisplayOf(DefaultEVMDenom))>>
      BY <1>1, <2>3 DEF DocumentInv, DefaultMetadata, EVMBankDenomMetadata
    <3>2. Valid(genesis)
      BY <3>1, CodeNames, ValidFacts
    <3> QED
      BY <1>2, <2>1, <3>2
  <2>4. CASE maker = "script" /\ skipped = {} /\ names.display \notin Malformed \cup {names.denom}
    <3>1. /\ genesis.metadata = <<TwoUnits(names.denom, names.display)>>
          /\ names.denom \notin Malformed
      BY <1>1, <2>1, <2>4, ScriptEnded DEF ScriptMetadata
    <3>2. Valid(genesis)
      BY <2>4, <3>1, ValidFacts
    <3> QED
      BY <1>2, <2>1, <3>2
  <2>5. CASE maker = "script" /\ (skipped # {} \/ names.display \in Malformed \cup {names.denom})
    BY <2>1, <2>5 DEF FailsWithReason
  <2> QED
    BY <1>1, <2>1, <2>2, <2>3, <2>4, <2>5 DEF DocumentInv
<1>8. CASE InitGenesis
  <2> DEFINE m == Head(rest)
  <2>1. phase = "booting" /\ rest # <<>> /\ UNCHANGED <<genesis, skipped>>
    BY <1>8 DEF InitGenesis
  <2>2. CASE PanicsIn(m)
    <3>1. m = "evm" /\ Known(genesis.evmDenom) = {}
      BY <2>2 DEF PanicsIn
    <3>2. PICK k \in 0..15 : Remains(rest, GenesisOrder, k) /\ Made(k)
      BY <1>1, <2>1 DEF BootInv
    <3>3. /\ k + 1 \in 1..15 /\ m = GenesisOrder[k + 1]
          /\ Remains(Tail(rest), GenesisOrder, k + 1)
      BY <2>1, <3>2, NextModule
    <3>4. k = 5
      BY <3>1, <3>3, OrderFacts
    <3>5. chain.metadata = genesis.metadata
      BY <3>2, <3>4 DEF Made
    <3>6. skipped # {}
      BY <1>1, <2>1, <3>1, <3>5, PanicsForPatch
    <3> QED
      BY <2>1, <3>6 DEF FailsWithReason
  <2>3. CASE ~PanicsIn(m)
    BY <1>2, <1>8, <2>3 DEF InitGenesis
  <2> QED
    BY <2>2, <2>3
<1>9. CASE InitChainer
  <2>1. CASE chain.validators > 0
    BY <1>2, <1>9, <2>1 DEF InitChainer
  <2>2. CASE ~(chain.validators > 0)
    <3>1. phase = "booting" /\ rest = <<>> /\ genesis' = genesis
      BY <1>9 DEF InitChainer
    <3>2. PICK k \in 0..15 : Remains(rest, GenesisOrder, k) /\ Made(k)
      BY <1>1, <3>1 DEF BootInv
    <3>3. k = 15
      BY <3>1, <3>2, NextModule
    <3>4. chain.validators = genesis.validators /\ genesis.validators \in {0, 1}
      BY <1>1, <3>1, <3>2, <3>3 DEF Made, DocumentInv, Documents
    <3>5. genesis'.validators = 0
      BY <2>2, <3>1, <3>4
    <3> QED
      BY <3>5 DEF FailsWithReason
  <2> QED
    BY <2>1, <2>2
<1>10. CASE Crash
  BY <1>2, <1>10 DEF Crash
<1>11. CASE Cleanup
  BY <1>2, <1>11 DEF Cleanup
<1>12. CASE UNCHANGED vars
  BY <1>1, <1>12 DEF vars, FailsWithReason
<1> QED
  BY <1>3, <1>4, <1>5, <1>6, <1>7, <1>8, <1>9, <1>10, <1>11, <1>12 DEF Next

\* Every part of the invariant holds at all times.
LEMMA Invariance == Spec => []IInv
<1>1. IInv /\ [Next]_vars => IInv'
  BY DocumentStep, ScriptStep, BootingStep, FailsStep DEF IInv
<1> QED
  BY <1>1, InitInv, PTL DEF Spec

-----------------------------------------------------------------------------
(* What follows from it.                                                   *)

\* The chain holds something only while it boots and after, and the script's
\* patches are accounted for (app.go:685, local-node.sh:92).
THEOREM TypeCorrect == Spec => []TypeOK
<1>1. IInv => TypeOK
  <2> SUFFICES ASSUME IInv PROVE TypeOK
    OBVIOUS
  <2>1. DocumentInv /\ ScriptInv /\ BootInv
    BY DEF IInv
  <2>2. genesis = None <=> phase = "none"
    BY <2>1, NoneAssumption DEF DocumentInv, AllNames
  <2>3. patched \cup skipped \subseteq ToSet(Script)
    BY <2>1, ScriptFacts DEF ScriptInv
  <2>4. ASSUME maker = "script", phase # "failed"
        PROVE  patched \cup skipped \cup ToSet(todo) = ToSet(Script)
    <3>1. PICK k \in 0..7 : Remains(todo, Script, k) /\ patched \cup skipped = Done(k)
      BY <2>1, <2>4 DEF ScriptInv
    <3>2. Script \in Seq(Patches) /\ Len(Script) = 7
      BY ScriptFacts
    <3>3. ToSet(todo) = {Script[i] : i \in (k + 1)..7}
      BY <3>1, <3>2, RemainsFacts
    <3> QED
      BY <3>1, <3>3, DoneFacts, ScriptFacts
  <2> QED
    BY <2>1, <2>2, <2>3, <2>4 DEF TypeOK, DocumentInv, ScriptInv, BootInv, AllNames
<1> QED
  BY <1>1, Invariance, PTL

\* A genesis boots: only a missing validator, a patch of the script that failed, the
\* names its environment gave, or the metadata that App.DefaultGenesis has twice,
\* if someone validates them, can keep it from it (genesis.go:39, app.go:720).
THEOREM FailsOnlyWithReason == Spec => []FailsWithReason
<1>1. IInv => FailsWithReason
  BY DEF IInv
<1> QED
  BY <1>1, Invariance, PTL

\* The EVM's coin has 18 decimals in every genesis that boots, and it is the denom
\* of the deposits unless the script skipped both the EVM's denom and its metadata,
\* whatever names the environment gave (genesis.go:45, local-node.sh:21).
THEOREM EVMCoin == Spec => []EVMCoinRight
<1>1. IInv => EVMCoinRight
  <2> SUFFICES ASSUME IInv PROVE EVMCoinRight
    OBVIOUS
  <2>1. DocumentInv /\ ScriptInv /\ BootInv
    BY DEF IInv
  <2>2. ASSUME chain.evmCoin # None PROVE chain.evmCoin.decimals = 18
    <3>1. phase \in {"booting", "booted"}
      BY <2>1, <2>2 DEF BootInv, Nothing
    <3>2. PICK k \in 0..15 : Made(k)
      BY <2>1, <3>1 DEF BootInv
    <3> QED
      BY <2>2, <3>2 DEF Made
  <2>3. ASSUME phase = "booted", maker = "script", ~({"evmDenom", "metadata"} \subseteq skipped)
        PROVE  chain.evmCoin.denom = names.denom /\ genesis.deposit = names.denom
    <3>1. rest = <<>> /\ todo = <<>>
      BY <2>1, <2>3 DEF BootInv, ScriptInv
    <3>2. PICK k \in 0..15 : Remains(rest, GenesisOrder, k) /\ Made(k)
      BY <2>1, <2>3 DEF BootInv
    <3>3. k = 15
      BY <3>1, <3>2, NextModule
    <3>4. /\ chain.evmCoin = [denom |-> genesis.evmDenom, decimals |-> 18]
          /\ \E i \in DOMAIN genesis.metadata : genesis.metadata[i].base = genesis.evmDenom
      BY <3>2, <3>3 DEF Made
    <3>5. /\ genesis.deposit = names.denom
          /\ "evmDenom" \notin skipped => genesis.evmDenom = names.denom
          /\ "metadata" \notin skipped => genesis.metadata = <<ScriptMetadata(names)>>
      BY <2>1, <2>3, <3>1, ScriptEnded
    \* With the script's metadata the EVM finds no other denom than the script's.
    <3>6. ASSUME genesis.metadata = <<ScriptMetadata(names)>>
          PROVE  genesis.evmDenom = names.denom
      <4>1. ScriptMetadata(names).base = names.denom
        BY DEF ScriptMetadata, TwoUnits
      <4>2. \A i \in DOMAIN genesis.metadata : genesis.metadata[i] = ScriptMetadata(names)
        BY <3>6
      <4> QED
        BY <3>4, <4>1, <4>2
    <3> QED
      BY <2>3, <3>4, <3>5, <3>6
  <2> QED
    BY <2>2, <2>3 DEF EVMCoinRight
<1> QED
  BY <1>1, Invariance, PTL

\* No two accounts have one number, whenever during InitGenesis the modules make
\* theirs, and however many users there are (app.go:614).
THEOREM OneNumberEach == Spec => []AccountsDistinct
<1>1. IInv => AccountsDistinct
  <2> SUFFICES ASSUME IInv PROVE AccountsDistinct
    OBVIOUS
  <2>1. CASE phase \in {"booting", "booted"}
    <3>1. PICK k \in 0..15 : Made(k)
      BY <2>1 DEF IInv, BootInv
    <3> QED
      BY <3>1 DEF Made, Numbered, AccountsDistinct
  <2>2. CASE phase \notin {"booting", "booted"}
    <3>1. chain = Nothing
      BY <2>2 DEF IInv, BootInv
    <3> QED
      BY <3>1 DEF Nothing, AccountsDistinct
  <2> QED
    BY <2>1, <2>2
<1> QED
  BY <1>1, Invariance, PTL

=============================================================================
