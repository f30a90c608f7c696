---------------------------- MODULE VersionedMap ----------------------------
(***************************************************************************)
(* What the root history of SmtLib.sol promises its callers, with no trees *)
(* and no hashes: a map from leaf indexes to values that keeps every       *)
(* version it ever had, each with the block and the second it was made in. *)
(***************************************************************************)
EXTENDS Integers, Sequences

CONSTANTS Key, Val

VARIABLES
    versions,  \* the versions, oldest first: [content, time, block]
    block,     \* the chain's height
    time       \* the chain's clock, in seconds

vars == <<versions, block, time>>

\* The content of the latest version.
Current == versions[Len(versions)].content

\* A content with one key set.
With(content, key, val) ==
    [k \in DOMAIN content \cup {key} |-> IF k = key THEN val ELSE content[k]]

Init ==
    /\ versions = <<>>
    /\ block = 1
    /\ time = 1

\* The empty version, from the beginning of time.
Open ==
    /\ versions = <<>>
    /\ versions' = << [content |-> [k \in {} |-> 0], time |-> 0, block |-> 0] >>
    /\ UNCHANGED <<block, time>>

\* A write makes a version of its own, even if it changes nothing.
Put(key, val) ==
    /\ versions # <<>>
    /\ versions' = Append(versions,
         [content |-> With(Current, key, val), time |-> time, block |-> block])
    /\ UNCHANGED <<block, time>>

Tick ==
    /\ block' = block + 1
    /\ time' \in Nat
    /\ time' >= time
    /\ UNCHANGED versions

Next == Open \/ (\E key \in Key, val \in Val : Put(key, val)) \/ Tick

Spec == Init /\ [][Next]_vars

=============================================================================
