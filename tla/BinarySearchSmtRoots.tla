------------------------ MODULE BinarySearchSmtRoots ------------------------
(***************************************************************************)
(* The library BinarySearchSmtRoots at the end of SmtLib.sol: the search   *)
(* of the root history for the entry in force at a timestamp or a block,   *)
(* statement by statement.                                                 *)
(*                                                                         *)
(* The sequence field is what fieldSelector makes of the history: the      *)
(* createdAtTimestamp, or the createdAtBlock, of each entry.  Places are   *)
(* counted from 0 as in the code.                                          *)
(*                                                                         *)
(* The library stands apart from SmtLib "for testing purposes" (line 633), *)
(* so the history here is any sequence in order of time: also the empty    *)
(* one, and one whose first entry is later than the time asked for, which  *)
(* an initialised SmtLib does not have (SmtQueries composes the two).      *)
(***************************************************************************)
EXTENDS Integers, Sequences

CONSTANTS
    Time,       \* the timestamps, or block numbers, of entries and of requests
    MaxLength   \* bound: the length of the history

ASSUME TimeAssumption == Time \subseteq Nat /\ 0 \in Time
ASSUME LengthAssumption == MaxLength \in Nat

VARIABLES
    field,   \* self.rootEntries, as fieldSelector reads it
    value,   \* the argument of the search
    min, max, mid,
    pc,      \* "idle", "while", "equal" (the inner loop), "returned"
    index,   \* what was returned: the place found,
    found    \* and whether there is one

vars == <<field, value, min, max, mid, pc, index, found>>

At(k) == field[k + 1]
Last == Len(field) - 1

InOrder(h) == \A j, k \in DOMAIN h : j < k => h[j] <= h[k]

Histories == {h \in UNION {[1 .. n -> Time] : n \in 0 .. MaxLength} : InOrder(h)}

-----------------------------------------------------------------------------

Return(k, hit) ==
    /\ pc' = "returned"
    /\ index' = k
    /\ found' = hit
    /\ UNCHANGED <<field, value, min, max>>

Middle == (max + min) \div 2

\* The head of the outer loop, and what follows it when it ends.
Leave ==
    /\ pc = "while"
    /\ min > max
    /\ Return(max, TRUE)
    /\ UNCHANGED mid

\* One round of the outer loop, in the branch its comparison takes.
Enter ==
    /\ pc = "while"
    /\ min <= max
    /\ mid' = Middle

Equal ==
    /\ Enter
    /\ At(Middle) = value
    /\ pc' = "equal"
    /\ UNCHANGED <<field, value, min, max, index, found>>

GoRight ==
    /\ Enter
    /\ value > At(Middle)
    /\ min' = Middle + 1
    /\ UNCHANGED <<field, value, max, pc, index, found>>

\* Mutation of GoLeft: mid stays in the range, and the search goes round for ever.
GoLeftAndKeepMid ==
    /\ Enter
    /\ value < At(Middle)
    /\ Middle > 0
    /\ max' = Middle
    /\ UNCHANGED <<field, value, min, pc, index, found>>

\* Mutation of GoLeft: no guard against max = -1.
GoLeftUnguarded ==
    /\ Enter
    /\ value < At(Middle)
    /\ max' = Middle - 1
    /\ UNCHANGED <<field, value, min, pc, index, found>>

GoLeft ==
    /\ Enter
    /\ value < At(Middle)
    /\ Middle > 0
    /\ max' = Middle - 1
    /\ UNCHANGED <<field, value, min, pc, index, found>>

NotFound ==
    /\ Enter
    /\ value < At(Middle)
    /\ Middle = 0
    /\ Return(0, FALSE)

\* The inner loop, over the entries that were made at the same time.
SkipEqual ==
    /\ pc = "equal"
    /\ mid < Last
    /\ At(mid + 1) = value
    /\ mid' = mid + 1
    /\ UNCHANGED <<field, value, min, max, pc, index, found>>

\* Mutation of ReturnEqual: it may return before the inner loop is over.
ReturnEqualAtOnce ==
    /\ pc = "equal"
    /\ Return(mid, TRUE)
    /\ UNCHANGED mid

ReturnEqual ==
    /\ pc = "equal"
    /\ mid < Last => At(mid + 1) # value
    /\ Return(mid, TRUE)
    /\ UNCHANGED mid

\* Mutation of Begin: max is the length and not the last place.
BeginPastEnd ==
    /\ pc = "idle"
    /\ min' = 0
    /\ mid' = 0
    /\ index' = 0
    /\ found' = FALSE
    /\ IF Len(field') = 0 THEN pc' = "returned" /\ max' = 0
                          ELSE pc' = "while" /\ max' = Len(field')

\* The call, up to the outer loop.  The caller chooses field' and value'.
Begin ==
    /\ pc = "idle"
    /\ min' = 0
    /\ mid' = 0
    /\ index' = 0
    /\ found' = FALSE
    /\ IF Len(field') = 0 THEN pc' = "returned" /\ max' = 0
                          ELSE pc' = "while" /\ max' = Last'

Init ==
    /\ field \in Histories
    /\ value \in Time
    /\ min = 0 /\ max = 0 /\ mid = 0 /\ index = 0
    /\ pc = "idle"
    /\ found = FALSE

\* A step of the search once it has begun.
Look == Leave \/ Equal \/ GoRight \/ GoLeft \/ NotFound \/ SkipEqual \/ ReturnEqual

Next == (UNCHANGED <<field, value>> /\ Begin) \/ Look

Spec == Init /\ [][Next]_vars /\ WF_vars(Next)

-----------------------------------------------------------------------------

TypeOK ==
    /\ field \in Histories
    /\ value \in Time
    /\ min \in Nat /\ max \in Nat /\ mid \in Nat /\ index \in Nat
    /\ pc \in {"idle", "while", "equal", "returned"}
    /\ found \in BOOLEAN

\* No checked operation of the search reverts: every place it is about to read is
\* in the history, and max does not go below 0 (the guard mid > 0 of line 678).
InBounds ==
    /\ max >= 0
    /\ pc = "while" /\ min <= max => Middle \in 0 .. Last
    /\ pc = "equal" => mid \in 0 .. Last

\* What is returned is the entry in force: the last one made at the requested time
\* or before, also when several were made at that very time; and nothing is found
\* only if there is none.
Correct ==
    pc = "returned" =>
        /\ found <=> \E k \in 0 .. Last : At(k) <= value
        /\ found => /\ index \in 0 .. Last
                    /\ At(index) <= value
                    /\ \A k \in 0 .. Last : k > index => At(k) > value

\* The search returns.
Terminates == <>(pc = "returned")

=============================================================================
