----------------------------- MODULE SmtQueries -----------------------------
(***************************************************************************)
(* SmtLib with its readers: getRootInfoByTime and getRootInfoByBlock,      *)
(* which run the binary search of BinarySearchSmtRoots over the history as *)
(* it is at the head of the chain.  A call is executed against one state:  *)
(* the library makes no step while a search is under way.                  *)
(***************************************************************************)
EXTENDS SmtLib

VARIABLES
    asked,                           \* the SearchType and the number asked for
    min, max, mid, pc, index, found  \* the search's, and pc = "idle" between calls

search == <<asked, min, max, mid, pc, index, found>>
queryVars == <<vars, search>>

SearchType == {"TIMESTAMP", "BLOCK"}

\* Mutation of fieldSelector: the branches are the wrong way round.
fieldSelectorSwapped(entry, searchType) ==
    IF searchType = "TIMESTAMP" THEN entry.createdAtBlock ELSE entry.createdAtTimestamp

fieldSelector(entry, searchType) ==
    IF searchType = "BLOCK" THEN entry.createdAtBlock ELSE entry.createdAtTimestamp

FieldOf(searchType) ==
    [k \in DOMAIN rootEntries |-> fieldSelector(rootEntries[k], searchType)]

Search == INSTANCE BinarySearchSmtRoots WITH
    Time <- Nat,
    MaxLength <- MaxEntries,
    field <- FieldOf(asked.searchType),
    value <- asked.value

Now(searchType) == IF searchType = "BLOCK" THEN blockNumber ELSE blockTimestamp

-----------------------------------------------------------------------------

Idle == pc = "idle"

\* A change of the library or the chain, between two calls.
Change == Idle /\ Next /\ UNCHANGED search

\* The call: a number of the future is refused (lines 317 and 336).
Ask(searchType, value) ==
    /\ Idle
    /\ value <= Now(searchType)
    /\ asked' = [searchType |-> searchType, value |-> value]
    /\ UNCHANGED vars
    /\ Search!Begin

\* A step of the search.
Look == UNCHANGED <<vars, asked>> /\ Search!Look

\* What the call answers once the search has returned, if assert(found) holds.
Answer == RootInfoByIndex(index)

\* The caller goes on: with the answer, or, the assertion having failed, without.
Leave ==
    /\ pc = "returned"
    /\ pc' = "idle"
    /\ UNCHANGED <<vars, asked, min, max, mid, index, found>>

QInit ==
    /\ Init
    /\ asked = [searchType |-> "BLOCK", value |-> 0]
    /\ min = 0 /\ max = 0 /\ mid = 0 /\ index = 0
    /\ pc = "idle"
    /\ found = FALSE

QNext ==
    \/ Change
    \/ \E searchType \in SearchType : \E value \in 0 .. Now(searchType) : Ask(searchType, value)
    \/ Look
    \/ Leave

QSpec == QInit /\ [][QNext]_queryVars

-----------------------------------------------------------------------------

\* As the comment above assert(found) (line 613) has it, for every call: "as far as
\* we always have at least one root entry, we should always find it".  But the two
\* functions have no onlyInitialized modifier, so a call may come before there is one.
AssertFoundHolds == pc = "returned" => found

\* Of an initialised tree every question about the past has an answer, and any answer
\* is the root that was in force at the time asked for: made by then and, if it was
\* replaced at all, replaced only later.  (Asked about the present, this is the
\* current root, not an earlier root of the same block or the same second.)
AnswerInForce ==
    pc = "returned" =>
        LET byBlock == asked.searchType = "BLOCK"
            created == IF byBlock THEN Answer.createdAtBlock ELSE Answer.createdAtTimestamp
            replaced == IF byBlock THEN Answer.replacedAtBlock ELSE Answer.replacedAtTimestamp
        IN  /\ initialized => found
            /\ found => /\ created <= asked.value
                        /\ Answer.replacedByRoot # EmptyHash => replaced > asked.value

\* The root in force at a time that has passed.
RootAt(searchType, value) ==
    LET by == {k \in Places : fieldSelector(Entry(k), searchType) <= value}
    IN  Entry(CHOOSE k \in by : \A j \in by : j <= k).root

\* The past is settled: the root in force at a block number, or at a second, that
\* the chain has left behind stays the same for ever.  (At the present second, it
\* may change: a later block can have the same timestamp.)
PastIsSettled ==
    [][\A searchType \in SearchType :
         \A value \in 0 .. Now(searchType) - 1 :
            initialized => RootAt(searchType, value)' = RootAt(searchType, value)]_queryVars

=============================================================================
