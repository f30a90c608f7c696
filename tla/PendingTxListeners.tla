------------------------- MODULE PendingTxListeners -------------------------
(***************************************************************************)
(* The listeners of pending transactions (app/app.go:753-761).             *)
(* RegisterPendingTxListener appends to a slice that onPendingTx ranges    *)
(* over, without a lock: the servers of the node register while CheckTx    *)
(* already notifies.  A slice is three words, its array, its length and    *)
(* its capacity, and no two of them are read or written in one step.       *)
(* What a goroutine reads of a half-written slice, and whether what it     *)
(* finds outside an array ends the process, is undefined.                  *)
(***************************************************************************)
EXTENDS Integers, Sequences, SequencesExt

CONSTANTS
    Listener,     \* listeners, each registered by a goroutine of its own
    Early,        \* listeners that may be registered before all that, in this
                  \* order
    None

VARIABLES
    slice,        \* app.pendingTxListeners: its words
    memory,       \* the arrays there are; the slots of one, None if unset
    registering,  \* of a listener: where its registration is
    notifying,    \* the notification under way; mixed is history: a
                  \* registration overlapped it
    raced,        \* history: the listeners whose registrations overlapped
    before,       \* history: the listeners that were registered when the
                  \* notification began
    crashed

vars == <<slice, memory, registering, notifying, raced, before, crashed>>

ASSUME ListenerAssumption ==
    /\ Early \in Seq(ToSet(Early))
    /\ ToSet(Early) \cap Listener = {}
    /\ None \notin Listener \cup ToSet(Early) \cup Nat

Words == {"array", "len", "cap"}
Nil == [array |-> 0, len |-> 0, cap |-> 0]
Unread == [array |-> None, len |-> None, cap |-> None]
Waiting == [at |-> "waiting"]
Done == [at |-> "done"]
Quiet == [at |-> "quiet"]

-----------------------------------------------------------------------------
(* append *)

\* An array of a slice without elements is no array.
Slots(array) == IF array = 0 THEN <<>> ELSE memory[array]

\* The runtime doubles the capacity of a small slice.
Grown(cap) == IF cap = 0 THEN 1 ELSE 2 * cap

\* Mutation: the elements are not copied to the new array.
NewArrayEmpty(words, l) ==
    [i \in 1..Grown(words.cap) |-> IF i = words.len + 1 THEN l ELSE None]

\* The array that append makes: what was there, l, and unset slots.
NewArray(words, l) ==
    [i \in 1..Grown(words.cap) |->
        IF i <= words.len THEN Slots(words.array)[i]
        ELSE IF i = words.len + 1 THEN l ELSE None]

\* Mutation: the listener takes the place of the others.
AppendedAlone(words) == 1

Appended(words) == words.len + 1

\* What append makes of a slice: in its array, if there is room, or else in a new
\* one; and the arrays that there are then.
Room(words) == words.len < words.cap

Made(words) ==
    [array |-> IF Room(words) THEN words.array ELSE Len(memory) + 1,
     len |-> Appended(words),
     cap |-> IF Room(words) THEN words.cap ELSE Grown(words.cap)]

MemoryWith(words, l) ==
    IF Room(words)
    THEN [memory EXCEPT ![words.array] = [@ EXCEPT ![Appended(words)] = l]]
    ELSE Append(memory, NewArray(words, l))

\* The words make no slice: they were read while others were written.
Torn(words) == words.len > words.cap \/ words.cap > Len(Slots(words.array))

-----------------------------------------------------------------------------

\* No listener is registered yet, in a new process.
Init ==
    /\ slice = Nil /\ memory = <<>>
    /\ registering = [l \in Listener |-> Waiting]
    /\ notifying = Quiet
    /\ raced = {}
    /\ before = {}
    /\ crashed = FALSE

Running == ~crashed

\* The early listeners that are registered.
Present == {l \in ToSet(Early) : \E i \in DOMAIN memory : l \in ToSet(memory[i])}

\* The registrations under way.
Overlapping == {l \in Listener : registering[l].at \in {"reads", "writes"}}

\* RegisterPendingTxListener while nothing else goes on.
RegisterEarly ==
    /\ Running /\ notifying = Quiet
    /\ \A l \in Listener : registering[l] = Waiting
    /\ slice.len < Len(Early)
    /\ slice' = Made(slice)
    /\ memory' = MemoryWith(slice, Early[slice.len + 1])
    /\ UNCHANGED <<registering, notifying, raced, before, crashed>>

\* RegisterPendingTxListener(l) begins.
Register(l) ==
    /\ Running /\ registering[l] = Waiting
    /\ registering' = [registering EXCEPT ![l] = [at |-> "reads", words |-> Unread]]
    /\ raced' = IF Overlapping = {} THEN raced ELSE raced \cup Overlapping \cup {l}
    /\ notifying' = IF notifying = Quiet THEN Quiet ELSE [notifying EXCEPT !.mixed = TRUE]
    /\ UNCHANGED <<slice, memory, before, crashed>>

ReadWord(l, word) ==
    /\ Running /\ registering[l].at = "reads" /\ registering[l].words[word] = None
    /\ registering' = [registering EXCEPT ![l].words[word] = slice[word]]
    /\ UNCHANGED <<slice, memory, notifying, raced, before, crashed>>

\* The element is put into the array.  Of a torn slice append may make anything.
AppendElement(l) ==
    /\ Running /\ registering[l].at = "reads"
    /\ \A word \in Words : registering[l].words[word] # None
    /\ LET words == registering[l].words
       IN  IF Torn(words)
           THEN /\ crashed' = TRUE
                /\ UNCHANGED <<memory, registering>>
           ELSE /\ memory' = MemoryWith(words, l)
                /\ registering' = [registering EXCEPT ![l] =
                       [at |-> "writes", words |-> Made(words), left |-> Words]]
                /\ UNCHANGED crashed
    /\ UNCHANGED <<slice, notifying, raced, before>>

WriteWord(l, word) ==
    /\ Running /\ registering[l].at = "writes" /\ word \in registering[l].left
    /\ slice' = [slice EXCEPT ![word] = registering[l].words[word]]
    /\ registering' = [registering EXCEPT ![l] =
           IF @.left = {word} THEN Done
           ELSE [at |-> "writes", words |-> @.words, left |-> @.left \ {word}]]
    /\ UNCHANGED <<memory, notifying, raced, before, crashed>>

\* onPendingTx begins.
Notify ==
    /\ Running /\ notifying = Quiet
    /\ notifying' = [at |-> "reads", array |-> None, len |-> None, called |-> <<>>,
                   mixed |-> Overlapping # {}]
    /\ before' = {l \in Listener : registering[l] = Done} \cup Present
    /\ UNCHANGED <<slice, memory, registering, raced, crashed>>

\* range reads the array and the length once.
RangeWord(word) ==
    /\ Running /\ notifying.at = "reads" /\ word \in {"array", "len"}
    /\ notifying[word] = None
    /\ notifying' = [notifying EXCEPT ![word] = slice[word]]
    /\ UNCHANGED <<slice, memory, registering, raced, before, crashed>>

\* The next listener is called.  Nothing checks the array's own bound again.
Call ==
    /\ Running /\ notifying.at = "reads"
    /\ notifying.array # None /\ notifying.len # None
    /\ Len(notifying.called) < notifying.len
    /\ LET next == Len(notifying.called) + 1
           slots == Slots(notifying.array)
       IN  IF next \notin DOMAIN slots \/ slots[next] = None
           THEN crashed' = TRUE /\ UNCHANGED notifying
           ELSE /\ notifying' = [notifying EXCEPT !.called = Append(@, slots[next])]
                /\ UNCHANGED crashed
    /\ UNCHANGED <<slice, memory, registering, raced, before>>

Notified ==
    /\ Running /\ notifying.at = "reads"
    /\ notifying.array # None /\ notifying.len = Len(notifying.called)
    /\ notifying' = Quiet
    /\ before' = {}
    /\ UNCHANGED <<slice, memory, registering, raced, crashed>>

\* The process is gone; nothing of this is kept.
Restart ==
    /\ slice' = Nil /\ memory' = <<>>
    /\ registering' = [l \in Listener |-> Waiting]
    /\ notifying' = Quiet /\ raced' = {} /\ before' = {} /\ crashed' = FALSE

Next ==
    \/ \E l \in Listener :
        \/ Register(l) \/ AppendElement(l)
        \/ \E word \in Words : ReadWord(l, word) \/ WriteWord(l, word)
    \/ RegisterEarly \/ Notify \/ Call \/ Notified \/ Restart
    \/ \E word \in Words : RangeWord(word)

Spec == Init /\ [][Next]_vars
-----------------------------------------------------------------------------

\* A notification that does not crash calls every listener that was registered
\* before it began, unless its registration overlapped another, and whatever
\* is being registered meanwhile (app.go:753).
RegisteredHeard ==
    ~crashed /\ notifying.at = "reads" /\ notifying.array # None
             /\ notifying.len = Len(notifying.called) =>
        before \ raced \subseteq ToSet(notifying.called)

\* The node does not crash on its listeners but for a registration that
\* overlaps a notification or another registration (app.go:760).
CrashOnlyInRace == [][crashed' /\ ~crashed =>
        raced # {} \/ (notifying.at = "reads" /\ notifying.mixed)]_vars

=============================================================================
