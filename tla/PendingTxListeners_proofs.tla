---------------------- MODULE PendingTxListeners_proofs ----------------------
(***************************************************************************)
(* Theorems about the listeners of pending transactions, for every number  *)
(* of them.  Nothing locks the slice, so its words may be those of no      *)
(* slice that was ever meant; what an append or a call then finds is open. *)
(* But a listener whose registration overlapped no other has a place in    *)
(* the array that nobody takes from it: whatever array and length are read *)
(* afterwards, in whatever mixture, the array has the listener there and   *)
(* the length goes beyond it.                                              *)
(***************************************************************************)
EXTENDS PendingTxListeners, TLAPS

Slice == [array : Nat, len : Nat, cap : Nat]
PartRead == [array : Nat \cup {None}, len : Nat \cup {None}, cap : Nat \cup {None}]
Slot == Listener \cup ToSet(Early) \cup {None}

Stages ==
    {Waiting, Done}
    \cup [at : {"reads"}, words : PartRead]
    \cup [at : {"writes"}, words : Slice, left : SUBSET Words]

Notification ==
    [at : {"reads"}, array : Nat \cup {None}, len : Nat \cup {None}, called : Seq(Slot),
     mixed : BOOLEAN]

\* No array is in use that there is not.
Types ==
    /\ slice \in Slice /\ slice.array <= Len(memory)
    /\ memory \in Seq(Seq(Slot))
    /\ registering \in [Listener -> Stages]
    /\ \A l \in Listener : registering[l].at \in {"reads", "writes"} =>
        registering[l].words.array \in 0 .. Len(memory) \cup {None}
    /\ notifying \in {Quiet} \cup Notification
    /\ notifying.at = "reads" => notifying.array \in 0 .. Len(memory) \cup {None}
    /\ raced \subseteq {l \in Listener : registering[l] # Waiting}

Reads(l) == registering[l].at = "reads"
Writes(l) == registering[l].at = "writes"

\* What is registered for good.
Registered == {l \in Listener : registering[l] = Done} \cup Present

\* The early listeners that are in one of the arrays m.
EarlyIn(m) == {l \in ToSet(Early) : \E i \in DOMAIN m : l \in ToSet(m[i])}

\* An array has listener l at place p.
At(m, array, p, l) ==
    /\ array \in 1 .. Len(m)
    /\ p \in 1 .. Len(m[array])
    /\ m[array][p] = l

\* Every array and length that are in use have l at place p.
InSlice(m, p, l) == slice.len >= p /\ At(m, slice.array, p, l)

InRegistration(m, g, p, l) ==
    /\ g.at = "reads" =>
        /\ g.words.len # None => g.words.len >= p
        /\ g.words.array # None => At(m, g.words.array, p, l)
    /\ g.at = "writes" => g.words.len > p /\ At(m, g.words.array, p, l)

InNotification(m, n, p, l) ==
    n.at = "reads" =>
        /\ n.len # None => n.len >= p
        /\ n.array # None => At(m, n.array, p, l)
        /\ Len(n.called) >= p => n.called[p] = l

Has(p, l) ==
    /\ InSlice(memory, p, l)
    /\ \A k \in Listener : InRegistration(memory, registering[k], p, l)
    /\ l \in before => InNotification(memory, notifying, p, l)

\* A registration that overlapped no other is the only one under way.
Alone == \A l \in Overlapping \ raced : Overlapping = {l}

\* It puts into the slice a slice that ends with its listener.
Writing ==
    \A l \in Listener \ raced : Writes(l) =>
        /\ \A word \in Words \ registering[l].left : slice[word] = registering[l].words[word]
        /\ registering[l].words.len >= 1
        /\ At(memory, registering[l].words.array, registering[l].words.len, l)

\* The slots of an array among those of m.
Elements(m, array) == IF array = 0 THEN <<>> ELSE m[array]

\* The words of a slice that was meant, all of whose elements are set.
Sound(m, words) ==
    /\ words.len <= words.cap /\ words.cap = Len(Elements(m, words.array))
    /\ \A i \in 1 .. words.len : Elements(m, words.array)[i] # None

\* Without a race the slice is one that was meant when nothing is being registered;
\* what is read of it then is of one slice.
Clean ==
    raced = {} =>
        /\ Overlapping = {} => Sound(memory, slice)
        /\ \A l \in Listener : Reads(l) =>
            /\ Sound(memory, slice)
            /\ \A word \in Words : registering[l].words[word] \in {None, slice[word]}
        /\ \A l \in Listener : Writes(l) => Sound(memory, registering[l].words)

CleanNotification ==
    raced = {} /\ notifying.at = "reads" /\ ~notifying.mixed =>
        /\ Overlapping = {}
        /\ notifying.array \in {None, slice.array}
        /\ notifying.len \in {None, slice.len}

IInv ==
    /\ Types
    /\ Alone
    /\ Writing
    /\ before \subseteq Registered
    /\ \A l \in Registered \ raced : \E p \in Nat \ {0} : Has(p, l)
    /\ Clean
    /\ CleanNotification

-----------------------------------------------------------------------------
(* append *)

LEMMA PresentIs == Present = EarlyIn(memory)
  BY DEF Present, EarlyIn

LEMMA AtIsEarly ==
    ASSUME NEW m, NEW array, NEW p, NEW l \in ToSet(Early), m \in Seq(Seq(Slot)), At(m, array, p, l)
    PROVE  l \in EarlyIn(m)
<1>1. array \in DOMAIN m /\ m[array] \in Seq(Slot) /\ p \in DOMAIN m[array]
  BY DEF At
<1>2. l \in ToSet(m[array])
  BY <1>1 DEF At, ToSet
<1> QED
  BY <1>1, <1>2 DEF EarlyIn

\* The arrays m and the words made after an append of l to words.
Extends(words, l, m, made) ==
    /\ m \in Seq(Seq(Slot)) /\ Len(memory) <= Len(m)
    /\ made \in Slice /\ made.array <= Len(m)
    /\ made.len = words.len + 1
    /\ At(m, made.array, made.len, l)
    /\ \A array, p, k : At(memory, array, p, k) /\ p <= words.len => At(m, array, p, k)
    /\ \A p, k : At(memory, words.array, p, k) /\ p <= words.len => At(m, made.array, p, k)
    /\ Sound(memory, words) /\ l # None => Sound(m, made)
    /\ EarlyIn(m) \subseteq EarlyIn(memory) \cup {l}

\* What append does, to words that are not torn.
LEMMA AppendIs ==
    ASSUME Types, NEW words \in Slice, words.array <= Len(memory), ~Torn(words), NEW l \in Slot
    PROVE  Extends(words, l, MemoryWith(words, l), Made(words))
<1> DEFINE m == MemoryWith(words, l)
           made == Made(words)
           A == words.array
           L == words.len
           C == words.cap
           M == Len(memory)
           E == Elements(memory, A)
<1>1. /\ A \in Nat /\ L \in Nat /\ C \in Nat /\ M \in Nat /\ A <= M
      /\ memory \in Seq(Seq(Slot))
  BY DEF Types, Slice
<1>2. Slots(A) = E /\ E \in Seq(Slot)
  <2>1. A # 0 => memory[A] \in Seq(Slot)
    BY <1>1
  <2> QED
    BY <2>1 DEF Slots, Elements
<1>3. L <= C /\ C <= Len(E) /\ Len(E) \in Nat
  BY <1>1, <1>2 DEF Torn, A, L, C
<1> HIDE DEF E, A, L, C, M
<1>4. CASE L < C
  <2>1. A \in 1 .. M /\ E = memory[A]
    BY <1>1, <1>3, <1>4 DEF Elements, E
  <2>2. m = [memory EXCEPT ![A] = [memory[A] EXCEPT ![L + 1] = l]]
    BY <1>4 DEF MemoryWith, Room, Appended, A, L, C
  <2>3. made = [array |-> A, len |-> L + 1, cap |-> C]
    BY <1>4 DEF Made, Room, Appended, A, L, C
  <2>4. /\ L + 1 \in 1 .. Len(E)
        /\ [memory[A] EXCEPT ![L + 1] = l] \in Seq(Slot)
        /\ Len([memory[A] EXCEPT ![L + 1] = l]) = Len(E)
    BY <1>1, <1>2, <1>3, <1>4, <2>1
  <2>5. /\ m \in Seq(Seq(Slot)) /\ Len(m) = M
        /\ m[A] \in Seq(Slot) /\ Len(m[A]) = Len(E) /\ m[A][L + 1] = l
        /\ \A i \in 1 .. Len(E) : i # L + 1 => m[A][i] = E[i]
        /\ \A array \in 1 .. M : array # A => m[array] = memory[array]
    BY <1>1, <2>1, <2>2, <2>4 DEF M
  <2> HIDE DEF m, made
  <2>6. made \in Slice /\ made.array <= Len(m) /\ made.len = L + 1
    BY <1>1, <2>3, <2>5 DEF Slice
  <2>7. At(m, made.array, made.len, l)
    BY <2>1, <2>3, <2>4, <2>5 DEF At
  <2>8. ASSUME NEW array, NEW p, NEW k, At(memory, array, p, k), p <= L
        PROVE  At(m, array, p, k)
    <3>1. CASE array = A
      BY <1>1, <2>1, <2>5, <2>8, <3>1 DEF At
    <3>2. CASE array # A
      BY <2>5, <2>8, <3>2 DEF At, M
    <3> QED
      BY <3>1, <3>2
  <2>9. Sound(memory, words) /\ l # None => Sound(m, made)
    <3> SUFFICES ASSUME Sound(memory, words), l # None
                 PROVE  Sound(m, made)
      OBVIOUS
    <3>1. C = Len(E) /\ \A i \in 1 .. L : E[i] # None
      BY DEF Sound, C, L, E, A
    <3>2. Elements(m, A) = m[A]
      BY <2>1 DEF Elements
    <3>3. ASSUME NEW i \in 1 .. L + 1
          PROVE  m[A][i] # None
      <4>1. i \in 1 .. L => i \in 1 .. Len(E) /\ i # L + 1
        BY <1>1, <1>3
      <4>2. i \in 1 .. L \/ i = L + 1
        BY <1>1
      <4> QED
        BY <2>5, <3>1, <4>1, <4>2
    <3> QED
      BY <1>1, <1>4, <2>3, <2>5, <3>1, <3>2, <3>3 DEF Sound
  <2>10. ASSUME NEW k \in EarlyIn(m)
         PROVE  k \in EarlyIn(memory) \cup {l}
    <3>1. PICK i \in DOMAIN m : k \in ToSet(m[i])
      BY DEF EarlyIn
    <3>2. PICK j \in DOMAIN m[i] : k = m[i][j]
      BY <3>1 DEF ToSet
    <3>3. i \in 1 .. M /\ i \in DOMAIN memory
      BY <1>1, <2>5 DEF M
    <3>4. k # l => k \in ToSet(memory[i])
      <4>1. CASE i = A
        <5>1. j \in 1 .. Len(E) /\ j \in DOMAIN E
          BY <1>2, <2>5, <3>2, <4>1
        <5> QED
          BY <2>1, <2>5, <3>2, <4>1, <5>1 DEF ToSet
      <4>2. CASE i # A
        BY <2>5, <3>1, <3>3, <4>2
      <4> QED
        BY <4>1, <4>2
    <3> QED
      BY <3>3, <3>4 DEF EarlyIn
  <2>11. Extends(words, l, m, made)
    BY <1>1, <2>3, <2>5, <2>6, <2>7, <2>8, <2>9, <2>10 DEF Extends, L, A, M
  <2> QED
    BY <2>11 DEF m, made
<1>5. CASE ~(L < C)
  <2> DEFINE new == NewArray(words, l)
             N == Grown(C)
  <2>1. L = C /\ N \in Nat /\ N >= L + 1
    BY <1>1, <1>3, <1>5 DEF Grown
  <2>2. new = [i \in 1 .. N |-> IF i <= L THEN E[i] ELSE IF i = L + 1 THEN l ELSE None]
    BY <1>2 DEF NewArray, L, C, A
  <2>3. /\ new \in Seq(Slot) /\ Len(new) = N /\ new[L + 1] = l
        /\ \A i \in 1 .. L : new[i] = E[i]
        /\ \A i \in 1 .. N : new[i] \in {l, None} \/ i <= L
    <3>1. \A i \in 1 .. L : E[i] \in Slot
      BY <1>1, <1>2, <1>3
    <3>2. None \in Slot
      BY DEF Slot
    <3>3. new \in [1 .. N -> Slot]
      BY <1>1, <2>1, <2>2, <3>1, <3>2
    <3>4. new \in Seq(Slot) /\ Len(new) = N
      BY <2>1, <3>3
    <3> QED
      BY <1>1, <2>1, <2>2, <3>4
  <2> HIDE DEF new, N
  <2>4. m = Append(memory, new)
    BY <1>5 DEF MemoryWith, Room, new, L, C
  <2>5. made = [array |-> M + 1, len |-> L + 1, cap |-> N]
    BY <1>5 DEF Made, Room, Appended, N, L, C, M
  <2>6. /\ m \in Seq(Seq(Slot)) /\ Len(m) = M + 1 /\ m[M + 1] = new
        /\ \A array \in 1 .. M : m[array] = memory[array]
    BY <1>1, <2>3, <2>4 DEF M
  <2> HIDE DEF m, made
  <2>7. made \in Slice /\ made.array <= Len(m) /\ made.len = L + 1
    BY <1>1, <2>1, <2>5, <2>6 DEF Slice
  <2>8. At(m, made.array, made.len, l)
    BY <1>1, <2>1, <2>3, <2>5, <2>6 DEF At
  <2>9. \A array, p, k : At(memory, array, p, k) => At(m, array, p, k)
    BY <1>1, <2>6 DEF At, M
  <2>10. ASSUME NEW p, NEW k, At(memory, A, p, k), p <= L
         PROVE  At(m, made.array, p, k)
    <3>1. A # 0 /\ p \in 1 .. L /\ memory[A][p] = k
      BY <1>1, <2>10 DEF At
    <3>2. new[p] = k /\ p \in 1 .. Len(new)
      BY <1>1, <2>1, <2>3, <3>1 DEF Elements, E
    <3>3. made.array = M + 1 /\ M + 1 \in 1 .. Len(m)
      BY <1>1, <2>5, <2>6
    <3> QED
      BY <2>6, <3>2, <3>3 DEF At
  <2>11. Sound(memory, words) /\ l # None => Sound(m, made)
    <3> SUFFICES ASSUME Sound(memory, words), l # None
                 PROVE  Sound(m, made)
      OBVIOUS
    <3>1. \A i \in 1 .. L : E[i] # None
      BY DEF Sound, L, E, A
    <3>2. Elements(m, M + 1) = new
      BY <1>1, <2>6 DEF Elements
    <3>3. ASSUME NEW i \in 1 .. L + 1
          PROVE  new[i] # None
      <4>1. i \in 1 .. L \/ i = L + 1
        BY <1>1
      <4> QED
        BY <2>3, <3>1, <4>1
    <3> QED
      BY <1>1, <2>1, <2>3, <2>5, <3>2, <3>3 DEF Sound
  <2>12. ASSUME NEW k \in EarlyIn(m)
         PROVE  k \in EarlyIn(memory) \cup {l}
    <3>0. k \in ToSet(Early) /\ k # None
      BY ListenerAssumption DEF EarlyIn
    <3>1. PICK i \in DOMAIN m : k \in ToSet(m[i])
      BY DEF EarlyIn
    <3>2. PICK j \in DOMAIN m[i] : k = m[i][j]
      BY <3>1 DEF ToSet
    <3>3. CASE i \in 1 .. M
      <4>1. i \in DOMAIN memory /\ k \in ToSet(memory[i])
        BY <1>1, <2>6, <3>1, <3>3 DEF M
      <4> QED
        BY <3>0, <4>1 DEF EarlyIn
    <3>4. CASE i = M + 1
      <4>1. j \in 1 .. N /\ k = new[j]
        BY <2>3, <2>6, <3>2, <3>4
      <4>2. CASE j <= L
        <5>1. j \in 1 .. L /\ k = E[j]
          BY <1>1, <2>3, <4>1, <4>2
        <5>2. A \in DOMAIN memory /\ E = memory[A] /\ j \in DOMAIN memory[A]
          BY <1>1, <1>2, <1>3, <5>1 DEF Elements, E, M
        <5>3. k \in ToSet(memory[A])
          BY <5>1, <5>2 DEF ToSet
        <5> QED
          BY <3>0, <5>2, <5>3 DEF EarlyIn
      <4>3. CASE ~(j <= L)
        BY <2>3, <3>0, <4>1, <4>3
      <4> QED
        BY <4>2, <4>3
    <3> QED
      BY <1>1, <2>6, <3>3, <3>4
  <2>13. Extends(words, l, m, made)
    BY <1>1, <2>5, <2>6, <2>7, <2>8, <2>9, <2>10, <2>11, <2>12 DEF Extends, L, A, M
  <2> QED
    BY <2>13 DEF m, made
<1> QED
  BY <1>1, <1>4, <1>5

-----------------------------------------------------------------------------
(* The registrations. *)

LEMMA StageFacts ==
    ASSUME NEW g \in Stages
    PROVE  /\ g.at \in {"waiting", "done", "reads", "writes"}
           /\ g.at = "waiting" <=> g = Waiting
           /\ g.at = "done" <=> g = Done
           /\ g.at = "reads" => /\ g = [at |-> "reads", words |-> g.words]
                                /\ g.words \in PartRead
           /\ g.at = "writes" => /\ g = [at |-> "writes", words |-> g.words, left |-> g.left]
                                 /\ g.words \in Slice /\ g.left \subseteq Words
  BY DEF Stages, Waiting, Done

LEMMA Moved ==
    ASSUME Types, NEW k \in Listener, NEW g \in Stages,
           registering' = [registering EXCEPT ![k] = g]
    PROVE  /\ registering' \in [Listener -> Stages]
           /\ registering'[k] = g
           /\ \A l \in Listener : l # k => registering'[l] = registering[l]
  BY DEF Types

LEMMA OverlappingIs == \A l \in Listener : l \in Overlapping <=> Reads(l) \/ Writes(l)
  BY DEF Overlapping, Reads, Writes

\* All words of a slice.
LEMMA SameWords ==
    ASSUME NEW s \in Slice, NEW t \in Slice, \A word \in Words : s[word] = t[word]
    PROVE  s = t
<1>1. s["array"] = t["array"] /\ s["len"] = t["len"] /\ s["cap"] = t["cap"]
  BY DEF Words
<1>2. s.array = t.array /\ s.len = t.len /\ s.cap = t.cap
  BY <1>1 DEF Slice
<1> QED
  BY <1>2 DEF Slice

LEMMA AllWordsRead ==
    ASSUME NEW w \in PartRead, \A word \in Words : w[word] # None
    PROVE  w \in Slice
<1>1. w["array"] # None /\ w["len"] # None /\ w["cap"] # None
  BY DEF Words
<1>2. w.array \in Nat /\ w.len \in Nat /\ w.cap \in Nat
  BY <1>1 DEF PartRead
<1> QED
  BY <1>2 DEF PartRead, Slice

LEMMA WordWritten ==
    ASSUME NEW s \in Slice, NEW word \in Words, NEW x \in Nat
    PROVE  LET t == [s EXCEPT ![word] = x]
           IN  /\ t \in Slice
               /\ t[word] = x /\ \A w \in Words : w # word => t[w] = s[w]
               /\ word = "array" => t.array = x /\ t.len = s.len /\ t.cap = s.cap
               /\ word = "len" => t.len = x /\ t.array = s.array /\ t.cap = s.cap
               /\ word = "cap" => t.cap = x /\ t.array = s.array /\ t.len = s.len
  BY DEF Words, Slice

LEMMA WordRead ==
    ASSUME NEW s \in PartRead, NEW word \in Words, NEW x \in Nat
    PROVE  LET t == [s EXCEPT ![word] = x]
           IN  /\ t \in PartRead
               /\ t[word] = x /\ \A w \in Words : w # word => t[w] = s[w]
               /\ word = "array" => t.array = x /\ t.len = s.len /\ t.cap = s.cap
               /\ word = "len" => t.len = x /\ t.array = s.array /\ t.cap = s.cap
               /\ word = "cap" => t.cap = x /\ t.array = s.array /\ t.len = s.len
  BY DEF Words, PartRead

-----------------------------------------------------------------------------
(* The steps. *)

LEMMA InitIInv == Init => IInv
<1> SUFFICES ASSUME Init
             PROVE  IInv
  OBVIOUS
<1>1. /\ slice = [array |-> 0, len |-> 0, cap |-> 0] /\ memory = <<>>
      /\ \A l \in Listener : registering[l] = Waiting
      /\ notifying = Quiet /\ raced = {} /\ before = {}
  BY DEF Init, Nil
<1>2. Types
  <2>1. slice \in Slice /\ Len(memory) = 0 /\ memory \in Seq(Seq(Slot))
    BY <1>1 DEF Slice
  <2>2. registering \in [Listener -> Stages]
    BY DEF Init, Stages
  <2> QED
    BY <1>1, <2>1, <2>2 DEF Types, Waiting, Quiet
<1>3. Overlapping = {} /\ \A l \in Listener : ~Reads(l) /\ ~Writes(l) /\ registering[l] # Done
  BY <1>1 DEF Overlapping, Reads, Writes, Waiting, Done
<1>4. Registered = {}
  BY <1>1, <1>3 DEF Registered, Present
<1>5. Sound(memory, slice)
  BY <1>1 DEF Sound, Elements
<1> QED
  BY <1>1, <1>2, <1>3, <1>4, <1>5 DEF IInv, Alone, Writing, Clean, CleanNotification, Quiet

LEMMA RegisterStep ==
    ASSUME IInv, NEW k \in Listener, Register(k)
    PROVE  IInv'
<1> DEFINE g == [at |-> "reads", words |-> Unread]
<1>1. /\ registering[k] = Waiting /\ registering' = [registering EXCEPT ![k] = g]
      /\ raced' = IF Overlapping = {} THEN raced ELSE raced \cup Overlapping \cup {k}
      /\ notifying' = IF notifying = Quiet THEN Quiet ELSE [notifying EXCEPT !.mixed = TRUE]
      /\ UNCHANGED <<slice, memory, before, crashed>>
  BY DEF Register
<1>2. Types
  BY DEF IInv
<1>3. g \in Stages /\ g # Done /\ g # Waiting /\ g.at = "reads"
      /\ g.words = [array |-> None, len |-> None, cap |-> None]
      /\ \A word \in Words : g.words[word] = None
  BY DEF Stages, PartRead, Unread, Done, Waiting, Words
<1> HIDE DEF g
<1>4. /\ registering' \in [Listener -> Stages] /\ registering'[k] = g
      /\ \A l \in Listener : l # k => registering'[l] = registering[l]
  BY <1>1, <1>2, <1>3, Moved
<1>5. /\ notifying \in {Quiet} \cup Notification
      /\ notifying.at = "reads" <=> notifying # Quiet
      /\ notifying' \in {Quiet} \cup Notification
      /\ notifying'.at = "reads" => notifying.at = "reads" /\ notifying'.mixed
      /\ notifying'.array = notifying.array /\ notifying'.len = notifying.len
      /\ notifying'.called = notifying.called
  <2>1. notifying \in {Quiet} \cup Notification
    BY <1>2 DEF Types
  <2>2. CASE notifying = Quiet
    BY <1>1, <2>2 DEF Quiet
  <2>3. CASE notifying \in Notification
    <3>1. notifying.at = "reads" /\ notifying # Quiet
      BY <2>3 DEF Notification, Quiet
    <3>2. notifying' = [notifying EXCEPT !.mixed = TRUE]
      BY <1>1, <3>1
    <3> QED
      BY <2>3, <3>1, <3>2 DEF Notification
  <2> QED
    BY <2>1, <2>2, <2>3
<1>6. Overlapping' = Overlapping \cup {k} /\ k \notin Overlapping
  BY <1>1, <1>3, <1>4 DEF Overlapping, Waiting
<1>7. raced \subseteq raced' /\ (Overlapping # {} => Overlapping' \subseteq raced')
  BY <1>1, <1>6
<1>8. Types'
  <2>1. raced' \subseteq {l \in Listener : registering'[l] # Waiting}
    BY <1>1, <1>2, <1>3, <1>4 DEF Types, Overlapping, Waiting
  <2>2. \A l \in Listener : registering'[l].at \in {"reads", "writes"} =>
            registering'[l].words.array \in 0 .. Len(memory) \cup {None}
    BY <1>2, <1>3, <1>4 DEF Types
  <2> QED
    BY <1>1, <1>2, <1>4, <1>5, <2>1, <2>2 DEF Types
<1>9. Alone'
  BY <1>6, <1>7 DEF Alone
<1>10. Writing'
  <2> SUFFICES ASSUME NEW l \in Listener \ raced', Writes(l)'
               PROVE  FALSE
    BY DEF Writing
  <2>1. l # k /\ Writes(l)
    BY <1>3, <1>4 DEF Writes
  <2>2. l \in Overlapping
    BY <2>1, OverlappingIs
  <2> QED
    BY <1>6, <1>7, <2>2
<1>11. Registered' = Registered
  BY <1>1, <1>3, <1>4 DEF Registered, Present, Waiting, Done
<1>12. ASSUME NEW l \in Registered \ raced, NEW p \in Nat \ {0}, Has(p, l)
       PROVE  Has(p, l)'
  <2>1. InRegistration(memory, g, p, l)
    BY <1>3 DEF InRegistration
  <2>2. \A j \in Listener : InRegistration(memory, registering'[j], p, l)
    BY <1>4, <1>12, <2>1 DEF Has
  <2>3. l \in before => InNotification(memory, notifying', p, l)
    BY <1>5, <1>12 DEF Has, InNotification
  <2> QED
    BY <1>1, <1>12, <2>2, <2>3 DEF Has, InSlice
<1>13. \A l \in Registered' \ raced' : \E p \in Nat \ {0} : Has(p, l)'
  BY <1>7, <1>11, <1>12 DEF IInv
<1>14. Clean'
  <2> SUFFICES ASSUME raced' = {}
               PROVE  Clean'
    BY DEF Clean
  <2>1. raced = {} /\ Overlapping = {} /\ Sound(memory, slice)
    BY <1>6, <1>7 DEF IInv, Clean
  <2>2. \A l \in Listener : l # k => ~(Reads(l)') /\ ~(Writes(l)')
    BY <1>4, <2>1, OverlappingIs DEF Reads, Writes
  <2>3. ~(Writes(k)')
    BY <1>3, <1>4 DEF Writes
  <2> QED
    BY <1>1, <1>3, <1>4, <1>6, <2>1, <2>2, <2>3 DEF Clean
<1>15. CleanNotification'
  BY <1>5 DEF CleanNotification
<1> QED
  BY <1>1, <1>8, <1>9, <1>10, <1>11, <1>13, <1>14, <1>15 DEF IInv

LEMMA ReadWordStep ==
    ASSUME IInv, NEW k \in Listener, NEW word \in Words, ReadWord(k, word)
    PROVE  IInv'
<1> DEFINE w == registering[k].words
           v == [w EXCEPT ![word] = slice[word]]
           g == [at |-> "reads", words |-> v]
<1>1. Types
  BY DEF IInv
<1>2. /\ registering[k] = [at |-> "reads", words |-> w] /\ w \in PartRead
      /\ registering[k].at = "reads" /\ w[word] = None
      /\ slice \in Slice /\ slice[word] \in Nat
      /\ registering \in [Listener -> Stages]
  <2>1. registering[k] \in Stages /\ slice \in Slice /\ registering \in [Listener -> Stages]
    BY <1>1 DEF Types
  <2>2. slice[word] \in Nat
    BY <2>1 DEF Slice, Words
  <2> QED
    BY <2>1, <2>2, StageFacts DEF ReadWord
<1>3. /\ v \in PartRead /\ v[word] = slice[word] /\ \A x \in Words : x # word => v[x] = w[x]
      /\ v.array = (IF word = "array" THEN slice.array ELSE w.array)
      /\ v.len = (IF word = "len" THEN slice.len ELSE w.len)
  <2>1. v \in PartRead /\ v[word] = slice[word] /\ \A x \in Words : x # word => v[x] = w[x]
    BY <1>2, WordRead
  <2>2. word = "array" => slice[word] = slice.array
    BY <1>2 DEF Slice
  <2>3. word = "len" => slice[word] = slice.len
    BY <1>2 DEF Slice
  <2>4. CASE word = "array"
    BY <1>2, <2>2, <2>4, WordRead
  <2>5. CASE word = "len"
    BY <1>2, <2>3, <2>5, WordRead
  <2>6. CASE word = "cap"
    BY <1>2, <2>6, WordRead
  <2> QED
    BY <2>1, <2>4, <2>5, <2>6 DEF Words
<1>4. g \in Stages /\ g.at = "reads" /\ g.words = v /\ g # Done
  BY <1>3 DEF Stages, Done
<1>5. registering' = [registering EXCEPT ![k] = g]
  <2>1. registering' = [registering EXCEPT ![k] = [registering[k] EXCEPT !.words = v]]
    BY DEF ReadWord
  <2>2. [registering[k] EXCEPT !.words = v] = g
    BY <1>2
  <2> QED
    BY <2>1, <2>2
<1>6. UNCHANGED <<slice, memory, notifying, raced, before>>
  BY DEF ReadWord
<1> HIDE DEF v, g, w
<1>7. /\ registering' \in [Listener -> Stages] /\ registering'[k] = g
      /\ \A l \in Listener : l # k => registering'[l] = registering[l]
  BY <1>1, <1>4, <1>5, Moved
<1>8. Overlapping' = Overlapping /\ Reads(k) /\ ~(Writes(k)')
      /\ \A l \in Listener : Writes(l)' => Writes(l) /\ l # k
  BY <1>2, <1>4, <1>7 DEF Overlapping, Reads, Writes
<1>9. Types'
  <2>1. v.array \in 0 .. Len(memory) \cup {None}
    <3>1. w.array \in 0 .. Len(memory) \cup {None} /\ slice.array \in 0 .. Len(memory)
      BY <1>1, <1>2 DEF Types, Slice, w
    <3> QED
      BY <1>3, <3>1
  <2>2. \A l \in Listener : registering'[l].at \in {"reads", "writes"} =>
            registering'[l].words.array \in 0 .. Len(memory) \cup {None}
    BY <1>1, <1>4, <1>7, <2>1 DEF Types
  <2>3. raced \subseteq {l \in Listener : registering'[l] # Waiting}
    BY <1>1, <1>4, <1>7 DEF Types, Waiting
  <2> QED
    BY <1>1, <1>6, <1>7, <2>2, <2>3 DEF Types
<1>10. Alone'
  BY <1>6, <1>8 DEF IInv, Alone
<1>11. Writing'
  BY <1>6, <1>7, <1>8 DEF IInv, Writing
<1>12. Registered' = Registered
  BY <1>2, <1>4, <1>6, <1>7 DEF Registered, Present, Done
<1>13. ASSUME NEW l \in Registered \ raced, NEW p \in Nat \ {0}, Has(p, l)
       PROVE  Has(p, l)'
  <2>1. InRegistration(memory, registering[k], p, l) /\ InSlice(memory, p, l)
    BY <1>13 DEF Has
  <2>2. InRegistration(memory, g, p, l)
    BY <1>2, <1>3, <1>4, <2>1 DEF InRegistration, InSlice, w
  <2> QED
    BY <1>6, <1>7, <1>13, <2>2 DEF Has, InSlice
<1>14. Clean'
  <2> SUFFICES ASSUME raced = {}
               PROVE  Clean'
    BY <1>6 DEF Clean
  <2>1. Sound(memory, slice) /\ \A x \in Words : w[x] \in {None, slice[x]}
    BY <1>8 DEF IInv, Clean, w
  <2>2. \A x \in Words : v[x] \in {None, slice[x]}
    BY <1>3, <2>1
  <2>3. \A l \in Listener : l # k /\ Reads(l)' => Reads(l) /\ registering'[l] = registering[l]
    BY <1>7 DEF Reads
  <2> QED
    BY <1>4, <1>6, <1>7, <1>8, <2>1, <2>2, <2>3 DEF IInv, Clean
<1>15. CleanNotification'
  BY <1>6, <1>8 DEF IInv, CleanNotification
<1> QED
  BY <1>6, <1>9, <1>10, <1>11, <1>12, <1>13, <1>14, <1>15 DEF IInv

\* The arrays m of an append keep every listener at the place it has.
LEMMA ExtendsKeeps ==
    ASSUME Types, NEW words \in Slice, NEW k, NEW m, NEW made, Extends(words, k, m, made),
           NEW l, NEW p \in Nat \ {0}, Has(p, l), p <= words.len
    PROVE  /\ InSlice(m, p, l)
           /\ \A j \in Listener : InRegistration(m, registering[j], p, l)
           /\ l \in before => InNotification(m, notifying, p, l)
<1>1. \A array : At(memory, array, p, l) => At(m, array, p, l)
  BY DEF Extends
<1>2. InSlice(m, p, l)
  BY <1>1 DEF Has, InSlice
<1>3. \A j \in Listener : InRegistration(m, registering[j], p, l)
  BY <1>1 DEF Has, InRegistration
<1>4. l \in before => InNotification(m, notifying, p, l)
  BY <1>1 DEF Has, InNotification
<1> QED
  BY <1>2, <1>3, <1>4

LEMMA AppendElementStep ==
    ASSUME IInv, NEW k \in Listener, AppendElement(k)
    PROVE  IInv'
<1> DEFINE w == registering[k].words
           m == MemoryWith(w, k)
           made == Made(w)
           g == [at |-> "writes", words |-> made, left |-> Words]
<1>1. Types /\ UNCHANGED <<slice, notifying, raced, before>>
  BY DEF IInv, AppendElement
<1>2. /\ registering[k].at = "reads" /\ w \in Slice /\ w.array <= Len(memory)
      /\ registering \in [Listener -> Stages]
      /\ slice \in Slice
  <2>1. registering[k] \in Stages /\ registering[k].at = "reads" /\ w \in PartRead
        /\ registering \in [Listener -> Stages] /\ slice \in Slice
    BY <1>1, StageFacts DEF Types, AppendElement
  <2>2. w \in Slice
    BY <2>1, AllWordsRead DEF AppendElement
  <2>3. w.array \in 0 .. Len(memory)
    BY <1>1, <2>1, <2>2, ListenerAssumption DEF Types, Slice
  <2> QED
    BY <2>1, <2>2, <2>3
<1>3. CASE Torn(w)
  <2>1. UNCHANGED <<memory, registering>>
    BY <1>3 DEF AppendElement
  <2> QED
    BY <1>1, <2>1 DEF IInv, Types, Alone, Overlapping, Writing, Writes, Registered, Present,
                      Has, InSlice, Clean, Reads, CleanNotification
<1>4. CASE ~Torn(w)
  <2>1. memory' = m /\ registering' = [registering EXCEPT ![k] = g]
    BY <1>4 DEF AppendElement
  <2>2. k \in Slot /\ k # None
    BY ListenerAssumption DEF Slot
  <2>3. Extends(w, k, m, made)
    BY <1>1, <1>2, <1>4, <2>2, AppendIs
  <2>4. g \in Stages /\ g.at = "writes" /\ g.words = made /\ g.left = Words /\ g # Done
        /\ g # Waiting
    BY <2>3 DEF Extends, Stages, Done, Waiting
  <2> HIDE DEF w, m, made, g
  <2>5. /\ registering' \in [Listener -> Stages] /\ registering'[k] = g
        /\ \A l \in Listener : l # k => registering'[l] = registering[l]
    BY <1>1, <2>1, <2>4, Moved
  <2>6. Overlapping' = Overlapping /\ k \in Overlapping /\ Reads(k)
    BY <1>2, <2>4, <2>5 DEF Overlapping, Reads
  <2>7. Types'
    <3>1. memory' \in Seq(Seq(Slot)) /\ Len(memory) \in Nat /\ Len(memory') \in Nat
          /\ Len(memory) <= Len(memory') /\ made.array \in 0 .. Len(memory')
      BY <1>1, <2>1, <2>3 DEF Types, Extends, Slice
    <3>2. \A l \in Listener : registering'[l].at \in {"reads", "writes"} =>
              registering'[l].words.array \in 0 .. Len(memory') \cup {None}
      BY <1>1, <2>4, <2>5, <3>1 DEF Types
    <3>3. raced \subseteq {l \in Listener : registering'[l] # Waiting}
      BY <1>1, <2>4, <2>5 DEF Types
    <3>4. slice.array <= Len(memory')
      BY <1>1, <3>1 DEF Types, Slice
    <3>5. notifying.at = "reads" => notifying.array \in 0 .. Len(memory') \cup {None}
      BY <1>1, <3>1 DEF Types
    <3> QED
      BY <1>1, <2>5, <3>1, <3>2, <3>3, <3>4, <3>5 DEF Types
  <2>8. Alone'
    BY <1>1, <2>6 DEF IInv, Alone
  <2>9. Writing'
    <3>1. ASSUME NEW l \in Listener \ raced, Writes(l)', l # k
          PROVE  FALSE
      <4>1. l \in Overlapping
        BY <2>5, <3>1 DEF Writes, Overlapping
      <4> QED
        BY <2>6, <3>1, <4>1 DEF IInv, Alone
    <3>2. made.len >= 1 /\ At(m, made.array, made.len, k)
      BY <1>2, <2>3 DEF Extends, Slice
    <3> QED
      BY <1>1, <2>1, <2>4, <2>5, <3>1, <3>2 DEF Writing
  <2>10. ASSUME NEW l \in Registered \ raced, NEW p \in Nat \ {0}, Has(p, l)
         PROVE  Has(p, l)'
    <3>1. InRegistration(memory, registering[k], p, l)
      BY <2>10 DEF Has
    <3>2. w.len >= p /\ w.len \in Nat /\ At(memory, w.array, p, l)
      BY <1>2, <3>1, ListenerAssumption DEF InRegistration, Slice, w
    <3>3. InRegistration(m, g, p, l)
      BY <2>3, <2>4, <3>2 DEF InRegistration, Extends
    <3>4. /\ InSlice(m, p, l)
          /\ \A j \in Listener : InRegistration(m, registering[j], p, l)
          /\ l \in before => InNotification(m, notifying, p, l)
      BY <1>1, <1>2, <2>3, <2>10, <3>2, ExtendsKeeps
    <3> QED
      BY <1>1, <2>1, <2>5, <3>3, <3>4 DEF Has, InSlice
  <2>11. Registered' \subseteq Registered
    <3>1. EarlyIn(m) \subseteq EarlyIn(memory) \cup {k} /\ k \notin EarlyIn(m)
      BY <2>3, ListenerAssumption DEF Extends, EarlyIn
    <3>2. Present' = EarlyIn(m) /\ Present = EarlyIn(memory)
      BY <2>1 DEF Present, EarlyIn
    <3> QED
      BY <2>4, <2>5, <3>1, <3>2 DEF Registered
  <2>12. before \subseteq Registered'
    <3> SUFFICES ASSUME NEW l \in before
                 PROVE  l \in Registered'
      OBVIOUS
    <3>1. l \in Registered
      BY DEF IInv
    <3>2. CASE l \in Listener
      <4>1. registering[l] = Done
        BY <3>1, <3>2, ListenerAssumption DEF Registered, Present
      <4>2. l # k
        BY <1>2, <4>1 DEF Done
      <4> QED
        BY <2>5, <3>2, <4>1, <4>2 DEF Registered
    <3>3. CASE l \notin Listener
      <4>1. l \in Present /\ l \in ToSet(Early) /\ l \notin raced
        BY <1>1, <3>1, <3>3 DEF Registered, Present, Types
      <4>2. PICK p \in Nat \ {0} : Has(p, l)
        BY <3>1, <4>1 DEF IInv
      <4>3. At(memory', slice'.array, p, l)
        BY <2>10, <3>1, <4>1, <4>2 DEF Has, InSlice
      <4>4. l \in EarlyIn(memory')
        BY <2>7, <4>1, <4>3, AtIsEarly DEF Types
      <4> QED
        BY <4>4 DEF Registered, Present, EarlyIn
    <3> QED
      BY <3>2, <3>3
  <2>13. Clean'
    <3> SUFFICES ASSUME raced = {}
                 PROVE  Clean'
      BY <1>1 DEF Clean
    <3>1. Overlapping = {k}
      BY <2>6 DEF IInv, Alone
    <3>2. Sound(memory, slice) /\ \A x \in Words : w[x] \in {None, slice[x]}
      BY <2>6 DEF IInv, Clean, w
    <3>3. \A x \in Words : w[x] = slice[x]
      BY <3>2 DEF AppendElement, w
    <3>4. w = slice
      BY <1>2, <3>3, SameWords
    <3>5. Sound(m, made)
      BY <2>2, <2>3, <3>2, <3>4 DEF Extends
    <3>6. \A l \in Listener : l # k => ~(Reads(l)') /\ ~(Writes(l)')
      BY <2>5, <3>1, OverlappingIs DEF Reads, Writes
    <3> QED
      BY <2>1, <2>4, <2>5, <2>6, <3>5, <3>6 DEF Clean, Reads
  <2>14. CleanNotification'
    BY <1>1, <2>6 DEF IInv, CleanNotification
  <2> QED
    BY <1>1, <2>7, <2>8, <2>9, <2>10, <2>11, <2>12, <2>13, <2>14 DEF IInv
<1> QED
  BY <1>3, <1>4

LEMMA WriteWordStep ==
    ASSUME IInv, NEW k \in Listener, NEW word \in Words, WriteWord(k, word)
    PROVE  IInv'
<1> DEFINE w == registering[k].words
           left == registering[k].left
           last == left = {word}
           h == [at |-> "writes", words |-> w, left |-> left \ {word}]
           g == IF last THEN Done ELSE h
           s == [slice EXCEPT ![word] = w[word]]
<1>1. Types /\ UNCHANGED <<memory, notifying, raced, before>> /\ slice' = s
  BY DEF IInv, WriteWord
<1>2. /\ registering[k] = [at |-> "writes", words |-> w, left |-> left]
      /\ registering[k].at = "writes" /\ word \in left /\ left \subseteq Words
      /\ w \in Slice /\ w[word] \in Nat /\ slice \in Slice
      /\ registering \in [Listener -> Stages]
  <2>1. registering[k] \in Stages /\ registering[k].at = "writes" /\ word \in left
        /\ slice \in Slice /\ registering \in [Listener -> Stages]
    BY <1>1 DEF Types, WriteWord
  <2>2. w \in Slice /\ left \subseteq Words
        /\ registering[k] = [at |-> "writes", words |-> w, left |-> left]
    BY <2>1, StageFacts
  <2>3. w[word] \in Nat
    BY <2>2 DEF Slice, Words
  <2> QED
    BY <2>1, <2>2, <2>3
<1>3. registering' = [registering EXCEPT ![k] = g]
  BY DEF WriteWord
<1>4. /\ g \in Stages /\ g # Waiting
      /\ last => g = Done /\ g.at = "done"
      /\ ~last => g # Done /\ g.at = "writes" /\ g.words = w /\ g.left = left \ {word}
  BY <1>2 DEF Stages, Done, Waiting
<1>5. /\ s \in Slice /\ s[word] = w[word] /\ \A x \in Words : x # word => s[x] = slice[x]
      /\ s.array = (IF word = "array" THEN w.array ELSE slice.array)
      /\ s.len = (IF word = "len" THEN w.len ELSE slice.len)
  <2>1. s \in Slice /\ s[word] = w[word] /\ \A x \in Words : x # word => s[x] = slice[x]
    BY <1>2, WordWritten
  <2>2. word = "array" => w[word] = w.array
    BY <1>2 DEF Slice
  <2>3. word = "len" => w[word] = w.len
    BY <1>2 DEF Slice
  <2>4. CASE word = "array"
    BY <1>2, <2>2, <2>4, WordWritten
  <2>5. CASE word = "len"
    BY <1>2, <2>3, <2>5, WordWritten
  <2>6. CASE word = "cap"
    BY <1>2, <2>6, WordWritten
  <2> QED
    BY <2>1, <2>4, <2>5, <2>6 DEF Words
<1> HIDE DEF w, left, last, h, g, s
<1>6. /\ registering' \in [Listener -> Stages] /\ registering'[k] = g
      /\ \A l \in Listener : l # k => registering'[l] = registering[l]
  BY <1>1, <1>3, <1>4, Moved
<1>7. /\ Overlapping' \subseteq Overlapping /\ k \in Overlapping
      /\ last => k \notin Overlapping'
      /\ ~last => Overlapping' = Overlapping
  BY <1>2, <1>4, <1>6 DEF Overlapping, Done
<1>8. k \notin raced => Overlapping = {k}
  BY <1>7 DEF IInv, Alone
<1>9. w.array \in 0 .. Len(memory) /\ slice.array \in 0 .. Len(memory) /\ Len(memory) \in Nat
  <2>1. w.array \in Nat /\ slice.array \in Nat
    BY <1>2 DEF Slice
  <2>2. w.array \in 0 .. Len(memory) \cup {None}
    BY <1>1, <1>2 DEF Types, w
  <2>3. slice.array <= Len(memory) /\ Len(memory) \in Nat
    BY <1>1 DEF Types
  <2> QED
    BY <2>1, <2>2, <2>3, ListenerAssumption
<1>10. Types'
  <2>1. \A l \in Listener : registering'[l].at \in {"reads", "writes"} =>
            registering'[l].words.array \in 0 .. Len(memory) \cup {None}
    BY <1>1, <1>4, <1>6, <1>9 DEF Types
  <2>2. raced \subseteq {l \in Listener : registering'[l] # Waiting}
    BY <1>1, <1>4, <1>6 DEF Types
  <2>3. s.array <= Len(memory)
    BY <1>5, <1>9
  <2> QED
    BY <1>1, <1>5, <1>6, <2>1, <2>2, <2>3 DEF Types
<1>11. Alone'
  <2> SUFFICES ASSUME NEW l \in Overlapping', l \notin raced
               PROVE  Overlapping' = {l}
    BY <1>1 DEF Alone
  <2>1. Overlapping = {l}
    BY <1>7 DEF IInv, Alone
  <2> QED
    BY <1>7, <2>1
<1>12. Writing'
  <2> SUFFICES ASSUME NEW l \in Listener \ raced, Writes(l)'
               PROVE  /\ \A x \in Words \ registering'[l].left : s[x] = registering'[l].words[x]
                      /\ registering'[l].words.len >= 1
                      /\ At(memory, registering'[l].words.array, registering'[l].words.len, l)
    BY <1>1 DEF Writing
  <2>1. l \in Overlapping'
    BY OverlappingIs DEF Writes, Overlapping
  <2>2. l = k /\ ~last
    BY <1>7, <2>1 DEF IInv, Alone
  <2>3. /\ \A x \in Words \ left : slice[x] = w[x]
        /\ w.len >= 1 /\ At(memory, w.array, w.len, k)
    BY <1>2, <2>2 DEF IInv, Writing, Writes, w, left
  <2>4. \A x \in Words \ (left \ {word}) : s[x] = w[x]
    BY <1>5, <2>3
  <2> QED
    BY <1>4, <1>6, <2>2, <2>3, <2>4
<1>13. ASSUME NEW l \in Registered \ raced, NEW p \in Nat \ {0}, Has(p, l)
       PROVE  Has(p, l)'
  <2>1. InRegistration(memory, registering[k], p, l) /\ slice.len >= p
        /\ At(memory, slice.array, p, l)
    BY <1>13 DEF Has, InSlice
  <2>2. w.len > p /\ At(memory, w.array, p, l)
    BY <1>2, <2>1 DEF InRegistration, w
  <2>3. InRegistration(memory, g, p, l)
    BY <1>4, <2>2 DEF InRegistration
  <2>4. s.len >= p /\ At(memory, s.array, p, l)
    <3>1. w.len >= p
      BY <1>2, <2>2 DEF Slice
    <3> QED
      BY <1>5, <2>1, <2>2, <3>1
  <2> QED
    BY <1>1, <1>6, <1>13, <2>3, <2>4 DEF Has, InSlice
<1>14. Registered \subseteq Registered' /\ Registered' \subseteq Registered \cup {k}
       /\ (k \in Registered' => last)
  <2>1. k \notin Present
    BY ListenerAssumption DEF Present
  <2> QED
    BY <1>1, <1>2, <1>4, <1>6, <2>1 DEF Registered, Present, Done
\* The last word of a registration that overlapped no other: the slice is its own.
<1>15. ASSUME last, k \notin raced
       PROVE  s = w
  <2>1. \A x \in Words \ left : slice[x] = w[x]
    BY <1>2, <1>15 DEF IInv, Writing, Writes, w, left
  <2>2. \A x \in Words : s[x] = w[x]
    BY <1>5, <1>15, <2>1 DEF last
  <2> QED
    BY <1>2, <1>5, <2>2, SameWords
<1>16. ASSUME last, k \notin raced
       PROVE  \E p \in Nat \ {0} : Has(p, k)'
  <2>0. PICK p \in Nat \ {0} : p = w.len
    BY <1>2, <1>16 DEF IInv, Writing, Writes, w, Slice
  <2>1. At(memory, w.array, p, k)
    BY <1>2, <1>16, <2>0 DEF IInv, Writing, Writes, w
  <2>2. \A j \in Listener : ~(Reads(j)') /\ ~(Writes(j)')
    BY <1>4, <1>6, <1>7, <1>8, <1>16 DEF Overlapping, Reads, Writes
  <2>3. \A j \in Listener : InRegistration(memory, registering'[j], p, k)
    BY <2>2 DEF InRegistration, Reads, Writes
  <2>4. k \notin before
    <3>1. k \notin Registered
      BY <1>2, ListenerAssumption DEF Registered, Present, Done
    <3> QED
      BY <3>1 DEF IInv
  <2>5. slice'.len >= p /\ At(memory, slice'.array, p, k)
    BY <1>1, <1>15, <1>16, <2>0, <2>1
  <2> QED
    BY <1>1, <2>3, <2>4, <2>5 DEF Has, InSlice
<1>17. \A l \in Registered' \ raced : \E p \in Nat \ {0} : Has(p, l)'
  <2> SUFFICES ASSUME NEW l \in Registered' \ raced
               PROVE  \E p \in Nat \ {0} : Has(p, l)'
    OBVIOUS
  <2>1. CASE l \in Registered
    BY <1>13, <2>1 DEF IInv
  <2>2. CASE l \notin Registered
    BY <1>14, <1>16, <2>2
  <2> QED
    BY <2>1, <2>2
<1>18. Clean'
  <2> SUFFICES ASSUME raced = {}
               PROVE  Clean'
    BY <1>1 DEF Clean
  <2>1. Overlapping = {k} /\ Sound(memory, w)
    BY <1>2, <1>8 DEF IInv, Clean, Writes, w
  <2>2. \A l \in Listener : l # k => ~(Reads(l)') /\ ~(Writes(l)')
    BY <1>6, <2>1, OverlappingIs DEF Reads, Writes
  <2>3. ~(Reads(k)')
    BY <1>4, <1>6 DEF Reads
  <2>4. CASE last
    <3>1. Overlapping' = {} /\ Sound(memory', slice')
      BY <1>1, <1>7, <1>15, <2>1, <2>4
    <3> QED
      BY <1>4, <1>6, <2>2, <2>3, <2>4, <3>1 DEF Clean, Writes
  <2>5. CASE ~last
    BY <1>1, <1>4, <1>6, <1>7, <2>1, <2>2, <2>3, <2>5 DEF Clean
  <2> QED
    BY <2>4, <2>5
<1>19. CleanNotification'
  BY <1>1, <1>7 DEF IInv, CleanNotification
<1> QED
  BY <1>1, <1>10, <1>11, <1>12, <1>14, <1>17, <1>18, <1>19 DEF IInv

\* What a notification does leaves the registrations as they are.
LEMMA NotificationKeeps ==
    ASSUME IInv, UNCHANGED <<slice, memory, registering, raced>>
    PROVE  /\ Alone' /\ Writing' /\ Registered' = Registered /\ Clean'
           /\ Overlapping' = Overlapping
           /\ notifying' \in {Quiet} \cup Notification
              /\ (notifying'.at = "reads" =>
                    notifying'.array \in 0 .. Len(memory) \cup {None}) => Types'
           /\ \A p \in Nat : \A l :
                Has(p, l) /\ (l \in before' => InNotification(memory, notifying', p, l))
                => Has(p, l)'
<1>1. Overlapping' = Overlapping /\ Registered' = Registered
  BY DEF Overlapping, Registered, Present
<1>2. Alone' /\ Writing' /\ Clean'
  BY <1>1 DEF IInv, Alone, Writing, Writes, Clean, Reads
<1>3. notifying' \in {Quiet} \cup Notification
      /\ (notifying'.at = "reads" =>
            notifying'.array \in 0 .. Len(memory) \cup {None}) => Types'
  BY DEF IInv, Types
<1>4. ASSUME NEW p \in Nat, NEW l, Has(p, l), l \in before' => InNotification(memory, notifying', p, l)
      PROVE  Has(p, l)'
  BY <1>4 DEF Has, InSlice
<1> QED
  BY <1>1, <1>2, <1>3, <1>4

LEMMA NotifyStep ==
    ASSUME IInv, Notify
    PROVE  IInv'
<1>1. /\ UNCHANGED <<slice, memory, registering, raced>> /\ before' = Registered
      /\ notifying' = [at |-> "reads", array |-> None, len |-> None, called |-> <<>>,
                       mixed |-> Overlapping # {}]
  BY DEF Notify, Registered
<1>2. /\ notifying' \in Notification /\ notifying'.array = None /\ notifying'.len = None
      /\ Len(notifying'.called) = 0 /\ notifying'.mixed = (Overlapping # {})
  BY <1>1 DEF Notification
<1>3. ASSUME NEW p \in Nat \ {0}, NEW l
      PROVE  InNotification(memory, notifying', p, l)
  BY <1>2 DEF InNotification
<1>4. Types'
  BY <1>1, <1>2, NotificationKeeps
<1>5. CleanNotification'
  BY <1>1, <1>2, NotificationKeeps DEF CleanNotification
<1>6. \A l \in Registered \ raced : \E p \in Nat \ {0} : Has(p, l)'
  BY <1>1, <1>3, NotificationKeeps DEF IInv
<1> QED
  BY <1>1, <1>4, <1>5, <1>6, NotificationKeeps DEF IInv

LEMMA NotifiedStep ==
    ASSUME IInv, Notified
    PROVE  IInv'
<1>1. UNCHANGED <<slice, memory, registering, raced>> /\ before' = {} /\ notifying' = Quiet
      /\ notifying'.at = "quiet"
  BY DEF Notified, Quiet
<1>2. Types' /\ CleanNotification'
  BY <1>1, NotificationKeeps DEF CleanNotification
<1>3. \A l \in Registered \ raced : \E p \in Nat \ {0} : Has(p, l)'
  BY <1>1, NotificationKeeps DEF IInv
<1> QED
  BY <1>1, <1>2, <1>3, NotificationKeeps DEF IInv

LEMMA NotificationFacts ==
    ASSUME Types, notifying.at = "reads"
    PROVE  /\ notifying \in Notification
           /\ notifying = [at |-> "reads", array |-> notifying.array, len |-> notifying.len,
                           called |-> notifying.called, mixed |-> notifying.mixed]
           /\ notifying.array \in 0 .. Len(memory) \cup {None}
           /\ notifying.len \in Nat \cup {None} /\ notifying.called \in Seq(Slot)
           /\ notifying.mixed \in BOOLEAN
<1>1. notifying \in Notification
  BY DEF Types, Quiet
<1> QED
  BY <1>1 DEF Types, Notification

LEMMA RangeWordStep ==
    ASSUME IInv, NEW word \in Words, RangeWord(word)
    PROVE  IInv'
<1>1. /\ UNCHANGED <<slice, memory, registering, raced, before>>
      /\ notifying.at = "reads" /\ word \in {"array", "len"}
      /\ notifying' = [notifying EXCEPT ![word] = slice[word]]
  BY DEF RangeWord
<1>2. Types /\ slice.array \in 0 .. Len(memory) /\ slice.len \in Nat
      /\ slice["array"] = slice.array /\ slice["len"] = slice.len
  BY DEF IInv, Types, Slice
<1>3. /\ notifying' \in Notification
      /\ notifying'.at = "reads" /\ notifying'.called = notifying.called
      /\ notifying'.mixed = notifying.mixed
      /\ notifying'.array = (IF word = "array" THEN slice.array ELSE notifying.array)
      /\ notifying'.len = (IF word = "len" THEN slice.len ELSE notifying.len)
  <2>1. CASE word = "array"
    <3>1. notifying' = [notifying EXCEPT !.array = slice.array]
      BY <1>1, <1>2, <2>1
    <3> QED
      BY <1>1, <1>2, <2>1, <3>1, NotificationFacts DEF Notification
  <2>2. CASE word = "len"
    <3>1. notifying' = [notifying EXCEPT !.len = slice.len]
      BY <1>1, <1>2, <2>2
    <3> QED
      BY <1>1, <1>2, <2>2, <3>1, NotificationFacts DEF Notification
  <2> QED
    BY <1>1, <2>1, <2>2
<1>4. Types'
  BY <1>1, <1>2, <1>3, NotificationFacts, NotificationKeeps
<1>5. CleanNotification'
  BY <1>1, <1>3, NotificationKeeps DEF IInv, CleanNotification
<1>6. ASSUME NEW l \in Registered \ raced, NEW p \in Nat \ {0}, Has(p, l)
      PROVE  Has(p, l)'
  <2>1. l \in before => InNotification(memory, notifying', p, l)
    BY <1>1, <1>3, <1>6 DEF Has, InNotification, InSlice
  <2> QED
    BY <1>1, <1>6, <2>1, NotificationKeeps
<1>7. \A l \in Registered \ raced : \E p \in Nat \ {0} : Has(p, l)'
  BY <1>6 DEF IInv
<1> QED
  BY <1>1, <1>4, <1>5, <1>7, NotificationKeeps DEF IInv

\* The invariant says nothing of a crash.
LEMMA SameKeeps ==
    IInv /\ UNCHANGED <<slice, memory, registering, notifying, raced, before>> => IInv'
  BY DEF IInv, Types, Alone, Overlapping, Writing, Writes, Registered, Present,
         Has, InSlice, Clean, Reads, CleanNotification

LEMMA CallStep ==
    ASSUME IInv, Call
    PROVE  IInv'
<1> DEFINE n == Len(notifying.called) + 1
           slots == Slots(notifying.array)
           wild == n \notin DOMAIN slots \/ slots[n] = None
<1>1. /\ UNCHANGED <<slice, memory, registering, raced, before>>
      /\ notifying.at = "reads" /\ notifying.array # None /\ notifying.len # None
      /\ wild => notifying' = notifying
      /\ ~wild => notifying' = [notifying EXCEPT !.called = Append(@, slots[n])]
  BY DEF Call
<1>2. /\ Types /\ memory \in Seq(Seq(Slot))
      /\ notifying.called \in Seq(Slot) /\ n \in Nat
      /\ notifying.array \in 0 .. Len(memory)
  BY <1>1, NotificationFacts DEF IInv, Types
<1>3. CASE wild
  BY <1>1, <1>3, SameKeeps
<1>4. CASE ~wild
  <2>1. slots[n] \in Slot
    <3>1. slots \in Seq(Slot)
      BY <1>2 DEF Slots
    <3> QED
      BY <1>4, <3>1
  <2>2. /\ notifying' \in Notification
        /\ notifying'.at = "reads" /\ notifying'.called = Append(notifying.called, slots[n])
        /\ notifying'.mixed = notifying.mixed
        /\ notifying'.array = notifying.array /\ notifying'.len = notifying.len
        /\ Append(notifying.called, slots[n]) \in Seq(Slot)
    <3> DEFINE x == slots[n]
    <3> HIDE DEF slots, n, x
    <3>1. notifying' = [notifying EXCEPT !.called = Append(notifying.called, x)]
      BY <1>1, <1>4 DEF x
    <3>2. x \in Slot /\ Append(notifying.called, x) \in Seq(Slot)
      BY <1>2, <2>1 DEF x
    <3>3. notifying \in Notification
      BY <1>1, <1>2, NotificationFacts
    <3> QED
      BY <3>1, <3>2, <3>3 DEF Notification, x
  <2>3. Types'
    BY <1>1, <1>2, <2>2, NotificationKeeps
  <2>4. CleanNotification'
    BY <1>1, <2>2, NotificationKeeps DEF IInv, CleanNotification
  <2>5. ASSUME NEW l \in Registered \ raced, NEW p \in Nat \ {0}, Has(p, l)
        PROVE  Has(p, l)'
    <3>1. ASSUME l \in before
          PROVE  InNotification(memory, notifying', p, l)
      <4>1. InNotification(memory, notifying, p, l)
        BY <2>5, <3>1 DEF Has
      <4>2. /\ notifying.len >= p /\ At(memory, notifying.array, p, l)
            /\ Len(notifying.called) >= p => notifying.called[p] = l
        BY <1>1, <4>1 DEF InNotification
      <4>3. slots[p] = l
        BY <4>2 DEF At, Slots
      <4>4. Len(notifying'.called) >= p => notifying'.called[p] = l
        BY <1>2, <2>1, <2>2, <4>2, <4>3
      <4> QED
        BY <2>2, <4>2, <4>4 DEF InNotification
    <3> QED
      BY <1>1, <2>5, <3>1, NotificationKeeps
  <2>6. \A l \in Registered \ raced : \E p \in Nat \ {0} : Has(p, l)'
    BY <2>5 DEF IInv
  <2> QED
    BY <1>1, <2>3, <2>4, <2>6, NotificationKeeps DEF IInv
<1> QED
  BY <1>3, <1>4

\* The early registrations come one after another, and before all others.
LEMMA RegisterEarlyStep ==
    ASSUME IInv, RegisterEarly
    PROVE  IInv'
<1> DEFINE e == Early[slice.len + 1]
           m == MemoryWith(slice, e)
           made == Made(slice)
<1>1. /\ \A l \in Listener : registering[l] = Waiting
      /\ notifying = Quiet /\ slice' = made /\ memory' = m
      /\ UNCHANGED <<registering, notifying, raced, before>>
  BY DEF RegisterEarly
<1>2. Types /\ slice \in Slice /\ slice.array <= Len(memory) /\ slice.len \in Nat
  BY DEF IInv, Types, Slice
<1>3. \A l \in Listener : ~Reads(l) /\ ~Writes(l) /\ registering[l] # Done
  BY <1>1 DEF Reads, Writes, Waiting, Done
<1>4. Overlapping = {} /\ Overlapping' = {}
  BY <1>1 DEF Overlapping, Waiting
<1>5. raced = {} /\ Sound(memory, slice)
  BY <1>1, <1>2, <1>4 DEF IInv, Types, Clean
<1>6. ~Torn(slice)
  <2>1. Elements(memory, slice.array) = Slots(slice.array)
    BY DEF Elements, Slots
  <2> QED
    BY <1>2, <1>5, <2>1 DEF Sound, Torn, Slice
<1>7. e \in ToSet(Early) /\ e \in Slot /\ e # None
  <2>1. slice.len + 1 \in DOMAIN Early
    BY <1>2, ListenerAssumption DEF RegisterEarly
  <2> QED
    BY <2>1, ListenerAssumption DEF ToSet, Slot
<1>8. Extends(slice, e, m, made)
  BY <1>2, <1>6, <1>7, AppendIs
<1> HIDE DEF e, m, made
<1>9. Types'
  <2>1. \A l \in Listener : registering[l].at \notin {"reads", "writes"}
    BY <1>1 DEF Waiting
  <2>2. /\ m \in Seq(Seq(Slot)) /\ made \in Slice /\ made.array <= Len(m)
    BY <1>8 DEF Extends
  <2>3. notifying.at # "reads"
    BY <1>1 DEF Quiet
  <2> QED
    BY <1>1, <1>2, <2>1, <2>2, <2>3 DEF Types
<1>10. Alone' /\ Writing' /\ CleanNotification'
  BY <1>1, <1>3, <1>4 DEF Alone, Writing, Writes, CleanNotification, Quiet
<1>11. Present = EarlyIn(memory) /\ Present' = EarlyIn(m)
  BY <1>1 DEF Present, EarlyIn
<1>12. Registered' \subseteq Registered \cup {e}
  BY <1>1, <1>8, <1>11 DEF Registered, Extends
<1>13. ASSUME NEW l, NEW p \in Nat \ {0}, p <= made.len, At(m, made.array, p, l)
       PROVE  Has(p, l)'
  <2>1. \A j \in Listener : InRegistration(m, registering[j], p, l)
    BY <1>1 DEF InRegistration, Waiting
  <2>2. InNotification(m, notifying, p, l)
    BY <1>1 DEF InNotification, Quiet
  <2>3. made.len >= p
    BY <1>2, <1>8, <1>13 DEF Extends
  <2> QED
    BY <1>1, <1>13, <2>1, <2>2, <2>3 DEF Has, InSlice
<1>14. ASSUME NEW l \in Registered
       PROVE  \E p \in Nat \ {0} : Has(p, l)' /\ At(m, made.array, p, l)
  <2>1. PICK p \in Nat \ {0} : Has(p, l)
    BY <1>5 DEF IInv
  <2>2. slice.len >= p /\ At(memory, slice.array, p, l)
    BY <2>1 DEF Has, InSlice
  <2>3. At(m, made.array, p, l) /\ p <= made.len
    BY <1>2, <1>8, <2>2 DEF Extends
  <2> QED
    BY <1>13, <2>3
<1>15. ASSUME NEW l, l = e
       PROVE  \E p \in Nat \ {0} : Has(p, l)'
  <2>1. made.len \in Nat \ {0} /\ At(m, made.array, made.len, e)
    BY <1>2, <1>8 DEF Extends
  <2>2. PICK p \in Nat \ {0} : p = made.len
    BY <2>1
  <2> QED
    BY <1>2, <1>8, <1>13, <1>15, <2>1, <2>2 DEF Extends, Slice
<1>16. \A l \in Registered' \ raced' : \E p \in Nat \ {0} : Has(p, l)'
  BY <1>12, <1>14, <1>15
<1>17. before \subseteq Registered'
  <2> SUFFICES ASSUME NEW l \in before
               PROVE  l \in Registered'
    OBVIOUS
  <2>1. l \in Registered /\ l \in ToSet(Early)
    BY <1>3 DEF IInv, Registered, Present
  <2>2. PICK p \in Nat \ {0} : At(m, made.array, p, l)
    BY <1>14, <2>1
  <2>3. l \in EarlyIn(m)
    BY <1>8, <2>1, <2>2, AtIsEarly DEF Extends
  <2> QED
    BY <1>11, <2>3 DEF Registered
<1>18. Clean'
  <2>1. Sound(m, made)
    BY <1>5, <1>7, <1>8 DEF Extends
  <2> QED
    BY <1>1, <1>3, <2>1 DEF Clean, Reads, Writes
<1> QED
  BY <1>1, <1>9, <1>10, <1>16, <1>17, <1>18 DEF IInv

LEMMA RestartStep == IInv /\ Restart => IInv'
<1>1. Restart => Init'
  BY DEF Restart, Init
<1>2. (Init => IInv)'
  BY InitIInv, PTL
<1> QED
  BY <1>1, <1>2

LEMMA NextIInv == IInv /\ [Next]_vars => IInv'
<1> SUFFICES ASSUME IInv, [Next]_vars
             PROVE  IInv'
  OBVIOUS
<1>1. CASE UNCHANGED vars
  BY <1>1, SameKeeps DEF vars
<1>2. CASE Next
  BY <1>2, RegisterStep, ReadWordStep, AppendElementStep, WriteWordStep, RegisterEarlyStep,
     NotifyStep, RangeWordStep, CallStep, NotifiedStep, RestartStep DEF Next
<1> QED
  BY <1>1, <1>2

\* Every listener has its place at all times, through crashes and restarts.
LEMMA Invariance == Spec => []IInv
  BY InitIInv, NextIInv, PTL DEF Spec

-----------------------------------------------------------------------------
(* The theorems. *)

\* Of any number of listeners: one whose registration (app.go:760) had ended before
\* onPendingTx began, and overlapped no other, is called, whatever words of the slice
\* are written between the two that range reads.
THEOREM TheRegisteredAreHeard == Spec => []RegisteredHeard
<1>1. IInv => RegisteredHeard
  <2> SUFFICES ASSUME IInv, ~crashed, notifying.at = "reads", notifying.array # None,
                      notifying.len = Len(notifying.called), NEW l \in before \ raced
               PROVE  l \in ToSet(notifying.called)
    BY DEF RegisteredHeard
  <2>1. PICK p \in Nat \ {0} : Has(p, l)
    BY DEF IInv
  <2>2. notifying.called \in Seq(Slot)
    BY NotificationFacts DEF IInv
  <2>3. Len(notifying.called) \in Nat /\ notifying.len # None
    BY <2>2, ListenerAssumption
  <2>4. Len(notifying.called) >= p /\ notifying.called[p] = l
    BY <2>1, <2>3 DEF Has, InNotification
  <2>5. p \in DOMAIN notifying.called
    BY <2>2, <2>3, <2>4
  <2> QED
    BY <2>4, <2>5 DEF ToSet
<1> QED
  BY <1>1, Invariance, PTL

\* The node does not crash on its listeners as long as no registration (app.go:760)
\* overlaps another one or a notification.
THEOREM NoCrashWithoutRace == Spec => CrashOnlyInRace
<1> DEFINE Race == raced # {} \/ (notifying.at = "reads" /\ notifying.mixed)
<1>1. ASSUME IInv, NEW k \in Listener, AppendElement(k), raced = {}
      PROVE  ~crashed'
  <2> DEFINE w == registering[k].words
  <2>1. Reads(k) /\ Sound(memory, slice) /\ \A x \in Words : w[x] \in {None, slice[x]}
    BY <1>1 DEF IInv, Clean, Reads, AppendElement
  <2>2. slice \in Slice /\ w \in Slice
    <3>1. registering[k] \in Stages /\ slice \in Slice
      BY <1>1 DEF IInv, Types
    <3>2. w \in PartRead /\ \A x \in Words : w[x] # None
      BY <1>1, <3>1, StageFacts DEF AppendElement
    <3> QED
      BY <3>1, <3>2, AllWordsRead
  <2>3. w = slice
    BY <1>1, <2>1, <2>2, SameWords DEF AppendElement
  <2>4. ~Torn(w)
    <3>1. Elements(memory, slice.array) = Slots(slice.array)
      BY DEF Elements, Slots
    <3> QED
      BY <2>1, <2>2, <2>3, <3>1 DEF Sound, Torn, Slice
  <2> QED
    BY <1>1, <2>4 DEF AppendElement, Running
<1>2. ASSUME IInv, Call, raced = {}, ~notifying.mixed
      PROVE  ~crashed'
  <2>1. /\ notifying.at = "reads" /\ notifying.array # None /\ notifying.len # None
        /\ Len(notifying.called) < notifying.len /\ ~crashed
    BY <1>2 DEF Call, Running
  <2>2. /\ Overlapping = {} /\ notifying.array = slice.array /\ notifying.len = slice.len
    BY <1>2, <2>1 DEF IInv, CleanNotification
  <2>3. Sound(memory, slice) /\ slice \in Slice /\ memory \in Seq(Seq(Slot))
        /\ slice.array \in 0 .. Len(memory)
    BY <1>2, <2>2 DEF IInv, Clean, Types, Slice
  <2>4. notifying.called \in Seq(Slot)
    BY <1>2, <2>1, NotificationFacts DEF IInv
  <2> DEFINE slots == Slots(slice.array)
             n == Len(notifying.called) + 1
  <2>5. slots = Elements(memory, slice.array) /\ slots \in Seq(Slot)
    BY <2>3 DEF Elements, Slots
  <2>6. n \in 1 .. slice.len /\ slice.len <= Len(slots)
    BY <2>1, <2>2, <2>3, <2>4, <2>5 DEF Sound, Slice
  <2>7. n \in DOMAIN slots /\ slots[n] # None
    BY <2>3, <2>5, <2>6 DEF Sound, Slice
  <2> QED
    BY <1>2, <2>1, <2>2, <2>7 DEF Call
<1>3. ASSUME IInv, [Next]_vars, crashed', ~crashed
      PROVE  Race
  <2>1. (\E k \in Listener : AppendElement(k)) \/ Call
    BY <1>3 DEF Next, vars, RegisterEarly, Register, ReadWord, WriteWord, Notify, RangeWord,
                Notified, Restart
  <2>2. ASSUME NEW k \in Listener, AppendElement(k), ~Race
        PROVE  FALSE
    BY <1>1, <1>3, <2>2
  <2>3. ASSUME Call, ~Race
        PROVE  FALSE
    <3>1. notifying.at = "reads"
      BY <2>3 DEF Call
    <3> QED
      BY <1>2, <1>3, <2>3, <3>1
  <2> QED
    BY <2>1, <2>2, <2>3
<1>4. IInv /\ [Next]_vars => [crashed' /\ ~crashed => Race]_vars
  BY <1>3
<1> QED
  BY <1>4, Invariance, PTL DEF Spec, CrashOnlyInRace

=============================================================================
