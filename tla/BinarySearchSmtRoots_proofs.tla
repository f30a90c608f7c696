-------------------- MODULE BinarySearchSmtRoots_proofs ---------------------
(***************************************************************************)
(* The binary search is right for histories of every length and numbers of *)
(* every size.  Induction over the steps of the search: the entries before *)
(* min are too early and the entries after max are too late.               *)
(***************************************************************************)
EXTENDS BinarySearchSmtRoots, TLAPS

\* What a search under way knows.
Narrowed ==
    pc = "while" =>
        /\ min \in 0 .. Len(field)
        /\ max \in 0 .. Last
        /\ min <= max + 1
        /\ \A k \in 0 .. Last : k < min => At(k) < value
        /\ \A k \in 0 .. Last : k > max => At(k) > value

Matched == pc = "equal" => mid \in 0 .. Last /\ At(mid) = value

IInv ==
    /\ TypeOK
    /\ Narrowed
    /\ Matched
    /\ Correct

\* What the membership of field in Histories says, with no sets of functions.
LEMMA HistoryFacts ==
    ASSUME field \in Histories
    PROVE  /\ Len(field) \in Nat
           /\ Last \in Int
           /\ \A k \in 0 .. Last : At(k) \in Nat
           /\ \A j, k \in 0 .. Last : j < k => At(j) <= At(k)
<1>1. PICK n \in 0 .. MaxLength : field \in [1 .. n -> Time]
  BY DEF Histories
<1>2. n \in Nat
  BY LengthAssumption
<1>3. field \in Seq(Time) /\ Len(field) = n
  BY <1>1, <1>2
<1>4. \A j, k \in 1 .. n : j < k => field[j] <= field[k]
  BY <1>1 DEF Histories, InOrder
<1>5. \A k \in 0 .. n - 1 : k + 1 \in 1 .. n
  BY <1>2
<1>6. \A k \in 0 .. n - 1 : At(k) \in Nat
  BY <1>1, <1>5, TimeAssumption DEF At
<1>7. \A j, k \in 0 .. n - 1 : j < k => At(j) <= At(k)
  BY <1>2, <1>4, <1>5 DEF At
<1> QED
  BY <1>2, <1>3, <1>6, <1>7 DEF Last

LEMMA Initially == Init => IInv
  BY TimeAssumption DEF Init, IInv, TypeOK, Narrowed, Matched, Correct

\* A search that is sure of both ends has its answer.
LEMMA LeaveStep == IInv /\ Leave => IInv'
<1> SUFFICES ASSUME IInv, Leave PROVE IInv'
  OBVIOUS
<1> USE DEF IInv, Leave, Return
<1>1. /\ Len(field) \in Nat
      /\ \A k \in 0 .. Last : At(k) \in Nat
      /\ value \in Nat
  BY HistoryFacts, TimeAssumption DEF TypeOK
<1>2. min = max + 1 /\ max \in 0 .. Last
  BY <1>1 DEF Narrowed, TypeOK, Last
<1>3. At(max) < value /\ \A k \in 0 .. Last : k > max => At(k) > value
  BY <1>1, <1>2 DEF Narrowed
<1>4. Correct'
  BY <1>1, <1>2, <1>3 DEF Correct, At, Last
<1>5. TypeOK' /\ Narrowed' /\ Matched'
  BY DEF TypeOK, Narrowed, Matched
<1> QED
  BY <1>4, <1>5

\* One round of the outer loop: whichever way it goes, what it rules out is wrong.
LEMMA MiddleInRange ==
    ASSUME IInv, Enter
    PROVE  /\ Middle \in min .. max
           /\ Middle \in 0 .. Last
           /\ Middle \in Nat
           /\ At(Middle) \in Nat
           /\ value \in Nat
  BY HistoryFacts, TimeAssumption DEF IInv, Enter, Middle, TypeOK, Narrowed, Last

LEMMA RoundStep == IInv /\ (Equal \/ GoRight \/ GoLeft \/ NotFound) => IInv'
<1> SUFFICES ASSUME IInv, Equal \/ GoRight \/ GoLeft \/ NotFound PROVE IInv'
  OBVIOUS
<1>1. Enter
  BY DEF Equal, GoRight, GoLeft, NotFound
<1>2. /\ Middle \in min .. max
      /\ Middle \in 0 .. Last
      /\ Middle \in Nat
      /\ At(Middle) \in Nat
      /\ value \in Nat
  BY <1>1, MiddleInRange
<1>3. /\ Len(field) \in Nat
      /\ Last = Len(field) - 1
      /\ \A k \in 0 .. Last : At(k) \in Nat
      /\ \A j, k \in 0 .. Last : j < k => At(j) <= At(k)
  BY HistoryFacts DEF IInv, TypeOK, Last
<1>4. /\ pc = "while"
      /\ min \in Nat /\ max \in 0 .. Last
      /\ \A k \in 0 .. Last : k < min => At(k) < value
      /\ \A k \in 0 .. Last : k > max => At(k) > value
  BY <1>1 DEF IInv, Narrowed, Enter, TypeOK
<1>5. CASE Equal
  BY <1>2, <1>5 DEF Equal, Enter, IInv, TypeOK, Narrowed, Matched, Correct, At, Last
<1>6. CASE GoRight
  <2>1. \A k \in 0 .. Last : k < Middle + 1 => At(k) < value
    BY <1>2, <1>3, <1>6 DEF GoRight, At
  <2>2. Narrowed'
    BY <1>2, <1>3, <1>4, <1>6, <2>1 DEF GoRight, Narrowed, At, Last
  <2>3. TypeOK' /\ Matched' /\ Correct'
    BY <1>2, <1>4, <1>6 DEF GoRight, Enter, IInv, TypeOK, Matched, Correct, At, Last
  <2> QED
    BY <2>2, <2>3 DEF IInv
<1>7. CASE GoLeft
  <2>1. \A k \in 0 .. Last : k > Middle - 1 => At(k) > value
    BY <1>2, <1>3, <1>7 DEF GoLeft, At
  <2>2. Narrowed'
    BY <1>2, <1>3, <1>4, <1>7, <2>1 DEF GoLeft, Narrowed, At, Last
  <2>3. TypeOK' /\ Matched' /\ Correct'
    BY <1>2, <1>4, <1>7 DEF GoLeft, Enter, IInv, TypeOK, Matched, Correct, At, Last
  <2> QED
    BY <2>2, <2>3 DEF IInv
<1>8. CASE NotFound
  <2>1. \A k \in 0 .. Last : At(k) > value
    BY <1>2, <1>3, <1>8 DEF NotFound
  <2>2. Correct'
    BY <1>2, <1>3, <1>8, <2>1 DEF NotFound, Return, Correct, At, Last
  <2>3. TypeOK' /\ Narrowed' /\ Matched'
    BY <1>2, <1>8 DEF NotFound, Enter, Return, IInv, TypeOK, Narrowed, Matched
  <2> QED
    BY <2>2, <2>3 DEF IInv
<1> QED
  BY <1>5, <1>6, <1>7, <1>8

\* The inner loop walks along entries that match.
LEMMA InnerStep == IInv /\ (SkipEqual \/ ReturnEqual) => IInv'
<1> SUFFICES ASSUME IInv, SkipEqual \/ ReturnEqual PROVE IInv'
  OBVIOUS
<1>1. /\ Len(field) \in Nat
      /\ Last = Len(field) - 1
      /\ \A k \in 0 .. Last : At(k) \in Nat
      /\ \A j, k \in 0 .. Last : j < k => At(j) <= At(k)
      /\ value \in Nat
  BY HistoryFacts, TimeAssumption DEF IInv, TypeOK, Last
<1>2. mid \in 0 .. Last /\ At(mid) = value
  BY DEF IInv, Matched, SkipEqual, ReturnEqual
<1>3. CASE SkipEqual
  BY <1>1, <1>2, <1>3 DEF SkipEqual, IInv, TypeOK, Narrowed, Matched, Correct, At, Last
<1>4. CASE ReturnEqual
  <2>1. \A k \in 0 .. Last : k > mid => At(k) > value
    <3>1. CASE mid = Last
      BY <1>1, <3>1
    <3>2. CASE mid < Last
      <4>1. mid + 1 \in 0 .. Last /\ At(mid + 1) > value
        BY <1>1, <1>2, <1>4, <3>2 DEF ReturnEqual
      <4> QED
        BY <1>1, <1>2, <4>1
    <3> QED
      BY <1>1, <1>2, <3>1, <3>2
  <2>2. Correct'
    BY <1>1, <1>2, <1>4, <2>1 DEF ReturnEqual, Return, Correct, At, Last
  <2>3. TypeOK' /\ Narrowed' /\ Matched'
    BY <1>1, <1>2, <1>4 DEF ReturnEqual, Return, IInv, TypeOK, Narrowed, Matched
  <2> QED
    BY <2>2, <2>3 DEF IInv
<1> QED
  BY <1>3, <1>4

\* A call may come with any history and any request.
LEMMA BeginStep == IInv /\ field' \in Histories /\ value' \in Time /\ Begin => IInv'
<1> SUFFICES ASSUME IInv, field' \in Histories, value' \in Time, Begin PROVE IInv'
  OBVIOUS
<1>1. Len(field') \in Nat /\ Last' = Len(field') - 1
  <2>1. PICK n \in 0 .. MaxLength : field' \in [1 .. n -> Time]
    BY DEF Histories
  <2>2. n \in Nat
    BY LengthAssumption
  <2> QED
    BY <2>1, <2>2 DEF Last
<1>2. TypeOK'
  <2>1. max' \in Nat /\ pc' \in {"returned", "while"}
    BY <1>1 DEF Begin
  <2> QED
    BY <2>1 DEF Begin, IInv, TypeOK
<1>3. Narrowed' /\ Matched'
  BY <1>1 DEF Begin, Narrowed, Matched
<1>4. Correct'
  BY <1>1 DEF Begin, Correct
<1> QED
  BY <1>2, <1>3, <1>4 DEF IInv

\* The range of the search means at every step what IInv says of it.
LEMMA Invariance == Spec => []IInv
<1>1. Init => IInv
  BY Initially
<1>2. IInv /\ [Next]_vars => IInv'
  <2>1. IInv /\ UNCHANGED vars => IInv'
    BY DEF vars, IInv, TypeOK, Narrowed, Matched, Correct, At, Last
  <2>2. IInv /\ UNCHANGED <<field, value>> /\ Begin => IInv'
    BY BeginStep DEF IInv, TypeOK
  <2> QED
    BY <2>1, <2>2, LeaveStep, RoundStep, InnerStep DEF Next, Look
<1> QED
  BY <1>1, <1>2, PTL DEF Spec

\* Whatever the history and the request, what the search returns is the last entry
\* made by then, and nothing only if there is none.
THEOREM SearchIsCorrect == Spec => []Correct
<1>1. IInv => Correct
  BY DEF IInv
<1> QED
  BY <1>1, Invariance, PTL

\* No checked operation of the search reverts.
THEOREM SearchInBounds == Spec => []InBounds
<1>1. IInv => InBounds
  BY HistoryFacts DEF IInv, InBounds, TypeOK, Narrowed, Matched, Middle, Last
<1> QED
  BY <1>1, Invariance, PTL

-----------------------------------------------------------------------------
(* How long a search takes. *)

\* The steps a search under way can still take, at most: through what is left of the
\* range, then along the entries that match.
StepsLeft ==
    CASE pc = "while" -> (max - min + 1) + Len(field) + 1
      [] pc = "equal" -> Last - mid + 1
      [] OTHER -> 0

Headway ==
    /\ StepsLeft \in Nat /\ StepsLeft' \in Nat
    /\ StepsLeft' < StepsLeft
    /\ GoLeft \/ GoRight => 2 * (max' - min' + 1) <= max - min + 1

LEMMA LookGains == IInv /\ Look => Headway
<1> SUFFICES ASSUME IInv, Look PROVE Headway
  OBVIOUS
<1>1. /\ Len(field) \in Nat /\ Last = Len(field) - 1
      /\ min \in Nat /\ max \in Nat /\ mid \in Nat /\ value \in Nat
  BY HistoryFacts, TimeAssumption DEF IInv, TypeOK, Last
<1>2. field' = field
  BY DEF Look, Leave, Equal, GoRight, GoLeft, NotFound, SkipEqual, ReturnEqual, Return
<1>3. pc = "while" => max \in 0 .. Last /\ min <= max + 1
  BY DEF IInv, Narrowed
<1>4. pc = "equal" => mid \in 0 .. Last
  BY DEF IInv, Matched
<1> USE <1>1, <1>2, <1>3, <1>4 DEF Headway, StepsLeft
<1>5. CASE Leave
  BY <1>5 DEF Leave, Return, GoLeft, GoRight
<1>6. CASE Equal \/ GoRight \/ GoLeft \/ NotFound
  <2>1. pc = "while" /\ Enter /\ Middle \in min .. max /\ Middle \in 0 .. Last
    BY <1>6, MiddleInRange DEF Equal, GoRight, GoLeft, NotFound, Enter
  <2>a. max + min <= 2 * Middle + 1 /\ 2 * Middle <= max + min
    BY <1>1 DEF Middle
  <2>2. CASE Equal
    BY <2>1, <2>2 DEF Equal, Enter, Last, GoLeft, GoRight
  <2>3. CASE GoRight
    <3>1. /\ pc' = pc /\ max' = max /\ min' = Middle + 1
          /\ max + min <= 2 * Middle + 1 /\ Middle \in min .. max
      BY <2>1, <2>3, <2>a DEF GoRight
    <3>2. 2 * (max' - min' + 1) <= max - min + 1
      BY <2>1, <3>1
    <3>3. /\ StepsLeft = (max - min + 1) + Len(field) + 1
          /\ StepsLeft' = (max' - min' + 1) + Len(field) + 1
      BY <2>1, <3>1
    <3>4. /\ (max' - min' + 1) \in Nat /\ (max - min + 1) \in Nat
          /\ (max' - min' + 1) < max - min + 1
      BY <2>1, <3>1
    <3> HIDE DEF StepsLeft
    <3> QED
      BY <3>2, <3>3, <3>4
  <2>4. CASE GoLeft
    <3>1. /\ pc' = pc /\ min' = min /\ max' = Middle - 1
          /\ 2 * Middle <= max + min /\ Middle \in min .. max
      BY <2>1, <2>4, <2>a DEF GoLeft
    <3>2. 2 * (max' - min' + 1) <= max - min + 1
      BY <2>1, <3>1
    <3>3. /\ StepsLeft = (max - min + 1) + Len(field) + 1
          /\ StepsLeft' = (max' - min' + 1) + Len(field) + 1
      BY <2>1, <3>1
    <3>4. /\ (max' - min' + 1) \in Nat /\ (max - min + 1) \in Nat
          /\ (max' - min' + 1) < max - min + 1
      BY <2>1, <3>1
    <3> HIDE DEF StepsLeft
    <3> QED
      BY <3>2, <3>3, <3>4
  <2>5. CASE NotFound
    BY <2>1, <2>5 DEF NotFound, Return, GoLeft, GoRight
  <2> QED
    BY <1>6, <2>2, <2>3, <2>4, <2>5
<1>7. CASE SkipEqual
  BY <1>7 DEF SkipEqual, Last, GoLeft, GoRight, Enter
<1>8. CASE ReturnEqual
  BY <1>8 DEF ReturnEqual, Return, GoLeft, GoRight, Enter
<1> QED
  BY <1>5, <1>6, <1>7, <1>8 DEF Look

\* No search goes on for ever: each of its steps leaves fewer, and each round of the
\* outer loop that goes left or right at most half of the range (SmtLib.sol:662).
THEOREM EveryLookGains == Spec => [][Look => Headway]_vars
<1>1. IInv /\ [Next]_vars => [Look => Headway]_vars
  BY LookGains
<1> QED
  BY <1>1, Invariance, PTL DEF Spec

=============================================================================
