---------------------------- MODULE SearchProofs ----------------------------
(***************************************************************************)
(* For lists of every length and integers of every width: what a search   *)
(* may do whatever it is called with (TypeCorrect), and that it answers    *)
(* rightly when the call is Answerable, as all linear searches are, and    *)
(* the binary ones whose comparisons do not overflow and whose key is not  *)
(* below the first element.                                                *)
(***************************************************************************)
EXTENDS Search, TLAPS

(* What is true before a search, and remains true while the binary one     *)
(* runs, and the linear one.                                               *)
EnterInv == pc = "enter" => iStart = 0 /\ i = 0

BinaryInv ==
  pc = "binary" =>
    /\ IsBinary /\ count > 0
    /\ iEnd < count /\ iStart <= iEnd + 1
    /\ \A n \in Matches : iStart <= n /\ n <= iEnd

LinearInv ==
  pc = "linear" =>
    /\ ~IsBinary /\ i <= count
    /\ \A n \in Matches : i <= n

Inv == TypeOK /\ EnterInv /\ BinaryInv /\ LinearInv /\ ResultIsRight

(* A call that is not answerable keeps its types, and is a binary search.  *)
IInv ==
  /\ TypeOK
  /\ pc = "linear" => ~IsBinary
  /\ Answerable => Inv

-----------------------------------------------------------------------------
(* What is known of the arguments of a call. *)
LEMMA CallFacts ==
  ASSUME TypeOK
  PROVE  /\ count \in Nat /\ count <= SizeMax
         /\ call.key \in Int /\ SizeMax \in Nat
         /\ call.key \in Ints /\ \A n \in 0 .. count - 1 : At(n) \in Ints
         /\ \A n \in 0 .. count - 1 : At(n) \in Int
         /\ \A m, n \in 0 .. count - 1 : m <= n => At(m) <= At(n)
<1>1. call \in [proc : Procs, list : Seq(Ints), key : Ints]
  BY CallsAssumption DEF TypeOK
<1>2. /\ count \in Nat /\ count <= SizeMax
      /\ call.key \in Int /\ SizeMax \in Nat
  BY <1>1, CallsAssumption DEF TypeOK, count, Ints
<1>3. \A n \in 0 .. count - 1 : At(n) \in Ints /\ At(n) \in Int
  <2> SUFFICES ASSUME NEW n \in 0 .. count - 1 PROVE At(n) \in Ints /\ At(n) \in Int
    OBVIOUS
  <2>1. call.list \in Seq(Ints) /\ n + 1 \in 1 .. Len(call.list)
    BY <1>1, <1>2 DEF count
  <2>2. call.list[n + 1] \in Ints
    BY <2>1
  <2> QED BY <2>2, CallsAssumption DEF At, Ints
<1>4. \A m, n \in 0 .. count - 1 : m <= n => At(m) <= At(n)
  <2>1. \A a, b \in 1 .. count : a <= b => call.list[a] <= call.list[b]
    BY CallsAssumption DEF TypeOK, count
  <2> QED BY <2>1, <1>2 DEF At
<1> QED BY <1>1, <1>2, <1>3, <1>4

(* Inside the list a comparison tells whether the element equals the key,  *)
(* even if the difference wraps.                                           *)
LEMMA CompareEqual ==
  ASSUME TypeOK, NEW n \in 0 .. count - 1, NEW c \in Compare(n)
  PROVE  c \in Int /\ (c = 0 <=> At(n) = call.key)
<1>1. At(n) \in Ints /\ call.key \in Ints /\ count \in Nat /\ IntMax \in Nat
  BY CallFacts, CallsAssumption
<1>2. ~(n >= count)
  BY <1>1
<1> QED BY <1>1, <1>2 DEF Compare, WrapInt, Ints

(* Inside the list a comparison tells the order of the key and the         *)
(* element, and nothing else.                                              *)
LEMMA CompareTells ==
  ASSUME TypeOK, Comparable(call),
         NEW n \in 0 .. count - 1, NEW c \in Compare(n)
  PROVE  /\ c = 0 => At(n) = call.key
         /\ c < 0 => call.key < At(n)
         /\ c > 0 => At(n) < call.key
         /\ c \in Int
<1>1. At(n) \in Int /\ call.key \in Int /\ count \in Nat
  BY CallFacts
<1>2. call.key - At(n) \in Ints
  <2>1. n + 1 \in 1 .. Len(call.list)
    BY <1>1 DEF count
  <2> QED BY <2>1, Zenon DEF Comparable, At
<1>3. WrapInt(call.key - At(n)) = call.key - At(n)
  BY <1>1, <1>2, CallsAssumption DEF WrapInt, Ints
<1>4. ~(n >= count)
  BY <1>1
<1> QED BY <1>1, <1>3, <1>4 DEF Compare

(* The midpoint of a range lies in it. *)
LEMMA MidInRange ==
  ASSUME TypeOK, iStart <= iEnd
  PROVE  iMid \in Int /\ iStart <= iMid /\ iMid <= iEnd
<1>1. iStart \in Int /\ iEnd \in Int
  BY CallsAssumption DEF TypeOK, Sizes
<1> QED BY <1>1 DEF iMid

-----------------------------------------------------------------------------
(* Every call starts in the invariant. *)
LEMMA InitInv == Init => Inv
<1> SUFFICES ASSUME Init PROVE Inv
  OBVIOUS
<1>1. TypeOK
  BY CallsAssumption DEF Init, TypeOK, Sizes, Null
<1> QED BY <1>1 DEF Init, Inv, EnterInv, BinaryInv, LinearInv, ResultIsRight

(* Entering the binary search: NULL for an empty list, else all of it. *)
LEMMA EnterBinaryInv ==
  ASSUME Inv, EnterBinary
  PROVE  Inv'
<1>1. /\ count \in Nat /\ count <= SizeMax /\ SizeMax \in Nat /\ TypeOK
  BY CallFacts DEF Inv
<1>2. call' = call
  BY DEF EnterBinary, Return
<1>3. CASE count = 0
  <2>1. pc' = "done" /\ result' = Null /\ UNCHANGED <<call, iStart, iEnd, i>>
    BY <1>3 DEF EnterBinary, Return
  <2>2. Matches' = {}
    BY <1>3, <2>1 DEF Matches, count
  <2>3. TypeOK'
    BY <1>1, <2>1 DEF TypeOK
  <2> QED BY <2>1, <2>2, <2>3 DEF Inv, EnterInv, BinaryInv, LinearInv, ResultIsRight
<1>4. CASE count /= 0
  <2>1. pc' = "binary" /\ iEnd' = count - 1 /\ UNCHANGED <<call, iStart, i, result>>
    BY <1>4 DEF EnterBinary
  <2>2. iStart' = 0
    BY <2>1 DEF EnterBinary, Inv, EnterInv
  <2>3. TypeOK'
    BY <1>1, <1>4, <2>1 DEF TypeOK, Sizes
  <2>4. BinaryInv'
    BY <1>1, <1>4, <2>1, <2>2 DEF BinaryInv, EnterBinary, IsBinary, count, Matches
  <2> QED BY <2>1, <2>3, <2>4 DEF Inv, EnterInv, LinearInv, ResultIsRight
<1> QED BY <1>3, <1>4

(* Entering the linear search. *)
LEMMA EnterLinearInv ==
  ASSUME Inv, EnterLinear
  PROVE  Inv'
<1>1. /\ ~IsBinary /\ pc = "enter" /\ pc' = "linear"
      /\ UNCHANGED <<call, iStart, iEnd, i, result>>
  BY DEF EnterLinear
<1>2. TypeOK'
  BY <1>1 DEF Inv, TypeOK
<1>3. LinearInv'
  <2>1. count \in Nat /\ i = 0
    BY <1>1, CallFacts DEF Inv, EnterInv
  <2> QED BY <1>1, <2>1 DEF LinearInv, IsBinary, count, Matches
<1> QED BY <1>1, <1>2, <1>3 DEF Inv, EnterInv, BinaryInv, ResultIsRight

(* An answer n that equals the key ends either search rightly, and NULL    *)
(* does when nothing equals it.                                            *)
LEMMA ReturnInv ==
  ASSUME Inv, NEW n \in 0 .. count - 1 \cup {Null}, Return(n),
         IF Matches = {} THEN n = Null
         ELSE n \in Matches /\ (~IsBinary => \A m \in Matches : n <= m)
  PROVE  Inv'
<1>1. /\ pc' = "done" /\ result' = n
      /\ UNCHANGED <<call, iStart, iEnd, i>>
  BY DEF Return
<1>2. TypeOK'
  <2>1. n \in Sizes \cup {Null}
    BY CallFacts DEF Inv, Sizes
  <2> QED BY <1>1, <2>1 DEF Inv, TypeOK
<1>3. ResultIsRight'
  BY <1>1 DEF ResultIsRight, Matches, IsBinary, count, At
<1> QED BY <1>1, <1>2, <1>3 DEF Inv, EnterInv, BinaryInv, LinearInv

(* The binary search ends when its range is empty. *)
LEMMA BinaryLeaveInv ==
  ASSUME Inv, BinaryLeave
  PROVE  Inv'
<1>1. Matches = {}
  <2>1. iStart \in Int /\ iEnd \in Int /\ count \in Nat
    BY CallFacts, CallsAssumption DEF Inv, TypeOK, Sizes
  <2> QED BY <2>1 DEF BinaryLeave, Inv, BinaryInv, Matches
<1> QED BY <1>1, ReturnInv DEF BinaryLeave

(* A comparison of the binary search: the half of the range that is given  *)
(* up is on the wrong side of an element that differs from the key.        *)
LEMMA BinaryStepInv ==
  ASSUME Inv, Answerable, BinaryStep
  PROVE  Inv'
<1>1. /\ TypeOK /\ pc = "binary" /\ iStart <= iEnd
      /\ Comparable(call) /\ ~BelowFirst(call)
      /\ IsBinary /\ count > 0 /\ iEnd < count
      /\ \A n \in Matches : iStart <= n /\ n <= iEnd
  BY DEF Inv, BinaryInv, BinaryStep, Answerable
<1>2. /\ count \in Nat /\ count <= SizeMax
      /\ call.key \in Int /\ SizeMax \in Nat
      /\ \A n \in 0 .. count - 1 : At(n) \in Int
      /\ \A m, n \in 0 .. count - 1 : m <= n => At(m) <= At(n)
  BY <1>1, CallFacts
<1>3. /\ iStart \in Nat /\ iEnd \in Nat
      /\ iMid \in 0 .. count - 1 /\ iStart <= iMid /\ iMid <= iEnd
  BY <1>1, <1>2, MidInRange DEF TypeOK, Sizes
<1>4. PICK c \in Compare(iMid) :
        \/ c = 0 /\ Return(iMid)
        \/ /\ c < 0
           /\ iEnd' = EndBelowMid
           /\ UNCHANGED <<call, pc, iStart, i, result>>
        \/ /\ c > 0
           /\ iStart' = StartAboveMid
           /\ UNCHANGED <<call, pc, iEnd, i, result>>
  BY DEF BinaryStep
<1>5. /\ c = 0 => At(iMid) = call.key
      /\ c < 0 => call.key < At(iMid)
      /\ c > 0 => At(iMid) < call.key
      /\ c \in Int
  BY <1>1, <1>3, CompareTells
<1>6. CASE c = 0
  <2>1. Return(iMid)
    BY <1>4, <1>6
  <2>2. iMid \in Matches
    BY <1>3, <1>5, <1>6 DEF Matches
  <2> QED BY <1>1, <1>3, <2>1, <2>2, ReturnInv
<1>7. CASE c < 0
  <2>1. iEnd' = EndBelowMid /\ UNCHANGED <<call, pc, iStart, i, result>>
    BY <1>4, <1>5, <1>7
  <2>2. iMid /= 0
    <3>1. At(0) <= call.key
      <4>1. call.list # <<>> /\ At(0) \in Int
        BY <1>1, <1>2 DEF count
      <4> QED BY <1>1, <1>2, <4>1 DEF BelowFirst, At
    <3> QED BY <1>2, <1>3, <1>5, <1>7, <3>1
  <2>3. iEnd' = iMid - 1
    BY <2>1, <2>2 DEF EndBelowMid, Minus1
  <2>4. TypeOK'
    BY <1>1, <1>2, <1>3, <2>1, <2>2, <2>3 DEF TypeOK, Sizes
  <2>5. \A n \in Matches : n <= iMid - 1
    <3> SUFFICES ASSUME NEW n \in 0 .. count - 1, At(n) = call.key
                 PROVE  n <= iMid - 1
      BY DEF Matches
    <3> QED BY <1>2, <1>3, <1>5, <1>7
  <2>6. BinaryInv'
    BY <1>1, <1>2, <1>3, <2>1, <2>3, <2>5
    DEF BinaryInv, IsBinary, Matches, count, At
  <2> QED BY <1>1, <2>1, <2>4, <2>6 DEF Inv, EnterInv, LinearInv, ResultIsRight
<1>8. CASE c > 0
  <2>1. iStart' = StartAboveMid /\ UNCHANGED <<call, pc, iEnd, i, result>>
    BY <1>4, <1>5, <1>8
  <2>2. iStart' = iMid + 1
    BY <1>2, <1>3, <2>1 DEF StartAboveMid, Plus1
  <2>3. TypeOK'
    BY <1>1, <1>2, <1>3, <2>1, <2>2 DEF TypeOK, Sizes
  <2>4. \A n \in Matches : iMid + 1 <= n
    <3> SUFFICES ASSUME NEW n \in 0 .. count - 1, At(n) = call.key
                 PROVE  iMid + 1 <= n
      BY DEF Matches
    <3> QED BY <1>2, <1>3, <1>5, <1>8
  <2>5. BinaryInv'
    BY <1>1, <1>2, <1>3, <2>1, <2>2, <2>4
    DEF BinaryInv, IsBinary, Matches, count, At
  <2> QED BY <1>1, <2>1, <2>3, <2>5 DEF Inv, EnterInv, LinearInv, ResultIsRight
<1> QED BY <1>5, <1>6, <1>7, <1>8

(* The linear search ends after the last element. *)
LEMMA LinearLeaveInv ==
  ASSUME Inv, LinearLeave
  PROVE  Inv'
<1>1. Matches = {}
  <2>1. i \in Int /\ count \in Nat
    BY CallFacts, CallsAssumption DEF Inv, TypeOK, Sizes
  <2> QED BY <2>1 DEF LinearLeave, Inv, LinearInv, Matches
<1> QED BY <1>1, ReturnInv DEF LinearLeave

(* A comparison of the linear search. *)
LEMMA LinearStepInv ==
  ASSUME Inv, LinearStep
  PROVE  Inv'
<1>1. /\ TypeOK /\ pc = "linear" /\ i < count /\ ~IsBinary
      /\ \A n \in Matches : i <= n
  BY DEF Inv, LinearInv, LinearStep
<1>2. /\ count \in Nat /\ count <= SizeMax /\ SizeMax \in Nat
      /\ i \in 0 .. count - 1
      /\ call.key \in Int /\ At(i) \in Int
  BY <1>1, CallFacts DEF TypeOK, Sizes
<1>3. PICK c \in Compare(i) :
        \/ c = 0 /\ Return(i)
        \/ /\ c /= 0
           /\ i' = Plus1(i)
           /\ UNCHANGED <<call, pc, iStart, iEnd, result>>
  BY DEF LinearStep
<1>4. c \in Int /\ (c = 0 <=> At(i) = call.key)
  BY <1>1, <1>2, CompareEqual
<1>5. CASE c = 0
  <2>1. Return(i)
    BY <1>3, <1>5
  <2>2. i \in Matches
    BY <1>2, <1>4, <1>5 DEF Matches
  <2> QED BY <1>1, <1>2, <2>1, <2>2, ReturnInv
<1>6. CASE c /= 0
  <2>1. i' = i + 1 /\ UNCHANGED <<call, pc, iStart, iEnd, result>>
    BY <1>2, <1>3, <1>6 DEF Plus1
  <2>2. TypeOK'
    BY <1>1, <1>2, <2>1 DEF TypeOK, Sizes
  <2>3. \A n \in Matches : i + 1 <= n
    <3>1. i \notin Matches
      BY <1>2, <1>4, <1>6 DEF Matches
    <3> QED BY <1>1, <1>2, <3>1 DEF Matches
  <2>4. LinearInv'
    BY <1>1, <1>2, <2>1, <2>3 DEF LinearInv, IsBinary, Matches, count, At
  <2> QED BY <1>1, <2>1, <2>2, <2>4 DEF Inv, EnterInv, BinaryInv, ResultIsRight
<1> QED BY <1>5, <1>6

(* Every step keeps the types, whatever is searched for: the indices wrap, *)
(* and one outside the list may be the result.                             *)
LEMMA TypeStep == ASSUME TypeOK, [Next]_vars PROVE TypeOK'
<1>1. /\ count \in Nat /\ count <= SizeMax /\ SizeMax \in Nat
      /\ iStart \in Sizes /\ iEnd \in Sizes /\ i \in Sizes
  BY CallFacts DEF TypeOK
<1>2. CASE EnterBinary
  BY <1>1, <1>2 DEF EnterBinary, Return, TypeOK, Sizes
<1>3. CASE EnterLinear
  BY <1>3 DEF EnterLinear, TypeOK
<1>4. CASE BinaryLeave \/ LinearLeave
  BY <1>4 DEF BinaryLeave, LinearLeave, Return, TypeOK
<1>5. CASE BinaryStep
  <2>1. iMid \in Sizes /\ StartAboveMid \in Sizes /\ EndBelowMid \in Sizes
    <3>1. iMid \in Int /\ iStart <= iMid /\ iMid <= iEnd
      BY <1>5, MidInRange DEF BinaryStep
    <3> QED BY <1>1, <3>1 DEF Sizes, StartAboveMid, EndBelowMid, Plus1, Minus1
  <2> QED BY <1>5, <2>1 DEF BinaryStep, Return, TypeOK
<1>6. CASE LinearStep
  <2>1. Plus1(i) \in Sizes
    BY <1>1 DEF Sizes, Plus1
  <2> QED BY <1>1, <1>6, <2>1 DEF LinearStep, Return, TypeOK
<1>7. CASE UNCHANGED vars
  BY <1>7 DEF vars, TypeOK
<1> QED BY <1>2, <1>3, <1>4, <1>5, <1>6, <1>7 DEF Next, Step, Done

(* How a call searches, and whether it is answerable, does not change      *)
(* while it runs.                                                          *)
LEMMA SameCall ==
  ASSUME [Next]_vars
  PROVE  call' = call /\ IsBinary' = IsBinary /\ Answerable' = Answerable
<1>1. call' = call
  BY DEF Next, Step, Done, vars, EnterBinary, EnterLinear, BinaryLeave, BinaryStep,
         LinearLeave, LinearStep, Return
<1> QED BY <1>1 DEF Answerable, IsBinary, count

(* Every step keeps the invariant. *)
LEMMA StepInv ==
  ASSUME IInv, [Next]_vars
  PROVE  IInv'
<1>1. TypeOK'
  BY TypeStep DEF IInv
<1>2. pc' = "linear" => ~IsBinary'
  <2>1. pc' = "linear" => pc = "linear" \/ EnterLinear
    BY DEF Next, Step, Done, vars, EnterBinary, BinaryLeave, BinaryStep, LinearLeave,
           LinearStep, Return
  <2> QED BY <2>1, SameCall DEF IInv, EnterLinear
<1>3. ASSUME Answerable PROVE Inv'
  <2>1. Inv
    BY <1>3 DEF IInv
  <2>2. CASE EnterBinary
    BY <2>1, <2>2, EnterBinaryInv
  <2>3. CASE EnterLinear
    BY <2>1, <2>3, EnterLinearInv
  <2>4. CASE BinaryLeave
    BY <2>1, <2>4, BinaryLeaveInv
  <2>5. CASE BinaryStep
    BY <1>3, <2>1, <2>5, BinaryStepInv
  <2>6. CASE LinearLeave
    BY <2>1, <2>6, LinearLeaveInv
  <2>7. CASE LinearStep
    BY <2>1, <2>7, LinearStepInv
  <2>8. CASE UNCHANGED vars
    BY <2>1, <2>8 DEF vars, Inv, TypeOK, EnterInv, BinaryInv, LinearInv, ResultIsRight,
                Answerable, IsBinary, Matches, count, At
  <2> QED BY <2>2, <2>3, <2>4, <2>5, <2>6, <2>7, <2>8 DEF Next, Step, Done
<1> QED BY <1>1, <1>2, <1>3, SameCall DEF IInv

-----------------------------------------------------------------------------
(* Indices stay size_t values and a result is one or NULL, whatever is     *)
(* searched for: the wrapping indices of a key below the first element and *)
(* the comparisons that overflow are included.                             *)
THEOREM TypeCorrect == Spec => []TypeOK
<1>1. Init => TypeOK
  BY InitInv DEF Inv
<1>2. TypeOK /\ [Next]_vars => TypeOK'
  BY TypeStep
<1> QED BY <1>1, <1>2, PTL DEF Spec

(* The inductive invariant of a search. *)
THEOREM Invariant == Spec => []IInv
<1>1. Init => IInv
  BY InitInv DEF IInv, Inv, Init
<1>2. IInv /\ [Next]_vars => IInv'
  BY StepInv
<1> QED BY <1>1, <1>2, PTL DEF Spec

(* Of a linear search the whole invariant is known, whatever the call. *)
LEMMA LinearHasInv == ASSUME IInv, pc = "linear" PROVE Inv
BY DEF IInv, Answerable

(* compareProc is only handed elements of the list, by a call that is      *)
(* answerable and by every linear search (lines 41 and 62).                *)
THEOREM StaysInside == Spec => []ComparesInside
<1>1. IInv => ComparesInside
  <2> SUFFICES ASSUME IInv PROVE ComparesInside
    OBVIOUS
  <2>1. count \in Nat /\ TypeOK /\ (Answerable => Inv)
    BY CallFacts DEF IInv
  <2>2. Answerable /\ pc = "binary" /\ iStart <= iEnd => iMid < count
    <3> SUFFICES ASSUME Answerable, pc = "binary", iStart <= iEnd PROVE iMid < count
      OBVIOUS
    <3>1. iMid \in Int /\ iMid <= iEnd /\ iEnd < count /\ iEnd \in Int
      BY <2>1, MidInRange, CallsAssumption DEF Inv, BinaryInv, TypeOK, Sizes
    <3> QED BY <2>1, <3>1
  <2>3. pc = "linear" => Inv
    BY LinearHasInv
  <2> QED BY <2>2, <2>3 DEF ComparesInside, Inv, LinearInv
<1> QED BY <1>1, Invariant, PTL

(* No such search gives up an element that equals the key. *)
THEOREM MissesNothing == Spec => []NothingMissed
<1>1. IInv => NothingMissed
  <2> SUFFICES ASSUME IInv PROVE NothingMissed
    OBVIOUS
  <2>1. Answerable \/ pc = "linear" => Inv
    BY LinearHasInv DEF IInv
  <2> QED BY <2>1 DEF Inv, BinaryInv, LinearInv, NothingMissed
<1> QED BY <1>1, Invariant, PTL

(* An answerable search that returns has answered rightly: every linear    *)
(* one, and every binary one whose comparisons do not overflow and whose   *)
(* key is not below the first element.  The others need not: that is the   *)
(* finding of the run search_below.                                        *)
THEOREM Answers == Spec => []ResultIsRight
<1>1. IInv => ResultIsRight
  BY DEF IInv, Inv, ResultIsRight
<1> QED BY <1>1, Invariant, PTL

(* The halves on both sides of the midpoint are no longer than they should *)
(* be, without it.                                                         *)
LEMMA MidHalves ==
  ASSUME TypeOK, iStart <= iEnd
  PROVE  /\ 2 * (iMid - iStart) <= iEnd - iStart + 1
         /\ 2 * (iEnd - iMid) <= iEnd - iStart + 1
<1>1. iStart \in Int /\ iEnd \in Int
  BY CallsAssumption DEF TypeOK, Sizes
<1> QED BY <1>1 DEF iMid

(* An answerable binary search of n elements takes at most log2(n) + 1     *)
(* comparisons: each at least halves the range (search.c:38-49).           *)
THEOREM RangeHalves == Spec => Halves
<1> DEFINE Half == Answerable /\ pc = "binary" /\ pc' = "binary" =>
                     2 * (iEnd' - iStart' + 1) <= iEnd - iStart + 1
<1>1. IInv /\ [Next]_vars => [Half]_vars
  <2> SUFFICES ASSUME IInv, Next, Answerable, pc = "binary", pc' = "binary"
               PROVE  2 * (iEnd' - iStart' + 1) <= iEnd - iStart + 1 \/ UNCHANGED vars
    OBVIOUS
  <2>1. BinaryStep
    BY DEF Next, Step, Done, EnterBinary, EnterLinear, BinaryLeave, LinearLeave, LinearStep, Return
  <2>2. /\ TypeOK /\ iStart <= iEnd /\ iEnd < count
        /\ count > 0 /\ Comparable(call) /\ ~BelowFirst(call)
    BY <2>1 DEF IInv, Inv, BinaryInv, BinaryStep, Answerable
  <2>3. /\ count \in Nat /\ count <= SizeMax /\ SizeMax \in Nat
        /\ iStart \in Nat /\ iEnd \in Nat
        /\ iMid \in Int /\ iStart <= iMid /\ iMid <= iEnd
    BY <2>2, CallFacts, MidInRange DEF TypeOK, Sizes
  <2>4. PICK c \in Compare(iMid) :
          \/ c = 0 /\ Return(iMid)
          \/ c < 0 /\ iEnd' = EndBelowMid /\ iStart' = iStart
          \/ c > 0 /\ iStart' = StartAboveMid /\ iEnd' = iEnd
    BY <2>1 DEF BinaryStep
  <2>5. CASE c = 0 /\ Return(iMid)
    BY <2>5 DEF Return
  <2>6. CASE c < 0 /\ iEnd' = EndBelowMid /\ iStart' = iStart
    <3>1. iMid # 0
      <4>1. c < 0 => call.key < At(iMid)
        BY <2>2, <2>3, CompareTells
      <4>2. call.key \in Int /\ At(0) \in Int /\ call.list # <<>>
        BY <2>2, <2>3, CallFacts DEF count
      <4>3. At(0) <= call.key
        BY <2>2, <4>2 DEF BelowFirst, At
      <4> QED BY <2>6, <4>1, <4>2, <4>3
    <3>2. iEnd' = iMid - 1
      BY <2>6, <3>1 DEF EndBelowMid, Minus1
    <3> QED BY <2>2, <2>3, <2>6, <3>2, MidHalves
  <2>7. CASE c > 0 /\ iStart' = StartAboveMid /\ iEnd' = iEnd
    <3>1. iStart' = iMid + 1
      BY <2>2, <2>3, <2>7 DEF StartAboveMid, Plus1
    <3> QED BY <2>2, <2>3, <2>7, <3>1, MidHalves
  <2> QED BY <2>4, <2>5, <2>6, <2>7
<1> QED BY <1>1, Invariant, PTL DEF Spec, Halves
=============================================================================
