----------------------------- MODULE SortProofs -----------------------------
(***************************************************************************)
(* For lists of every length and keys of every value: ns_sort returns the  *)
(* caller's elements, in order, equal ones in the order they had, and no   *)
(* exchange ever undoes another.                                           *)
(***************************************************************************)
EXTENDS Sort, TLAPS

(* No two positions hold the same element. *)
Injective == \A a, b \in Positions : list[a] = list[b] => a = b

(* Between two insertions: the first i elements are those that were first  *)
(* and they are in order; the others have not been touched.                *)
OuterInv ==
  pc = "outer" =>
    /\ \A a, b \in Positions : a < b /\ b <= i => Precedes(list[a], list[b])
    /\ \A k \in Positions : k <= i => list[k].from <= i
    /\ \A k \in Positions : k > i => list[k].from = k

(* During one, the element that was at i has moved down to j: without it   *)
(* the first i + 1 are in order, and it precedes those it has passed.      *)
InnerInv ==
  pc = "inner" =>
    /\ \A a, b \in Positions :
         a < b /\ b <= i + 1 /\ a /= j + 1 /\ b /= j + 1 => Precedes(list[a], list[b])
    /\ \A b \in Positions : j + 1 < b /\ b <= i + 1 => Precedes(list[j + 1], list[b])
    /\ list[j + 1].from = i + 1
    /\ \A k \in Positions : k <= i + 1 /\ k /= j + 1 => list[k].from <= i
    /\ \A k \in Positions : k > i + 1 => list[k].from = k

Inv == TypeOK /\ Injective /\ SameElements /\ OuterInv /\ InnerInv /\ SortedStably

-----------------------------------------------------------------------------
(* What is known of the list. *)
LEMMA ListFacts ==
  ASSUME TypeOK
  PROVE  /\ count \in Nat
         /\ \A k \in Positions : /\ k \in Int /\ list[k] \in Elements
                                 /\ list[k].key \in Int /\ list[k].from \in Positions
<1>1. input \in Seq(Int)
  BY InputsAssumption DEF TypeOK
<1>2. count \in Nat
  BY <1>1 DEF count
<1>3. \A e \in Elements : e.key \in Int /\ e.from \in Positions
  <2> SUFFICES ASSUME NEW k \in Positions
               PROVE  input[k] \in Int
    BY DEF Elements
  <2> QED BY <1>1 DEF Positions, count
<1> QED BY <1>2, <1>3 DEF TypeOK, Positions

(* An exchange moves the elements at j - 1 and j, counted from 0, and no   *)
(* other.                                                                  *)
LEMMA SwapMoves ==
  ASSUME TypeOK, pc = "inner", j > 0
  PROVE  /\ j \in Positions /\ j + 1 \in Positions
         /\ Swapped \in [Positions -> Elements]
         /\ Swapped[j] = list[j + 1]
         /\ Swapped[j + 1] = list[j]
         /\ \A k \in Positions : k /= j /\ k /= j + 1 => Swapped[k] = list[k]
<1>1. j \in Positions /\ j + 1 \in Positions
  BY ListFacts DEF TypeOK, Positions
<1> QED BY <1>1 DEF Swapped, TypeOK, Positions

(* A sort starts in the invariant. *)
LEMMA InitInv == Init => Inv
<1> SUFFICES ASSUME Init PROVE Inv
  OBVIOUS
<1>1. count \in Nat
  BY InputsAssumption DEF Init, count
<1>2. TypeOK
  BY <1>1 DEF Init, TypeOK, Elements
<1>3. \A k \in Positions : list[k].from = k /\ list[k] = [key |-> input[k], from |-> k]
  BY DEF Init
<1>4. Injective
  BY <1>3 DEF Injective
<1>5. SameElements
  BY <1>3 DEF SameElements, Elements
<1>6. OuterInv
  BY <1>1, <1>3 DEF Init, OuterInv, Positions
<1> QED BY <1>2, <1>4, <1>5, <1>6 DEF Init, Inv, InnerInv, SortedStably

(* Picking the next element to insert. *)
LEMMA OuterStepInv ==
  ASSUME Inv, OuterStep
  PROVE  Inv'
<1>1. /\ pc = "outer" /\ i < count /\ pc' = "inner" /\ j' = i
      /\ UNCHANGED <<input, list, i>>
  BY DEF OuterStep
<1>2. /\ TypeOK /\ count \in Nat /\ i \in Positions /\ i + 1 \in Positions
      /\ \A k \in Positions : k \in Int
  BY <1>1, ListFacts DEF Inv, TypeOK, Positions
<1>3. TypeOK'
  BY <1>1, <1>2 DEF TypeOK, Positions, Elements, count
<1>4. InnerInv'
  BY <1>1, <1>2 DEF Inv, OuterInv, InnerInv, Positions, count, Precedes
<1> QED BY <1>1, <1>3, <1>4
        DEF Inv, OuterInv, SortedStably, Injective, SameElements, Positions, Elements, count

(* Leaving: the whole list is in order. *)
LEMMA OuterLeaveInv ==
  ASSUME Inv, OuterLeave
  PROVE  Inv'
<1>1. /\ pc = "outer" /\ i >= count /\ pc' = "done"
      /\ UNCHANGED <<input, list, i, j>>
  BY DEF OuterLeave
<1>2. TypeOK /\ count \in Nat /\ i \in Int /\ \A k \in Positions : k <= i
  BY <1>1, ListFacts DEF Inv, TypeOK, Positions
<1>3. TypeOK'
  BY <1>1, <1>2 DEF TypeOK, Positions, Elements, count
<1>4. SortedStably'
  BY <1>1, <1>2 DEF Inv, OuterInv, SortedStably, Positions, count, Precedes
<1> QED BY <1>1, <1>3, <1>4
        DEF Inv, OuterInv, InnerInv, Injective, SameElements, Positions, Elements, count

(* An exchange keeps every element, once. *)
LEMMA SwapKeeps ==
  ASSUME Inv, InnerSwap
  PROVE  TypeOK' /\ Injective' /\ SameElements'
<1>1. /\ pc = "inner" /\ j > 0 /\ j' = j - 1 /\ list' = Swapped
      /\ UNCHANGED <<input, i, pc>>
  BY DEF InnerSwap
<1>2. /\ TypeOK /\ count \in Nat
      /\ j \in Positions /\ j + 1 \in Positions
      /\ list' \in [Positions -> Elements]
      /\ list'[j] = list[j + 1]
      /\ list'[j + 1] = list[j]
      /\ \A k \in Positions : k /= j /\ k /= j + 1 => list'[k] = list[k]
  BY <1>1, ListFacts, SwapMoves DEF Inv
<1>3. Positions' = Positions /\ Elements' = Elements /\ count' = count
  BY <1>1 DEF Positions, Elements, count
<1>4. TypeOK'
  BY <1>1, <1>2, <1>3 DEF TypeOK, Positions
<1>5. j /= j + 1
  BY <1>2 DEF Positions
<1>6. Injective'
  BY <1>2, <1>3, <1>5 DEF Inv, Injective
<1>7. SameElements'
  <2> SUFFICES ASSUME NEW e \in Elements
               PROVE  \E k \in Positions : list'[k] = e
    BY <1>3 DEF SameElements
  <2>1. PICK k \in Positions : list[k] = e
    BY DEF Inv, SameElements
  <2> QED BY <1>2, <2>1
<1> QED BY <1>4, <1>6, <1>7

(* An exchange moves the element that is inserted below a greater one.     *)
LEMMA InnerSwapInv ==
  ASSUME Inv, InnerSwap
  PROVE  Inv'
<1>1. /\ pc = "inner" /\ j > 0 /\ j' = j - 1 /\ list' = Swapped
      /\ Compare > 0
      /\ UNCHANGED <<input, i, pc>>
  BY DEF InnerSwap
<1>2. /\ TypeOK /\ count \in Nat /\ i \in Int /\ j \in Int /\ i < count /\ j <= i
      /\ \A k \in Positions : /\ k \in Int /\ list[k].key \in Int
                              /\ list[k].from \in Int
  BY <1>1, ListFacts DEF Inv, TypeOK, Positions
<1>3. /\ j \in Positions /\ j + 1 \in Positions
      /\ list'[j] = list[j + 1]
      /\ list'[j + 1] = list[j]
      /\ \A k \in Positions : k /= j /\ k /= j + 1 => list'[k] = list[k]
  BY <1>1, <1>2, SwapMoves
<1>4. Positions' = Positions /\ j' + 1 = j /\ i' = i
  BY <1>1, <1>2 DEF Positions, count
<1>5. Precedes(list[j + 1], list[j])
  BY <1>1, <1>2, <1>3 DEF Compare, Precedes
<1>6. \A a, b \in Positions :
        a < b /\ b <= i + 1 /\ a /= j /\ b /= j => Precedes(list'[a], list'[b])
  <2> SUFFICES ASSUME NEW a \in Positions, NEW b \in Positions,
                      a < b, b <= i + 1, a /= j, b /= j
               PROVE  Precedes(list'[a], list'[b])
    OBVIOUS
  <2>1. CASE a = j + 1
    <3>1. b /= j + 1 /\ j < b
      BY <1>2, <2>1
    <3>2. Precedes(list[j], list[b])
      BY <1>1, <1>2, <1>3, <3>1 DEF Inv, InnerInv
    <3> QED BY <1>3, <2>1, <3>1, <3>2
  <2>2. CASE b = j + 1
    <3>1. a /= j + 1 /\ a < j
      BY <1>2, <2>2
    <3>2. Precedes(list[a], list[j])
      BY <1>1, <1>2, <1>3, <3>1 DEF Inv, InnerInv
    <3> QED BY <1>3, <2>2, <3>1, <3>2
  <2>3. CASE a /= j + 1 /\ b /= j + 1
    <3>1. Precedes(list[a], list[b])
      BY <1>1, <2>3 DEF Inv, InnerInv
    <3> QED BY <1>3, <2>3, <3>1
  <2> QED BY <2>1, <2>2, <2>3
<1>7. \A b \in Positions : j < b /\ b <= i + 1 => Precedes(list'[j], list'[b])
  <2> SUFFICES ASSUME NEW b \in Positions, j < b, b <= i + 1
               PROVE  Precedes(list'[j], list'[b])
    OBVIOUS
  <2>1. CASE b = j + 1
    BY <1>3, <1>5, <2>1
  <2>2. CASE b /= j + 1
    <3>1. j + 1 < b
      BY <1>2, <2>2
    <3>2. Precedes(list[j + 1], list[b])
      BY <1>1, <3>1 DEF Inv, InnerInv
    <3> QED BY <1>2, <1>3, <2>2, <3>2
  <2> QED BY <2>1, <2>2
<1>8. /\ list'[j].from = i + 1
      /\ \A k \in Positions : k <= i + 1 /\ k /= j => list'[k].from <= i
      /\ \A k \in Positions : k > i + 1 => list'[k].from = k
  BY <1>1, <1>2, <1>3 DEF Inv, InnerInv
<1>9. InnerInv'
  BY <1>4, <1>6, <1>7, <1>8 DEF InnerInv, Precedes
<1> QED BY <1>1, <1>9, SwapKeeps DEF Inv, OuterInv, SortedStably

(* The element that is inserted stays above one that is not greater: that  *)
(* one came before it.                                                     *)
LEMMA InnerLeaveInv ==
  ASSUME Inv, InnerLeave
  PROVE  Inv'
<1>1. /\ pc = "inner" /\ (j > 0 => Compare <= 0) /\ pc' = "outer" /\ i' = i + 1
      /\ UNCHANGED <<input, list, j>>
  BY DEF InnerLeave
<1>2. /\ TypeOK /\ count \in Nat /\ i \in Nat /\ j \in Nat /\ i < count /\ j <= i
      /\ \A k \in Positions : /\ k \in Int /\ k >= 1 /\ list[k].key \in Int
                              /\ list[k].from \in Int
      /\ j + 1 \in Positions
  BY <1>1, ListFacts DEF Inv, TypeOK, Positions
<1>3. TypeOK'
  BY <1>1, <1>2 DEF TypeOK, Positions, Elements, count
<1>4. \A a \in Positions : a < j + 1 => Precedes(list[a], list[j + 1])
  <2> SUFFICES ASSUME NEW a \in Positions, a < j + 1
               PROVE  Precedes(list[a], list[j + 1])
    OBVIOUS
  <2>1. j > 0 /\ j \in Positions
    BY <1>2 DEF Positions
  <2>2. list[j].key <= list[j + 1].key
    BY <1>1, <1>2, <2>1 DEF Compare
  <2>3. list[j].from <= i /\ list[j + 1].from = i + 1
    BY <1>1, <1>2, <2>1 DEF Inv, InnerInv
  <2>4. Precedes(list[j], list[j + 1])
    BY <1>2, <2>1, <2>2, <2>3 DEF Precedes
  <2>5. CASE a = j
    BY <2>4, <2>5
  <2>6. CASE a /= j
    <3>1. a < j
      BY <1>2, <2>6
    <3>2. Precedes(list[a], list[j])
      BY <1>1, <1>2, <2>1, <3>1 DEF Inv, InnerInv
    <3> QED BY <1>2, <2>1, <2>4, <3>2 DEF Precedes
  <2> QED BY <2>5, <2>6
<1>5. \A a, b \in Positions : a < b /\ b <= i + 1 => Precedes(list[a], list[b])
  BY <1>1, <1>4 DEF Inv, InnerInv
<1>6. /\ \A k \in Positions : k <= i + 1 => list[k].from <= i + 1
      /\ \A k \in Positions : k > i + 1 => list[k].from = k
  BY <1>1, <1>2 DEF Inv, InnerInv
<1>7. OuterInv'
  BY <1>1, <1>5, <1>6 DEF OuterInv, Positions, count, Precedes
<1> QED BY <1>1, <1>3, <1>7
        DEF Inv, InnerInv, SortedStably, Injective, SameElements, Positions, Elements, count

(* Every step keeps the invariant. *)
LEMMA StepInv ==
  ASSUME Inv, [Next]_vars
  PROVE  Inv'
<1>1. CASE OuterStep
  BY <1>1, OuterStepInv
<1>2. CASE OuterLeave
  BY <1>2, OuterLeaveInv
<1>3. CASE InnerSwap
  BY <1>3, InnerSwapInv
<1>4. CASE InnerLeave
  BY <1>4, InnerLeaveInv
<1>5. CASE UNCHANGED vars
  BY <1>5 DEF vars, Inv, TypeOK, Injective, SameElements, OuterInv, InnerInv,
              SortedStably, Positions, Elements, count, Precedes
<1> QED BY <1>1, <1>2, <1>3, <1>4, <1>5 DEF Next, Step, Done

(* An exchange removes an inversion and makes none.                        *)
LEMMA SwapSortsMore ==
  ASSUME Inv, InnerSwap
  PROVE  Inversions' \subseteq Inversions /\ Inversions' /= Inversions
<1>1. /\ pc = "inner" /\ j > 0 /\ list' = Swapped /\ Compare > 0 /\ input' = input
  BY DEF InnerSwap
<1>2. /\ TypeOK /\ j \in Int
      /\ \A k \in Positions : /\ k \in Int /\ list[k] \in Elements
                              /\ list[k].key \in Int /\ list[k].from \in Int
  BY <1>1, ListFacts DEF Inv, TypeOK, Positions
<1>3. /\ j \in Positions /\ j + 1 \in Positions
      /\ list'[j] = list[j + 1]
      /\ list'[j + 1] = list[j]
      /\ \A k \in Positions : k /= j /\ k /= j + 1 => list'[k] = list[k]
  BY <1>1, <1>2, SwapMoves
<1>4. Positions' = Positions /\ Elements' = Elements
  BY <1>1 DEF Positions, Elements, count
<1>5. Precedes(list[j + 1], list[j]) /\ ~Precedes(list[j], list[j + 1])
  BY <1>1, <1>2, <1>3 DEF Compare, Precedes
<1>6. Inversions' \subseteq Inversions
  <2> SUFFICES ASSUME NEW x \in Elements, NEW y \in Elements, Precedes(y, x),
                      NEW a \in Positions, NEW b \in Positions,
                      a < b, list'[a] = x, list'[b] = y
               PROVE  \E c, d \in Positions : c < d /\ list[c] = x /\ list[d] = y
    BY <1>4 DEF Inversions, Precedes
  <2>1. ~(a = j /\ b = j + 1)
    BY <1>3, <1>5
  <2> QED BY <1>2, <1>3, <2>1
<1>7. <<list[j], list[j + 1]>> \in Inversions
  BY <1>2, <1>3, <1>5 DEF Inversions
<1>8. <<list[j], list[j + 1]>> \notin Inversions'
  <2> SUFFICES ASSUME NEW a \in Positions, NEW b \in Positions,
                      a < b, list'[a] = list[j], list'[b] = list[j + 1]
               PROVE  FALSE
    BY <1>4 DEF Inversions
  <2>1. Injective'
    BY SwapKeeps
  <2>2. a = j + 1 /\ b = j
    BY <1>3, <1>4, <2>1 DEF Injective
  <2> QED BY <1>2, <2>2
<1> QED BY <1>6, <1>7, <1>8

-----------------------------------------------------------------------------
(* The inductive invariant of a sort. *)
THEOREM Invariant == Spec => []Inv
<1>1. Init => Inv
  BY InitInv
<1>2. Inv /\ [Next]_vars => Inv'
  BY StepInv
<1> QED BY <1>1, <1>2, PTL DEF Spec

(* The indices stay in the list, and so does every element compared.       *)
THEOREM TypeCorrect == Spec => []TypeOK
<1>1. Inv => TypeOK
  BY DEF Inv
<1> QED BY <1>1, Invariant, PTL

(* What is returned is in order, equal elements in the order they had.     *)
THEOREM Sorts == Spec => []SortedStably
<1>1. Inv => SortedStably
  BY DEF Inv
<1> QED BY <1>1, Invariant, PTL

(* Nothing is lost at any point. *)
THEOREM Permutes == Spec => []SameElements
<1>1. Inv => SameElements
  BY DEF Inv
<1> QED BY <1>1, Invariant, PTL

(* No exchange undoes another: each leaves fewer inversions. *)
THEOREM Progresses == Spec => OnlySortsMore
<1>1. Inv /\ [Next]_vars =>
        [list' /= list => Inversions' \subseteq Inversions /\ Inversions' /= Inversions]_vars
  BY SwapSortsMore DEF Next, Step, Done, OuterStep, OuterLeave, InnerLeave, vars
<1> QED BY <1>1, Invariant, PTL DEF Spec, OnlySortsMore
=============================================================================
