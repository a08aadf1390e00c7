-------------------------------- MODULE Sort --------------------------------
(***************************************************************************)
(* sort.c: ns_sort, an insertion sort, a comparison at a time.  Elements   *)
(* carry the position they had in the caller's list, which compareProc     *)
(* does not look at: it orders them by their keys.  The byte-by-byte       *)
(* exchange of two elements is one step: nothing else runs.                *)
(***************************************************************************)
EXTENDS Integers, Sequences

CONSTANT Inputs   \* the lists of keys that may be sorted

ASSUME InputsAssumption == Inputs \subseteq Seq(Int)

VARIABLES
  input,   \* the keys of the caller's list
  list,    \* the list as it is being sorted
  i,       \* elements 0 .. i - 1 are done, the one that was at i is moving
  j,       \* where it is now
  pc       \* at the "outer" loop, at the "inner" one, or "done"

vars == <<input, list, i, j, pc>>

count == Len(input)

Positions == 1 .. count

Elements == {[key |-> input[k], from |-> k] : k \in Positions}

TypeOK ==
  /\ input \in Inputs
  /\ list \in [Positions -> Elements]
  /\ i \in 1 .. count + 1
  /\ j \in 0 .. count
  /\ pc \in {"outer", "inner", "done"}
  /\ pc = "inner" => i < count /\ j <= i
-----------------------------------------------------------------------------
(* compareProc(pA, pB), for the elements at j - 1 and j, from 0. *)
Compare == list[j].key - list[j + 1].key

(* The exchange, a loop over the bytes of both: nobody else runs meanwhile *)
(* and compareProc is not called, so that half an exchange is never seen.  *)
Swapped == [list EXCEPT ![j] = list[j + 1], ![j + 1] = list[j]]

Init ==
  /\ input \in Inputs
  /\ list = [k \in Positions |-> [key |-> input[k], from |-> k]]
  /\ i = 1
  /\ j = 0
  /\ pc = "outer"

OuterStep ==
  /\ pc = "outer" /\ i < count
  /\ pc' = "inner"
  /\ j' = i
  /\ UNCHANGED <<input, list, i>>

OuterLeave ==
  /\ pc = "outer" /\ i >= count
  /\ pc' = "done"
  /\ UNCHANGED <<input, list, i, j>>

(* Mutants: equal elements are exchanged; one element only is written; j   *)
(* is stepped the wrong way.                                               *)
InnerSwapEqual ==
  /\ pc = "inner" /\ j > 0 /\ Compare >= 0
  /\ list' = Swapped
  /\ j' = j - 1
  /\ UNCHANGED <<input, i, pc>>

InnerSwapHalf ==
  /\ pc = "inner" /\ j > 0 /\ Compare > 0
  /\ list' = [list EXCEPT ![j] = list[j + 1]]
  /\ j' = j - 1
  /\ UNCHANGED <<input, i, pc>>

InnerSwapUp ==
  /\ pc = "inner" /\ j > 0 /\ Compare > 0
  /\ list' = Swapped
  /\ j' = j + 1
  /\ UNCHANGED <<input, i, pc>>

InnerSwap ==
  /\ pc = "inner" /\ j > 0 /\ Compare > 0
  /\ list' = Swapped
  /\ j' = j - 1
  /\ UNCHANGED <<input, i, pc>>

(* Mutants: the inner loop stops one element short of the first; the outer *)
(* loop is not stepped.                                                    *)
InnerLeaveEarly ==
  /\ pc = "inner" /\ (j > 1 => Compare <= 0)
  /\ pc' = "outer"
  /\ i' = i + 1
  /\ UNCHANGED <<input, list, j>>

InnerLeaveNotStepped ==
  /\ pc = "inner" /\ (j > 0 => Compare <= 0)
  /\ pc' = "outer"
  /\ UNCHANGED <<input, list, i, j>>

(* The end of the inner loop or its break, and the i += 1 of the outer. *)
InnerLeave ==
  /\ pc = "inner" /\ (j > 0 => Compare <= 0)
  /\ pc' = "outer"
  /\ i' = i + 1
  /\ UNCHANGED <<input, list, j>>

Step == OuterStep \/ OuterLeave \/ InnerSwap \/ InnerLeave

Done == pc = "done" /\ UNCHANGED vars

Next == Step \/ Done

Spec == Init /\ [][Next]_vars

FairSpec == Spec /\ WF_vars(Step)
-----------------------------------------------------------------------------
(* The order a stable sort puts elements in. *)
Precedes(a, b) == a.key < b.key \/ (a.key = b.key /\ a.from < b.from)

(* The list that is returned is in order, and elements with equal keys are *)
(* in the order they had.                                                  *)
SortedStably ==
  pc = "done" => \A a, b \in Positions : a < b => Precedes(list[a], list[b])

(* At no point is an element lost or doubled: the list is a permutation of *)
(* the caller's.                                                           *)
SameElements == \A e \in Elements : \E k \in Positions : list[k] = e

Inversions ==
  {e \in Elements \X Elements :
     /\ Precedes(e[2], e[1])
     /\ \E a, b \in Positions : a < b /\ list[a] = e[1] /\ list[b] = e[2]}

(* What a step may never do: put two elements in the wrong order.  Every   *)
(* exchange removes an inversion and makes none, so a list in order is not *)
(* touched and no list takes more than count * (count - 1) / 2 exchanges.  *)
OnlySortsMore ==
  [][list' /= list => Inversions' \subseteq Inversions /\ Inversions' /= Inversions]_vars

(* Every call returns. *)
Returns == <>(pc = "done")
=============================================================================
