------------------------------- MODULE Search -------------------------------
(***************************************************************************)
(* search.c: ns_binary_search, ns_linear_search and ns_sorted_search, one  *)
(* call of one of them, a comparison at a time.  Indices are size_t: they  *)
(* wrap at SizeMax.  compareProc is the compare_int of the program's main, *)
(* whose subtraction wraps at IntMax, and what it makes of memory outside  *)
(* the list is anybody's guess.                                            *)
(***************************************************************************)
EXTENDS Integers, Sequences

CONSTANTS
  SizeMax,   \* the largest size_t
  IntMax,    \* the largest int
  Calls      \* the calls that may be made: [proc, list, key]

Procs == {"binary", "linear", "sorted"}

Ints == -IntMax - 1 .. IntMax

(* A list fits in memory, and the caller passes one that is in order. *)
ASSUME CallsAssumption ==
  /\ SizeMax \in Nat /\ IntMax \in Nat
  /\ Calls \subseteq [proc : Procs, list : Seq(Ints), key : Ints]
  /\ \A c \in Calls :
       /\ Len(c.list) <= SizeMax
       /\ \A a, b \in 1 .. Len(c.list) : a <= b => c.list[a] <= c.list[b]

VARIABLES
  call,     \* the arguments
  pc,       \* "enter", "binary", "linear" (about to compare), or "done"
  iStart,   \* binary search: the range still to be searched
  iEnd,
  i,        \* linear search: the next element
  result    \* the index returned, or Null

vars == <<call, pc, iStart, iEnd, i, result>>

Null == -1

Sizes == 0 .. SizeMax

TypeOK ==
  /\ call \in Calls
  /\ pc \in {"enter", "binary", "linear", "done"}
  /\ iStart \in Sizes /\ iEnd \in Sizes /\ i \in Sizes
  /\ result \in Sizes \cup {Null}
-----------------------------------------------------------------------------
count == Len(call.list)

At(n) == call.list[n + 1]

Plus1(n) == IF n = SizeMax THEN 0 ELSE n + 1

(* A mutant: the index is of a signed type. *)
Minus1Signed(n) == n - 1

Minus1(n) == IF n = 0 THEN SizeMax ELSE n - 1

WrapInt(d) == IF d > IntMax THEN d - 2 * (IntMax + 1)
              ELSE IF d < -IntMax - 1 THEN d + 2 * (IntMax + 1)
              ELSE d

(* A mutant: the operands the wrong way round. *)
CompareSwapped(n) ==
  IF n >= count THEN {-1, 0, 1}
  ELSE LET d == WrapInt(At(n) - call.key)
       IN  {IF d < 0 THEN -1 ELSE IF d > 0 THEN 1 ELSE 0}

(* The sign of what compareProc may return for the key and element n. *)
Compare(n) ==
  IF n >= count THEN {-1, 0, 1}
  ELSE LET d == WrapInt(call.key - At(n))
       IN  {IF d < 0 THEN -1 ELSE IF d > 0 THEN 1 ELSE 0}

iMid == iStart + (iEnd - iStart) \div 2

(* Mutants: the midpoint is left in the range; the element after it is     *)
(* left out too.                                                           *)
StartKeepsMid == iMid

StartSkipsOne == iMid + 2

StartAboveMid == Plus1(iMid)

EndBelowMid == Minus1(iMid)

Return(r) == /\ pc' = "done"
             /\ result' = r
             /\ UNCHANGED <<call, iStart, iEnd, i>>
-----------------------------------------------------------------------------
Init ==
  /\ call \in Calls
  /\ pc = "enter"
  /\ iStart = 0 /\ iEnd = 0 /\ i = 0
  /\ result = Null

Threshold == 10

IsBinary == call.proc = "binary" \/ (call.proc = "sorted" /\ count >= Threshold)

(* A mutant: no test for an empty list. *)
EnterBinaryUnguarded ==
  /\ pc = "enter" /\ IsBinary
  /\ pc' = "binary"
  /\ iEnd' = Minus1(count)
  /\ UNCHANGED <<call, iStart, i, result>>

EnterBinary ==
  /\ pc = "enter" /\ IsBinary
  /\ IF count = 0
     THEN Return(Null)
     ELSE /\ pc' = "binary"
          /\ iEnd' = count - 1
          /\ UNCHANGED <<call, iStart, i, result>>

EnterLinear ==
  /\ pc = "enter" /\ ~IsBinary
  /\ pc' = "linear"
  /\ UNCHANGED <<call, iStart, iEnd, i, result>>

BinaryLeave ==
  /\ pc = "binary" /\ iStart > iEnd
  /\ Return(Null)

BinaryStep ==
  /\ pc = "binary" /\ iStart <= iEnd
  /\ \E c \in Compare(iMid) :
       \/ c = 0 /\ Return(iMid)
       \/ /\ c < 0
          /\ iEnd' = EndBelowMid
          /\ UNCHANGED <<call, pc, iStart, i, result>>
       \/ /\ c > 0
          /\ iStart' = StartAboveMid
          /\ UNCHANGED <<call, pc, iEnd, i, result>>

LinearLeave ==
  /\ pc = "linear" /\ i >= count
  /\ Return(Null)

(* A mutant: the first element is stepped over. *)
LinearStepFromOne ==
  /\ pc = "linear" /\ i < count
  /\ \E c \in Compare(i) :
       \/ c = 0 /\ i > 0 /\ Return(i)
       \/ /\ c /= 0 \/ i = 0
          /\ i' = Plus1(i)
          /\ UNCHANGED <<call, pc, iStart, iEnd, result>>

LinearStep ==
  /\ pc = "linear" /\ i < count
  /\ \E c \in Compare(i) :
       \/ c = 0 /\ Return(i)
       \/ /\ c /= 0
          /\ i' = Plus1(i)
          /\ UNCHANGED <<call, pc, iStart, iEnd, result>>

Step ==
  \/ EnterBinary \/ EnterLinear
  \/ BinaryLeave \/ BinaryStep
  \/ LinearLeave \/ LinearStep

Done == pc = "done" /\ UNCHANGED vars

Next == Step \/ Done

Spec == Init /\ [][Next]_vars

FairSpec == Spec /\ WF_vars(Step)
-----------------------------------------------------------------------------
Matches == {n \in 0 .. count - 1 : At(n) = call.key}

(* The binary search steps out of the list when the key is below its first *)
(* element, and turns the wrong way when the difference of key and element *)
(* is not an int.  Every other call it can answer, those whose key is in   *)
(* the list among them if the differences fit; the linear search all.      *)
BelowFirst(c) == c.list # <<>> /\ c.key < c.list[1]

Comparable(c) == \A k \in 1 .. Len(c.list) : c.key - c.list[k] \in Ints

Answerable == IsBinary => Comparable(call) /\ ~BelowFirst(call)

(* compareProc is only ever handed elements of the list (lines 41 and 62). *)
ComparesInside ==
  /\ Answerable /\ pc = "binary" /\ iStart <= iEnd => iMid < count
  /\ pc = "linear" => i <= count

(* Every way of searching a list in order gives an element equal to the    *)
(* key if there is one and NULL if there is none; the linear search gives  *)
(* the first such element.                                                 *)
ResultIsRight ==
  Answerable /\ pc = "done" =>
    IF Matches = {} THEN result = Null
    ELSE /\ result \in Matches
         /\ ~IsBinary => \A n \in Matches : result <= n

(* What no search may do: give up elements that could still be the answer. *)
(* Everything outside iStart .. iEnd, and before i, differs from the key.  *)
NothingMissed ==
  /\ Answerable /\ pc = "binary" => \A n \in Matches : iStart <= n /\ n <= iEnd
  /\ pc = "linear" => \A n \in Matches : i <= n

(* Each comparison of the binary search at least halves the range, so that *)
(* a list of n elements is searched in no more than log2(n) + 1 of them.   *)
Halves == [][Answerable /\ pc = "binary" /\ pc' = "binary" =>
               2 * (iEnd' - iStart' + 1) <= iEnd - iStart + 1]_vars

(* Every call that is answered at all returns. *)
Returns == Answerable => <>(pc = "done")

(* The main of search.c, lines 107 to 111: a key that the list does not    *)
(* hold is answered with NULL ("Key not found").                           *)
AbsentKeyNotFound == pc = "done" /\ Matches = {} => result = Null
=============================================================================
