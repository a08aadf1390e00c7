------------------------------ MODULE MCSearch ------------------------------
(***************************************************************************)
(* The calls that TLC searches: every list in order of up to MaxCount      *)
(* elements (both sides of the threshold of 10) with values -6, 1 and 5,   *)
(* for every int.  The difference of 2 and -6 is the least that is none.   *)
(***************************************************************************)
EXTENDS Search, FiniteSets

CONSTANT MaxCount

(* A list in order is the number of elements below each value. *)
InOrder(n) == {[k \in 1 .. n |-> IF k <= a THEN -6 ELSE IF k <= b THEN 1 ELSE 5] :
                 a \in 0 .. n, b \in 0 .. n}

Lists == UNION {InOrder(n) : n \in 0 .. MaxCount}

MCCalls == [proc : Procs, list : Lists, key : Ints]

(* Those whose comparisons are right. *)
ComparableCalls == {c \in MCCalls : Comparable(c)}
=============================================================================
