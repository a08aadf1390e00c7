----------------------------- MODULE MCBitCount -----------------------------
(***************************************************************************)
(* The calls that TLC evaluates: on every build, every function on words   *)
(* with any lowest and any highest 1 of Edges, with nothing or only ones   *)
(* between them.  Edges has both ends of every mask of the generic code.   *)
(***************************************************************************)
EXTENDS BitCount

Edges == {0, 1, 2, 3, 4, 7, 8, 15, 16, 23, 24, 27, 28, 29, 30, 31,
          32, 33, 35, 39, 40, 47, 48, 55, 56, 59, 60, 61, 62, 63}

Words(w) ==
  {{}} \cup UNION {{{a, b}, a .. b} : a \in {e \in Edges : e < w}, b \in {e \in Edges : e < w}}

AllCalls ==
  UNION {[op : Ops, width : {w}, build : Builds, fn : Functions, x : Words(w)] : w \in Widths}

(* The calls that the code counts right.                                   *)
MCCalls == {c \in AllCalls : ReceivedWhole(c) /\ HighestIsLowest(c) /\ HasTzcnt(c)}

(* Some of the three conditions dropped: words of several 1s where the     *)
(* highest is looked for, and 0 and words that are cut where either is     *)
(* taken for the other.                                                    *)
HighestCalls == {c \in AllCalls : ReceivedWhole(c) /\ HasTzcnt(c)}
ZeroCalls    == {c \in AllCalls : HighestIsLowest(c)}
=============================================================================
