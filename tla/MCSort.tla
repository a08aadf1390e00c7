------------------------------- MODULE MCSort -------------------------------
(***************************************************************************)
(* The lists that TLC sorts: up to MaxCount elements with keys 1 .. Keys,  *)
(* so that lists of every order type with and without equal keys occur.    *)
(***************************************************************************)
EXTENDS Sort

CONSTANTS MaxCount, Keys

MCInputs == UNION {[1 .. n -> 1 .. Keys] : n \in 0 .. MaxCount}
=============================================================================
