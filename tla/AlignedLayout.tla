--------------------------- MODULE AlignedLayout ---------------------------
(***************************************************************************)
(* The arithmetic of ns_aligned_malloc and ns_aligned_realloc: which       *)
(* requests are turned down, how large a block is asked for, and where in  *)
(* the block the object lies.  size_t wraps at SizeMax + 1.                *)
(***************************************************************************)
EXTENDS Integers

CONSTANTS
  SizeMax,   \* (size_t)-1
  Header     \* sizeof(ns_aligned_allocation_header)

ASSUME LayoutAssumption == SizeMax \in Nat /\ Header \in Nat /\ Header <= SizeMax
-----------------------------------------------------------------------------
(* alignment & (alignment - 1) is zero just for powers of two. *)
PowerOfTwo(n) == \E k \in 0 .. n : n = 2 ^ k

ExtraBytes(alignment) == alignment - 1 + Header

AlignmentBad(alignment) ==
  \/ alignment = 0 \/ ~PowerOfTwo(alignment)
  \/ alignment - 1 > SizeMax - Header

(* Mutant of SizeBad: the sum is not checked. *)
SizeBadNever(sz, alignment) == FALSE

SizeBad(sz, alignment) == sz > SizeMax - ExtraBytes(alignment)

BlockSize(sz, alignment) == (sz + ExtraBytes(alignment)) % (SizeMax + 1)

(* x & ~(alignment - 1), for a power of two. *)
RoundDown(x, alignment) == x - (x % alignment)

(* Mutant of AlignedIn: rounds up from the block and not from the header.  *)
AlignedInFromBlock(u, alignment) == RoundDown(u + alignment - 1, alignment) + Header

AlignedIn(u, alignment) == RoundDown(u + ExtraBytes(alignment), alignment)
=============================================================================
