---------------------------- MODULE AlignedAlloc ----------------------------
(***************************************************************************)
(* allocation_callbacks.c: the aligned allocation functions, on top of     *)
(* the callbacks (or malloc, realloc and free) that provide the blocks.    *)
(*                                                                         *)
(* Memory is a function from addresses to what they hold.  The unit is the *)
(* size_t, so that ns_aligned_allocation_header takes three cells, and     *)
(* size_t and addresses run up to SizeMax: sums wrap at SizeMax + 1.       *)
(***************************************************************************)
EXTENDS AlignedLayout, FiniteSets

CONSTANTS
  Granule,       \* the alignment of what the callbacks return
  Sizes,         \* the sizes that are asked for
  Alignments,    \* the alignments that are asked for
  Values,        \* what the user writes into the objects
  MaxHandles     \* bound: objects alive at a time

ASSUME SizeAssumption ==
  /\ Header = 3 /\ Granule \in Nat \ {0}
  /\ Sizes \subseteq 0 .. SizeMax /\ Alignments \subseteq 0 .. SizeMax
  /\ Values \subseteq Int /\ MaxHandles \in Nat

Junk == -1
Addr == 1 .. SizeMax

VARIABLES
  callbacks,  \* those of the three callbacks that are provided
  mem,        \* the contents of memory
  blocks,     \* the size of each block that the callbacks have handed out
  handles     \* the aligned pointers that the user holds

vars == <<callbacks, mem, blocks, handles>>

Callbacks == {"onMalloc", "onRealloc", "onFree"}

TypeOK ==
  /\ callbacks \subseteq Callbacks
  /\ mem \in [Addr -> Int]
  /\ DOMAIN blocks \subseteq Addr /\ \A u \in DOMAIN blocks : blocks[u] \in Addr
  /\ handles \subseteq Addr

(* No callbacks at all means the default ones, which are all there. *)
Init ==
  /\ callbacks \in SUBSET Callbacks
  /\ mem = [a \in Addr |-> Junk]
  /\ blocks = << >>
  /\ handles = {}
-----------------------------------------------------------------------------
(* The blocks of the callbacks.  A block may lie anywhere that is free;    *)
(* allocation may always fail; memory that is not part of a block has no   *)
(* contents to speak of.  The address past a block's end exists, as in C.  *)
Cells(u, n) == u .. u + n - 1

Fits(u, n, used) ==
  /\ u % Granule = 0
  /\ u + n <= SizeMax
  /\ \A b \in DOMAIN used : Cells(b, used[b]) \cap Cells(u, n) = {}

Without(f, x) == [y \in DOMAIN f \ {x} |-> f[y]]
With(f, x, v) == [y \in DOMAIN f \cup {x} |-> IF y = x THEN v ELSE f[y]]

(* onRealloc may move the block, even over its old place; what both sizes  *)
(* hold goes with it.                                                      *)
Reallocated(old, u, n) ==
  [a \in Addr |->
     IF a \in Cells(u, n)
       THEN IF a - u < blocks[old] THEN mem[old + (a - u)] ELSE Junk
       ELSE IF a \in Cells(old, blocks[old]) THEN Junk ELSE mem[a]]
-----------------------------------------------------------------------------
WriteHeader(m, p, u, sz, alignment) ==
  [m EXCEPT ![p - 3] = u, ![p - 2] = sz, ![p - 1] = alignment]

(* memmove: all is read before anything is written. *)
Moved(m, dst, src, n) ==
  [a \in Addr |-> IF a \in Cells(dst, n) THEN m[src + (a - dst)] ELSE m[a]]

(* ns_aligned_malloc and ns_aligned_realloc return NULL: a bad alignment   *)
(* or size, another alignment than before, no callback, or one that fails, *)
(* which it always may.  Nothing has happened by then.                     *)
AlignedFails == UNCHANGED vars

(* ns_aligned_malloc, also reached from ns_aligned_realloc with p == NULL. *)
AlignedMallocSucceeds(sz, alignment) ==
  /\ ~AlignmentBad(alignment) /\ ~SizeBad(sz, alignment)
  /\ "onMalloc" \in callbacks
  /\ Cardinality(handles) < MaxHandles
  /\ \E u \in Addr :
       LET p == AlignedIn(u, alignment) IN
       /\ Fits(u, BlockSize(sz, alignment), blocks)
       /\ blocks' = With(blocks, u, BlockSize(sz, alignment))
       /\ mem' = WriteHeader(mem, p, u, sz, alignment)
       /\ handles' = handles \cup {p}
  /\ UNCHANGED callbacks

(* Mutant of NewContents: the header is written before the data is moved. *)
NewContentsHeaderFirst(p, q, old, u, sz, alignment) ==
  LET m    == WriteHeader(Reallocated(old, u, BlockSize(sz, alignment)), q, u, sz, alignment)
      kept == IF mem[p - 2] < sz THEN mem[p - 2] ELSE sz
  IN  Moved(m, q, u + (p - old), kept)

(* What ns_aligned_realloc leaves in memory: the data is moved when its    *)
(* offset from the block has changed, then the header is written.          *)
NewContents(p, q, old, u, sz, alignment) ==
  LET m    == Reallocated(old, u, BlockSize(sz, alignment))
      kept == IF mem[p - 2] < sz THEN mem[p - 2] ELSE sz
      data == IF q # u + (p - old) THEN Moved(m, q, u + (p - old), kept) ELSE m
  IN  WriteHeader(data, q, u, sz, alignment)

(* ns_aligned_realloc, p # NULL *)
AlignedReallocSucceeds(p, sz, alignment) ==
  LET old == mem[p - 3] IN
  /\ ~AlignmentBad(alignment)
  /\ alignment = mem[p - 1]
  /\ p - old <= ExtraBytes(alignment)
  /\ ~SizeBad(sz, alignment)
  /\ "onRealloc" \in callbacks
  /\ \E u \in Addr :
       LET q == AlignedIn(u, alignment) IN
       /\ Fits(u, BlockSize(sz, alignment), Without(blocks, old))
       /\ blocks' = With(Without(blocks, old), u, BlockSize(sz, alignment))
       /\ mem' = NewContents(p, q, old, u, sz, alignment)
       /\ handles' = (handles \ {p}) \cup {q}
  /\ UNCHANGED callbacks

(* Mutant of AlignedFree: the aligned pointer is passed to onFree, which   *)
(* does not know it.                                                       *)
AlignedFreeOfAligned(p) ==
  /\ handles' = handles \ {p}
  /\ blocks' = IF "onFree" \in callbacks THEN Without(blocks, p) ELSE blocks
  /\ UNCHANGED <<callbacks, mem>>

(* ns_aligned_free; without onFree the block is never given back. *)
AlignedFree(p) ==
  LET u == mem[p - 3] IN
  /\ handles' = handles \ {p}
  /\ IF "onFree" \in callbacks
       THEN /\ blocks' = Without(blocks, u)
            /\ mem' = [a \in Addr |-> IF a \in Cells(u, blocks[u]) THEN Junk ELSE mem[a]]
       ELSE UNCHANGED <<blocks, mem>>
  /\ UNCHANGED callbacks

(* The user writes into an object. *)
UserWrites(p, a, v) ==
  /\ a \in Cells(p, mem[p - 2])
  /\ mem' = [mem EXCEPT ![a] = v]
  /\ UNCHANGED <<callbacks, blocks, handles>>
-----------------------------------------------------------------------------
Next ==
  \/ AlignedFails
  \/ \E sz \in Sizes, alignment \in Alignments :
       \/ AlignedMallocSucceeds(sz, alignment)
       \/ \E p \in handles : AlignedReallocSucceeds(p, sz, alignment)
  \/ \E p \in handles :
       \/ AlignedFree(p)
       \/ \E a \in Addr, v \in Values : UserWrites(p, a, v)

Spec == Init /\ [][Next]_vars
-----------------------------------------------------------------------------
(* The footprint of each object, header included, is inside the block that *)
(* the header names, which is an allocated one and no other object's; the  *)
(* object is aligned as its header says.                                   *)
InsideItsBlock ==
  /\ \A p \in handles :
       LET u == mem[p - 3] IN
       /\ u \in DOMAIN blocks
       /\ Cells(p - Header, Header + mem[p - 2]) \subseteq Cells(u, blocks[u])
       /\ p % mem[p - 1] = 0
  /\ \A p, q \in handles : mem[p - 3] = mem[q - 3] => p = q

(* Blocks are given back: with an onFree, those that are handed out are    *)
(* the ones of live objects, however the objects came about.               *)
NoLeak ==
  "onFree" \in callbacks => DOMAIN blocks = {mem[p - 3] : p \in handles}
-----------------------------------------------------------------------------
(* The objects as they can be read from memory. *)
objectsBar ==
  [p \in handles |->
     [size      |-> mem[p - 2],
      alignment |-> mem[p - 1],
      data      |-> [i \in 0 .. mem[p - 2] - 1 |-> mem[p + i]]]]

Obj == INSTANCE AlignedObjects WITH objects <- objectsBar

(* Headers, padding and moves are invisible: what the three functions do,  *)
(* and nothing else, happens to the objects, their contents included.      *)
ImplementsObjects == Obj!Spec
=============================================================================
